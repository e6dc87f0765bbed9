------------------------- MODULE StratumPoolProofs --------------------------
(***************************************************************************)
(* Proofs about the pool's shared work, for any finite number of miners,   *)
(* any capacity of the registry, any divisor and any number of templates   *)
(* and blocks.  The registry's own invariants come from WorkManagerProofs; *)
(* here are the goroutines between its critical sections: what the jobs    *)
(* they hold are, which of them still delivers the current job, and what   *)
(* they owe.                                                               *)
(***************************************************************************)
EXTENDS StratumPool, FiniteSetTheorems, SequenceTheorems, TLAPS

Manager == INSTANCE WorkManagerProofs WITH
               Data <- Template,
               ValidData <- Template,
               MaxSeq <- MaxEvents + MaxFinds
Throttle == INSTANCE BlockThrottleProofs WITH MaxFound <- MaxFinds

Registry == WM!TypeOK /\ WM!RegistryInv /\ WM!CurrentResolves

\* All templates being valid, no identifier is lost: the registry holds the last
\* MaxJobs of them.
Dense ==
    /\ Len(order) = IF seq < MaxJobs THEN seq ELSE MaxJobs
    /\ \A i \in 1..Len(order) : order[i] = seq - Len(order) + i

LEMMA ManagersRegistry == Registry <=> Manager!IInv
  BY DEF Registry, Manager!IInv, WM!TypeOK, Manager!TypeOK, WM!Work, Manager!Work,
         WM!RegistryInv, Manager!RegistryInv, WM!CurrentResolves, Manager!CurrentResolves

\* What the registry says about the current job and the identifiers.
LEMMA RegistryFacts ==
    ASSUME Registry, Dense
    PROVE  /\ seq \in Nat /\ MaxJobs \in Nat \ {0}
           /\ current = NoWork => seq = 0
           /\ current # NoWork => /\ current \in WM!Work /\ current.jobID = seq
                                  /\ seq \in DOMAIN jobs /\ jobs[seq] = current
           /\ \A id : id \in DOMAIN jobs <=> id \in 1..seq /\ seq < id + MaxJobs
           /\ \A id \in DOMAIN jobs : jobs[id] \in WM!Work /\ jobs[id].jobID = id
<1>1. seq \in Nat /\ MaxJobs \in Nat \ {0} /\ order \in Seq(Nat) /\ Len(order) \in Nat
  BY RegistryAssumption DEF Registry, WM!TypeOK
<1>2. \A id \in DOMAIN jobs : jobs[id] \in WM!Work /\ jobs[id].jobID = id
  BY DEF Registry, WM!TypeOK, WM!RegistryInv
<1>3. DOMAIN order = 1..Len(order) /\ DOMAIN jobs = {order[i] : i \in DOMAIN order}
  BY <1>1 DEF Registry, WM!RegistryInv
<1>4. ASSUME NEW id PROVE id \in DOMAIN jobs <=> id \in 1..seq /\ seq < id + MaxJobs
  <2>1. PICK n \in Nat : n = Len(order)
    BY <1>1
  <2>2. n <= seq /\ n <= MaxJobs /\ (n = seq \/ n = MaxJobs)
    BY <1>1, <2>1 DEF Dense
  <2>3. \A i \in 1..n : order[i] = seq - n + i
    BY <2>1 DEF Dense
  <2>4. seq \in Nat /\ MaxJobs \in Nat
    BY <1>1
  <2>5. ASSUME id \in DOMAIN jobs PROVE id \in 1..seq /\ seq < id + MaxJobs
    <3>1. PICK i \in 1..n : id = order[i]
      BY <1>3, <2>1, <2>5
    <3>2. id = seq - n + i
      BY <2>3, <3>1
    <3> QED BY <2>2, <2>4, <3>2
  <2>6. ASSUME id \in 1..seq, seq < id + MaxJobs PROVE id \in DOMAIN jobs
    <3>1. PICK i \in 1..n : id = seq - n + i
      <4>1. id - seq + n \in 1..n /\ id = seq - n + (id - seq + n)
        BY <2>2, <2>6, <2>4
      <4> QED BY <4>1
    <3> QED BY <1>3, <2>1, <2>3, <3>1
  <2> QED BY <2>5, <2>6
<1>5. ASSUME current = NoWork PROVE seq = 0
  <2>1. Len(order) = 0
    BY <1>5 DEF Registry, WM!CurrentResolves
  <2> QED BY <1>1, <2>1 DEF Dense
<1>6. ASSUME current # NoWork
      PROVE  /\ current \in WM!Work /\ current.jobID = seq
             /\ seq \in DOMAIN jobs /\ jobs[seq] = current
  <2>1. current \in WM!Work /\ order # << >> /\ order[Len(order)] = current.jobID
        /\ jobs[current.jobID] = current
    BY <1>6 DEF Registry, WM!TypeOK, WM!CurrentResolves
  <2>2. Len(order) \in 1..Len(order)
    BY <1>1, <2>1
  <2>3. order[Len(order)] = seq
    BY <1>1, <2>2 DEF Dense
  <2> QED BY <1>3, <2>1, <2>2, <2>3
<1> QED BY <1>1, <1>2, <1>4, <1>5, <1>6

\* A registration keeps the registry as WorkManagerProofs has it, and dense.
LEMMA RegisterKeepsDense ==
    ASSUME Registry, Dense, NEW data \in Template, seq' = seq + 1,
           WM!Register([jobID |-> seq + 1, data |-> data])
    PROVE  /\ Registry' /\ Dense'
           /\ current' = [jobID |-> seq + 1, data |-> data]
           /\ \A id \in DOMAIN jobs' : \/ id = seq + 1 /\ jobs'[id] = current'
                                       \/ id \in DOMAIN jobs /\ jobs'[id] = jobs[id]
<1>1. Template \subseteq Template /\ MaxEvents + MaxFinds \in Nat
      /\ MaxJobs \in Nat \ {0} /\ NoWork \notin [jobID : Nat, data : Template]
  BY BoundsAssumption, RegistryAssumption
<1>2. Manager!Register([jobID |-> seq + 1, data |-> data])
  BY DEF WM!Register, Manager!Register, WM!Kept, Manager!Kept, WM!Evicted, Manager!Evicted
<1>3. Manager!IInv
  BY ManagersRegistry
<1>4. Manager!IInv'
  BY <1>1, <1>2, <1>3, Manager!RegisterKeeps, Zenon
<1>5. Registry'
  BY <1>4 DEF Registry, Manager!IInv, WM!TypeOK, Manager!TypeOK, WM!Work, Manager!Work,
         WM!RegistryInv, Manager!RegistryInv, WM!CurrentResolves, Manager!CurrentResolves
<1>6. Dense'
  <2>1. seq \in Nat /\ order \in Seq(Nat) /\ Len(order) \in Nat
    BY DEF Registry, WM!TypeOK
  <2>2. order' = Append(WM!Kept, seq + 1)
    BY DEF WM!Register
  <2>3. CASE Len(order) >= MaxJobs
    <3>1. order # << >> /\ Len(order) = MaxJobs
      BY <1>1, <2>1, <2>3 DEF Dense
    <3>2. PICK rest \in Seq(Nat) : rest = Tail(order)
      BY <2>1, <3>1, HeadTailProperties
    <3>3. Len(rest) = Len(order) - 1 /\ \A i \in 1..Len(rest) : rest[i] = order[i + 1]
      BY <2>1, <3>1, <3>2, HeadTailProperties
    <3>4. order' = Append(rest, seq + 1)
      BY <2>2, <2>3, <3>2 DEF WM!Kept
    <3>5. Len(order') = Len(order) /\ order'[Len(order)] = seq + 1
          /\ \A i \in 1..(Len(order) - 1) : order'[i] = order[i + 1]
      BY <2>1, <3>3, <3>4
    <3>6. ASSUME NEW i \in 1..Len(order) PROVE order'[i] = seq + 1 - Len(order) + i
      <4>1. CASE i = Len(order)
        BY <2>1, <3>5, <4>1
      <4>2. CASE i # Len(order)
        <5>1. i \in 1..(Len(order) - 1) /\ i + 1 \in 1..Len(order)
          BY <2>1, <4>2
        <5>2. order'[i] = order[i + 1]
          BY <3>5, <5>1
        <5>3. PICK k \in 1..Len(order) : k = i + 1
          BY <5>1
        <5>4. order[k] = seq - Len(order) + k
          BY <5>3 DEF Dense
        <5> QED BY <2>1, <5>2, <5>3, <5>4
      <4> QED BY <4>1, <4>2
    <3>7. seq >= MaxJobs
      BY <1>1, <2>1, <3>1 DEF Dense
    <3> QED BY <1>1, <2>1, <3>1, <3>5, <3>6, <3>7 DEF Dense
  <2>4. CASE Len(order) < MaxJobs
    <3>1. order' = Append(order, seq + 1) /\ Len(order) = seq
      BY <1>1, <2>1, <2>2, <2>4 DEF WM!Kept, Dense
    <3>2. Len(order') = seq + 1 /\ order'[seq + 1] = seq + 1
          /\ \A i \in 1..seq : order'[i] = order[i]
      BY <2>1, <3>1
    <3> QED BY <1>1, <2>1, <2>4, <3>1, <3>2 DEF Dense
  <2> QED BY <1>1, <2>1, <2>3, <2>4
<1>7. /\ current' = [jobID |-> seq + 1, data |-> data]
      /\ \A id \in DOMAIN jobs' : \/ id = seq + 1 /\ jobs'[id] = current'
                                  \/ id \in DOMAIN jobs /\ jobs'[id] = jobs[id]
  BY DEF WM!Register
<1> QED BY <1>5, <1>6, <1>7

\* SetCurrent of a template: it is the current one already, or a new job.
LEMMA SetCurrentFacts ==
    ASSUME Registry, Dense, NEW data \in Template, WM!SetCurrent(data)
    PROVE  /\ Registry' /\ Dense'
           /\ current' # NoWork /\ current' \in WM!Work /\ current'.data = data
           /\ \/ UNCHANGED workVars
              \/ /\ seq' = seq + 1 /\ current' = [jobID |-> seq + 1, data |-> data]
                 /\ \A id \in DOMAIN jobs' : \/ id = seq + 1 /\ jobs'[id] = current'
                                             \/ id \in DOMAIN jobs /\ jobs'[id] = jobs[id]
<1>1. CASE WM!Duplicate(data) /\ UNCHANGED WM!vars
  <2>1. UNCHANGED <<current, jobs, order, seq>> /\ current # NoWork /\ current.data = data
    BY <1>1 DEF WM!Duplicate, WM!vars
  <2>2. Registry' /\ Dense'
    BY <2>1 DEF Registry, Dense, WM!TypeOK, WM!RegistryInv, WM!CurrentResolves
  <2>3. current \in WM!Work
    BY <2>1 DEF Registry, WM!TypeOK
  <2> QED BY <2>1, <2>2, <2>3 DEF workVars
<1>2. CASE seq' = seq + 1 /\ WM!Register([jobID |-> seq + 1, data |-> data])
  <2>1. current' = [jobID |-> seq + 1, data |-> data] /\ seq \in Nat
    BY <1>2, RegisterKeepsDense DEF Registry, WM!TypeOK
  <2>2. current' \in WM!Work
    BY <2>1 DEF WM!Work
  <2>3. current' # NoWork
    BY <2>2, RegistryAssumption DEF WM!Work
  <2> QED BY <1>2, <2>1, <2>2, <2>3, RegisterKeepsDense
<1> QED BY <1>1, <1>2 DEF WM!SetCurrent

-----------------------------------------------------------------------------
\* Places of a handler at which it holds the job that was solved, and places of
\* a goroutine at which it holds a job to send or to refresh.
HoldsJob == {"allow", "throttled", "submitWork", "setCurrent", "broadcast",
             "snapshot", "send"}
HoldsWork == {"sendCurrent", "setCurrent", "snapshot", "send"}

\* Where the goroutines are, and what they hold there.
Places ==
    /\ pc[Main] \in {"read", "snapshot", "send"}
    /\ subscribed \subseteq clients \cup gone
    /\ \A p \in Procs : pc[p] \in HoldsWork => work[p] # NoWork
    /\ \A m \in Miners : /\ pc[m] # "read" => m \in clients
                         /\ pc[m] \in HoldsJob => job[m] # NoWork /\ current # NoWork
                         /\ pc[m] \in {"throttled", "setCurrent"} => throttled > 0
    /\ clean => work[Main] # NoWork
    /\ fetched <= announced + 1

Core == TypeOK /\ Registry /\ Dense /\ Places /\ OneResponse

LEMMA CoreInit == Init => Core
<1> SUFFICES ASSUME Init PROVE Core
  OBVIOUS
<1>1. WM!Init /\ BT!Init
  BY DEF Init
<1>2. Registry
  <2>1. WM!TypeOK /\ WM!CurrentResolves
    BY <1>1 DEF WM!Init, WM!TypeOK, WM!CurrentResolves
  <2>2. WM!RegistryInv
    BY <1>1, RegistryAssumption DEF WM!Init, WM!RegistryInv
  <2> QED BY <2>1, <2>2 DEF Registry
<1>3. Dense
  BY <1>1, RegistryAssumption DEF WM!Init, Dense
<1>4. BT!TypeOK
  BY <1>1 DEF BT!Init, BT!TypeOK, BT!NewBlockThrottle
<1>5. TypeOK
  <2>1. clean \in BOOLEAN /\ nodeWork \in Template \cup {NoWork}
    BY DEF Init
  <2>2. events \in 0..MaxEvents /\ nodeCalls \in Nat
    BY BoundsAssumption DEF Init
  <2>3. /\ pc \in [Procs -> PCs] /\ work \in [Procs -> WM!Work \cup {NoWork}]
        /\ todo \in [Procs -> SUBSET Miners]
    BY DEF Init, PCs
  <2>4. /\ job \in [Miners -> WM!Work \cup {NoWork}] /\ owed \in [Miners -> Nat]
        /\ told \in [Miners -> SUBSET WM!Work]
    BY DEF Init
  <2>5. /\ clients \subseteq Miners /\ gone \subseteq Miners /\ clients \cap gone = {}
        /\ subscribed \subseteq Miners
    BY DEF Init
  <2>6. announced \in Nat /\ fetched \in Nat
    BY DEF Init
  <2> QED BY <1>2, <1>4, <2>1, <2>2, <2>3, <2>4, <2>5, <2>6 DEF TypeOK, Registry
<1>6. Places /\ OneResponse
  BY DEF Init, Places, OneResponse, HoldsJob, HoldsWork, Procs
<1> QED BY <1>2, <1>3, <1>5, <1>6 DEF Core

\* A step outside the manager's mutex leaves the registry as it was.
LEMMA ManagerIdle ==
    ASSUME Registry, Dense, UNCHANGED workVars
    PROVE  Registry' /\ Dense' /\ WM!TypeOK'
BY DEF Registry, Dense, workVars, WM!TypeOK, WM!RegistryInv, WM!CurrentResolves

LEMMA ThrottleIdle ==
    ASSUME BT!TypeOK, UNCHANGED throttleVars
    PROVE  BT!TypeOK' /\ throttled' = throttled
BY DEF throttleVars, BT!TypeOK

LEMMA ProcsFacts == Main \in Procs /\ Miners \subseteq Procs /\ Main \notin Miners
  BY MainAssumption DEF Procs

\* One call of Allow.
LEMMA AllowFacts ==
    ASSUME BT!TypeOK, BT!Allow
    PROVE  /\ BT!TypeOK' /\ foundBlocks' = foundBlocks + 1
           /\ BT!Allows(foundBlocks + 1) =>
                 submitted' = submitted + 1 /\ throttled' = throttled
           /\ ~BT!Allows(foundBlocks + 1) =>
                 submitted' = submitted /\ throttled' = throttled + 1
BY DEF BT!Allow, BT!TypeOK

\* A refreshed template has its parent, and a later timestamp.
LEMMA RefreshFacts ==
    ASSUME NEW m \in Miners, work[m] \in WM!Work, RefreshSet(m)
    PROVE  \E data \in Template : /\ data.parent = work[m].data.parent
                                  /\ data.ts > work[m].data.ts
                                  /\ WM!SetCurrent(data)
<1>1. PICK old \in Template : old = work[m].data
  BY DEF WM!Work
<1>2. PICK now \in {old.ts, old.ts + 2} :
         WM!SetCurrent(Refreshed(old, IF now <= old.ts THEN old.ts + 1 ELSE now))
  BY <1>1 DEF RefreshSet
<1>3. PICK ts \in Nat : /\ ts > old.ts
                        /\ ts = IF now <= old.ts THEN old.ts + 1 ELSE now
  BY DEF Template
<1>4. Refreshed(old, ts) \in Template /\ Refreshed(old, ts).parent = old.parent
      /\ Refreshed(old, ts).ts = ts
  BY DEF Template, Refreshed
<1> QED BY <1>1, <1>2, <1>3, <1>4

\* The main loop takes an event of the node.
NodeEvent == (\E reason \in WM!Reasons : ProcessAnnouncement(reason)) \/ ProcessInitial

LEMMA EventIsWork == NodeEvent => \E data, reason : ProcessWork(data, reason)
  BY DEF NodeEvent, ProcessAnnouncement, ProcessInitial

\* Announcements never go back to an earlier parent and a new parent is a later one;
\* the template Connect fetched is at most one parent ahead, and comes once.
LEMMA NodeFacts ==
    ASSUME announced \in Nat, fetched \in Nat, fetched <= announced + 1, NodeEvent
    PROVE  \E data \in Template, reason \in WM!Reasons :
              /\ ProcessWork(data, reason)
              /\ announced' \in Nat /\ fetched' \in Nat
              /\ announced' >= announced /\ fetched' <= announced' + 1
              /\ fetched = 0 \/ fetched' = fetched
              /\ data.parent = announced' \/ data.parent = fetched'
              /\ reason = "NewParent" => announced' > announced /\ data.parent = announced'
              /\ data.parent # 0
              /\ reason = "NewParent" \/ announced' = announced \/ announced' <= 1
<1>1. (\A t \in Times : t \in Nat) /\ \A r \in Revs : r \in Nat
  BY BoundsAssumption
<1>2. ASSUME NEW reason \in WM!Reasons, ProcessAnnouncement(reason)
      PROVE  \E data \in Template :
                /\ ProcessWork(data, reason)
                /\ announced' = data.parent /\ fetched' = fetched
                /\ data.parent \in Nat /\ data.parent >= announced
                /\ reason = "NewParent" => data.parent > announced
                /\ data.parent # 0
                /\ reason = "NewParent" \/ data.parent = announced \/ data.parent <= 1
  <2>1. PICK parent \in (IF announced = 0 THEN {0, 1} ELSE {announced}) :
           \E data \in Announcements(parent, reason) :
              ProcessWork(data, reason) /\ announced' = data.parent /\ UNCHANGED fetched
    BY <1>2 DEF ProcessAnnouncement
  <2>2. PICK data \in Announcements(parent, reason) :
           ProcessWork(data, reason) /\ announced' = data.parent /\ UNCHANGED fetched
    BY <2>1
  <2>3. parent \in Nat /\ parent >= announced /\ (parent = announced \/ parent = 1)
    BY <2>1
  <2>4. CASE reason = "NewParent"
    <3>1. data \in [parent : {parent + 1}, rev : Revs, ts : Times]
      BY <2>2, <2>4 DEF Announcements
    <3>2. data \in Template /\ data.parent = parent + 1
      BY <1>1, <2>3, <3>1 DEF Template
    <3> QED BY <2>2, <2>3, <2>4, <3>2
  <2>5. CASE reason # "NewParent"
    <3>1. data \in [parent : {parent} \ {0}, rev : Revs, ts : Times]
      BY <2>2, <2>5 DEF Announcements
    <3>2. data \in Template /\ data.parent = parent /\ data.parent # 0
      BY <1>1, <2>3, <3>1 DEF Template
    <3> QED BY <2>2, <2>3, <2>5, <3>2
  <2> QED BY <2>4, <2>5
<1>3. CASE ProcessInitial
  <2>1. PICK data \in [parent : 1..announced + 1, rev : Revs, ts : Times] :
           ProcessWork(data, "NewTxns") /\ fetched' = data.parent /\ UNCHANGED announced
    BY <1>3 DEF ProcessInitial
  <2>2. data \in Template /\ data.parent \in 1..announced + 1
    BY <1>1, <2>1 DEF Template
  <2>3. fetched = 0 /\ "NewTxns" \in WM!Reasons
    BY <1>3 DEF ProcessInitial, WM!Reasons
  <2> QED BY <2>1, <2>2, <2>3
<1>4. CASE \E reason \in WM!Reasons : ProcessAnnouncement(reason)
  <2>1. PICK reason \in WM!Reasons : ProcessAnnouncement(reason)
    BY <1>4
  <2>2. PICK data \in Template :
                /\ ProcessWork(data, reason)
                /\ announced' = data.parent /\ fetched' = fetched
                /\ data.parent \in Nat /\ data.parent >= announced
                /\ reason = "NewParent" => data.parent > announced
                /\ data.parent # 0
                /\ reason = "NewParent" \/ data.parent = announced \/ data.parent <= 1
    BY <1>2, <2>1
  <2>3. announced' \in Nat /\ fetched' <= announced' + 1
    BY <2>2
  <2> QED BY <2>2, <2>3
<1> QED BY <1>3, <1>4 DEF NodeEvent

LEMMA CoreStep == Core /\ [Next]_vars => Core'
<1> SUFFICES ASSUME Core, [Next]_vars PROVE Core'
  OBVIOUS
<1>1. TypeOK /\ Registry /\ Dense /\ Places /\ OneResponse /\ BT!TypeOK
  BY DEF Core, TypeOK
<1>2. /\ current \in WM!Work \cup {NoWork} /\ throttled \in Nat
      /\ \A id \in DOMAIN jobs : jobs[id] \in WM!Work /\ jobs[id] # NoWork
      /\ (\E id : id \in DOMAIN jobs) => current # NoWork
  <2>1. current = NoWork => DOMAIN jobs = {}
    BY <1>1, RegistryFacts
  <2>2. NoWork \notin WM!Work
    BY RegistryAssumption DEF WM!Work
  <2> QED BY <1>1, <2>1, <2>2, RegistryFacts DEF Registry, WM!TypeOK, BT!TypeOK
<1>3. ASSUME NEW m \in Miners, Connect(m) PROVE Core'
  <2>1. Registry' /\ Dense' /\ WM!TypeOK'
    BY <1>1, <1>3, ManagerIdle DEF Connect
  <2>2. BT!TypeOK' /\ throttled' = throttled
    BY <1>1, <1>3, ThrottleIdle DEF Connect
  <2>3. TypeOK'
    BY <1>1, <1>2, <1>3, <2>1, <2>2, ProcsFacts
       DEF TypeOK, Places, OneResponse, HoldsJob, HoldsWork, PCs, Connect, connVars, localVars, nodeVars, eventVars, workVars
  <2>4. Places'
    BY <1>1, <1>2, <1>3, <2>2, ProcsFacts
       DEF TypeOK, Places, HoldsJob, HoldsWork, Connect, connVars, localVars, nodeVars, eventVars, workVars
  <2>5. OneResponse'
    BY <1>1, <1>3, ProcsFacts DEF TypeOK, OneResponse, Connect, connVars, localVars, nodeVars, eventVars, workVars
  <2> QED BY <2>1, <2>3, <2>4, <2>5 DEF Core
<1>4. ASSUME NEW m \in Miners, Disconnect(m) PROVE Core'
  <2>1. Registry' /\ Dense' /\ WM!TypeOK'
    BY <1>1, <1>4, ManagerIdle DEF Disconnect
  <2>2. BT!TypeOK' /\ throttled' = throttled
    BY <1>1, <1>4, ThrottleIdle DEF Disconnect
  <2>3. TypeOK'
    BY <1>1, <1>2, <1>4, <2>1, <2>2, ProcsFacts
       DEF TypeOK, Places, OneResponse, HoldsJob, HoldsWork, PCs, Disconnect, connVars, localVars, nodeVars, eventVars, workVars
  <2>4. Places'
    BY <1>1, <1>2, <1>4, <2>2, ProcsFacts
       DEF TypeOK, Places, HoldsJob, HoldsWork, Disconnect, connVars, localVars, nodeVars, eventVars, workVars
  <2>5. OneResponse'
    BY <1>1, <1>4, ProcsFacts DEF TypeOK, OneResponse, Disconnect, connVars, localVars, nodeVars, eventVars, workVars
  <2> QED BY <2>1, <2>3, <2>4, <2>5 DEF Core
<1>5. ASSUME NEW m \in Miners, Subscribe(m) PROVE Core'
  <2>1. Registry' /\ Dense' /\ WM!TypeOK'
    BY <1>1, <1>5, ManagerIdle DEF Subscribe, Serve, Goto
  <2>2. BT!TypeOK' /\ throttled' = throttled
    BY <1>1, <1>5, ThrottleIdle DEF Subscribe, Serve, Goto
  <2>3. TypeOK'
    BY <1>1, <1>2, <1>5, <2>1, <2>2, ProcsFacts
       DEF TypeOK, Places, OneResponse, HoldsJob, HoldsWork, PCs, Subscribe, Serve, Goto, connVars, localVars, nodeVars, eventVars, workVars
  <2>4. Places'
    BY <1>1, <1>2, <1>5, <2>2, ProcsFacts
       DEF TypeOK, Places, HoldsJob, HoldsWork, Subscribe, Serve, Goto, connVars, localVars, nodeVars, eventVars, workVars
  <2>5. OneResponse'
    BY <1>1, <1>5, ProcsFacts DEF TypeOK, OneResponse, Subscribe, Serve, Goto, connVars, localVars, nodeVars, eventVars, workVars
  <2> QED BY <2>1, <2>3, <2>4, <2>5 DEF Core
<1>6. ASSUME NEW m \in Miners, SubscribeSend(m) PROVE Core'
  <2>1. Registry' /\ Dense' /\ WM!TypeOK'
    BY <1>1, <1>6, ManagerIdle DEF SubscribeSend, SendWork, Goto
  <2>2. BT!TypeOK' /\ throttled' = throttled
    BY <1>1, <1>6, ThrottleIdle DEF SubscribeSend, SendWork, Goto
  <2>3. TypeOK'
    BY <1>1, <1>2, <1>6, <2>1, <2>2, ProcsFacts
       DEF TypeOK, Places, OneResponse, HoldsJob, HoldsWork, PCs, SubscribeSend, SendWork, Goto, connVars, localVars, nodeVars, eventVars, workVars
  <2>4. Places'
    BY <1>1, <1>2, <1>6, <2>2, ProcsFacts
       DEF TypeOK, Places, HoldsJob, HoldsWork, SubscribeSend, SendWork, Goto, connVars, localVars, nodeVars, eventVars, workVars
  <2>5. OneResponse'
    BY <1>1, <1>6, ProcsFacts DEF TypeOK, OneResponse, SubscribeSend, SendWork, Goto, connVars, localVars, nodeVars, eventVars, workVars
  <2> QED BY <2>1, <2>3, <2>4, <2>5 DEF Core
<1>7. ASSUME NEW m \in Miners, NEW id \in 1..seq, NEW isBlock \in BOOLEAN, Submit(m, id, isBlock) PROVE Core'
  <2>1. Registry' /\ Dense' /\ WM!TypeOK'
    BY <1>1, <1>7, ManagerIdle DEF Submit, SubmitAnswered, SubmitBlock, WM!Resolves, Serve, Goto
  <2>2. BT!TypeOK' /\ throttled' = throttled
    BY <1>1, <1>7, ThrottleIdle DEF Submit, SubmitAnswered, SubmitBlock, WM!Resolves, Serve, Goto
  <2>3. TypeOK'
    BY <1>1, <1>2, <1>7, <2>1, <2>2, ProcsFacts
       DEF TypeOK, Places, OneResponse, HoldsJob, HoldsWork, PCs, Submit, SubmitAnswered, SubmitBlock, WM!Resolves, Serve, Goto, connVars, localVars, nodeVars, eventVars, workVars
  <2>4. Places'
    BY <1>1, <1>2, <1>7, <2>2, ProcsFacts
       DEF TypeOK, Places, HoldsJob, HoldsWork, Submit, SubmitAnswered, SubmitBlock, WM!Resolves, Serve, Goto, connVars, localVars, nodeVars, eventVars, workVars
  <2>5. OneResponse'
    BY <1>1, <1>7, ProcsFacts DEF TypeOK, OneResponse, Submit, SubmitAnswered, SubmitBlock, WM!Resolves, Serve, Goto, connVars, localVars, nodeVars, eventVars, workVars
  <2> QED BY <2>1, <2>3, <2>4, <2>5 DEF Core
<1>8. ASSUME NEW m \in Miners, SubmitAllow(m) PROVE Core'
  <2>1. Registry' /\ Dense' /\ WM!TypeOK'
    BY <1>1, <1>8, ManagerIdle DEF SubmitAllow, Goto
  <2>2. BT!TypeOK' /\ (~BT!Allows(foundBlocks + 1) => throttled' = throttled + 1)
        /\ (BT!Allows(foundBlocks + 1) => throttled' = throttled)
    BY <1>1, <1>8, AllowFacts DEF SubmitAllow, Goto
  <2>3. TypeOK'
    BY <1>1, <1>2, <1>8, <2>1, <2>2, ProcsFacts
       DEF TypeOK, Places, OneResponse, HoldsJob, HoldsWork, PCs, SubmitAllow, Goto, connVars, localVars, nodeVars, eventVars, workVars
  <2>4. Places'
    BY <1>1, <1>2, <1>8, <2>2, ProcsFacts
       DEF TypeOK, Places, HoldsJob, HoldsWork, SubmitAllow, Goto, connVars, localVars, nodeVars, eventVars, workVars
  <2>5. OneResponse'
    BY <1>1, <1>8, ProcsFacts DEF TypeOK, OneResponse, SubmitAllow, Goto, connVars, localVars, nodeVars, eventVars, workVars
  <2> QED BY <2>1, <2>3, <2>4, <2>5 DEF Core
<1>9. ASSUME NEW m \in Miners, SubmitThrottled(m) PROVE Core'
  <2>1. Registry' /\ Dense' /\ WM!TypeOK'
    BY <1>1, <1>9, ManagerIdle DEF SubmitThrottled, Respond, Goto
  <2>2. BT!TypeOK' /\ throttled' = throttled
    BY <1>1, <1>9, ThrottleIdle DEF SubmitThrottled, Respond, Goto
  <2>3. TypeOK'
    BY <1>1, <1>2, <1>9, <2>1, <2>2, ProcsFacts
       DEF TypeOK, Places, OneResponse, HoldsJob, HoldsWork, PCs, SubmitThrottled, Respond, Goto, connVars, localVars, nodeVars, eventVars, workVars
  <2>4. Places'
    BY <1>1, <1>2, <1>9, <2>2, ProcsFacts
       DEF TypeOK, Places, HoldsJob, HoldsWork, SubmitThrottled, Respond, Goto, connVars, localVars, nodeVars, eventVars, workVars
  <2>5. OneResponse'
    BY <1>1, <1>9, ProcsFacts DEF TypeOK, OneResponse, SubmitThrottled, Respond, Goto, connVars, localVars, nodeVars, eventVars, workVars
  <2> QED BY <2>1, <2>3, <2>4, <2>5 DEF Core
<1>10. ASSUME NEW m \in Miners, SubmitToNode(m) PROVE Core'
  <2>1. Registry' /\ Dense' /\ WM!TypeOK'
    BY <1>1, <1>10, ManagerIdle DEF SubmitToNode, Respond, Goto
  <2>2. BT!TypeOK' /\ throttled' = throttled
    BY <1>1, <1>10, ThrottleIdle DEF SubmitToNode, Respond, Goto
  <2>3. TypeOK'
    BY <1>1, <1>2, <1>10, <2>1, <2>2, ProcsFacts
       DEF TypeOK, Places, OneResponse, HoldsJob, HoldsWork, PCs, SubmitToNode, Respond, Goto, connVars, localVars, nodeVars, eventVars, workVars
  <2>4. Places'
    BY <1>1, <1>2, <1>10, <2>2, ProcsFacts
       DEF TypeOK, Places, HoldsJob, HoldsWork, SubmitToNode, Respond, Goto, connVars, localVars, nodeVars, eventVars, workVars
  <2>5. OneResponse'
    BY <1>1, <1>10, ProcsFacts DEF TypeOK, OneResponse, SubmitToNode, Respond, Goto, connVars, localVars, nodeVars, eventVars, workVars
  <2> QED BY <2>1, <2>3, <2>4, <2>5 DEF Core
<1>11. ASSUME NEW m \in Miners, BroadcastRead(m) PROVE Core'
  <2>1. Registry' /\ Dense' /\ WM!TypeOK'
    BY <1>1, <1>11, ManagerIdle DEF BroadcastRead, Goto
  <2>2. BT!TypeOK' /\ throttled' = throttled
    BY <1>1, <1>11, ThrottleIdle DEF BroadcastRead, Goto
  <2>3. TypeOK'
    BY <1>1, <1>2, <1>11, <2>1, <2>2, ProcsFacts
       DEF TypeOK, Places, OneResponse, HoldsJob, HoldsWork, PCs, BroadcastRead, Goto, connVars, localVars, nodeVars, eventVars, workVars
  <2>4. Places'
    BY <1>1, <1>2, <1>11, <2>2, ProcsFacts
       DEF TypeOK, Places, HoldsJob, HoldsWork, BroadcastRead, Goto, connVars, localVars, nodeVars, eventVars, workVars
  <2>5. OneResponse'
    BY <1>1, <1>11, ProcsFacts DEF TypeOK, OneResponse, BroadcastRead, Goto, connVars, localVars, nodeVars, eventVars, workVars
  <2> QED BY <2>1, <2>3, <2>4, <2>5 DEF Core
<1>12. ASSUME NEW p \in Procs, Snapshot(p) PROVE Core'
  <2>1. Registry' /\ Dense' /\ WM!TypeOK'
    BY <1>1, <1>12, ManagerIdle DEF Snapshot, Goto
  <2>2. BT!TypeOK' /\ throttled' = throttled
    BY <1>1, <1>12, ThrottleIdle DEF Snapshot, Goto
  <2>3. TypeOK'
    BY <1>1, <1>2, <1>12, <2>1, <2>2, ProcsFacts
       DEF TypeOK, Places, OneResponse, HoldsJob, HoldsWork, PCs, Snapshot, Goto, connVars, localVars, nodeVars, eventVars, workVars
  <2>4. Places'
    BY <1>1, <1>2, <1>12, <2>2, ProcsFacts
       DEF TypeOK, Places, HoldsJob, HoldsWork, Snapshot, Goto, connVars, localVars, nodeVars, eventVars, workVars
  <2>5. OneResponse'
    BY <1>1, <1>12, ProcsFacts DEF TypeOK, OneResponse, Snapshot, Goto, connVars, localVars, nodeVars, eventVars, workVars
  <2> QED BY <2>1, <2>3, <2>4, <2>5 DEF Core
<1>13. ASSUME NEW p \in Procs, NEW m \in Miners, Send(p, m) PROVE Core'
  <2>1. Registry' /\ Dense' /\ WM!TypeOK'
    BY <1>1, <1>13, ManagerIdle DEF Send, SendWork
  <2>2. BT!TypeOK' /\ throttled' = throttled
    BY <1>1, <1>13, ThrottleIdle DEF Send, SendWork
  <2>3. TypeOK'
    BY <1>1, <1>2, <1>13, <2>1, <2>2, ProcsFacts
       DEF TypeOK, Places, OneResponse, HoldsJob, HoldsWork, PCs, Send, SendWork, connVars, localVars, nodeVars, eventVars, workVars
  <2>4. Places'
    BY <1>1, <1>2, <1>13, <2>2, ProcsFacts
       DEF TypeOK, Places, HoldsJob, HoldsWork, Send, SendWork, connVars, localVars, nodeVars, eventVars, workVars
  <2>5. OneResponse'
    BY <1>1, <1>13, ProcsFacts DEF TypeOK, OneResponse, Send, SendWork, connVars, localVars, nodeVars, eventVars, workVars
  <2> QED BY <2>1, <2>3, <2>4, <2>5 DEF Core
<1>14. ASSUME NEW p \in Procs, SendDone(p) PROVE Core'
  <2>1. Registry' /\ Dense' /\ WM!TypeOK'
    BY <1>1, <1>14, ManagerIdle DEF SendDone, Goto
  <2>2. BT!TypeOK' /\ throttled' = throttled
    BY <1>1, <1>14, ThrottleIdle DEF SendDone, Goto
  <2>3. TypeOK'
    BY <1>1, <1>2, <1>14, <2>1, <2>2, ProcsFacts
       DEF TypeOK, Places, OneResponse, HoldsJob, HoldsWork, PCs, SendDone, Goto, connVars, localVars, nodeVars, eventVars, workVars
  <2>4. Places'
    BY <1>1, <1>2, <1>14, <2>2, ProcsFacts
       DEF TypeOK, Places, HoldsJob, HoldsWork, SendDone, Goto, connVars, localVars, nodeVars, eventVars, workVars
  <2>5. OneResponse'
    BY <1>1, <1>14, ProcsFacts DEF TypeOK, OneResponse, SendDone, Goto, connVars, localVars, nodeVars, eventVars, workVars
  <2> QED BY <2>1, <2>3, <2>4, <2>5 DEF Core
<1>15. ASSUME NEW m \in Miners, RefreshSet(m) PROVE Core'
  <2>1. work[m] \in WM!Work
    BY <1>1, <1>15, ProcsFacts DEF TypeOK, Places, HoldsWork, RefreshSet
  <2>2. PICK data \in Template : WM!SetCurrent(data)
    BY <1>15, <2>1, RefreshFacts
  <2>3. Registry' /\ Dense' /\ current' # NoWork
    BY <1>1, <2>2, SetCurrentFacts
  <2>4. WM!TypeOK'
    BY <2>3 DEF Registry
  <2>5. BT!TypeOK' /\ throttled' = throttled
    BY <1>1, <1>15, ThrottleIdle DEF RefreshSet
  <2>6. TypeOK'
    BY <1>1, <1>15, <2>4, <2>5, ProcsFacts
       DEF TypeOK, PCs, RefreshSet, Goto, connVars, nodeVars, eventVars
  <2>7. Places'
    BY <1>1, <1>15, <2>3, <2>5, ProcsFacts
       DEF TypeOK, Places, HoldsJob, HoldsWork, RefreshSet, Goto, connVars, nodeVars, eventVars
  <2>8. OneResponse'
    BY <1>1, <1>15, ProcsFacts DEF TypeOK, OneResponse, RefreshSet, Goto, connVars
  <2> QED BY <2>3, <2>6, <2>7, <2>8 DEF Core
<1>16. ASSUME NodeEvent PROVE Core'
  <2>1. announced \in Nat /\ fetched \in Nat /\ fetched <= announced + 1
    BY <1>1 DEF TypeOK, Places
  <2>2. PICK data \in Template, reason \in WM!Reasons :
             /\ ProcessWork(data, reason)
             /\ announced' \in Nat /\ fetched' \in Nat /\ fetched' <= announced' + 1
    BY <1>16, <2>1, NodeFacts
  <2>3. Registry' /\ Dense' /\ current' # NoWork /\ current' \in WM!Work
    BY <1>1, <2>2, SetCurrentFacts DEF ProcessWork
  <2>4. WM!TypeOK'
    BY <2>3 DEF Registry
  <2>5. BT!TypeOK' /\ throttled' = throttled
    BY <1>1, <2>2, ThrottleIdle DEF ProcessWork
  <2>6. clean' \in BOOLEAN
    BY <2>2 DEF ProcessWork, WM!Clean
  <2>7. TypeOK'
    BY <1>1, <2>2, <2>3, <2>4, <2>5, <2>6, ProcsFacts, BoundsAssumption
       DEF TypeOK, PCs, ProcessWork, Goto, connVars
  <2>8. Places'
    BY <1>1, <2>2, <2>3, <2>5, ProcsFacts
       DEF TypeOK, Places, HoldsJob, HoldsWork, ProcessWork, Goto, connVars
  <2>9. OneResponse'
    BY <1>1, <2>2, ProcsFacts DEF TypeOK, OneResponse, ProcessWork, Goto, connVars
  <2> QED BY <2>3, <2>7, <2>8, <2>9 DEF Core
<1>17. CASE UNCHANGED vars
  <2>1. UNCHANGED workVars /\ UNCHANGED throttleVars
    BY <1>17 DEF vars
  <2>2. Registry' /\ Dense' /\ WM!TypeOK' /\ BT!TypeOK' /\ throttled' = throttled
    BY <1>1, <2>1, ManagerIdle, ThrottleIdle
  <2>3. TypeOK' /\ Places' /\ OneResponse'
    BY <1>1, <1>17, <2>2 DEF vars, connVars, localVars, nodeVars, eventVars, workVars, throttleVars,
                            TypeOK, Places, OneResponse
  <2> QED BY <2>2, <2>3 DEF Core
<1> QED BY <1>3, <1>4, <1>5, <1>6, <1>7, <1>8, <1>9, <1>10, <1>11, <1>12, <1>13, <1>14,
           <1>15, <1>16, <1>17 DEF Next, HandlerStep, NodeEvent, Finished

LEMMA CoreHolds == Spec => []Core
  BY CoreInit, CoreStep, PTL DEF Spec

\* The pool's state keeps its types, and no connection ever owes a negative number
\* of responses.
THEOREM PoolTypeCorrect == Spec => []TypeOK
<1>1. Core => TypeOK
  BY DEF Core
<1> QED BY CoreHolds, <1>1, PTL

\* Every request is answered exactly once, on every path of its handler.
THEOREM EveryRequestAnswered == Spec => []OneResponse
<1>1. Core => OneResponse
  BY DEF Core
<1> QED BY CoreHolds, <1>1, PTL

-----------------------------------------------------------------------------
\* The steps that enter a critical section of the manager or of the throttle.
LEMMA SharedSteps ==
    ASSUME Core, [Next]_vars
    PROVE  /\ UNCHANGED workVars \/ \E data \in Template : WM!SetCurrent(data)
           /\ UNCHANGED throttleVars \/ BT!Allow
<1>1. /\ \A m \in Miners : pc[m] = "setCurrent" => work[m] \in WM!Work
      /\ announced \in Nat /\ fetched \in Nat /\ fetched <= announced + 1
  BY ProcsFacts DEF Core, TypeOK, Places, HoldsWork
<1>2. ASSUME NEW m \in Miners, RefreshSet(m)
      PROVE  (\E data \in Template : WM!SetCurrent(data)) /\ UNCHANGED throttleVars
  <2>1. work[m] \in WM!Work
    BY <1>1, <1>2 DEF RefreshSet
  <2> QED BY <1>2, <2>1, RefreshFacts DEF RefreshSet
<1>3. ASSUME NodeEvent
      PROVE  (\E d \in Template : WM!SetCurrent(d)) /\ UNCHANGED throttleVars
  BY <1>1, <1>3, NodeFacts DEF ProcessWork
<1>4. ASSUME NEW m \in Miners, SubmitAllow(m) PROVE UNCHANGED workVars /\ BT!Allow
  BY <1>4 DEF SubmitAllow
<1> DEFINE Local == UNCHANGED workVars /\ UNCHANGED throttleVars
<1>5. ASSUME NEW m \in Miners, Connect(m) \/ Disconnect(m) \/ Subscribe(m) \/ SubscribeSend(m)
      PROVE  Local
  BY <1>5 DEF Connect, Disconnect, Subscribe, SubscribeSend
<1>6. ASSUME NEW m \in Miners, NEW id, NEW isBlock, Submit(m, id, isBlock) PROVE Local
  BY <1>6 DEF Submit
<1>7. ASSUME NEW m \in Miners, SubmitThrottled(m) \/ SubmitToNode(m) \/ BroadcastRead(m)
      PROVE  Local
  BY <1>7 DEF SubmitThrottled, SubmitToNode, BroadcastRead
<1>8. ASSUME NEW p \in Procs, Snapshot(p) \/ SendDone(p) \/ \E m \in Miners : Send(p, m)
      PROVE  Local
  BY <1>8 DEF Snapshot, SendDone, Send
<1>9. CASE UNCHANGED vars
  BY <1>9 DEF vars
<1> QED BY <1>2, <1>3, <1>4, <1>5, <1>6, <1>7, <1>8, <1>9 DEF Next, HandlerStep, NodeEvent, Finished

\* Handlers that refresh and the main loop register jobs between each other's critical
\* sections; together they still keep the window of recent jobs.
THEOREM PoolKeepsRecentJobs == Spec => WM!ImplementsRecentJobs
<1>1. Init => WM!Recent!Init
  BY DEF Init, WM!Init, WM!Recent!Init
<1>2. Core /\ [Next]_vars => [WM!Recent!Next]_WM!Recent!vars
  <2> SUFFICES ASSUME Core, [Next]_vars PROVE [WM!Recent!Next]_WM!Recent!vars
    OBVIOUS
  <2>1. CASE UNCHANGED workVars
    BY <2>1 DEF workVars, WM!Recent!vars
  <2>2. ASSUME NEW data \in Template, WM!SetCurrent(data), ~WM!Duplicate(data)
        PROVE  WM!Recent!Next
    <3>1. Template \subseteq Template /\ MaxEvents + MaxFinds \in Nat
          /\ MaxJobs \in Nat \ {0} /\ NoWork \notin [jobID : Nat, data : Template]
      BY BoundsAssumption, RegistryAssumption
    <3>2. Manager!SetCurrent(data) /\ ~Manager!Duplicate(data)
      BY <2>2
         DEF WM!SetCurrent, Manager!SetCurrent, WM!Duplicate, Manager!Duplicate, WM!vars, Manager!vars,
             WM!Register, Manager!Register, WM!Kept, Manager!Kept, WM!Evicted, Manager!Evicted
    <3>3. Manager!IInv
      BY ManagersRegistry DEF Core
    <3>4. Manager!Recent!Next
      BY <3>1, <3>2, <3>3, Manager!SetCurrentSlides, Zenon
    <3> QED
      BY <3>4
         DEF WM!Recent!Next, Manager!Recent!Next, WM!Recent!Issue, Manager!Recent!Issue,
             WM!Recent!Skip, Manager!Recent!Skip, WM!Recent!DrawID, Manager!Recent!DrawID,
             WM!Recent!Slide, Manager!Recent!Slide
  <2>3. ASSUME NEW data \in Template, WM!SetCurrent(data), WM!Duplicate(data)
        PROVE  UNCHANGED workVars
    BY <2>3 DEF WM!SetCurrent, WM!vars, workVars
  <2> QED BY <2>1, <2>2, <2>3, SharedSteps
<1> QED BY <1>1, <1>2, CoreHolds, PTL DEF Spec, WM!ImplementsRecentJobs, WM!Recent!Spec

\* Whatever the handlers do between finding a block and asking the throttle about it,
\* one block in every divisor goes out, the first one always.
THEOREM PoolKeepsQuota == Spec => []BT!Quota
<1> DEFINE Kept == BT!TypeOK /\ BT!Quota
<1>1. Init => Kept
  BY DEF Init, BT!Init, BT!NewBlockThrottle, BT!TypeOK, BT!Quota
<1>2. Core /\ Kept /\ [Next]_vars => Kept'
  <2> SUFFICES ASSUME Core, Kept, [Next]_vars PROVE Kept'
    OBVIOUS
  <2>1. CASE UNCHANGED throttleVars
    BY <2>1 DEF throttleVars, BT!TypeOK, BT!Quota
  <2>2. CASE BT!Allow
    <3>1. Throttle!TypeOK /\ Throttle!Quota /\ Throttle!Allow
      BY <2>2 DEF Throttle!TypeOK, Throttle!Quota, Throttle!Allow, Throttle!Allows,
                  BT!TypeOK, BT!Quota, BT!Allow, BT!Allows
    <3>2. Throttle!TypeOK' /\ Throttle!Quota'
      BY <3>1, Throttle!AllowQuota, Zenon
    <3> QED BY <3>2 DEF Throttle!TypeOK, Throttle!Quota, BT!TypeOK, BT!Quota
  <2> QED BY <2>1, <2>2, SharedSteps
<1>3. Kept => BT!Quota
  OBVIOUS
<1> HIDE DEF Kept
<1> QED BY <1>1, <1>2, <1>3, CoreHolds, PTL DEF Spec

-----------------------------------------------------------------------------
\* The handlers that are about to call SubmitWork.
Submitting == {m \in Miners : pc[m] = "submitWork"}

LEMMA SubmittingFinite ==
    IsFiniteSet(Submitting) /\ Cardinality(Submitting) \in Nat
<1>1. Submitting \in SUBSET Miners
  BY DEF Submitting
<1> QED BY <1>1, MinersAssumption, FS_Subset, FS_CardinalityType

LEMMA BlocksStep == Core /\ BlocksAccounted /\ [Next]_vars => BlocksAccounted'
<1> SUFFICES ASSUME Core, BlocksAccounted, [Next]_vars PROVE BlocksAccounted'
  OBVIOUS
<1>1. /\ pc \in [Procs -> PCs] /\ BT!TypeOK /\ nodeCalls \in Nat
      /\ foundBlocks \in Nat /\ submitted \in Nat /\ throttled \in Nat
  BY DEF Core, TypeOK, BT!TypeOK
<1>2. foundBlocks = submitted + throttled /\ submitted = nodeCalls + Cardinality(Submitting)
  BY DEF BlocksAccounted, Submitting
<1> DEFINE Idle == /\ UNCHANGED <<foundBlocks, submitted, throttled, nodeCalls>>
                   /\ \A x \in Miners : pc'[x] = "submitWork" <=> pc[x] = "submitWork"
<1>3. ASSUME Idle PROVE BlocksAccounted'
  <2>1. Submitting' = Submitting
    BY <1>3 DEF Submitting
  <2> QED BY <1>2, <1>3, <2>1 DEF BlocksAccounted, Submitting
<1>4. ASSUME NEW m \in Miners, SubmitAllow(m) PROVE BlocksAccounted'
  <2>1. pc[m] = "allow" /\ BT!Allow /\ nodeCalls' = nodeCalls
    BY <1>4 DEF SubmitAllow, nodeVars, eventVars
  <2>2. CASE BT!Allows(foundBlocks + 1)
    <3>1. \A x \in Miners : pc'[x] = IF x = m THEN "submitWork" ELSE pc[x]
      BY <1>1, <1>4, <2>2, ProcsFacts DEF SubmitAllow, Goto
    <3>2. Submitting' = Submitting \cup {m} /\ m \notin Submitting
      BY <2>1, <3>1 DEF Submitting
    <3>3. Cardinality(Submitting') = Cardinality(Submitting) + 1
      BY <3>2, SubmittingFinite, FS_AddElement
    <3> QED BY <1>1, <1>2, <2>1, <2>2, <3>3, AllowFacts, SubmittingFinite
            DEF BlocksAccounted, Submitting
  <2>3. CASE ~BT!Allows(foundBlocks + 1)
    <3>1. \A x \in Miners : pc'[x] = "submitWork" <=> pc[x] = "submitWork"
      BY <1>1, <1>4, <2>1, <2>3, ProcsFacts DEF SubmitAllow, Goto
    <3>2. Submitting' = Submitting
      BY <3>1 DEF Submitting
    <3> QED BY <1>1, <1>2, <2>1, <2>3, <3>2, AllowFacts, SubmittingFinite
            DEF BlocksAccounted, Submitting
  <2> QED BY <2>2, <2>3
<1>5. ASSUME NEW m \in Miners, SubmitToNode(m) PROVE BlocksAccounted'
  <2>1. \A x \in Miners : pc'[x] = IF x = m THEN "read" ELSE pc[x]
    BY <1>1, <1>5, ProcsFacts DEF SubmitToNode, Goto
  <2>2. Submitting' = Submitting \ {m} /\ m \in Submitting
    BY <1>5, <2>1 DEF Submitting, SubmitToNode
  <2>3. Cardinality(Submitting') = Cardinality(Submitting) - 1
    BY <2>2, SubmittingFinite, FS_RemoveElement
  <2>4. nodeCalls' = nodeCalls + 1 /\ UNCHANGED <<foundBlocks, submitted, throttled>>
    BY <1>5 DEF SubmitToNode, throttleVars
  <2> QED BY <1>1, <1>2, <2>3, <2>4, SubmittingFinite DEF BlocksAccounted, Submitting
<1>6. ASSUME NEW m \in Miners, Connect(m) PROVE Idle
  BY <1>1, <1>6, ProcsFacts DEF Connect, throttleVars, nodeVars, eventVars
<1>7. ASSUME NEW m \in Miners, Disconnect(m) PROVE Idle
  BY <1>1, <1>7, ProcsFacts DEF Disconnect, throttleVars, nodeVars, eventVars
<1>8. ASSUME NEW m \in Miners, Subscribe(m) PROVE Idle
  BY <1>1, <1>8, ProcsFacts DEF Subscribe, Goto, throttleVars, nodeVars, eventVars
<1>9. ASSUME NEW m \in Miners, SubscribeSend(m) PROVE Idle
  BY <1>1, <1>9, ProcsFacts DEF SubscribeSend, Goto, throttleVars, nodeVars, eventVars
<1>10. ASSUME NEW m \in Miners, NEW id \in 1..seq, NEW isBlock \in BOOLEAN, Submit(m, id, isBlock) PROVE Idle
  BY <1>1, <1>10, ProcsFacts DEF Submit, SubmitAnswered, SubmitBlock, Goto, throttleVars, nodeVars, eventVars
<1>11. ASSUME NEW m \in Miners, SubmitThrottled(m) PROVE Idle
  BY <1>1, <1>11, ProcsFacts DEF SubmitThrottled, Goto, throttleVars, nodeVars, eventVars
<1>12. ASSUME NEW m \in Miners, RefreshSet(m) PROVE Idle
  BY <1>1, <1>12, ProcsFacts DEF RefreshSet, Goto, throttleVars, nodeVars, eventVars
<1>13. ASSUME NEW m \in Miners, BroadcastRead(m) PROVE Idle
  BY <1>1, <1>13, ProcsFacts DEF BroadcastRead, Goto, throttleVars, nodeVars, eventVars
<1>14. ASSUME NodeEvent PROVE Idle
  <2>1. PICK data, reason : ProcessWork(data, reason)
    BY <1>14, EventIsWork
  <2> QED BY <1>1, <2>1, ProcsFacts DEF ProcessWork, Goto, throttleVars
<1>15. ASSUME NEW p \in Procs, Snapshot(p) PROVE Idle
  BY <1>1, <1>15, ProcsFacts DEF Snapshot, Goto, throttleVars, nodeVars, eventVars
<1>16. ASSUME NEW p \in Procs, NEW m \in Miners, Send(p, m) PROVE Idle
  BY <1>1, <1>16, ProcsFacts DEF Send, throttleVars, nodeVars, eventVars
<1>17. ASSUME NEW p \in Procs, SendDone(p) PROVE Idle
  BY <1>1, <1>17, ProcsFacts DEF SendDone, Goto, throttleVars, nodeVars, eventVars
<1>18. CASE UNCHANGED vars
  <2>1. Idle
    BY <1>18 DEF vars, throttleVars, nodeVars, eventVars
  <2> QED BY <1>3, <2>1
<1> HIDE DEF Idle
<1> QED BY <1>3, <1>4, <1>5, <1>6, <1>7, <1>8, <1>9, <1>10, <1>11, <1>12, <1>13, <1>14,
           <1>15, <1>16, <1>17, <1>18 DEF Next, HandlerStep, NodeEvent, Finished

\* Every block the throttle lets through is handed to the node exactly once, for
\* every divisor and however many handlers are between the two calls.
THEOREM EveryBlockAccounted == Spec => []BlocksAccounted
<1>1. Init => BlocksAccounted
  <2> SUFFICES ASSUME Init PROVE BlocksAccounted
    OBVIOUS
  <2>1. Submitting = {}
    BY DEF Init, Submitting, Procs
  <2>2. Cardinality(Submitting) = 0
    BY <2>1, FS_EmptySet
  <2> QED BY <2>2 DEF Init, BT!Init, BlocksAccounted, Submitting
<1> QED BY <1>1, CoreHolds, BlocksStep, PTL DEF Spec

LEMMA FollowStep == Core /\ CurrentFollowsNode /\ [Next]_vars => CurrentFollowsNode'
<1> SUFFICES ASSUME Core, CurrentFollowsNode, [Next]_vars PROVE CurrentFollowsNode'
  OBVIOUS
<1>1. TypeOK /\ Registry /\ Dense /\ Places /\ BT!TypeOK /\ throttled \in Nat
  BY DEF Core, TypeOK, BT!TypeOK
<1> DEFINE Idle == UNCHANGED <<current, nodeWork, throttled>>
<1>2. ASSUME Idle PROVE CurrentFollowsNode'
  BY <1>2 DEF CurrentFollowsNode
<1>3. ASSUME NEW m \in Miners, SubmitAllow(m) PROVE CurrentFollowsNode'
  <2>1. current' = current /\ nodeWork' = nodeWork /\ BT!Allow
    BY <1>3 DEF SubmitAllow, workVars, nodeVars, eventVars
  <2>2. throttled' = 0 => throttled = 0
    BY <1>1, <2>1, AllowFacts
  <2> QED BY <2>1, <2>2 DEF CurrentFollowsNode
<1>4. ASSUME NEW m \in Miners, RefreshSet(m) PROVE CurrentFollowsNode'
  <2>1. throttled' > 0
    BY <1>1, <1>4 DEF Places, RefreshSet, throttleVars
  <2> QED BY <2>1 DEF CurrentFollowsNode
<1>5. ASSUME NodeEvent PROVE CurrentFollowsNode'
  <2>1. PICK data \in Template, reason \in WM!Reasons : ProcessWork(data, reason)
    BY <1>1, <1>5, NodeFacts DEF TypeOK, Places
  <2>2. current' # NoWork /\ current'.data = data
    BY <1>1, <2>1, SetCurrentFacts DEF ProcessWork
  <2> QED BY <2>1, <2>2, NilTemplateAssumption DEF CurrentFollowsNode, ProcessWork
<1>6. ASSUME NEW m \in Miners, Connect(m) PROVE Idle
  BY <1>6 DEF Connect, workVars, throttleVars, nodeVars, eventVars
<1>7. ASSUME NEW m \in Miners, Disconnect(m) PROVE Idle
  BY <1>7 DEF Disconnect, workVars, throttleVars, nodeVars, eventVars
<1>8. ASSUME NEW m \in Miners, Subscribe(m) PROVE Idle
  BY <1>8 DEF Subscribe, workVars, throttleVars, nodeVars, eventVars
<1>9. ASSUME NEW m \in Miners, SubscribeSend(m) PROVE Idle
  BY <1>9 DEF SubscribeSend, workVars, throttleVars, nodeVars, eventVars
<1>10. ASSUME NEW m \in Miners, NEW id \in 1..seq, NEW isBlock \in BOOLEAN, Submit(m, id, isBlock) PROVE Idle
  BY <1>10 DEF Submit, SubmitAnswered, SubmitBlock, workVars, throttleVars, nodeVars, eventVars
<1>11. ASSUME NEW m \in Miners, SubmitThrottled(m) PROVE Idle
  BY <1>11 DEF SubmitThrottled, workVars, throttleVars, nodeVars, eventVars
<1>12. ASSUME NEW m \in Miners, SubmitToNode(m) PROVE Idle
  BY <1>12 DEF SubmitToNode, workVars, throttleVars, nodeVars, eventVars
<1>13. ASSUME NEW m \in Miners, BroadcastRead(m) PROVE Idle
  BY <1>13 DEF BroadcastRead, workVars, throttleVars, nodeVars, eventVars
<1>14. ASSUME NEW p \in Procs, Snapshot(p) PROVE Idle
  BY <1>14 DEF Snapshot, workVars, throttleVars, nodeVars, eventVars
<1>15. ASSUME NEW p \in Procs, NEW m \in Miners, Send(p, m) PROVE Idle
  BY <1>15 DEF Send, workVars, throttleVars, nodeVars, eventVars
<1>16. ASSUME NEW p \in Procs, SendDone(p) PROVE Idle
  BY <1>16 DEF SendDone, workVars, throttleVars, nodeVars, eventVars
<1>17. CASE UNCHANGED vars
  <2>1. Idle
    BY <1>17 DEF vars, workVars, throttleVars, nodeVars, eventVars
  <2> QED BY <1>2, <2>1
<1> HIDE DEF Idle
<1> QED BY <1>2, <1>3, <1>4, <1>5, <1>6, <1>7, <1>8, <1>9, <1>10, <1>11, <1>12, <1>13,
           <1>14, <1>15, <1>16, <1>17 DEF Next, HandlerStep, NodeEvent, Finished

\* As long as no block was discarded, the pool works on the node's last template.
THEOREM NodeIsFollowed == Spec => []CurrentFollowsNode
<1>1. Init => CurrentFollowsNode
  BY DEF Init, WM!Init, CurrentFollowsNode
<1> QED BY <1>1, CoreHolds, FollowStep, PTL DEF Spec

-----------------------------------------------------------------------------
\* The jobs that the pool or a miner holds anywhere.
Known(w) ==
    /\ w # NoWork
    /\ \/ w = current
       \/ \E id \in DOMAIN jobs : w = jobs[id]
       \/ \E p \in Procs : w = work[p]
       \/ \E m \in Miners : w = job[m] \/ w \in told[m]

\* What each of them is: a job that was issued, the one its identifier still
\* resolves to if to any, on a parent the node had announced or the one Connect
\* fetched, and, if it was issued before the job of a clean broadcast, on an earlier
\* parent, or on the same one when Connect fetched it.
Genuine(w) ==
    /\ w \in WM!Work /\ w.jobID \in 1..seq
    /\ WM!Resolves(w.jobID) => jobs[w.jobID] = w
    /\ w.data.parent # 0 /\ (w.data.parent <= announced \/ w.data.parent = fetched)
    /\ clean /\ w.jobID < work[Main].jobID =>
          \/ w.data.parent < work[Main].data.parent
          \/ w.data.parent = work[Main].data.parent /\ w.data.parent = fetched

AllGenuine == \A w : Known(w) => Genuine(w)

\* A registration takes no identifier away from the job it names.
LEMMA ResolutionStays ==
    ASSUME Registry, Dense, NEW data \in Template, WM!SetCurrent(data),
           NEW w \in WM!Work, w.jobID \in 1..seq,
           WM!Resolves(w.jobID) => jobs[w.jobID] = w
    PROVE  /\ w.jobID \in 1..seq'
           /\ WM!Resolves(w.jobID)' => jobs'[w.jobID] = w
<1>1. seq \in Nat
  BY RegistryFacts
<1>2. CASE UNCHANGED workVars
  BY <1>2 DEF workVars, WM!Resolves
<1>3. CASE /\ seq' = seq + 1
           /\ \A id \in DOMAIN jobs' : \/ id = seq + 1 /\ jobs'[id] = current'
                                       \/ id \in DOMAIN jobs /\ jobs'[id] = jobs[id]
  BY <1>1, <1>3 DEF WM!Resolves
<1> QED BY <1>2, <1>3, SetCurrentFacts

LEMMA CurrentIssued ==
    ASSUME Registry, Dense, NEW data \in Template, WM!SetCurrent(data)
    PROVE  current'.jobID \in 1..seq' /\ jobs'[current'.jobID] = current'
<1>1. seq \in Nat /\ seq + 1 \notin DOMAIN jobs
  BY RegistryFacts
<1>2. CASE UNCHANGED workVars
  BY <1>2, SetCurrentFacts, RegistryFacts DEF workVars
<1>3. CASE /\ seq' = seq + 1 /\ current' = [jobID |-> seq + 1, data |-> data]
           /\ \A id \in DOMAIN jobs' : \/ id = seq + 1 /\ jobs'[id] = current'
                                       \/ id \in DOMAIN jobs /\ jobs'[id] = jobs[id]
  <2>1. ~WM!Duplicate(data)
    BY <1>1, <1>3 DEF WM!SetCurrent, WM!vars
  <2>2. WM!Register([jobID |-> seq + 1, data |-> data])
    BY <2>1 DEF WM!SetCurrent
  <2> QED BY <1>1, <1>3, <2>2 DEF WM!Register
<1> QED BY <1>2, <1>3, SetCurrentFacts

LEMMA GenuineStep == Core /\ Core' /\ AllGenuine /\ [Next]_vars => AllGenuine'
<1> SUFFICES ASSUME Core, Core', AllGenuine, [Next]_vars PROVE AllGenuine'
  OBVIOUS
<1>1. /\ TypeOK /\ Registry /\ Dense /\ Places
      /\ Registry' /\ Dense' /\ TypeOK'
  BY DEF Core
<1>2. seq \in Nat /\ pc \in [Procs -> PCs] /\ work \in [Procs -> WM!Work \cup {NoWork}]
      /\ job \in [Miners -> WM!Work \cup {NoWork}] /\ told \in [Miners -> SUBSET WM!Work]
  BY <1>1, RegistryFacts DEF TypeOK
<1> DEFINE NoneNew == \A w : Known(w)' => Known(w) \/ w = current'
           Stays == \A w : Genuine(w) => Genuine(w)'
           Same == /\ UNCHANGED <<jobs, seq, announced, fetched>>
                   /\ clean' => clean /\ work'[Main] = work[Main]
<1>3. ASSUME Same PROVE Stays
  BY <1>3 DEF Genuine, WM!Resolves
<1>4. ASSUME NoneNew, Stays, current' # NoWork => Genuine(current)' PROVE AllGenuine'
  BY <1>4 DEF AllGenuine, Known
<1>5. ASSUME NoneNew, Same, current' = current PROVE AllGenuine'
  <2>1. ASSUME NEW w, Known(w)' PROVE Genuine(w)'
    <3>1. Known(w)
      BY <1>5, <2>1 DEF Known
    <3> QED BY <1>3, <1>5, <3>1 DEF AllGenuine
  <2> QED BY <2>1 DEF AllGenuine
<1>6. ASSUME NEW m \in Miners, Connect(m) PROVE AllGenuine'
  <2>1. NoneNew
    BY <1>1, <1>2, <1>6, ProcsFacts DEF Known, Places, HoldsWork, Connect, connVars, localVars, nodeVars, eventVars, workVars
  <2>2. Same /\ current' = current
    BY <1>1, <1>2, <1>6, ProcsFacts DEF Connect, Places, connVars, localVars, nodeVars, eventVars, workVars
  <2> QED BY <1>5, <2>1, <2>2
<1>7. ASSUME NEW m \in Miners, Disconnect(m) PROVE AllGenuine'
  <2>1. NoneNew
    BY <1>1, <1>2, <1>7, ProcsFacts DEF Known, Places, HoldsWork, Disconnect, connVars, localVars, nodeVars, eventVars, workVars
  <2>2. Same /\ current' = current
    BY <1>1, <1>2, <1>7, ProcsFacts DEF Disconnect, Places, connVars, localVars, nodeVars, eventVars, workVars
  <2> QED BY <1>5, <2>1, <2>2
<1>8. ASSUME NEW m \in Miners, Subscribe(m) PROVE AllGenuine'
  <2>1. NoneNew
    BY <1>1, <1>2, <1>8, ProcsFacts DEF Known, Places, HoldsWork, Subscribe, connVars, localVars, nodeVars, eventVars, workVars
  <2>2. Same /\ current' = current
    BY <1>1, <1>2, <1>8, ProcsFacts DEF Subscribe, Places, connVars, localVars, nodeVars, eventVars, workVars
  <2> QED BY <1>5, <2>1, <2>2
<1>9. ASSUME NEW m \in Miners, SubscribeSend(m) PROVE AllGenuine'
  <2>1. NoneNew
    BY <1>1, <1>2, <1>9, ProcsFacts DEF Known, Places, HoldsWork, SubscribeSend, SendWork, connVars, localVars, nodeVars, eventVars, workVars
  <2>2. Same /\ current' = current
    BY <1>1, <1>2, <1>9, ProcsFacts DEF SubscribeSend, SendWork, Places, connVars, localVars, nodeVars, eventVars, workVars
  <2> QED BY <1>5, <2>1, <2>2
<1>10. ASSUME NEW m \in Miners, NEW id \in 1..seq, NEW isBlock \in BOOLEAN, Submit(m, id, isBlock) PROVE AllGenuine'
  <2>1. NoneNew
    BY <1>1, <1>2, <1>10, ProcsFacts DEF Known, Places, HoldsWork, Submit, SubmitAnswered, SubmitBlock, WM!Resolves, connVars, localVars, nodeVars, eventVars, workVars
  <2>2. Same /\ current' = current
    BY <1>1, <1>2, <1>10, ProcsFacts DEF Submit, SubmitAnswered, SubmitBlock, WM!Resolves, Places, connVars, localVars, nodeVars, eventVars, workVars
  <2> QED BY <1>5, <2>1, <2>2
<1>11. ASSUME NEW m \in Miners, SubmitAllow(m) PROVE AllGenuine'
  <2>1. NoneNew
    BY <1>1, <1>2, <1>11, ProcsFacts DEF Known, Places, HoldsWork, SubmitAllow, connVars, localVars, nodeVars, eventVars, workVars
  <2>2. Same /\ current' = current
    BY <1>1, <1>2, <1>11, ProcsFacts DEF SubmitAllow, Places, connVars, localVars, nodeVars, eventVars, workVars
  <2> QED BY <1>5, <2>1, <2>2
<1>12. ASSUME NEW m \in Miners, SubmitThrottled(m) PROVE AllGenuine'
  <2>1. NoneNew
    BY <1>1, <1>2, <1>12, ProcsFacts DEF Known, Places, HoldsWork, SubmitThrottled, connVars, localVars, nodeVars, eventVars, workVars
  <2>2. Same /\ current' = current
    BY <1>1, <1>2, <1>12, ProcsFacts DEF SubmitThrottled, Places, connVars, localVars, nodeVars, eventVars, workVars
  <2> QED BY <1>5, <2>1, <2>2
<1>13. ASSUME NEW m \in Miners, SubmitToNode(m) PROVE AllGenuine'
  <2>1. NoneNew
    BY <1>1, <1>2, <1>13, ProcsFacts DEF Known, Places, HoldsWork, SubmitToNode, connVars, localVars, nodeVars, eventVars, workVars
  <2>2. Same /\ current' = current
    BY <1>1, <1>2, <1>13, ProcsFacts DEF SubmitToNode, Places, connVars, localVars, nodeVars, eventVars, workVars
  <2> QED BY <1>5, <2>1, <2>2
<1>14. ASSUME NEW m \in Miners, BroadcastRead(m) PROVE AllGenuine'
  <2>1. NoneNew
    BY <1>1, <1>2, <1>14, ProcsFacts DEF Known, Places, HoldsWork, BroadcastRead, connVars, localVars, nodeVars, eventVars, workVars
  <2>2. Same /\ current' = current
    BY <1>1, <1>2, <1>14, ProcsFacts DEF BroadcastRead, Places, connVars, localVars, nodeVars, eventVars, workVars
  <2> QED BY <1>5, <2>1, <2>2
<1>15. ASSUME NEW p \in Procs, Snapshot(p) PROVE AllGenuine'
  <2>1. NoneNew
    BY <1>1, <1>2, <1>15, ProcsFacts DEF Known, Places, HoldsWork, Snapshot, connVars, localVars, nodeVars, eventVars, workVars
  <2>2. Same /\ current' = current
    BY <1>1, <1>2, <1>15, ProcsFacts DEF Snapshot, Places, connVars, localVars, nodeVars, eventVars, workVars
  <2> QED BY <1>5, <2>1, <2>2
<1>16. ASSUME NEW p \in Procs, NEW m \in Miners, Send(p, m) PROVE AllGenuine'
  <2>1. NoneNew
    BY <1>1, <1>2, <1>16, ProcsFacts DEF Known, Places, HoldsWork, Send, SendWork, connVars, localVars, nodeVars, eventVars, workVars
  <2>2. Same /\ current' = current
    BY <1>1, <1>2, <1>16, ProcsFacts DEF Send, SendWork, Places, connVars, localVars, nodeVars, eventVars, workVars
  <2> QED BY <1>5, <2>1, <2>2
<1>17. ASSUME NEW p \in Procs, SendDone(p) PROVE AllGenuine'
  <2>1. NoneNew
    BY <1>1, <1>2, <1>17, ProcsFacts DEF Known, Places, HoldsWork, SendDone, connVars, localVars, nodeVars, eventVars, workVars
  <2>2. Same /\ current' = current
    BY <1>1, <1>2, <1>17, ProcsFacts DEF SendDone, Places, connVars, localVars, nodeVars, eventVars, workVars
  <2> QED BY <1>5, <2>1, <2>2
<1>18. ASSUME NEW m \in Miners, RefreshSet(m) PROVE AllGenuine'
  <2>1. work[m] \in WM!Work /\ Genuine(work[m])
    BY <1>1, <1>2, <1>18, ProcsFacts DEF Places, HoldsWork, RefreshSet, AllGenuine, Known
  <2>2. PICK data \in Template : WM!SetCurrent(data) /\ data.parent = work[m].data.parent
    BY <1>18, <2>1, RefreshFacts
  <2>3. UNCHANGED <<announced, fetched, clean, job, told>> /\ work'[Main] = work[Main]
    BY <1>2, <1>18, ProcsFacts DEF RefreshSet, nodeVars, eventVars
  <2>4. Stays
    <3> SUFFICES ASSUME NEW w, Genuine(w) PROVE Genuine(w)'
      OBVIOUS
    <3>1. w.jobID \in 1..seq' /\ (WM!Resolves(w.jobID)' => jobs'[w.jobID] = w)
      BY <1>1, <2>2, ResolutionStays DEF Genuine
    <3> QED BY <2>3, <3>1 DEF Genuine, WM!Resolves
  <2>5. \/ UNCHANGED workVars
        \/ /\ seq' = seq + 1 /\ current' = [jobID |-> seq + 1, data |-> data]
           /\ \A id \in DOMAIN jobs' : \/ id = seq + 1 /\ jobs'[id] = current'
                                       \/ id \in DOMAIN jobs /\ jobs'[id] = jobs[id]
    BY <1>1, <2>2, SetCurrentFacts
  <2>6. NoneNew
    <3>1. \A id \in DOMAIN jobs' : \/ jobs'[id] = current'
                                   \/ id \in DOMAIN jobs /\ jobs'[id] = jobs[id]
      BY <2>5 DEF workVars
    <3>2. \A p \in Procs : work'[p] = work[p] \/ work'[p] = NoWork
      BY <1>2, <1>18 DEF RefreshSet
    <3> QED BY <2>3, <3>1, <3>2 DEF Known
  <2>7. ASSUME current' # NoWork PROVE Genuine(current)'
    <3>1. CASE UNCHANGED workVars
      <4>1. Known(current) /\ current' = current
        BY <2>7, <3>1 DEF Known, workVars
      <4> QED BY <2>4, <4>1 DEF AllGenuine
    <3>2. CASE seq' = seq + 1 /\ current' = [jobID |-> seq + 1, data |-> data]
      <4>1. current' \in WM!Work /\ current'.jobID = seq + 1 /\ current'.data = data
        BY <1>1, <2>2, <3>2, SetCurrentFacts
      <4>2. current'.jobID \in 1..seq' /\ jobs'[current'.jobID] = current'
        BY <1>1, <2>2, CurrentIssued
      <4>3. clean' => work'[Main].jobID <= seq
        <5>1. clean => work[Main] # NoWork /\ Known(work[Main])
          BY <1>1, ProcsFacts DEF Places, Known
        <5>2. clean => Genuine(work[Main])
          BY <5>1 DEF AllGenuine
        <5> QED BY <1>2, <2>3, <5>2 DEF Genuine
      <4>4. clean' => work'[Main].jobID \in Nat
        BY <1>1, <1>2, <2>3, ProcsFacts DEF Places, WM!Work
      <4>5. data.parent # 0 /\ (data.parent <= announced' \/ data.parent = fetched')
        BY <2>1, <2>2, <2>3 DEF Genuine
      <4>6. ~(clean' /\ current'.jobID < work'[Main].jobID)
        BY <1>2, <4>1, <4>3, <4>4
      <4>7. /\ current'.data.parent # 0
            /\ current'.data.parent <= announced' \/ current'.data.parent = fetched'
        BY <4>1, <4>5
      <4> QED BY <4>1, <4>2, <4>5, <4>6, <4>7 DEF Genuine
    <3> QED BY <2>5, <3>1, <3>2
  <2> QED BY <1>4, <2>4, <2>6, <2>7
<1>19. ASSUME NodeEvent PROVE AllGenuine'
  <2>1. PICK data \in Template, reason \in WM!Reasons :
             /\ ProcessWork(data, reason)
             /\ announced' \in Nat /\ fetched' \in Nat /\ announced' >= announced
             /\ fetched = 0 \/ fetched' = fetched
             /\ data.parent = announced' \/ data.parent = fetched'
             /\ reason = "NewParent" => announced' > announced /\ data.parent = announced'
             /\ data.parent # 0
    BY <1>1, <1>19, NodeFacts DEF TypeOK, Places
  <2>2. WM!SetCurrent(data) /\ UNCHANGED <<job, told>> /\ clean' = WM!Clean(data, reason)
    BY <2>1 DEF ProcessWork
  <2>3. /\ current' # NoWork /\ current' \in WM!Work /\ current'.data = data
        /\ \/ UNCHANGED workVars
           \/ /\ seq' = seq + 1 /\ current' = [jobID |-> seq + 1, data |-> data]
              /\ \A id \in DOMAIN jobs' : \/ id = seq + 1 /\ jobs'[id] = current'
                                          \/ id \in DOMAIN jobs /\ jobs'[id] = jobs[id]
    BY <1>1, <2>2, SetCurrentFacts
  <2>4. work'[Main] = current' /\ \A p \in Procs : work'[p] = work[p] \/ work'[p] = current'
    BY <1>2, <2>1, ProcsFacts DEF ProcessWork
  <2>5. clean' => reason = "NewParent"
    BY <2>2 DEF WM!Clean
  <2>6. announced \in Nat /\ fetched \in Nat /\ fetched <= announced + 1
    BY <1>1 DEF TypeOK, Places
  <2>10. announced' \in Nat /\ fetched' \in Nat /\ announced' >= announced
    BY <2>1
  <2>7. Stays
    <3> SUFFICES ASSUME NEW w, Genuine(w) PROVE Genuine(w)'
      OBVIOUS
    <3>1. w.jobID \in 1..seq' /\ (WM!Resolves(w.jobID)' => jobs'[w.jobID] = w)
      BY <1>1, <2>2, ResolutionStays DEF Genuine
    <3>2. /\ w \in WM!Work /\ w.data.parent # 0
          /\ w.data.parent <= announced \/ w.data.parent = fetched
      BY DEF Genuine
    <3>3. PICK a \in Nat, c \in Nat : a = w.data.parent /\ c = work'[Main].data.parent
      BY <2>3, <2>4, <3>2 DEF WM!Work, Template
    <3>4. a <= announced' \/ a = fetched'
      BY <2>1, <2>6, <3>2, <3>3
    <3>5. clean' => announced' > announced /\ c = announced'
      BY <2>1, <2>3, <2>4, <2>5, <3>3
    <3>6. ASSUME clean' PROVE a < c \/ (a = c /\ a = fetched')
      <4>1. announced' > announced /\ c = announced'
        BY <3>5, <3>6
      <4>2. CASE a <= announced
        BY <2>6, <2>10, <4>1, <4>2
      <4>3. CASE a = fetched /\ fetched' = fetched
        BY <2>6, <2>10, <4>1, <4>3
      <4>4. CASE a = fetched /\ fetched = 0
        BY <2>6, <2>10, <4>1, <4>4
      <4> QED BY <2>1, <3>2, <3>3, <4>2, <4>3, <4>4
    <3> QED BY <3>1, <3>2, <3>3, <3>4, <3>6 DEF Genuine, WM!Resolves
  <2>8. NoneNew
    <3>1. \A id \in DOMAIN jobs' : \/ jobs'[id] = current'
                                   \/ id \in DOMAIN jobs /\ jobs'[id] = jobs[id]
      BY <2>3 DEF workVars
    <3> QED BY <2>2, <2>4, <3>1 DEF Known
  <2>9. Genuine(current)'
    <3>1. current'.jobID \in 1..seq' /\ jobs'[current'.jobID] = current'
      BY <1>1, <2>2, CurrentIssued
    <3>2. ~(current'.jobID < work'[Main].jobID)
      BY <1>2, <2>3, <2>4, <3>1
    <3>3. /\ current'.data.parent # 0
          /\ current'.data.parent <= announced' \/ current'.data.parent = fetched'
      BY <2>1, <2>3
    <3> QED BY <2>3, <3>1, <3>2, <3>3 DEF Genuine
  <2> QED BY <1>4, <2>7, <2>8, <2>9
<1>20. CASE UNCHANGED vars
  <2>1. NoneNew /\ Same /\ current' = current
    BY <1>20 DEF vars, Known, connVars, localVars, nodeVars, eventVars, workVars
  <2> QED BY <1>5, <2>1
<1> HIDE DEF NoneNew, Stays, Same
<1> QED BY <1>6, <1>7, <1>8, <1>9, <1>10, <1>11, <1>12, <1>13, <1>14, <1>15, <1>16, <1>17,
           <1>18, <1>19, <1>20 DEF Next, HandlerStep, NodeEvent, Finished

LEMMA GenuineHolds == Spec => []AllGenuine
<1>1. Init => AllGenuine
  BY DEF Init, WM!Init, AllGenuine, Known
<1> QED BY <1>1, CoreHolds, GenuineStep, PTL DEF Spec

\* A miner can submit against every job it was sent until MaxJobs further ones were
\* issued, and is checked against the template it was sent, for any capacity.
THEOREM ToldJobsAlwaysResolve == Spec => []ToldJobsResolve
<1>1. Core /\ AllGenuine => ToldJobsResolve
  <2> SUFFICES ASSUME Core, AllGenuine, NEW m \in Miners, NEW w \in told[m]
               PROVE  /\ seq < w.jobID + MaxJobs => WM!Resolves(w.jobID)
                      /\ WM!Resolves(w.jobID) => jobs[w.jobID] = w
    BY DEF ToldJobsResolve
  <2>1. told[m] \subseteq WM!Work /\ NoWork \notin WM!Work
    BY RegistryAssumption DEF Core, TypeOK, WM!Work
  <2>2. Genuine(w)
    BY <2>1 DEF AllGenuine, Known
  <2>3. seq < w.jobID + MaxJobs => w.jobID \in DOMAIN jobs
    BY <2>2, RegistryFacts DEF Core, Genuine
  <2> QED BY <2>2, <2>3 DEF Genuine, WM!Resolves
<1> QED BY <1>1, CoreHolds, GenuineHolds, PTL

\* A clean notification discards only jobs of earlier parents, or of the parent of the
\* template Connect fetched, whichever order that template and the announcements of
\* the node arrive in.
THEOREM CleanIsSafe == Spec => CleanDiscardsOnlyOlder
<1> DEFINE Discardable(w) == \/ w.data.parent < work[Main].data.parent
                             \/ w.data.parent = work[Main].data.parent
                                /\ w.data.parent = fetched
                             \/ w.jobID >= work[Main].jobID
           Step == \A m \in Miners :
                      clean /\ Send(Main, m) => \A w \in told[m] : Discardable(w)
<1>1. Core /\ AllGenuine => Step
  <2> SUFFICES ASSUME Core, AllGenuine, NEW m \in Miners, clean, NEW w \in told[m]
               PROVE  Discardable(w)
    OBVIOUS
  <2>1. told[m] \subseteq WM!Work /\ NoWork \notin WM!Work
    BY RegistryAssumption DEF Core, TypeOK, WM!Work
  <2>2. Genuine(w)
    BY <2>1 DEF AllGenuine, Known
  <2>3. work[Main] \in WM!Work
    BY ProcsFacts DEF Core, TypeOK, Places
  <2>4. w.jobID \in Nat /\ work[Main].jobID \in Nat
    BY <2>1, <2>3 DEF WM!Work
  <2> QED BY <2>2, <2>4 DEF Genuine
<1>2. Core /\ AllGenuine /\ [Next]_vars => [Step]_vars
  BY <1>1
<1> HIDE DEF Step
<1>3. Spec => [][Step]_vars
  BY <1>2, CoreHolds, GenuineHolds, PTL DEF Spec
<1> QED BY <1>3 DEF Step, CleanDiscardsOnlyOlder

\* Only the main loop changes what the node announced.
LEMMA OnlyNodeAnnounces ==
    ASSUME [Next]_vars, announced' # announced PROVE NodeEvent
BY DEF Next, HandlerStep, NodeEvent, Finished, vars, nodeVars, eventVars, Connect, Disconnect,
       Subscribe, SubscribeSend, Submit, SubmitAllow, SubmitThrottled, SubmitToNode, RefreshSet,
       BroadcastRead, Snapshot, Send, SendDone

\* A new parent is announced to the miners as clean, whatever handlers refreshed in
\* between, unless it is the parent of the template Connect fetched: a job at work that
\* equals the announced template can only be that one.
THEOREM NewParentsAreClean == Spec => NewParentIsClean
<1> DEFINE Step ==
             announced' > announced /\ (\E m \in clients : \E w \in told[m] : w.data.parent < announced')
                => clean' \/ announced' = fetched
<1>1. Core /\ AllGenuine /\ [Next]_vars => Step
  <2> SUFFICES ASSUME Core, AllGenuine, [Next]_vars, announced' > announced, NEW m \in clients,
                      NEW w \in told[m], w.data.parent < announced', ~clean'
               PROVE  announced' = fetched
    OBVIOUS
  <2>1. /\ TypeOK /\ Registry /\ Dense /\ Places /\ m \in Miners
        /\ announced \in Nat /\ fetched \in Nat /\ told[m] \subseteq WM!Work
        /\ NoWork \notin WM!Work
    BY RegistryAssumption DEF Core, TypeOK, WM!Work
  <2>2. NodeEvent
    BY <2>1, OnlyNodeAnnounces
  <2>3. PICK data \in Template, reason \in WM!Reasons :
             /\ ProcessWork(data, reason) /\ announced' \in Nat
             /\ fetched = 0 \/ fetched' = fetched
             /\ reason = "NewParent" => data.parent = announced'
             /\ reason = "NewParent" \/ announced' = announced \/ announced' <= 1
    BY <2>1, <2>2, NodeFacts DEF Places
  <2>4. w \in WM!Work /\ w.data.parent \in Nat /\ w.data.parent # 0
    BY <2>1 DEF AllGenuine, Known, Genuine, WM!Work, Template
  <2>5. reason = "NewParent" /\ data.parent = announced'
    BY <2>1, <2>3, <2>4
  <2>6. WM!Duplicate(data)
    BY <2>3, <2>5 DEF ProcessWork, WM!Clean
  <2>7. Genuine(current) /\ current.data = data
    BY <2>6 DEF WM!Duplicate, AllGenuine, Known
  <2> QED BY <2>1, <2>3, <2>5, <2>7 DEF Genuine
<1>2. Core /\ AllGenuine /\ [Next]_vars => [Step]_vars
  BY <1>1
<1> HIDE DEF Step
<1>3. Spec => [][Step]_vars
  BY <1>2, CoreHolds, GenuineHolds, PTL DEF Spec
<1> QED BY <1>3 DEF Step, NewParentIsClean

-----------------------------------------------------------------------------
\* Goroutine p has still to send the current job to connection m: it is about to
\* read it, or holds it and has m on its list.
Delivers(p, m) ==
    \/ p = m /\ pc[p] = "sendCurrent" /\ work[p] = current
    \/ pc[p] = "broadcast"
    \/ pc[p] = "snapshot" /\ work[p] = current
    \/ pc[p] = "send" /\ work[p] = current /\ m \in todo[p]

\* A subscriber that was not sent the current job is going to be.
NobodyForgotten ==
    current # NoWork =>
        \A m \in clients \cap subscribed :
            current \in told[m] \/ \E p \in Procs : Delivers(p, m)

LEMMA ForgottenStep == Core /\ NobodyForgotten /\ [Next]_vars => NobodyForgotten'
<1> SUFFICES ASSUME Core, NobodyForgotten, [Next]_vars PROVE NobodyForgotten'
  OBVIOUS
<1>1. /\ Places /\ pc \in [Procs -> PCs] /\ work \in [Procs -> WM!Work \cup {NoWork}]
      /\ told \in [Miners -> SUBSET WM!Work] /\ todo \in [Procs -> SUBSET Miners]
      /\ clients \subseteq Miners /\ clients \cap gone = {}
  BY DEF Core, TypeOK
<1> DEFINE NoneLost == /\ clients' \cap subscribed' \subseteq clients \cap subscribed
                       /\ current' = current
                       /\ \A x \in clients' :
                             /\ told[x] \subseteq told'[x]
                             /\ \A q \in Procs : Delivers(q, x) =>
                                   Delivers(q, x)' \/ current \in told'[x]
<1>2. ASSUME NoneLost PROVE NobodyForgotten'
  BY <1>2 DEF NobodyForgotten
<1>3. ASSUME NEW p \in Procs, \A x \in clients' : Delivers(p, x)' PROVE NobodyForgotten'
  BY <1>3 DEF NobodyForgotten
<1>4. ASSUME NEW m \in Miners, Connect(m) PROVE NoneLost
  BY <1>1, <1>4, ProcsFacts DEF Delivers, Places, Connect, connVars, localVars, nodeVars, eventVars, workVars
<1>5. ASSUME NEW m \in Miners, Disconnect(m) PROVE NoneLost
  BY <1>1, <1>5, ProcsFacts DEF Delivers, Places, Disconnect, connVars, localVars, nodeVars, eventVars, workVars
<1>6. ASSUME NEW m \in Miners, SubscribeSend(m) PROVE NoneLost
  BY <1>1, <1>6, ProcsFacts DEF Delivers, Places, SubscribeSend, SendWork, Goto, connVars, localVars, nodeVars, eventVars, workVars
<1>7. ASSUME NEW m \in Miners, NEW id \in 1..seq, NEW isBlock \in BOOLEAN, Submit(m, id, isBlock) PROVE NoneLost
  BY <1>1, <1>7, ProcsFacts DEF Delivers, Places, Submit, SubmitAnswered, SubmitBlock, Goto, connVars, localVars, nodeVars, eventVars, workVars
<1>8. ASSUME NEW m \in Miners, SubmitAllow(m) PROVE NoneLost
  BY <1>1, <1>8, ProcsFacts DEF Delivers, Places, SubmitAllow, Goto, connVars, localVars, nodeVars, eventVars, workVars
<1>9. ASSUME NEW m \in Miners, SubmitThrottled(m) PROVE NoneLost
  BY <1>1, <1>9, ProcsFacts DEF Delivers, Places, SubmitThrottled, Goto, connVars, localVars, nodeVars, eventVars, workVars
<1>10. ASSUME NEW m \in Miners, SubmitToNode(m) PROVE NoneLost
  BY <1>1, <1>10, ProcsFacts DEF Delivers, Places, SubmitToNode, Goto, connVars, localVars, nodeVars, eventVars, workVars
<1>11. ASSUME NEW p \in Procs, Snapshot(p) PROVE NoneLost
  BY <1>1, <1>11, ProcsFacts DEF Delivers, Places, Snapshot, Goto, connVars, localVars, nodeVars, eventVars, workVars
<1>12. ASSUME NEW p \in Procs, NEW m \in Miners, Send(p, m) PROVE NoneLost
  BY <1>1, <1>12, ProcsFacts DEF Delivers, Places, Send, SendWork, connVars, localVars, nodeVars, eventVars, workVars
<1>13. ASSUME NEW p \in Procs, SendDone(p) PROVE NoneLost
  BY <1>1, <1>13, ProcsFacts DEF Delivers, Places, SendDone, Goto, connVars, localVars, nodeVars, eventVars, workVars
<1>14. ASSUME NEW m \in Miners, Subscribe(m) PROVE NobodyForgotten'
  <2>1. /\ clients' = clients /\ subscribed' = subscribed \cup {m} /\ told' = told
        /\ current' = current /\ todo' = todo
        /\ pc[m] = "read" /\ work' = [work EXCEPT ![m] = current]
        /\ Goto(m, IF current = NoWork THEN "read" ELSE "sendCurrent")
    BY <1>14 DEF Subscribe, workVars
  <2>2. ASSUME current # NoWork, NEW x \in clients' \cap subscribed'
        PROVE  current' \in told'[x] \/ \E q \in Procs : Delivers(q, x)'
    <3>1. CASE x = m
      <4>1. m \in Procs /\ pc'[m] = "sendCurrent" /\ work'[m] = current'
        BY <1>1, <2>1, <2>2, ProcsFacts DEF Goto
      <4> QED BY <3>1, <4>1 DEF Delivers
    <3>2. CASE x # m
      <4>1. x \in clients \cap subscribed
        BY <2>1, <2>2, <3>2
      <4>2. \A q \in Procs : Delivers(q, x) => Delivers(q, x)'
        BY <1>1, <2>1, <3>2, ProcsFacts DEF Delivers, Goto
      <4> QED BY <2>1, <2>2, <4>1, <4>2 DEF NobodyForgotten
    <3> QED BY <3>1, <3>2
  <2> QED BY <2>1, <2>2 DEF NobodyForgotten
<1>15. ASSUME NEW m \in Miners, RefreshSet(m) PROVE NobodyForgotten'
  <2>1. m \in Procs /\ pc'[m] = "broadcast"
    BY <1>1, <1>15, ProcsFacts DEF RefreshSet, Goto
  <2> QED BY <1>3, <2>1 DEF Delivers
<1>16. ASSUME NEW m \in Miners, BroadcastRead(m) PROVE NobodyForgotten'
  <2>1. m \in Procs /\ pc'[m] = "snapshot" /\ work'[m] = current'
    BY <1>1, <1>16, ProcsFacts DEF BroadcastRead, Goto, workVars
  <2> QED BY <1>3, <2>1 DEF Delivers
<1>17. ASSUME NodeEvent PROVE NobodyForgotten'
  <2>1. PICK data, reason : ProcessWork(data, reason)
    BY <1>17, EventIsWork
  <2>2. Main \in Procs /\ pc'[Main] = "snapshot" /\ work'[Main] = current'
    BY <1>1, <2>1, ProcsFacts DEF ProcessWork, Goto
  <2> QED BY <1>3, <2>2 DEF Delivers
<1>18. CASE UNCHANGED vars
  BY <1>2, <1>18 DEF vars, Delivers, connVars, localVars, nodeVars, eventVars, workVars
<1> HIDE DEF NoneLost
<1> QED BY <1>2, <1>4, <1>5, <1>6, <1>7, <1>8, <1>9, <1>10, <1>11, <1>12, <1>13, <1>14,
           <1>15, <1>16, <1>17, <1>18 DEF Next, HandlerStep, NodeEvent, Finished

LEMMA ForgottenHolds == Spec => []NobodyForgotten
<1>1. Init => NobodyForgotten
  BY DEF Init, NobodyForgotten
<1> QED BY <1>1, CoreHolds, ForgottenStep, PTL DEF Spec

\* No subscriber misses work, for any number of miners: once the goroutines are back
\* at their loops every subscriber still connected was sent the current job.
THEOREM NoSubscriberMissesWork == Spec => []NoMissedWork
<1>1. NobodyForgotten => NoMissedWork
  BY DEF NobodyForgotten, NoMissedWork, Quiet, Delivers
<1> QED BY <1>1, ForgottenHolds, PTL

-----------------------------------------------------------------------------
\* From the decision to discard a block to the end of its broadcast, the handler
\* is bound to send its own miner a job newer than the one that was solved.
FresherFor(m) ==
    /\ pc[m] = "setCurrent" => work[m].jobID >= job[m].jobID
    /\ pc[m] = "broadcast" => seq > job[m].jobID
    /\ pc[m] \in {"snapshot", "send"} => work[m].jobID > job[m].jobID
    /\ pc[m] = "send" => m \in todo[m] \/ work[m] \in told[m]

Fresher == \A m \in Miners : FresherFor(m)

\* A step that installs a template does not lower the counter.
LEMMA SeqGrows ==
    ASSUME Registry, Dense, NEW data \in Template, WM!SetCurrent(data)
    PROVE  seq \in Nat /\ seq' \in Nat /\ seq' >= seq
<1>1. seq \in Nat /\ (seq' = seq \/ seq' = seq + 1)
  BY SetCurrentFacts, RegistryFacts DEF workVars
<1> QED BY <1>1

\* The later timestamp makes it a template that is not the refreshed job's: were it
\* current already, the current job would be a newer one.
LEMMA RefreshIsNewer ==
    ASSUME Core, AllGenuine, NEW m \in Miners, RefreshSet(m)
    PROVE  work[m].jobID \in Nat /\ seq' \in Nat /\ seq' > work[m].jobID
<1>1. Registry /\ Dense /\ work[m] \in WM!Work /\ work[m] # NoWork
  BY ProcsFacts DEF Core, TypeOK, Places, HoldsWork, RefreshSet
<1>2. Genuine(work[m])
  BY <1>1, ProcsFacts DEF AllGenuine, Known
<1>3. PICK data \in Template : /\ data.ts > work[m].data.ts
                               /\ WM!SetCurrent(data)
  BY <1>1, RefreshFacts
<1>4. seq \in Nat /\ work[m].jobID \in 1..seq
  BY <1>1, <1>2, RegistryFacts DEF Genuine
<1>5. CASE UNCHANGED workVars
  <2>1. current # NoWork /\ current.data = data /\ seq' = seq
    BY <1>1, <1>3, <1>5, SetCurrentFacts DEF workVars
  <2>2. current # work[m]
    <3>1. work[m].data.ts \in Nat
      BY <1>1 DEF WM!Work, Template
    <3> QED BY <1>3, <2>1, <3>1
  <2>3. work[m].jobID # seq
    <3>1. seq \in DOMAIN jobs /\ jobs[seq] = current
      BY <1>1, <2>1, RegistryFacts
    <3> QED BY <1>2, <2>2, <3>1 DEF Genuine, WM!Resolves
  <2> QED BY <1>4, <2>1, <2>3
<1>6. CASE seq' = seq + 1
  BY <1>4, <1>6
<1> QED BY <1>1, <1>3, <1>5, <1>6, SetCurrentFacts

LEMMA FresherStep == Core /\ AllGenuine /\ Fresher /\ [Next]_vars => Fresher'
<1> SUFFICES ASSUME Core, AllGenuine, Fresher, [Next]_vars, NEW x \in Miners
             PROVE  FresherFor(x)'
  BY DEF Fresher
<1>1. /\ Places /\ pc \in [Procs -> PCs] /\ work \in [Procs -> WM!Work \cup {NoWork}]
      /\ told \in [Miners -> SUBSET WM!Work] /\ todo \in [Procs -> SUBSET Miners]
      /\ job \in [Miners -> WM!Work \cup {NoWork}]
      /\ clients \subseteq Miners /\ clients \cap gone = {}
      /\ Registry /\ Dense /\ seq \in Nat /\ x \in Procs
  BY RegistryFacts, ProcsFacts DEF Core, TypeOK
<1>2. FresherFor(x)
  BY DEF Fresher
<1>3. job[x] # NoWork => job[x].jobID \in 1..seq
  BY <1>1 DEF AllGenuine, Known, Genuine
<1>4. pc[x] \in HoldsJob => job[x].jobID \in 1..seq
  BY <1>1, <1>3 DEF Places
<1>5. ASSUME NEW m \in Miners, Connect(m) PROVE FresherFor(x)'
  BY <1>1, <1>2, <1>5, ProcsFacts DEF FresherFor, Places, Connect, connVars, localVars, nodeVars, eventVars, workVars
<1>6. ASSUME NEW m \in Miners, Disconnect(m) PROVE FresherFor(x)'
  BY <1>1, <1>2, <1>6, ProcsFacts DEF FresherFor, Places, Disconnect, connVars, localVars, nodeVars, eventVars, workVars
<1>7. ASSUME NEW m \in Miners, Subscribe(m) PROVE FresherFor(x)'
  BY <1>1, <1>2, <1>7, ProcsFacts DEF FresherFor, Places, Subscribe, Goto, connVars, localVars, nodeVars, eventVars, workVars
<1>8. ASSUME NEW m \in Miners, SubscribeSend(m) PROVE FresherFor(x)'
  BY <1>1, <1>2, <1>8, ProcsFacts DEF FresherFor, Places, SubscribeSend, SendWork, Goto, connVars, localVars, nodeVars, eventVars, workVars
<1>9. ASSUME NEW m \in Miners, NEW id \in 1..seq, NEW isBlock \in BOOLEAN, Submit(m, id, isBlock) PROVE FresherFor(x)'
  BY <1>1, <1>2, <1>9, ProcsFacts DEF FresherFor, Places, Submit, SubmitAnswered, SubmitBlock, Goto, connVars, localVars, nodeVars, eventVars, workVars
<1>10. ASSUME NEW m \in Miners, SubmitAllow(m) PROVE FresherFor(x)'
  BY <1>1, <1>2, <1>10, ProcsFacts DEF FresherFor, Places, SubmitAllow, Goto, connVars, localVars, nodeVars, eventVars, workVars
<1>11. ASSUME NEW m \in Miners, SubmitToNode(m) PROVE FresherFor(x)'
  BY <1>1, <1>2, <1>11, ProcsFacts DEF FresherFor, Places, SubmitToNode, Goto, connVars, localVars, nodeVars, eventVars, workVars
<1>12. ASSUME NEW p \in Procs, Snapshot(p) PROVE FresherFor(x)'
  BY <1>1, <1>2, <1>12, ProcsFacts DEF FresherFor, Places, Snapshot, Goto, connVars, localVars, nodeVars, eventVars, workVars
<1>13. ASSUME NEW p \in Procs, NEW m \in Miners, Send(p, m) PROVE FresherFor(x)'
  BY <1>1, <1>2, <1>13, ProcsFacts DEF FresherFor, Places, Send, SendWork, connVars, localVars, nodeVars, eventVars, workVars
<1>14. ASSUME NEW p \in Procs, SendDone(p) PROVE FresherFor(x)'
  BY <1>1, <1>2, <1>14, ProcsFacts DEF FresherFor, Places, SendDone, Goto, connVars, localVars, nodeVars, eventVars, workVars
<1>15. ASSUME NEW m \in Miners, SubmitThrottled(m) PROVE FresherFor(x)'
  <2>1. CASE x = m
    <3>1. pc[x] = "throttled" /\ current # NoWork /\ job[x].jobID \in 1..seq
      BY <1>1, <1>4, <1>15, <2>1 DEF Places, HoldsJob, SubmitThrottled
    <3>2. current.jobID = seq
      BY <1>1, <3>1, RegistryFacts
    <3>3. pc'[x] = "setCurrent" /\ work'[x] = current /\ job' = job
      BY <1>1, <1>15, <2>1 DEF SubmitThrottled, Goto
    <3>4. work'[x].jobID >= job'[x].jobID
      BY <1>1, <3>1, <3>2, <3>3
    <3> QED BY <3>3, <3>4 DEF FresherFor
  <2>2. CASE x # m
    BY <1>1, <1>2, <1>15, <2>2 DEF FresherFor, SubmitThrottled, Goto, workVars
  <2> QED BY <2>1, <2>2
<1>16. ASSUME NEW m \in Miners, RefreshSet(m) PROVE FresherFor(x)'
  <2>1. job' = job /\ todo' = todo /\ told' = told /\ m \in Procs
    BY <1>16, ProcsFacts DEF RefreshSet
  <2>2. CASE x = m
    <3>1. pc[x] = "setCurrent" /\ pc'[x] = "broadcast"
      BY <1>1, <1>16, <2>2 DEF RefreshSet, Goto
    <3>2. work[x].jobID >= job[x].jobID /\ job[x].jobID \in 1..seq
      BY <1>2, <1>4, <3>1 DEF FresherFor, HoldsJob
    <3>3. work[x].jobID \in Nat /\ seq' \in Nat /\ seq' > work[x].jobID
      BY <1>16, <2>2, RefreshIsNewer
    <3>4. seq' > job'[x].jobID
      BY <1>1, <2>1, <3>2, <3>3
    <3> QED BY <3>1, <3>4 DEF FresherFor
  <2>3. CASE x # m
    <3>1. pc'[x] = pc[x] /\ work'[x] = work[x]
      BY <1>1, <1>16, <2>3 DEF RefreshSet, Goto
    <3>2. work[m] \in WM!Work
      BY <1>1, <1>16, <2>1 DEF Places, HoldsWork, RefreshSet
    <3>3. seq' \in Nat /\ seq' >= seq
      BY <1>1, <1>16, <3>2, RefreshFacts, SeqGrows
    <3>4. pc[x] = "broadcast" => seq' > job[x].jobID
      BY <1>1, <1>2, <1>4, <3>3 DEF FresherFor, HoldsJob
    <3> QED BY <1>2, <2>1, <3>1, <3>4 DEF FresherFor
  <2> QED BY <2>2, <2>3
<1>17. ASSUME NEW m \in Miners, BroadcastRead(m) PROVE FresherFor(x)'
  <2>1. CASE x = m
    <3>1. pc[x] = "broadcast" /\ current # NoWork /\ seq > job[x].jobID
      BY <1>1, <1>2, <1>17, <2>1 DEF Places, HoldsJob, BroadcastRead, FresherFor
    <3>2. current.jobID = seq
      BY <1>1, <3>1, RegistryFacts
    <3>3. pc'[x] = "snapshot" /\ work'[x] = current /\ job' = job
      BY <1>1, <1>17, <2>1 DEF BroadcastRead, Goto
    <3> QED BY <3>1, <3>2, <3>3 DEF FresherFor
  <2>2. CASE x # m
    BY <1>1, <1>2, <1>17, <2>2 DEF FresherFor, BroadcastRead, Goto, workVars
  <2> QED BY <2>1, <2>2
<1>18. ASSUME NodeEvent PROVE FresherFor(x)'
  <2>1. PICK data \in Template, reason \in WM!Reasons : ProcessWork(data, reason)
    BY <1>18, NodeFacts DEF Core, TypeOK, Places
  <2>2. seq' \in Nat /\ seq' >= seq
    BY <1>1, <2>1, SeqGrows DEF ProcessWork
  <2>3. /\ pc'[x] = pc[x] /\ work'[x] = work[x]
        /\ job' = job /\ todo' = todo /\ told' = told
    BY <1>1, <2>1, ProcsFacts DEF ProcessWork, Goto
  <2>4. pc[x] = "broadcast" => seq' > job[x].jobID
    BY <1>1, <1>2, <1>4, <2>2 DEF FresherFor, HoldsJob
  <2> QED BY <1>2, <2>3, <2>4 DEF FresherFor
<1>19. CASE UNCHANGED vars
  BY <1>2, <1>19 DEF vars, FresherFor, localVars, workVars
<1> QED BY <1>5, <1>6, <1>7, <1>8, <1>9, <1>10, <1>11, <1>12, <1>13, <1>14, <1>15, <1>16,
           <1>17, <1>18, <1>19 DEF Next, HandlerStep, NodeEvent, Finished

LEMMA FresherHolds == Spec => []Fresher
<1>1. Init => Fresher
  BY ProcsFacts DEF Init, Fresher, FresherFor
<1> QED BY <1>1, CoreHolds, GenuineHolds, FresherStep, PTL DEF Spec

\* Only the end of its own broadcast takes a handler from sending to its read loop.
LEMMA LeavesSend ==
    ASSUME pc \in [Procs -> PCs], [Next]_vars, NEW x \in Miners,
           pc[x] = "send", pc'[x] = "read"
    PROVE  SendDone(x)
<1> SUFFICES ASSUME ~SendDone(x) PROVE pc'[x] = pc[x]
  BY Zenon
<1>1. ASSUME NEW m \in Miners, Connect(m) PROVE pc'[x] = pc[x]
  BY <1>1, ProcsFacts DEF Connect
<1>2. ASSUME NEW m \in Miners, Disconnect(m) PROVE pc'[x] = pc[x]
  BY <1>2, ProcsFacts DEF Disconnect
<1>3. ASSUME NEW m \in Miners, Subscribe(m) PROVE pc'[x] = pc[x]
  BY <1>3, ProcsFacts DEF Subscribe, Goto
<1>4. ASSUME NEW m \in Miners, SubscribeSend(m) PROVE pc'[x] = pc[x]
  BY <1>4, ProcsFacts DEF SubscribeSend, Goto
<1>5. ASSUME NEW m \in Miners, NEW id \in 1..seq, NEW isBlock \in BOOLEAN, Submit(m, id, isBlock) PROVE pc'[x] = pc[x]
  BY <1>5, ProcsFacts DEF Submit, SubmitAnswered, SubmitBlock, Goto
<1>6. ASSUME NEW m \in Miners, SubmitAllow(m) PROVE pc'[x] = pc[x]
  BY <1>6, ProcsFacts DEF SubmitAllow, Goto
<1>7. ASSUME NEW m \in Miners, SubmitToNode(m) PROVE pc'[x] = pc[x]
  BY <1>7, ProcsFacts DEF SubmitToNode, Goto
<1>8. ASSUME NEW p \in Procs, Snapshot(p) PROVE pc'[x] = pc[x]
  BY <1>8, ProcsFacts DEF Snapshot, Goto
<1>9. ASSUME NEW p \in Procs, NEW m \in Miners, Send(p, m) PROVE pc'[x] = pc[x]
  BY <1>9, ProcsFacts DEF Send
<1>10. ASSUME NEW m \in Miners, SubmitThrottled(m) PROVE pc'[x] = pc[x]
  BY <1>10, ProcsFacts DEF SubmitThrottled, Goto
<1>11. ASSUME NEW m \in Miners, RefreshSet(m) PROVE pc'[x] = pc[x]
  BY <1>11, ProcsFacts DEF RefreshSet, Goto
<1>12. ASSUME NEW m \in Miners, BroadcastRead(m) PROVE pc'[x] = pc[x]
  BY <1>12, ProcsFacts DEF BroadcastRead, Goto
<1>13. ASSUME NodeEvent PROVE pc'[x] = pc[x]
  <2>1. PICK data, reason : ProcessWork(data, reason)
    BY <1>13, EventIsWork
  <2> QED BY <2>1, ProcsFacts DEF ProcessWork, Goto
<1>14. ASSUME NEW p \in Procs, SendDone(p) PROVE pc'[x] = pc[x]
  BY <1>14, ProcsFacts DEF SendDone, Goto
<1>15. CASE UNCHANGED vars
  BY <1>15 DEF vars
<1> QED BY <1>1, <1>2, <1>3, <1>4, <1>5, <1>6, <1>7, <1>8, <1>9, <1>10, <1>11, <1>12,
           <1>13, <1>14, <1>15 DEF Next, HandlerStep, NodeEvent, Finished

\* When the handler of a discarded block returns, its miner was sent a newer job than
\* the one it solved, whatever the main loop and the other handlers did meanwhile.
THEOREM DiscardGivesFreshWork == Spec => FreshWorkAfterThrottle
<1> DEFINE Step == \A m \in Miners :
                      pc[m] = "send" /\ pc'[m] = "read" =>
                          \E w \in told[m] : w.jobID > job[m].jobID
<1>1. Core /\ Fresher /\ [Next]_vars => Step
  <2> SUFFICES ASSUME Core, Fresher, [Next]_vars, NEW m \in Miners,
                      pc[m] = "send", pc'[m] = "read"
               PROVE  \E w \in told[m] : w.jobID > job[m].jobID
    OBVIOUS
  <2>1. SendDone(m)
    BY LeavesSend DEF Core, TypeOK
  <2>2. work[m] \in told[m] /\ work[m].jobID > job[m].jobID
    BY <2>1 DEF SendDone, Fresher, FresherFor
  <2> QED BY <2>2
<1>2. Core /\ Fresher /\ [Next]_vars => [Step]_vars
  BY <1>1
<1> HIDE DEF Step
<1>3. Spec => [][Step]_vars
  BY <1>2, CoreHolds, FresherHolds, PTL DEF Spec
<1> QED BY <1>3 DEF Step, FreshWorkAfterThrottle
=============================================================================
