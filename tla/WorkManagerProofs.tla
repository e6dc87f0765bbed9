------------------------- MODULE WorkManagerProofs --------------------------
(***************************************************************************)
(* Proofs about the job registry, for every set of templates and every     *)
(* capacity.  IInv, the conjunction of the three invariants that TLC       *)
(* checks, is inductive: the identifiers of the slice are strictly         *)
(* increasing and bounded by seq, so a fresh identifier extends the slice  *)
(* without a repetition, and evicting the head removes exactly one key.    *)
(***************************************************************************)
EXTENDS WorkManager, SequenceTheorems, TLAPS

IInv == TypeOK /\ RegistryInv /\ CurrentResolves

\* The identifiers the registry keeps when one more job comes in.
LEMMA KeptFacts ==
    ASSUME IInv
    PROVE  /\ Kept \in Seq(Nat)
           /\ Len(Kept) < MaxJobs
           /\ \A i, j \in DOMAIN Kept : i < j => Kept[i] < Kept[j]
           /\ {Kept[i] : i \in DOMAIN Kept} = DOMAIN jobs \ Evicted
           /\ \A id \in Evicted :
                 /\ Len(Kept) = MaxJobs - 1
                 /\ \A other \in DOMAIN jobs \ Evicted : other > id
<1> USE MaxJobsAssumption
<1>1. CASE Len(order) < MaxJobs
  <2>1. Kept = order /\ Evicted = {}
    BY <1>1 DEF Kept, Evicted, IInv, TypeOK
  <2> QED
    BY <1>1, <2>1 DEF IInv, TypeOK, RegistryInv
<1>2. CASE Len(order) >= MaxJobs
  <2>1. order \in Seq(Nat) /\ order # << >> /\ Len(order) = MaxJobs
    BY <1>2 DEF IInv, TypeOK, RegistryInv
  <2>2. Kept = Tail(order) /\ Evicted = {order[1]}
    BY <1>2 DEF Kept, Evicted
  <2>3. /\ Tail(order) \in Seq(Nat)
        /\ Len(Tail(order)) = Len(order) - 1
        /\ \A i \in 1..(Len(order) - 1) : Tail(order)[i] = order[i + 1]
    BY <2>1, HeadTailProperties
  <2>4. DOMAIN Kept = 1..(Len(order) - 1) /\ DOMAIN order = 1..Len(order)
    BY <2>1, <2>2, <2>3, LenProperties
  <2>5. \A i, j \in DOMAIN Kept : i < j => Kept[i] < Kept[j]
    BY <2>1, <2>2, <2>3, <2>4 DEF IInv, RegistryInv
  <2>6. {Kept[i] : i \in DOMAIN Kept} = DOMAIN jobs \ Evicted
    <3>1. ASSUME NEW i \in DOMAIN Kept
          PROVE  Kept[i] \in DOMAIN jobs /\ Kept[i] # order[1]
      <4>1. Kept[i] = order[i + 1] /\ i + 1 \in DOMAIN order /\ 1 < i + 1
        BY <2>1, <2>2, <2>3, <2>4
      <4>2. order[1] < order[i + 1] /\ order[1] \in Nat
        BY <4>1, <2>1, <2>4 DEF IInv, RegistryInv
      <4> QED
        BY <4>1, <4>2 DEF IInv, RegistryInv
    <3>2. ASSUME NEW id \in DOMAIN jobs, id # order[1]
          PROVE  \E i \in DOMAIN Kept : id = Kept[i]
      <4>1. PICK k \in DOMAIN order : id = order[k]
        BY DEF IInv, RegistryInv
      <4>2. k \in 2..Len(order)
        BY <4>1, <3>2, <2>1, <2>4
      <4>3. k - 1 \in DOMAIN Kept /\ Kept[k - 1] = order[k]
        BY <4>2, <2>1, <2>2, <2>3, <2>4
      <4> QED
        BY <4>1, <4>3
    <3> QED
      BY <3>1, <3>2, <2>2
  <2>7. \A other \in DOMAIN jobs \ Evicted : other > order[1]
    <3> SUFFICES ASSUME NEW other \in DOMAIN jobs, other # order[1]
                 PROVE  other > order[1]
      BY <2>2
    <3>1. PICK k \in DOMAIN order : other = order[k]
      BY DEF IInv, RegistryInv
    <3>2. 1 \in DOMAIN order /\ 1 < k
      BY <3>1, <2>1, <2>4
    <3>3. order[1] < order[k] /\ order[1] \in Nat /\ order[k] \in Nat
      BY <3>1, <3>2, <2>1 DEF IInv, RegistryInv
    <3> QED
      BY <3>1, <3>3
  <2> QED
    BY <2>1, <2>2, <2>3, <2>5, <2>6, <2>7
<1> QED
  BY <1>1, <1>2 DEF IInv, TypeOK

\* Registering the next identifier keeps the registry consistent.
LEMMA RegisterKeeps ==
    ASSUME IInv, NEW data \in ValidData, seq' = seq + 1,
           Register([jobID |-> seq + 1, data |-> data])
    PROVE  IInv'
<1> DEFINE work == [jobID |-> seq + 1, data |-> data]
           n == Len(Kept) + 1
<1>1. seq \in Nat /\ work \in Work /\ work.jobID = seq + 1 /\ work.data = data
  BY ValidDataAssumption DEF IInv, TypeOK, Work
<1>2. /\ current' = work
      /\ order' = Append(Kept, seq + 1)
      /\ jobs' = [id \in (DOMAIN jobs \ Evicted) \cup {seq + 1} |->
                     IF id = seq + 1 THEN work ELSE jobs[id]]
  BY <1>1 DEF Register
<1>3. /\ Kept \in Seq(Nat)
      /\ Len(Kept) < MaxJobs
      /\ \A i, j \in DOMAIN Kept : i < j => Kept[i] < Kept[j]
      /\ {Kept[i] : i \in DOMAIN Kept} = DOMAIN jobs \ Evicted
  BY KeptFacts
<1>4. /\ order' \in Seq(Nat)
      /\ Len(order') = n
      /\ DOMAIN order' = 1..n
      /\ DOMAIN Kept = 1..(n - 1)
      /\ order'[n] = seq + 1
      /\ \A i \in 1..(n - 1) : order'[i] = Kept[i]
  BY <1>1, <1>2, <1>3, AppendProperties, LenProperties
<1>5. n \in Nat \ {0}
  BY <1>3, LenProperties
<1>6. \A id \in DOMAIN jobs : id \in Nat /\ id <= seq
  BY DEF IInv, TypeOK, RegistryInv
<1> HIDE DEF work, n
<1>7. TypeOK'
  <2>1. DOMAIN jobs' \subseteq Nat /\ jobs' \in [DOMAIN jobs' -> Work]
    BY <1>1, <1>2, <1>6 DEF IInv, TypeOK
  <2> QED
    BY <1>1, <1>2, <1>4, <2>1 DEF TypeOK
<1>8. Len(order') <= MaxJobs
  BY <1>3, <1>4, MaxJobsAssumption, LenProperties DEF n
<1>9. DOMAIN jobs' = {order'[i] : i \in DOMAIN order'}
  <2>1. DOMAIN jobs' = {Kept[i] : i \in 1..(n - 1)} \cup {seq + 1}
    BY <1>2, <1>3, <1>4
  <2>2. \A i \in 1..n : i = n \/ i \in 1..(n - 1)
    BY <1>5
  <2>3. {order'[i] : i \in 1..n} = {Kept[i] : i \in 1..(n - 1)} \cup {seq + 1}
    BY <1>4, <1>5, <2>2
  <2> QED
    BY <1>4, <2>1, <2>3
<1>10. \A i, j \in DOMAIN order' : i < j => order'[i] < order'[j]
  <2> SUFFICES ASSUME NEW i \in 1..n, NEW j \in 1..n, i < j
               PROVE  order'[i] < order'[j]
    BY <1>4
  <2>1. i \in 1..(n - 1) /\ order'[i] = Kept[i]
    BY <1>4, <1>5
  <2>2. CASE j = n
    <3>1. Kept[i] \in DOMAIN jobs
      BY <1>3, <1>4, <2>1
    <3> QED
      BY <1>1, <1>4, <1>6, <2>1, <2>2, <3>1
  <2>3. CASE j # n
    <3>1. j \in 1..(n - 1) /\ order'[j] = Kept[j]
      BY <1>4, <1>5, <2>3
    <3> QED
      BY <1>3, <1>4, <2>1, <3>1
  <2> QED
    BY <2>2, <2>3
<1>11. \A id \in DOMAIN jobs' : /\ jobs'[id].jobID = id /\ id <= seq'
                                /\ jobs'[id].data \in ValidData
  BY <1>1, <1>2, <1>6 DEF IInv, RegistryInv
<1>12. CurrentResolves'
  <2>1. current' # NoWork
    BY <1>1, <1>2, NoWorkAssumption DEF Work
  <2>2. order' # << >> /\ order'[Len(order')] = current'.jobID
    BY <1>1, <1>2, <1>4, <1>5
  <2>3. jobs'[current'.jobID] = current'
    BY <1>1, <1>2
  <2> QED
    BY <2>1, <2>2, <2>3 DEF CurrentResolves
<1> QED
  BY <1>7, <1>8, <1>9, <1>10, <1>11, <1>12 DEF IInv, RegistryInv

\* The manager starts with an empty registry.
LEMMA InitConsistent == Init => IInv
<1> SUFFICES ASSUME Init PROVE IInv
  OBVIOUS
<1>1. TypeOK
  BY DEF Init, TypeOK
<1>2. RegistryInv
  BY MaxJobsAssumption DEF Init, RegistryInv
<1>3. CurrentResolves
  BY DEF Init, CurrentResolves
<1> QED
  BY <1>1, <1>2, <1>3 DEF IInv

\* Every call of SetCurrent keeps the registry consistent.
LEMMA NextConsistent == IInv /\ [Next]_vars => IInv'
<1> SUFFICES ASSUME IInv, [Next]_vars PROVE IInv'
  OBVIOUS
<1>1. CASE UNCHANGED vars
  BY <1>1 DEF vars, IInv, TypeOK, RegistryInv, CurrentResolves
<1>2. ASSUME NEW data \in Data, ~Duplicate(data), SetCurrent(data)
      PROVE  IInv'
  <2>1. CASE data \in ValidData
    BY <1>2, <2>1, RegisterKeeps DEF SetCurrent
  <2>2. CASE data \notin ValidData
    <3>1. seq' = seq + 1 /\ UNCHANGED <<current, jobs, order>>
      BY <1>2, <2>2 DEF SetCurrent
    <3> QED
      BY <3>1 DEF IInv, TypeOK, RegistryInv, CurrentResolves
  <2> QED
    BY <2>1, <2>2
<1> QED
  BY <1>1, <1>2 DEF Next, SetCurrent

\* The conjunction of the invariants holds in every reachable state.
LEMMA Consistent == Spec => []IInv
  BY InitConsistent, NextConsistent, PTL DEF Spec

\* The registry's state keeps its types, for every set of templates.
THEOREM ManagerTypeCorrect == Spec => []TypeOK
<1>1. IInv => TypeOK
  BY DEF IInv
<1> QED
  BY Consistent, <1>1, PTL

\* The map and the slice name the same jobs, in the order of issue, and never
\* more than MaxJobs of them.
THEOREM RegistryConsistent == Spec => []RegistryInv
<1>1. IInv => RegistryInv
  BY DEF IInv
<1> QED
  BY Consistent, <1>1, PTL

\* The current job always resolves: a miner can submit against what it is sent.
THEOREM CurrentAlwaysResolves == Spec => []CurrentResolves
<1>1. IInv => CurrentResolves
  BY DEF IInv
<1> QED
  BY Consistent, <1>1, PTL

-----------------------------------------------------------------------------
\* What a call that registers a job does to the registered identifiers.
LEMMA RegisterDomain ==
    ASSUME IInv, NEW data \in ValidData, seq' = seq + 1,
           Register([jobID |-> seq + 1, data |-> data])
    PROVE  /\ DOMAIN jobs' = (DOMAIN jobs \ Evicted) \cup {seq + 1}
           /\ \A id \in DOMAIN jobs \ Evicted : jobs'[id] = jobs[id]
           /\ Len(order') = Len(Kept) + 1
           /\ seq + 1 \notin DOMAIN jobs
<1>1. seq + 1 \notin DOMAIN jobs
  <2>1. seq \in Nat /\ \A id \in DOMAIN jobs : id <= seq
    BY DEF IInv, TypeOK, RegistryInv
  <2> QED
    BY <2>1
<1>2. Len(order') = Len(Kept) + 1
  BY KeptFacts, AppendProperties DEF Register, IInv, TypeOK
<1> QED
  BY <1>1, <1>2 DEF Register

\* An identifier never comes to name another template, for every capacity.
THEOREM JobsNameOneTemplate == Spec => JobNamesOneTemplate
<1> DEFINE Step == /\ seq' >= seq
                   /\ \A id \in DOMAIN jobs' :
                         IF Resolves(id) THEN jobs'[id] = jobs[id] ELSE id > seq
<1>1. IInv /\ [Next]_vars => [Step]_vars
  <2> SUFFICES ASSUME IInv, NEW data \in Data, SetCurrent(data), ~Duplicate(data)
               PROVE  Step
    BY DEF Next, SetCurrent
  <2>1. seq \in Nat /\ seq' = seq + 1
    BY DEF SetCurrent, IInv, TypeOK
  <2>2. CASE data \in ValidData
    BY <2>1, <2>2, RegisterDomain DEF SetCurrent, Resolves
  <2>3. CASE data \notin ValidData
    BY <2>1, <2>3 DEF SetCurrent, Resolves
  <2> QED
    BY <2>2, <2>3
<1> QED
  BY Consistent, <1>1, PTL DEF Spec, JobNamesOneTemplate

\* Only the oldest job is ever evicted, and only by a full registry.
THEOREM OnlyOldestEvicted == Spec => EvictsOnlyOldest
<1> DEFINE Step == \A id \in DOMAIN jobs \ DOMAIN jobs' :
                      /\ Len(order') = MaxJobs
                      /\ \A other \in DOMAIN jobs' : other > id
<1>1. IInv /\ [Next]_vars => [Step]_vars
  <2> SUFFICES ASSUME IInv, NEW data \in Data, SetCurrent(data), ~Duplicate(data)
               PROVE  Step
    BY DEF Next, SetCurrent
  <2>1. seq \in Nat /\ seq' = seq + 1
    BY DEF SetCurrent, IInv, TypeOK
  <2>2. CASE data \in ValidData
    <3>1. ASSUME NEW id \in DOMAIN jobs \ DOMAIN jobs'
          PROVE  Len(order') = MaxJobs /\ \A other \in DOMAIN jobs' : other > id
      <4>1. /\ DOMAIN jobs' = (DOMAIN jobs \ Evicted) \cup {seq + 1}
            /\ Len(order') = Len(Kept) + 1
        BY <2>1, <2>2, RegisterDomain DEF SetCurrent
      <4>2. id \in Evicted /\ id \in Nat /\ id <= seq
        BY <3>1, <4>1 DEF IInv, TypeOK, RegistryInv
      <4>3. /\ Len(Kept) = MaxJobs - 1
            /\ \A other \in DOMAIN jobs \ Evicted : other > id
        BY <4>2, KeptFacts
      <4> QED
        BY <2>1, <4>1, <4>2, <4>3, MaxJobsAssumption
    <3> QED
      BY <3>1
  <2>3. CASE data \notin ValidData
    BY <2>3 DEF SetCurrent
  <2> QED
    BY <2>2, <2>3
<1> QED
  BY Consistent, <1>1, PTL DEF Spec, EvictsOnlyOldest

-----------------------------------------------------------------------------
\* The jobs of a sequence of identifiers, as the refinement mapping reads them.
Jobs(ids) == [i \in DOMAIN ids |-> jobs[ids[i]]]

\* The mapped window is a sequence of jobs as long as the slice.
LEMMA WindowIsSequence ==
    ASSUME IInv
    PROVE  /\ Jobs(order) \in Seq(Work)
           /\ Len(Jobs(order)) = Len(order)
           /\ \A i \in 1..Len(order) : Jobs(order)[i] = jobs[order[i]]
<1>1. order \in Seq(Nat) /\ DOMAIN order = 1..Len(order) /\ Len(order) \in Nat
  BY LenProperties DEF IInv, TypeOK
<1>2. \A i \in DOMAIN order : jobs[order[i]] \in Work
  BY DEF IInv, TypeOK, RegistryInv
<1> QED
  BY <1>1, <1>2 DEF Jobs

\* Forgetting the evicted identifiers forgets the oldest job of the window.
LEMMA KeptWindow ==
    ASSUME IInv
    PROVE  /\ (IF Len(Jobs(order)) < MaxJobs
               THEN Jobs(order) ELSE Tail(Jobs(order))) = Jobs(Kept)
           /\ Jobs(Kept) \in Seq(Work)
           /\ Len(Jobs(Kept)) = Len(Kept)
<1> USE MaxJobsAssumption
<1>1. /\ Jobs(order) \in Seq(Work)
      /\ Len(Jobs(order)) = Len(order)
      /\ \A i \in 1..Len(order) : Jobs(order)[i] = jobs[order[i]]
  BY WindowIsSequence
<1>2. order \in Seq(Nat) /\ Len(order) \in Nat
  BY DEF IInv, TypeOK
<1>3. CASE Len(order) < MaxJobs
  BY <1>1, <1>3 DEF Kept
<1>4. CASE Len(order) >= MaxJobs
  <2>1. Kept = Tail(order) /\ Len(order) # 0 /\ order # << >>
    BY <1>2, <1>4 DEF Kept
  <2>2. /\ Tail(order) \in Seq(Nat)
        /\ Len(Tail(order)) = Len(order) - 1
        /\ \A i \in 1..(Len(order) - 1) : Tail(order)[i] = order[i + 1]
    BY <1>2, <2>1, HeadTailProperties
  <2>3. Jobs(order) # << >>
    BY <1>1, <2>1
  <2>4. /\ Tail(Jobs(order)) \in Seq(Work)
        /\ Len(Tail(Jobs(order))) = Len(order) - 1
        /\ \A i \in 1..(Len(order) - 1) : Tail(Jobs(order))[i] = Jobs(order)[i + 1]
    BY <1>1, <2>3, HeadTailProperties
  <2>5. DOMAIN Kept = 1..(Len(order) - 1)
    BY <2>1, <2>2, LenProperties
  <2>6. Tail(Jobs(order)) = [i \in 1..(Len(order) - 1) |-> Tail(Jobs(order))[i]]
    BY <2>4, LenProperties
  <2>7. \A i \in 1..(Len(order) - 1) : Tail(Jobs(order))[i] = jobs[Kept[i]]
    BY <1>1, <1>2, <2>1, <2>2, <2>4
  <2>8. Tail(Jobs(order)) = Jobs(Kept)
    BY <2>5, <2>6, <2>7 DEF Jobs
  <2>9. ~(Len(Jobs(order)) < MaxJobs)
    BY <1>1, <1>2, <1>4
  <2>10. Len(Kept) = Len(order) - 1
    BY <2>1, <2>2
  <2> QED
    BY <2>4, <2>8, <2>9, <2>10
<1> QED
  BY <1>2, <1>3, <1>4

\* A call of SetCurrent that is no duplicate slides the window or skips an identifier.
LEMMA SetCurrentSlides ==
    ASSUME IInv, NEW data \in Data, ~Duplicate(data), SetCurrent(data)
    PROVE  Recent!Next
<1>1. seq \in Nat /\ seq' = seq + 1
  BY DEF SetCurrent, IInv, TypeOK
<1>2. Recent!DrawID
  BY <1>1 DEF Recent!DrawID
<1>3. CASE data \notin ValidData
  <2>1. UNCHANGED <<jobs, order>>
    BY <1>3 DEF SetCurrent
  <2> QED
    BY <1>2, <2>1 DEF Recent!Next, Recent!Skip
<1>4. CASE data \in ValidData
  <2> DEFINE work == [jobID |-> seq + 1, data |-> data]
             n == Len(Kept) + 1
  <2>1. Register(work)
    BY <1>4 DEF SetCurrent
  <2>2. /\ Kept \in Seq(Nat)
        /\ {Kept[i] : i \in DOMAIN Kept} = DOMAIN jobs \ Evicted
    BY KeptFacts
  <2>3. order' = Append(Kept, seq + 1)
    BY <2>1 DEF Register
  <2>4. /\ DOMAIN order' = 1..n
        /\ DOMAIN Kept = 1..(n - 1)
        /\ n \in Nat \ {0}
        /\ order'[n] = seq + 1
        /\ \A i \in 1..(n - 1) : order'[i] = Kept[i]
    BY <1>1, <2>2, <2>3, AppendProperties, LenProperties
  <2>5. /\ \A id \in DOMAIN jobs \ Evicted : jobs'[id] = jobs[id]
        /\ jobs'[seq + 1] = work
    BY <1>1, <1>4, <2>1, RegisterDomain DEF Register
  <2>6. \A i \in 1..(n - 1) : jobs'[order'[i]] = jobs[Kept[i]]
    BY <2>2, <2>4, <2>5
  <2>7. jobs'[order'[n]] = work
    BY <2>4, <2>5
  <2>8. /\ Jobs(Kept) \in Seq(Work)
        /\ Len(Jobs(Kept)) = n - 1
        /\ \A i \in 1..(n - 1) : Jobs(Kept)[i] = jobs[Kept[i]]
    BY KeptWindow, <2>4 DEF Jobs
  <2>9. work \in Work
    BY <1>1, <1>4, ValidDataAssumption DEF Work
  <2> HIDE DEF work, n
  <2>10. Append(Jobs(Kept), work) = [i \in 1..n |-> jobs'[order'[i]]]
    <3>1. /\ Append(Jobs(Kept), work) \in Seq(Work)
          /\ Len(Append(Jobs(Kept), work)) = n
          /\ Append(Jobs(Kept), work)[n] = work
          /\ \A i \in 1..(n - 1) : Append(Jobs(Kept), work)[i] = Jobs(Kept)[i]
      BY <2>4, <2>8, <2>9, AppendProperties
    <3>2. \A i \in 1..n : Append(Jobs(Kept), work)[i] = jobs'[order'[i]]
      BY <2>4, <2>6, <2>7, <2>8, <3>1
    <3> DEFINE grown == Append(Jobs(Kept), work)
    <3> HIDE DEF grown
    <3>3. grown \in Seq(Work) /\ Len(grown) = n
      BY <3>1 DEF grown
    <3>4. grown = [i \in 1..n |-> grown[i]]
      BY <3>3, LenProperties
    <3> QED
      BY <3>2, <3>4 DEF grown
  <2>11. [i \in DOMAIN order |-> jobs[order[i]]]'
           = Recent!Slide([i \in DOMAIN order |-> jobs[order[i]]], work)
    BY <2>4, <2>10, KeptWindow DEF Recent!Slide, Jobs
  <2> QED
    BY <1>1, <1>2, <1>4, <2>11 DEF Recent!Next, Recent!Issue, work
<1> QED
  BY <1>3, <1>4

\* The registry implements the window of recent jobs, for every capacity.
THEOREM RegistryIsWindow == Spec => ImplementsRecentJobs
<1>1. Init => Recent!Init
  <2> SUFFICES ASSUME Init PROVE Recent!Init
    OBVIOUS
  <2>1. [i \in DOMAIN order |-> jobs[order[i]]] = << >>
    BY DEF Init
  <2> QED
    BY <2>1 DEF Init, Recent!Init
<1>2. IInv /\ IInv' /\ [Next]_vars => [Recent!Next]_Recent!vars
  <2> SUFFICES ASSUME IInv, IInv', [Next]_vars
               PROVE  [Recent!Next]_Recent!vars
    OBVIOUS
  <2>1. CASE UNCHANGED vars
    BY <2>1 DEF vars, Recent!vars
  <2>2. ASSUME NEW data \in Data, ~Duplicate(data), SetCurrent(data)
        PROVE  Recent!Next
    BY <2>2, SetCurrentSlides
  <2> QED
    BY <2>1, <2>2 DEF Next, SetCurrent
<1> QED
  BY <1>1, <1>2, Consistent, PTL DEF Spec, ImplementsRecentJobs, Recent!Spec
=============================================================================
