---------------------------- MODULE WorkManager -----------------------------
(***************************************************************************)
(* internal/mining/work.go: the current job and the bounded registry of    *)
(* recent jobs that submissions are validated against.  Every method runs  *)
(* under the manager's mutex, so each is one atomic step; StratumPool      *)
(* composes these steps with the goroutines that call them.                *)
(*                                                                         *)
(* Job identifiers are the decimal form of a counter (FormatUint).  The    *)
(* form is injective and is only ever compared for equality, so a job is   *)
(* identified by the number itself.  A template is an element of Data; the *)
(* ones NewWork accepts (those of the exact getwork length) are ValidData. *)
(***************************************************************************)
EXTENDS Integers, Sequences, FiniteSets

CONSTANTS
    Data,          \* byte strings the node can hand over
    ValidData,     \* those that NewWork accepts
    MaxJobs,       \* capacity of the registry (1000 in server.go)
    MaxSeq,        \* bound of the model: identifiers drawn by Next
    NoWork         \* the nil *Work

ASSUME ValidDataAssumption == ValidData \subseteq Data
\* order[0] of an empty slice would panic, so the code needs room for one job.
ASSUME MaxJobsAssumption == MaxJobs \in Nat \ {0}
ASSUME MaxSeqAssumption == MaxSeq \in Nat
\* nil is none of the jobs.
ASSUME NoWorkAssumption == NoWork \notin [jobID : Nat, data : Data]

VARIABLES
    current,       \* the job handed to new subscribers, or NoWork
    jobs,          \* identifier -> job, the registry
    order,         \* the registered identifiers, oldest first
    seq            \* identifiers drawn so far

vars == <<current, jobs, order, seq>>

Work == [jobID : Nat, data : Data]

\* The reasons the node gives with new work.
Reasons == {"NewParent", "NewVotes", "NewTxns"}

TypeOK ==
    /\ current \in Work \cup {NoWork}
    /\ order \in Seq(Nat)
    /\ DOMAIN jobs \subseteq Nat
    /\ jobs \in [DOMAIN jobs -> Work]
    /\ seq \in Nat

Init ==
    /\ current = NoWork
    /\ jobs = << >>
    /\ order = << >>
    /\ seq = 0

-----------------------------------------------------------------------------
\* Mutant of Evicted: the map keeps the job that the slice forgets.
EvictedLeaks == {}

\* Mutant of Evicted: the newest job goes instead of the oldest.
EvictedNewest == IF Len(order) >= MaxJobs THEN {order[Len(order)]} ELSE {}

\* The identifiers evicted to make room for one more: the oldest when full.
Evicted == IF Len(order) >= MaxJobs THEN {Head(order)} ELSE {}

Kept == IF Len(order) >= MaxJobs THEN Tail(order) ELSE order

\* Mutant of Register: no eviction, the registry grows for ever.
RegisterUnbounded(work) ==
    /\ current' = work
    /\ order' = Append(order, work.jobID)
    /\ jobs' = [id \in DOMAIN jobs \cup {work.jobID} |->
                   IF id = work.jobID THEN work ELSE jobs[id]]

\* The tail of SetCurrent: the job becomes current and is registered.
Register(work) ==
    /\ current' = work
    /\ order' = Append(Kept, work.jobID)
    /\ jobs' = [id \in (DOMAIN jobs \ Evicted) \cup {work.jobID} |->
                   IF id = work.jobID THEN work ELSE jobs[id]]

\* The template is byte for byte the current one.
Duplicate(data) == current # NoWork /\ current.data = data

\* Mutant of SetCurrent: NewWork's error is not checked and nil is registered.
SetCurrentUnchecked(data) ==
    IF Duplicate(data) THEN UNCHANGED vars
    ELSE /\ seq' = seq + 1
         /\ IF data \in ValidData
            THEN Register([jobID |-> seq + 1, data |-> data])
            ELSE /\ current' = NoWork
                 /\ order' = Append(Kept, seq + 1)
                 /\ jobs' = [id \in (DOMAIN jobs \ Evicted) \cup {seq + 1} |->
                                IF id = seq + 1 THEN NoWork ELSE jobs[id]]

\* Mutant of SetCurrent: identifiers come from the size of the registry.
SetCurrentReuses(data) ==
    IF Duplicate(data) THEN UNCHANGED vars
    ELSE /\ seq' = seq + 1
         /\ IF data \in ValidData
            THEN Register([jobID |-> Len(order) + 1, data |-> data])
            ELSE UNCHANGED <<current, jobs, order>>

\* SetCurrent returns the manager's current job in every case, so callers of
\* this model read current' for the returned work.
SetCurrent(data) ==
    \/ /\ Duplicate(data)
       /\ UNCHANGED vars
    \/ /\ ~Duplicate(data)
       /\ seq' = seq + 1
       /\ IF data \in ValidData
          THEN Register([jobID |-> seq + 1, data |-> data])
          ELSE UNCHANGED <<current, jobs, order>>

\* Mutant of Clean: every new template is clean.
CleanAlways(data, reason) == ~Duplicate(data) /\ data \in ValidData

\* Mutant of Clean: the reasons are confused.
CleanSwapped(data, reason) == ~Duplicate(data) /\ data \in ValidData /\ reason # "NewParent"

\* The clean flag SetCurrent returns: only a new template of a new parent.
Clean(data, reason) ==
    ~Duplicate(data) /\ data \in ValidData /\ reason = "NewParent"

\* Job(jobID): whether the identifier resolves.
Resolves(id) == id \in DOMAIN jobs

Next == \E data \in Data : (seq < MaxSeq \/ Duplicate(data)) /\ SetCurrent(data)

Spec == Init /\ [][Next]_vars

-----------------------------------------------------------------------------
\* The map and the slice that orders it name the same jobs, each under its own
\* identifier; the slice is in the order of issue and never over capacity.
RegistryInv ==
    /\ Len(order) <= MaxJobs
    /\ DOMAIN jobs = {order[i] : i \in DOMAIN order}
    /\ \A i, j \in DOMAIN order : i < j => order[i] < order[j]
    /\ \A id \in DOMAIN jobs : jobs[id].jobID = id /\ id <= seq
    /\ \A id \in DOMAIN jobs : jobs[id].data \in ValidData

\* A miner that was just handed the current job can always submit against it:
\* the current job is the newest of the registry and eviction never takes it.
CurrentResolves ==
    IF current = NoWork
    THEN order = << >>
    ELSE /\ order # << >>
         /\ order[Len(order)] = current.jobID
         /\ jobs[current.jobID] = current

\* An identifier names one template for ever.  A resolvable identifier keeps
\* its job, and one that starts to resolve was never drawn before, so a
\* solution is never checked against a template its miner was not sent.
JobNamesOneTemplate ==
    [][/\ seq' >= seq
       /\ \A id \in DOMAIN jobs' :
             IF Resolves(id) THEN jobs'[id] = jobs[id] ELSE id > seq]_vars

\* A job stops resolving only while the registry is full of newer ones: it is
\* the oldest, and after the step MaxJobs jobs, all newer, resolve.
EvictsOnlyOldest ==
    [][\A id \in DOMAIN jobs \ DOMAIN jobs' :
          /\ Len(order') = MaxJobs
          /\ \A other \in DOMAIN jobs' : other > id]_vars

\* The registry implements the window of recent jobs.
Recent == INSTANCE RecentJobs WITH
              Data <- ValidData,
              WindowSize <- MaxJobs,
              window <- [i \in DOMAIN order |-> jobs[order[i]]],
              lastID <- seq

\* Refinement: the map, the slice and the counter together behave as a sliding
\* window of the MaxJobs most recently issued jobs.
ImplementsRecentJobs == Recent!Spec
=============================================================================
