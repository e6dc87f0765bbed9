----------------------------- MODULE RecentJobs -----------------------------
(***************************************************************************)
(* What the job registry promises its callers: a window of the most recent *)
(* jobs, oldest first, that holds at most WindowSize of them.  Identifiers *)
(* only grow, so an identifier names one job for ever; a job leaves the    *)
(* window only from its old end and only because a newer one came in.      *)
(***************************************************************************)
EXTENDS Integers, Sequences

CONSTANTS
    Data,          \* what a job can carry (the bytes of a block template)
    WindowSize     \* how many jobs stay resolvable

VARIABLES
    window,        \* the resolvable jobs, oldest first
    lastID         \* the identifier most recently drawn, 0 before the first

vars == <<window, lastID>>

Init ==
    /\ window = << >>
    /\ lastID = 0

\* An identifier greater than all the earlier ones is drawn.
DrawID == lastID' \in Nat /\ lastID' > lastID

Slide(w, job) ==
    Append(IF Len(w) < WindowSize THEN w ELSE Tail(w), job)

\* A job enters the window under a new identifier.
Issue ==
    /\ DrawID
    /\ \E d \in Data : window' = Slide(window, [jobID |-> lastID', data |-> d])

\* An identifier is drawn and never used.
Skip ==
    /\ DrawID
    /\ UNCHANGED window

Next == Issue \/ Skip

Spec == Init /\ [][Next]_vars
=============================================================================
