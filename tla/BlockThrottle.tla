--------------------------- MODULE BlockThrottle ----------------------------
(***************************************************************************)
(* internal/mining/throttle.go: which solved blocks go to the network.     *)
(* Allow runs under a mutex, so one call is one step; StratumPool composes *)
(* the calls of concurrent submit handlers.  The uint64 counters count     *)
(* blocks found since the process started and cannot wrap in practice.     *)
(***************************************************************************)
EXTENDS Integers

CONSTANTS
    Configured,    \* the divisors an operator tries to configure
    MaxFound       \* bound of the model: blocks found in a behaviour

VARIABLES
    divisor,       \* N, fixed when the throttle is created
    foundBlocks,   \* calls of Allow
    submitted,     \* calls that returned true
    throttled      \* calls that returned false

vars == <<divisor, foundBlocks, submitted, throttled>>

TypeOK ==
    /\ divisor \in Nat \ {0}
    /\ foundBlocks \in Nat
    /\ submitted \in Nat
    /\ throttled \in Nat

\* NewBlockThrottle: 0 stands for 1.
NewBlockThrottle(d) == IF d = 0 THEN 1 ELSE d

\* The flag takes unsigned numbers, 0 included.
Init ==
    /\ \E d \in Configured \cap Nat : divisor = NewBlockThrottle(d)
    /\ foundBlocks = 0
    /\ submitted = 0
    /\ throttled = 0

\* Mutant of Allows: the test is not anchored at the first block.
AllowsEveryNth(found) == divisor <= 1 \/ found % divisor = 0

\* Whether the found-th block is submitted.
Allows(found) == divisor <= 1 \/ found % divisor = 1

\* Allow: count the block and decide.
Allow ==
    /\ foundBlocks' = foundBlocks + 1
    /\ IF Allows(foundBlocks + 1)
       THEN submitted' = submitted + 1 /\ UNCHANGED throttled
       ELSE throttled' = throttled + 1 /\ UNCHANGED submitted
    /\ UNCHANGED divisor

Next == foundBlocks < MaxFound /\ Allow

Spec == Init /\ [][Next]_vars

-----------------------------------------------------------------------------
\* One block in every divisor is submitted, the first one always: after f
\* blocks the submissions are f / divisor rounded up.  Stated without division:
\* the f blocks fill the first submitted - 1 groups of divisor blocks and reach
\* into the next one.
Quota ==
    /\ foundBlocks = submitted + throttled
    /\ foundBlocks <= submitted * divisor
    /\ submitted * divisor < foundBlocks + divisor
=============================================================================
