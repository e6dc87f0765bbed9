------------------------------ MODULE MCMining -------------------------------
\* TLC instance of the two structures of internal/mining that the pool keeps behind
\* mutexes: the work manager, with templates one of which has the wrong length, and
\* the block throttle, for every divisor from 0 to 6.  SetCurrent and Allow are
\* called in any order.
EXTENDS WorkManager

CONSTANTS t1, t2, malformed, nil, MaxFound

MCData == {t1, t2, malformed}
MCValidData == {t1, t2}
MCConfigured == 0..6

VARIABLES divisor, foundBlocks, submitted, throttled

throttleVars == <<divisor, foundBlocks, submitted, throttled>>

Throttle == INSTANCE BlockThrottle WITH Configured <- MCConfigured

Quota == Throttle!Quota

MCInit == Init /\ Throttle!Init

MCNext ==
    \/ Next /\ UNCHANGED throttleVars
    \/ Throttle!Next /\ UNCHANGED vars

MCSpec == MCInit /\ [][MCNext]_<<vars, throttleVars>>
=============================================================================
