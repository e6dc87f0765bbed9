--------------------------- MODULE MCStratumPool ----------------------------
\* TLC instance of StratumPool: the miners are interchangeable.
EXTENDS StratumPool, TLC

MinerSymmetry == Permutations(Miners)
=============================================================================
