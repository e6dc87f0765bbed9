---------------------------- MODULE MCCpuMiner -----------------------------
\* TLC instance of CpuMiner; the constants are given in the cfgs.
EXTENDS CpuMiner
=============================================================================
