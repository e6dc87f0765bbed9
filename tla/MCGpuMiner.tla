---------------------------- MODULE MCGpuMiner -----------------------------
\* TLC instance of GpuMiner; the constants are given in the cfg.
EXTENDS GpuMiner
=============================================================================
