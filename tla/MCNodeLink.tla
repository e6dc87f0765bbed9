----------------------------- MODULE MCNodeLink -----------------------------
\* TLC instance of NodeLink; the constants are given in the cfg.
EXTENDS NodeLink
=============================================================================
