--------------------------- MODULE MCShareSearch ---------------------------
\* TLC instance of ShareSearch; the constants are given in the cfg.
EXTENDS ShareSearch
=============================================================================
