--------------------------- MODULE MCWorkDelivery ---------------------------
\* TLC instance of WorkDelivery; the constants are given in the cfg.
EXTENDS WorkDelivery
=============================================================================
