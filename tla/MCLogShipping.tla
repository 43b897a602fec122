--------------------------- MODULE MCLogShipping ---------------------------
EXTENDS LogShipping
=============================================================================
