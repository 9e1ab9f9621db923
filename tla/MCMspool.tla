------------------------------ MODULE MCMspool ------------------------------
EXTENDS Mspool

CONSTANTS k1, k2

MCKeys == {k1, k2}

\* A small product, one that fills a database, and one too large for any.
MCArrivals == {[k |-> k1, len |-> 1], [k |-> k2, len |-> 3], [k |-> k1, len |-> 4]}
=============================================================================
