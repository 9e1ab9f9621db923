------------------------------ MODULE MCPctldb ------------------------------
EXTENDS Pctldb

CONSTANTS MaxSec, MaxNsec   \* bounds on the clock

MCTimes == [sec : 1..MaxSec, nsec : 0..MaxNsec]

\* An incomplete product may have no frames at all.
MCSize == [p \in Products |-> p]
=============================================================================
