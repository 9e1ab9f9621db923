---------------------------- MODULE MCProcessor -----------------------------
(***************************************************************************)
(* Instances of Processor for TLC.                                         *)
(***************************************************************************)
EXTENDS Processor

MCQueues == <<"filter", "server">>

MCFilterOnly == <<"filter">>

Pce(seq, orig, complete, flag) ==
  [seq |-> seq, orig |-> orig, f_complete |-> complete, rtxdb_flag |-> flag]

\* A product (1) and another one (4); a retransmission of the first (2) and a
\* retransmission of that one (3).  Any of them may have frames missing, and
\* the name of any but the first may be one the db is not for.
ChainContent == <<"a", "a", "a", "b">>

ChainArrivals ==
  {<<Pce(1, 0, c1, 1), Pce(4, 0, 1, 0), Pce(2, 1, c2, f2), Pce(3, 2, 1, f3)>> :
     c1, c2, f2, f3 \in {0, 1}}
  \cup {<<Pce(1, 0, 1, 1), Pce(2, 1, 1, 1), Pce(3, 1, 1, 1)>>}

\* Products that are not related; the last may be a retransmission of the
\* first, of a name the db is for or not.
PlainContent == <<"a", "b", "c", "a">>

PlainArrivals ==
  {<<Pce(1, 0, 1, 0), Pce(2, 0, 1, 0), Pce(3, 0, 1, 0), Pce(4, 1, 1, f)>> : f \in {0, 1}}
=============================================================================
