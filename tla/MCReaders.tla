----------------------------- MODULE MCReaders ------------------------------
(***************************************************************************)
(* A channel that is read by a noaaport reader or by a slave reader.       *)
(***************************************************************************)
EXTENDS MCFrameProcessor, SlaveNbs

\* The master is restarted and uses a number again, for a longer product.
MCProducts == {[seq |-> 1, num |-> 3], [seq |-> 2, num |-> 1], [seq |-> 2, num |-> 2]}
=============================================================================
