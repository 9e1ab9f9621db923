-------------------------- MODULE MCFrameProcessor --------------------------
(***************************************************************************)
(* Small instances of FrameProcessor: products of one and two blocks whose *)
(* frames arrive in any order, with a few malformed ones.                  *)
(***************************************************************************)
EXTENDS FrameProcessor

CONSTANTS Seqs  \* product sequence numbers of the frames

\* A frame of a product; the sbn sequence number follows the block.
F(type, seq, block, nfrag) ==
  [unpack |-> 0, sbn_seq |-> block + 1, data |-> TRUE, type |-> type,
   seq |-> seq, block |-> block, nfrag |-> nfrag, rtx |-> FALSE, orig |-> 0,
   name |-> "ok"]

Single(s) == F({"START", "PROGRESS", "END"}, s, 0, 0)
First(s)  == F({"START", "PROGRESS"}, s, 0, 2)
Last(s)   == F({"PROGRESS", "END"}, s, 1, 2)

\* The frames of a retransmission, of products whose start fails, of
\* products of more blocks than announced, and frames without products.
Odd(s) ==
  {F({"START"}, s, 0, 2), F({"START", "PROGRESS"}, s, 1, 2),
   F({"PROGRESS"}, s, 1, 2), F({"PROGRESS", "END"}, s, 2, 2),
   F({"END"}, s, 1, 2), F({"ABORT"}, s, 0, 0),
   [First(s) EXCEPT !.name = "bad_header"],
   [Single(s) EXCEPT !.name = "long_key"],
   [First(s) EXCEPT !.name = "long_path"],
   [Single(s) EXCEPT !.name = "rejected"],
   [First(s) EXCEPT !.rtx = TRUE, !.orig = 9],
   [Single(s) EXCEPT !.unpack = 1], [Single(s) EXCEPT !.unpack = 2],
   [First(s) EXCEPT !.unpack = 3, !.sbn_seq = 4],
   [First(s) EXCEPT !.data = FALSE, !.sbn_seq = 3]}

\* Products sent without fault; the frames in between are lost.
MCWellFormed == UNION {{Single(s), First(s), Last(s)} : s \in Seqs}

MCFrames == UNION {{Single(s), First(s), Last(s)} \cup Odd(s) : s \in Seqs}
=============================================================================
