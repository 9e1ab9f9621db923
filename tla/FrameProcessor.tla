--------------------------- MODULE FrameProcessor ---------------------------
(***************************************************************************)
(* The frame processor of the noaaport readers: sbnframeproc() of          *)
(* src/framep.c and the active product control element (pce) of            *)
(* src/pctl.c.  Each noaaport channel has one reader thread and one active *)
(* pce, so all the state here is per channel.                              *)
(*                                                                         *)
(* A frame arrives over UDP: any frame may follow any other, so loss,      *)
(* duplication, reordering and corruption are all in the choice of the     *)
(* next frame.  The frames of a product are kept in its memory file; only  *)
(* the product and block each one carries is told apart.                   *)
(*                                                                         *)
(* sbnframeproc() may hand up to two elements to the processor queue; what *)
(* the queue answers never changes the active pce, so the elements wait in *)
(* outbox and each one is sent by a step of its own, which is where other  *)
(* threads interleave (the queue has its own mutex).                       *)
(***************************************************************************)
EXTENDS Integers, Sequences

CONSTANTS Channels,   \* np_channel_index values
          Frames,     \* the frames that can arrive
          Garbage,    \* what the counters of a pce fresh from malloc() hold
          MaxFrames   \* bound: frames received on each channel

TransferTypes == {"START", "PROGRESS", "END", "ABORT"}

\* What start_activepce() finds in the header of the first frame.
Names == {"ok", "bad_header", "long_key", "long_path", "rejected"}

\* A frame as sbn_unpack_frame() leaves it.  unpack is its return value.
Frame == [unpack : 0..3, sbn_seq : Nat, data : BOOLEAN,
          type : SUBSET TransferTypes, seq : Nat, block : Nat, nfrag : Nat,
          rtx : BOOLEAN, orig : Nat, name : Names]

ASSUME FramesAssumption == Frames \subseteq Frame
ASSUME BoundsAssumption == MaxFrames \in Nat /\ Garbage \subseteq Int

Counters == {"received", "bad", "jumps", "transmitted", "retransmitted",
             "completed", "missed", "rejected", "aborted"}

\* One saved frame of a memory file.
Block == [seq : Nat, block : Nat]

\* struct pctl_element_st, the fields the control depends on.
Pce == [seq_number : Nat, orig_seq_number : Int, num_fragments : Int,
        recv_fragments : Int, f_complete : Int, mf : Seq(Block)]

VARIABLES fh,         \* gframep.fh[c].sbn_seq_number, the last one seen
          activepce,  \* pctl->activepce[c]
          stats,      \* the increments of the counters by channel c's reader
          outbox,     \* the elements on their way to the processor queue
          dropped     \* ghost: started products closed without being sent

vars == <<fh, activepce, stats, outbox, dropped>>

-----------------------------------------------------------------------------
(***************************************************************************)
(* The work of one sbnframeproc() call is a record r threaded through its  *)
(* stages: the pce, the counters, the elements to send, the ghost and the  *)
(* status that decides whether the next stage runs.                        *)
(***************************************************************************)
Count(r, k) == [r EXCEPT !.stats[k] = @ + 1]

\* Mutant of close_pce: a closed pce is marked with -1.
close_pce_minus(p) == [p EXCEPT !.seq_number = -1, !.mf = <<>>]

close_pce(p) == [p EXCEPT !.seq_number = 0, !.mf = <<>>]

\* open_pce() refuses a pce that still holds a product.
open_pce_fails(p) == p.seq_number # 0 \/ p.mf # <<>>

\* A product is being received: it was started and not yet closed.
Active(p) == p.seq_number # 0

esend_pctl_activepce(r) == [r EXCEPT !.out = Append(@, r.pce)]

close_pctl_activepce(r) == [r EXCEPT !.pce = close_pce(@)]

\* Closing a product that is neither sent nor counted.
Discard(r) == [close_pctl_activepce(r) EXCEPT
                 !.dropped = @ + (IF Active(r.pce) THEN 1 ELSE 0)]

SendAndClose(r) == close_pctl_activepce(esend_pctl_activepce(r))

\* Lines 279-310: the pce of the new product.  The memory file is the one
\* open_pctl_activepce() found empty.
NewPce(p, f) ==
  [seq_number      |-> f.seq,
   orig_seq_number |-> IF f.rtx THEN f.orig ELSE 0,
   num_fragments   |-> IF f.nfrag = 0 THEN 1 ELSE f.nfrag,
   recv_fragments  |-> 0,
   f_complete      |-> 0,
   mf              |-> p.mf]

\* The return value of start_activepce(); load is g.f_loadave_max_rtx.
start_status(f, load) ==
  CASE f.name = "bad_header" -> 1
    [] f.name = "long_key"   -> 2
    [] f.name = "long_path"  -> 3
    [] f.name = "rejected"   -> 4
    [] OTHER -> IF load /\ f.rtx /\ f.orig # 0 THEN 4 ELSE 0

\* An unfinished product is sent as it is before the new one takes its place.
start_activepce(r, f, load) ==
  LET cleared == IF open_pce_fails(r.pce)
                 THEN SendAndClose(Count(r, "missed"))
                 ELSE r
      status  == start_status(f, load)
      started == [cleared EXCEPT !.pce = NewPce(@, f), !.status = status]
  IN  IF status = 0 THEN started ELSE close_pctl_activepce(started)

e_start_activepce(r, f, load) ==
  IF f.block # 0
  THEN [r EXCEPT !.status = 1]
  ELSE LET s == start_activepce(Count(r, "transmitted"), f, load)
       IN  CASE s.status = 0 -> s
             [] s.status = 4 -> Count(s, "rejected")
             [] OTHER        -> Count(s, "missed")

\* Mutant of update_activepce: the block number is not compared.
update_activepce_anyblock(r, f, saved) ==
  IF f.seq # r.pce.seq_number
  THEN [r EXCEPT !.status = 1]
  ELSE IF saved
  THEN [r EXCEPT !.pce.recv_fragments = @ + 1,
                 !.pce.mf = Append(@, [seq |-> f.seq, block |-> f.block])]
  ELSE [r EXCEPT !.pce.recv_fragments = @ + 1, !.status = -1]

\* The frame is saved only when its block is the next one expected; saved
\* is FALSE when the memory file could not grow.
update_activepce(r, f, saved) ==
  IF f.seq # r.pce.seq_number
  THEN [r EXCEPT !.status = 1]
  ELSE IF f.block # r.pce.recv_fragments
  THEN [r EXCEPT !.status = 2]
  ELSE IF saved
  THEN [r EXCEPT !.pce.recv_fragments = @ + 1,
                 !.pce.mf = Append(@, [seq |-> f.seq, block |-> f.block])]
  ELSE [r EXCEPT !.pce.recv_fragments = @ + 1, !.status = -1]

e_update_activepce(r, f, saved) ==
  LET u == update_activepce(r, f, saved)
  IN  CASE u.status = 0 -> u
        [] u.status = 1 -> [u EXCEPT !.status = 0]
        [] OTHER        -> SendAndClose(Count(u, "missed"))

\* Mutant of e_end_activepce: the product with missing frames is not counted.
e_end_activepce_uncounted(r, f) ==
  IF f.seq # r.pce.seq_number
  THEN Discard(r)
  ELSE IF r.pce.num_fragments > r.pce.recv_fragments
  THEN SendAndClose(r)
  ELSE SendAndClose(Count([r EXCEPT !.pce.f_complete = 1], "completed"))

\* The active pce is closed whether or not the frame was about its product.
e_end_activepce(r, f) ==
  IF f.seq # r.pce.seq_number
  THEN Discard(r)
  ELSE IF r.pce.num_fragments > r.pce.recv_fragments
  THEN SendAndClose(Count(r, "missed"))
  ELSE SendAndClose(Count([r EXCEPT !.pce.f_complete = 1], "completed"))

abort_activepce(r) == Discard(Count(r, "aborted"))

\* Lines 77-108: the three stages, each one run only when the flag is set
\* and the stages before it returned 0.
DataTransfer(r, f, load, saved) ==
  LET counted  == IF "START" \in f.type /\ f.rtx
                  THEN Count(r, "retransmitted") ELSE r
      started  == IF "START" \in f.type
                  THEN e_start_activepce(counted, f, load) ELSE counted
      progress == IF started.status = 0 /\ "PROGRESS" \in f.type
                  THEN e_update_activepce(started, f, saved) ELSE started
  IN  IF progress.status = 0 /\ "END" \in f.type
      THEN e_end_activepce(progress, f) ELSE progress

-----------------------------------------------------------------------------
Reader(c) == [pce |-> activepce[c], stats |-> stats[c], out |-> <<>>,
              dropped |-> dropped[c], status |-> 0]

\* The reader is back in its loop: nothing left to send for the last frame.
Ready(c) == outbox[c] = <<>> /\ stats[c]["received"] < MaxFrames

\* update_framep_info(): a jump is counted, the header is remembered.
Jumped(c, f) == fh[c] > 0 /\ f.sbn_seq > fh[c] + 1

Unpacked(c, f) == LET r == Count(Reader(c), "received")
                  IN  IF Jumped(c, f) THEN Count(r, "jumps") ELSE r

Finish(c, r) ==
  /\ activepce' = [activepce EXCEPT ![c] = r.pce]
  /\ stats' = [stats EXCEPT ![c] = r.stats]
  /\ outbox' = [outbox EXCEPT ![c] = r.out]
  /\ dropped' = [dropped EXCEPT ![c] = r.dropped]

\* A frame with a bad checksum or an inconsistent header is only counted.
BadFrame(c, f) ==
  /\ Ready(c)
  /\ f.unpack \in {1, 2}
  /\ Finish(c, Count(Count(Reader(c), "received"), "bad"))
  /\ UNCHANGED fh

\* An uncompress error, or a command that carries no data.
NoData(c, f) ==
  /\ Ready(c)
  /\ f.unpack = 3 \/ (f.unpack = 0 /\ ~f.data)
  /\ Finish(c, Unpacked(c, f))
  /\ fh' = [fh EXCEPT ![c] = f.sbn_seq]

\* The ERROR or ABORT flag kills the active pce of the channel.
AbortFrame(c, f) ==
  /\ Ready(c)
  /\ f.unpack = 0 /\ f.data /\ "ABORT" \in f.type
  /\ Finish(c, abort_activepce(Unpacked(c, f)))
  /\ fh' = [fh EXCEPT ![c] = f.sbn_seq]

DataFrame(c, f, load, saved) ==
  /\ Ready(c)
  /\ f.unpack = 0 /\ f.data /\ "ABORT" \notin f.type
  /\ Finish(c, DataTransfer(Unpacked(c, f), f, load, saved))
  /\ fh' = [fh EXCEPT ![c] = f.sbn_seq]

sbnframeproc(c, f) ==
  \/ BadFrame(c, f)
  \/ NoData(c, f)
  \/ AbortFrame(c, f)
  \/ \E load, saved \in BOOLEAN : DataFrame(c, f, load, saved)

\* The call of pctldb_send_pce() for the oldest waiting element.
epctl_send(c) ==
  /\ outbox[c] # <<>>
  /\ outbox' = [outbox EXCEPT ![c] = Tail(@)]
  /\ UNCHANGED <<fh, activepce, stats, dropped>>

-----------------------------------------------------------------------------
\* create_pce() sets the sequence number and empties the memory file.
FreshPce == [seq_number : {0}, orig_seq_number : Garbage,
             num_fragments : Garbage, recv_fragments : Garbage,
             f_complete : Garbage, mf : {<<>>}]

Init ==
  /\ fh = [c \in Channels |-> 0]
  /\ activepce \in [Channels -> FreshPce]
  /\ stats = [c \in Channels |-> [k \in Counters |-> 0]]
  /\ outbox = [c \in Channels |-> <<>>]
  /\ dropped = [c \in Channels |-> 0]

Next == \E c \in Channels : \/ \E f \in Frames : sbnframeproc(c, f)
                            \/ epctl_send(c)

Spec == Init /\ [][Next]_vars

-----------------------------------------------------------------------------
\* The values the variables range over.
TypeOK ==
  /\ fh \in [Channels -> Nat]
  /\ activepce \in [Channels -> Pce]
  /\ stats \in [Channels -> [Counters -> Nat]]
  /\ outbox \in [Channels -> Seq(Pce)]
  /\ dropped \in [Channels -> Nat]

\* The first n blocks of a product, in order.
Blocks(seq, n) == [i \in 1..n |-> [seq |-> seq, block |-> i - 1]]

\* What the memory file of an element holds is a prefix of its own product,
\* and all of it when the element is flagged complete.
Assembled(p) ==
  /\ p.mf = Blocks(p.seq_number, Len(p.mf))
  /\ Len(p.mf) <= p.recv_fragments
  /\ p.f_complete = 1 => Len(p.mf) >= p.num_fragments

(***************************************************************************)
(* Whatever frames are lost, repeated, reordered or mixed with those of    *)
(* other products, an element that sbnframeproc() hands to the processor   *)
(* holds blocks 0, 1, 2... of its own product and of no other, with no     *)
(* gap, and has them all when f_complete is set.  Sequence number 0 is the *)
(* mark of a closed pce and is excluded.                                   *)
(***************************************************************************)
HandedOverIntact ==
  \A c \in Channels : \A i \in 1..Len(outbox[c]) :
    outbox[c][i].seq_number # 0 => Assembled(outbox[c][i])

(***************************************************************************)
(* Conservation of products: every product counted as transmitted by       *)
(* e_start_activepce() is still being received, or has been counted        *)
(* exactly once as completed, missed or rejected, or was dropped (by an    *)
(* abort, or by the END of another product).                               *)
(***************************************************************************)
ProductsAccounted ==
  \A c \in Channels :
    stats[c]["transmitted"] =
      stats[c]["completed"] + stats[c]["missed"] + stats[c]["rejected"]
      + dropped[c] + (IF Active(activepce[c]) THEN 1 ELSE 0)

(***************************************************************************)
(* What the comment of process_pctl_element() says of the readers: a       *)
(* product that was started reaches the processor queue even when frames   *)
(* are missing, so apart from the aborted ones none is lost uncounted.     *)
(***************************************************************************)
NoneUnreported ==
  \A c \in Channels :
    stats[c]["transmitted"] <=
      stats[c]["completed"] + stats[c]["missed"] + stats[c]["rejected"]
      + stats[c]["aborted"] + (IF Active(activepce[c]) THEN 1 ELSE 0)
=============================================================================
