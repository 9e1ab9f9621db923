------------------------------ MODULE SlaveNbs ------------------------------
(***************************************************************************)
(* The readers of an nbs1 slave (src/slave_net.c, src/slavenbs/), next to  *)
(* the noaaport readers of FrameProcessor: each one has a connection to    *)
(* its master and a channel of pctl of its own, in which it puts together  *)
(* the products that the client threads of the master send packet by       *)
(* packet.                                                                 *)
(*                                                                         *)
(* On a connection the packets of a product follow each other in order,    *)
(* unless the master goes on to the next product.  A new connection may    *)
(* begin with any packet: the master sends first the one whose write       *)
(* failed, and what it had written before may have been lost on the way.   *)
(***************************************************************************)
EXTENDS FrameProcessor

CONSTANTS Products,  \* the products a master sends
          MaxCauses  \* bound: events on a channel that can cost a product

Product == [seq : Nat \ {0}, num : Nat \ {0}]

ASSUME ProductsAssumption == Products \subseteq Product /\ MaxCauses \in Nat

\* What recv_nbs_packet() unpacks; blocks are numbered from 1.
Packets == UNION {{[seq |-> x.seq, num |-> x.num, block |-> b] : b \in 1 .. x.num} :
                    x \in Products}
NoPacket == [seq |-> 0, num |-> 0, block |-> 0]

VARIABLES slaves,  \* the configuration: the channels of slave readers
          fd,      \* slave->slave_fd, -1 or not
          stream,  \* the last packet of the connection
          causes   \* ghost: the events that can cost a product

slaveVars == <<slaves, fd, stream, causes>>
svars == <<vars, slaveVars>>

-----------------------------------------------------------------------------
(***************************************************************************)
(* slavenbsproc(), with the record of sbnframeproc() threaded through.     *)
(***************************************************************************)
NewSlavePce(p, nbs) ==
  [seq_number |-> nbs.seq, orig_seq_number |-> 0, num_fragments |-> nbs.num,
   recv_fragments |-> 0, f_complete |-> 0, mf |-> p.mf]

\* What becomes of the name of a product: it may be bad, be rejected by the
\* regex or, with slave_reject_duplicates, be the name of a file that exists.
Fates == {"ok", "bad", "rejected", "duplicate"}

estart_activepce(r, nbs, fate) ==
  LET counted == Count(r, "transmitted")
      cleared == IF open_pce_fails(counted.pce)
                 THEN SendAndClose(Count(counted, "missed")) ELSE counted
      started == [cleared EXCEPT !.pce = NewSlavePce(@, nbs)]
  IN  CASE fate = "ok"        -> started
        [] fate = "bad"       -> [Count(close_pctl_activepce(started), "missed")
                                    EXCEPT !.status = 2]
        [] fate = "rejected"  -> [Count(close_pctl_activepce(started), "rejected")
                                    EXCEPT !.status = 1]
        [] fate = "duplicate" -> [Discard(started) EXCEPT !.status = 1]

\* Mutant of eupdate_activepce: the block number is passed as it is.
eupdate_activepce_onebased(r, nbs, saved) ==
  LET u == update_activepce(r, [seq |-> nbs.seq, block |-> nbs.block], saved)
  IN  IF u.status \in {0, 1} THEN u ELSE close_pctl_activepce(Count(u, "missed"))

\* A product that misses a block is closed without being sent.
eupdate_activepce(r, nbs, saved) ==
  LET u == update_activepce(r, [seq |-> nbs.seq, block |-> nbs.block - 1], saved)
  IN  IF u.status \in {0, 1} THEN u ELSE close_pctl_activepce(Count(u, "missed"))

\* exists: the file of the product is in the spool by now.
eend_activepce(r, nbs, exists) ==
  LET whole == [r EXCEPT !.pce.f_complete = 1]
  IN  IF \/ nbs.seq # r.pce.seq_number
         \/ r.pce.num_fragments > r.pce.recv_fragments
         \/ exists
      THEN Discard(r) ELSE SendAndClose(Count(whole, "completed"))

slavenbsproc(r, nbs, fate, saved, exists) ==
  LET started == IF nbs.block = 1 THEN estart_activepce(r, nbs, fate) ELSE r
      updated == IF started.status = 0
                 THEN eupdate_activepce(started, nbs, saved) ELSE started
  IN  IF updated.status = 0 /\ nbs.block = nbs.num
      THEN eend_activepce(updated, nbs, exists) ELSE updated

-----------------------------------------------------------------------------
(***************************************************************************)
(* slavenet_main(): a connection is read until there is an error, and      *)
(* opened again.                                                           *)
(***************************************************************************)
\* The product of the last packet has more packets.
Midway(c) == stream[c].block < stream[c].num

\* What the master may send next.
Follows(c, nbs) ==
  \/ stream[c] = NoPacket
  \/ nbs.block = 1
  \/ Midway(c) /\ nbs = [stream[c] EXCEPT !.block = @ + 1]

Cause(c, n) == causes' = [causes EXCEPT ![c] = @ + n] /\ causes'[c] <= MaxCauses

One(b) == IF b THEN 1 ELSE 0

\* slavenet_open(), also from slavenet_reopen().  When it fails it is tried
\* again.
slavenet_open(c) ==
  /\ fd[c] = -1 /\ stats[c]["received"] < MaxFrames
  /\ fd' = [fd EXCEPT ![c] = 1]
  /\ UNCHANGED <<vars, slaves, stream, causes>>

\* An error, a timeout, the end of the connection or a corrupt packet.
slavenet_close(c) ==
  /\ Ready(c) /\ fd[c] # -1
  /\ fd' = [fd EXCEPT ![c] = -1]
  /\ stream' = [stream EXCEPT ![c] = NoPacket]
  /\ Cause(c, 1)
  /\ UNCHANGED <<vars, slaves>>

slavenet_loop_nbs1(c, nbs) ==
  /\ Ready(c) /\ fd[c] # -1 /\ Follows(c, nbs)
  /\ \E fate \in Fates, saved, exists \in BOOLEAN :
       /\ Finish(c, slavenbsproc(Count(Reader(c), "received"), nbs, fate, saved, exists))
       /\ Cause(c, One(Midway(c) /\ nbs.block = 1) + One(nbs.block = 1 /\ fate = "bad")
                   + One(~saved))
  /\ stream' = [stream EXCEPT ![c] = nbs]
  /\ UNCHANGED <<fh, slaves, fd>>

\* The slave readers have channels that no noaaport reader uses.
ReadersInit ==
  /\ Init
  /\ slaves \in SUBSET Channels
  /\ fd = [c \in Channels |-> -1]
  /\ stream = [c \in Channels |-> NoPacket]
  /\ causes = [c \in Channels |-> 0]

NoaaportReader(c) ==
  /\ \E f \in Frames : sbnframeproc(c, f)
  /\ UNCHANGED slaveVars

SlaveReader(c) ==
  \/ slavenet_open(c)
  \/ slavenet_close(c)
  \/ \E nbs \in Packets : slavenet_loop_nbs1(c, nbs)

Send(c) == epctl_send(c) /\ UNCHANGED slaveVars

ReadersNext ==
  \/ \E c \in Channels \ slaves : NoaaportReader(c)
  \/ \E c \in slaves : SlaveReader(c)
  \/ \E c \in Channels : Send(c)

ReadersSpec == ReadersInit /\ [][ReadersNext]_svars

-----------------------------------------------------------------------------
(***************************************************************************)
(* A slave reader loses nothing by itself: each product that it counts as  *)
(* missed has a cause of its own, a connection that was lost, a product    *)
(* that the master did not finish, a name that is bad or memory that ran   *)
(* out.  After a cause the reader is back in step with its master at the   *)
(* cost of one product at most, whatever the connection goes on with.      *)
(***************************************************************************)
MissesExplained == \A c \in slaves : stats[c]["missed"] <= causes[c]
=============================================================================
