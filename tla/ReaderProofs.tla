---------------------------- MODULE ReaderProofs ----------------------------
(***************************************************************************)
(* Proofs about the readers.  First FrameProcessor: its types,             *)
(* HandedOverIntact and ProductsAccounted, for any set of channels and any *)
(* set of frames.  Then SlaveNbs: the same holds with slave readers next   *)
(* to them, and a slave reader misses no product without a cause.          *)
(***************************************************************************)
EXTENDS SlaveNbs, TLAPS

\* A leaf is for Zenon unless it names SMT, and may take a minute.
USE ZenonT(60), SMTT(60)

\* The records threaded through the stages of sbnframeproc().
Work == [pce : Pce, stats : [Counters -> Nat], out : Seq(Pce),
         dropped : Nat, status : Int]

\* An active pce holds exactly the blocks it has counted.
PceOK(p) == p.seq_number # 0 =>
              /\ p.recv_fragments \in Nat
              /\ p.mf = Blocks(p.seq_number, p.recv_fragments)
              /\ p.f_complete = 0

SentOK(p) == p.seq_number # 0 => Assembled(p)

OutOK(out) == \A i \in 1..Len(out) : SentOK(out[i])

Good(r) == r \in Work /\ PceOK(r.pce) /\ OutOK(r.out)

\* The prefix of n blocks of a product, as update_activepce() saves them, has
\* n elements.
LEMMA BlocksLen ==
  ASSUME NEW s \in Nat, NEW n \in Nat
  PROVE  Blocks(s, n) \in Seq(Block) /\ Len(Blocks(s, n)) = n
BY SMTT(60) DEF Blocks, Block

\* Saving the next block of a product extends its prefix by one.
LEMMA BlocksAppend ==
  ASSUME NEW s \in Nat, NEW n \in Nat
  PROVE  Append(Blocks(s, n), [seq |-> s, block |-> n]) = Blocks(s, n + 1)
BY SMTT(60) DEF Blocks, Block

\* The update_stats functions change one counter and nothing else.
LEMMA CountWork ==
  ASSUME NEW r \in Work, NEW k \in Counters
  PROVE  /\ Count(r, k) \in Work
         /\ Count(r, k).pce = r.pce
         /\ Count(r, k).out = r.out
         /\ Count(r, k).dropped = r.dropped
         /\ Count(r, k).status = r.status
         /\ Count(r, k).stats = [r.stats EXCEPT ![k] = @ + 1]
<1>1. [r.stats EXCEPT ![k] = r.stats[k] + 1] \in [Counters -> Nat]
  BY SMTT(60) DEF Work
<1>2. ASSUME NEW s \in [Counters -> Nat]
      PROVE  /\ [r EXCEPT !.stats = s] \in Work
             /\ [r EXCEPT !.stats = s].pce = r.pce
             /\ [r EXCEPT !.stats = s].out = r.out
             /\ [r EXCEPT !.stats = s].dropped = r.dropped
             /\ [r EXCEPT !.stats = s].status = r.status
             /\ [r EXCEPT !.stats = s].stats = s
  BY ZenonT(60) DEF Work
<1>3. PICK s \in [Counters -> Nat] : s = [r.stats EXCEPT ![k] = @ + 1]
  BY ZenonT(60), <1>1
<1>4. Count(r, k) = [r EXCEPT !.stats = s]
  BY ZenonT(60), <1>3 DEF Count
<1> QED
  BY ZenonT(60), <1>2, <1>3, <1>4

\* close_pce() leaves an empty memory file and the mark of a closed pce.
LEMMA ClosePce ==
  ASSUME NEW p \in Pce
  PROVE  /\ close_pce(p) \in Pce
         /\ close_pce(p).seq_number = 0
         /\ close_pce(p).mf = <<>>
<1>1. <<>> \in Seq(Block)
  BY SMTT(60)
<1> QED
  BY ZenonT(60), <1>1 DEF close_pce, Pce

\* close_pctl_activepce() only touches the pce.
LEMMA CloseWork ==
  ASSUME NEW r \in Work
  PROVE  /\ close_pctl_activepce(r) \in Work
         /\ close_pctl_activepce(r).pce = close_pce(r.pce)
         /\ close_pctl_activepce(r).out = r.out
         /\ close_pctl_activepce(r).stats = r.stats
         /\ close_pctl_activepce(r).dropped = r.dropped
         /\ close_pctl_activepce(r).status = r.status
BY ClosePce DEF close_pctl_activepce, Work

\* Closing without sending changes only the pce and the ghost.
LEMMA DiscardWork ==
  ASSUME NEW r \in Work
  PROVE  /\ Discard(r) \in Work
         /\ Discard(r).pce = close_pce(r.pce)
         /\ Discard(r).out = r.out
         /\ Discard(r).stats = r.stats
         /\ Discard(r).status = r.status
         /\ Discard(r).dropped =
              r.dropped + (IF Active(r.pce) THEN 1 ELSE 0)
<1> DEFINE d == r.dropped + (IF Active(r.pce) THEN 1 ELSE 0)
<1>1. d \in Nat
  BY SMTT(60) DEF Work
<1> QED
  BY <1>1, CloseWork DEF Discard, Work

\* Sending and closing appends the pce to what goes out, and empties it.
LEMMA SendWork ==
  ASSUME NEW r \in Work
  PROVE  /\ SendAndClose(r) \in Work
         /\ SendAndClose(r).pce = close_pce(r.pce)
         /\ SendAndClose(r).out = Append(r.out, r.pce)
         /\ SendAndClose(r).stats = r.stats
         /\ SendAndClose(r).dropped = r.dropped
         /\ SendAndClose(r).status = r.status
<1> DEFINE s == esend_pctl_activepce(r)
<1>0. Append(r.out, r.pce) \in Seq(Pce)
  BY SMTT(60) DEF Work
<1>1. s \in Work /\ s.pce = r.pce /\ s.out = Append(r.out, r.pce)
      /\ s.stats = r.stats /\ s.dropped = r.dropped /\ s.status = r.status
  BY ZenonT(60), <1>0 DEF esend_pctl_activepce, Work
<1> QED
  BY <1>1, CloseWork DEF SendAndClose

-----------------------------------------------------------------------------
(***************************************************************************)
(* Every stage keeps Good: the active pce and all that is sent hold their  *)
(* own blocks only.                                                        *)
(***************************************************************************)
\* One more good element leaves what goes out good.
LEMMA OutAppend ==
  ASSUME NEW out \in Seq(Pce), NEW p \in Pce, OutOK(out), SentOK(p)
  PROVE  OutOK(Append(out, p))
BY SMTT(60) DEF OutOK

\* Sending and closing a pce that may be sent keeps the record good.
LEMMA SendGood ==
  ASSUME NEW r \in Work, OutOK(r.out), SentOK(r.pce)
  PROVE  Good(SendAndClose(r))
<1>1. r.pce \in Pce /\ r.out \in Seq(Pce)
  BY DEF Work
<1> QED
  BY ZenonT(60), <1>1, SendWork, OutAppend, ClosePce DEF Good, PceOK

\* An active pce may be sent as it is.
LEMMA ActiveSent ==
  ASSUME NEW p \in Pce, PceOK(p)
  PROVE  SentOK(p)
<1> SUFFICES ASSUME p.seq_number # 0
             PROVE  Assembled(p)
  BY DEF SentOK
<1>1. p.seq_number \in Nat /\ p.recv_fragments \in Nat
      /\ p.mf = Blocks(p.seq_number, p.recv_fragments) /\ p.f_complete = 0
  BY DEF PceOK, Pce
<1>2. Len(p.mf) = p.recv_fragments
  BY SMTT(60), <1>1, BlocksLen
<1> QED
  BY SMTT(60), <1>1, <1>2 DEF Assembled

\* So does counting.
LEMMA CountGood ==
  ASSUME NEW r, Good(r), NEW k \in Counters
  PROVE  Good(Count(r, k))
BY ZenonT(60), CountWork DEF Good

\* So does closing the pce of an aborted or mistaken product.
LEMMA DiscardGood ==
  ASSUME NEW r, Good(r)
  PROVE  Good(Discard(r))
<1>1. r.pce \in Pce
  BY DEF Good, Work
<1> QED
  BY <1>1, DiscardWork, ClosePce DEF Good, PceOK

\* The pce of a new product has its type.
LEMMA NewPceType ==
  ASSUME NEW p \in Pce, NEW f \in Frame
  PROVE  /\ NewPce(p, f) \in Pce
         /\ NewPce(p, f).seq_number = f.seq
         /\ NewPce(p, f).recv_fragments = 0
         /\ NewPce(p, f).f_complete = 0
         /\ NewPce(p, f).mf = p.mf
<1> DEFINE num  == IF f.nfrag = 0 THEN 1 ELSE f.nfrag
           orig == IF f.rtx THEN f.orig ELSE 0
<1>1. num \in Int /\ orig \in Int /\ f.seq \in Nat
  BY SMTT(60) DEF Frame
<1> HIDE DEF num, orig
<1>2. p.mf \in Seq(Block)
  BY DEF Pce
<1> QED
  BY SMTT(60), <1>1, <1>2 DEF NewPce, Pce, num, orig

\* start_activepce() returns one of its five documented values.
LEMMA StartStatus ==
  ASSUME NEW f \in Frame, NEW load \in BOOLEAN
  PROVE  start_status(f, load) \in 0..4
BY SMTT(60) DEF start_status, Frame, Names

\* start_activepce() keeps the record good; on success the memory file is
\* empty.
LEMMA StartGood ==
  ASSUME NEW r, Good(r), NEW f \in Frame, NEW load \in BOOLEAN
  PROVE  Good(start_activepce(r, f, load))
<1> DEFINE cleared == IF open_pce_fails(r.pce)
                      THEN SendAndClose(Count(r, "missed"))
                      ELSE r
           status  == start_status(f, load)
           started == [cleared EXCEPT !.pce = NewPce(cleared.pce, f),
                                      !.status = status]
<1>1. Good(cleared) /\ cleared.pce.mf = <<>>
  <2>1. CASE open_pce_fails(r.pce)
    <3>1. r \in Work /\ r.pce \in Pce /\ SentOK(r.pce)
      BY ActiveSent DEF Good, Work
    <3>2. Count(r, "missed") \in Work /\ Count(r, "missed").pce = r.pce
          /\ Count(r, "missed").out = r.out
      BY ZenonT(60), <3>1, CountWork DEF Counters
    <3> QED
      BY SMTT(60), <2>1, <3>1, <3>2, SendGood, SendWork, ClosePce DEF Good
  <2>2. CASE ~open_pce_fails(r.pce)
    BY <2>2 DEF open_pce_fails
  <2> QED
    BY <2>1, <2>2
<1>2. cleared \in Work /\ cleared.pce \in Pce /\ OutOK(cleared.out)
  BY <1>1 DEF Good, Work
<1>3. status \in Int
  BY SMTT(60), StartStatus
<1> HIDE DEF cleared, status
<1>4. /\ started \in Work
      /\ started.pce = NewPce(cleared.pce, f)
      /\ started.out = cleared.out
  BY ZenonT(60), <1>2, <1>3, NewPceType DEF Work
<1>5. PceOK(started.pce)
  <2>1. Blocks(f.seq, 0) = <<>>
    BY SMTT(60) DEF Blocks
  <2> QED
    BY SMTT(60), <1>1, <1>2, <1>4, <2>1, NewPceType DEF PceOK
<1>6. Good(started)
  BY <1>2, <1>4, <1>5 DEF Good
<1>7. Good(close_pctl_activepce(started))
  <2>1. started.pce \in Pce
    BY <1>2, <1>4, NewPceType
  <2> QED
    BY ZenonT(60), <1>2, <1>4, <2>1, CloseWork, ClosePce DEF Good, PceOK
<1>8. start_activepce(r, f, load) =
        IF status = 0 THEN started ELSE close_pctl_activepce(started)
  BY DEF start_activepce, cleared, status
<1> QED
  BY <1>6, <1>7, <1>8

\* e_start_activepce() adds only counting to it.
LEMMA EStartGood ==
  ASSUME NEW r, Good(r), NEW f \in Frame, NEW load \in BOOLEAN
  PROVE  Good(e_start_activepce(r, f, load))
<1> DEFINE s == start_activepce(Count(r, "transmitted"), f, load)
<1>1. Good(s)
  BY CountGood, StartGood DEF Counters
<1>2. Good([r EXCEPT !.status = 1])
  BY SMTT(60) DEF Good, Work
<1>3. Good(Count(s, "rejected")) /\ Good(Count(s, "missed"))
  BY <1>1, CountGood DEF Counters
<1> HIDE DEF s
<1>4. e_start_activepce(r, f, load) \in
        {[r EXCEPT !.status = 1], s, Count(s, "rejected"), Count(s, "missed")}
  BY DEF e_start_activepce, s
<1> QED
  BY <1>1, <1>2, <1>3, <1>4

\* The four outcomes of update_activepce().
LEMMA UpdateCases ==
  ASSUME NEW r, Good(r), NEW f, f.seq \in Nat, f.block \in Nat, NEW saved \in BOOLEAN
  PROVE  LET u == update_activepce(r, f, saved)
         IN  /\ u \in Work
             /\ u.out = r.out /\ u.stats = r.stats /\ u.dropped = r.dropped
             /\ u.pce.seq_number = r.pce.seq_number
             /\ \/ u.status = 1 /\ u.pce = r.pce /\ r.pce.seq_number # f.seq
                \/ u.status = 2 /\ u.pce = r.pce /\ r.pce.seq_number = f.seq
                   /\ f.block # r.pce.recv_fragments
                \/ u.status = r.status /\ PceOK(u.pce)
                   /\ r.pce.seq_number = f.seq /\ f.block = r.pce.recv_fragments
                   /\ u.pce.recv_fragments = f.block + 1
                   /\ u.pce.num_fragments = r.pce.num_fragments
                \/ u.status = -1 /\ SentOK(u.pce) /\ ~saved
                   /\ r.pce.seq_number = f.seq
<1> DEFINE u == update_activepce(r, f, saved)
           p == r.pce
           b == [seq |-> f.seq, block |-> f.block]
<1>1. r \in Work /\ p \in Pce /\ PceOK(p) /\ f.seq \in Nat /\ f.block \in Nat
  BY DEF Good, Work
<1>a. ASSUME NEW k \in Int
      PROVE  LET v == [r EXCEPT !.status = k]
             IN  v \in Work /\ v.pce = p /\ v.status = k /\ v.out = r.out
                 /\ v.stats = r.stats /\ v.dropped = r.dropped
  BY <1>1 DEF Work
<1>2. CASE f.seq # p.seq_number
  <2>1. u = [r EXCEPT !.status = 1]
    BY <1>2 DEF update_activepce
  <2> QED
    BY SMTT(60), <1>2, <1>a, <2>1
<1>3. CASE f.seq = p.seq_number /\ f.block # p.recv_fragments
  <2>1. u = [r EXCEPT !.status = 2]
    BY <1>3 DEF update_activepce
  <2> QED
    BY SMTT(60), <1>3, <1>a, <2>1
<1>4. CASE f.seq = p.seq_number /\ f.block = p.recv_fragments
  <2>1. p.recv_fragments \in Nat /\ p.mf \in Seq(Block) /\ b \in Block
    BY <1>1, <1>4 DEF Pce, Block
  <2>2. CASE saved
    <3> DEFINE q == [p EXCEPT !.recv_fragments = p.recv_fragments + 1,
                              !.mf = Append(p.mf, b)]
    <3>1. Append(p.mf, b) \in Seq(Block)
      BY SMTT(60), <2>1
    <3>a. p.recv_fragments + 1 \in Int
      BY SMTT(60), <2>1
    <3> HIDE DEF p, b
    <3>2. /\ q \in Pce
          /\ q.recv_fragments = p.recv_fragments + 1
          /\ q.mf = Append(p.mf, b)
          /\ q.seq_number = p.seq_number
          /\ q.num_fragments = p.num_fragments
          /\ q.f_complete = p.f_complete
      BY ZenonT(60), <1>1, <3>1, <3>a DEF Pce
    <3> HIDE DEF q
    <3>3. PceOK(q)
      <4> SUFFICES ASSUME q.seq_number # 0
                   PROVE  /\ q.recv_fragments \in Nat
                          /\ q.mf = Blocks(q.seq_number, q.recv_fragments)
                          /\ q.f_complete = 0
        BY DEF PceOK
      <4>1. p.mf = Blocks(p.seq_number, p.recv_fragments) /\ p.f_complete = 0
        BY <1>1, <3>2 DEF PceOK
      <4>2. b = [seq |-> p.seq_number, block |-> p.recv_fragments]
        BY <1>4 DEF b
      <4>3. Append(p.mf, b) = Blocks(p.seq_number, p.recv_fragments + 1)
        BY <1>1, <1>4, <2>1, <4>1, <4>2, BlocksAppend
      <4> QED
        BY SMTT(60), <2>1, <3>2, <4>1, <4>3
    <3> USE DEF p, b
    <3>4. u = [r EXCEPT !.pce = q]
      BY ZenonT(60), <1>1, <1>4, <2>2 DEF update_activepce, q, Work, Pce
    <3>5. u \in Work /\ u.pce = q /\ u.status = r.status
          /\ u.out = r.out /\ u.stats = r.stats /\ u.dropped = r.dropped
      BY <1>1, <3>2, <3>4 DEF Work
    <3> QED
      BY <1>1, <1>4, <3>2, <3>3, <3>5
  <2>3. CASE ~saved
    <3> DEFINE q == [p EXCEPT !.recv_fragments = p.recv_fragments + 1]
    <3>1. /\ q \in Pce
          /\ q.recv_fragments = p.recv_fragments + 1
          /\ q.mf = p.mf
          /\ q.seq_number = p.seq_number
          /\ q.f_complete = p.f_complete
      BY SMTT(60), <1>1, <2>1 DEF Pce
    <3>2. SentOK(q)
      <4> SUFFICES ASSUME q.seq_number # 0
                   PROVE  Assembled(q)
        BY DEF SentOK
      <4> HIDE DEF q
      <4>1. p.mf = Blocks(p.seq_number, p.recv_fragments) /\ p.f_complete = 0
        BY <1>1, <3>1 DEF PceOK
      <4>2. Len(p.mf) = p.recv_fragments
        BY ZenonT(60), <1>1, <1>4, <2>1, <4>1, BlocksLen
      <4> QED
        BY SMTT(60), <2>1, <3>1, <4>1, <4>2 DEF Assembled
    <3> HIDE DEF q
    <3>3. u = [r EXCEPT !.pce = q, !.status = -1]
      BY <1>1, <1>4, <2>3 DEF update_activepce, q, Work, Pce
    <3>a. -1 \in Int
      BY SMTT(60)
    <3>4. u \in Work /\ u.pce = q /\ u.status = -1
          /\ u.out = r.out /\ u.stats = r.stats /\ u.dropped = r.dropped
      <4> HIDE DEF u, p
      <4> QED
        BY ZenonT(60), <1>1, <3>1, <3>3, <3>a DEF Work
    <3> QED
      BY <1>1, <1>4, <2>3, <3>1, <3>2, <3>4
  <2> QED
    BY <2>2, <2>3
<1> QED
  BY <1>2, <1>3, <1>4

\* e_update_activepce() keeps the record good: a frame is saved in its place
\* or the product is sent without it.
LEMMA EUpdateGood ==
  ASSUME NEW r, Good(r), r.status = 0, NEW f \in Frame, NEW saved \in BOOLEAN
  PROVE  Good(e_update_activepce(r, f, saved))
<1> DEFINE u == update_activepce(r, f, saved)
<1>1. u \in Work /\ OutOK(u.out) /\ PceOK(r.pce) /\ r.pce \in Pce
      /\ u.pce \in Pce
  BY SMTT(60), UpdateCases DEF Good, Work, Frame
<1>2. \/ u.status \in {1, 2} /\ u.pce = r.pce
      \/ u.status = 0 /\ PceOK(u.pce)
      \/ u.status = -1 /\ SentOK(u.pce)
  BY SMTT(60), UpdateCases DEF Frame
<1> HIDE DEF u
<1>3. e_update_activepce(r, f, saved) =
        CASE u.status = 0 -> u
          [] u.status = 1 -> [u EXCEPT !.status = 0]
          [] OTHER        -> SendAndClose(Count(u, "missed"))
  BY DEF e_update_activepce, u
<1>4. CASE u.status = 0
  BY SMTT(60), <1>1, <1>2, <1>3, <1>4 DEF Good
<1>5. CASE u.status = 1
  <2> DEFINE v == [u EXCEPT !.status = 0]
  <2>1. v \in Work /\ v.pce = u.pce /\ v.out = u.out
    BY SMTT(60), <1>1 DEF Work
  <2>2. e_update_activepce(r, f, saved) = v
    BY SMTT(60), <1>3, <1>5
  <2>3. PceOK(u.pce)
    BY SMTT(60), <1>1, <1>2, <1>5
  <2> HIDE DEF v
  <2> QED
    BY <1>1, <2>1, <2>2, <2>3 DEF Good
<1>6. CASE u.status \notin {0, 1}
  <2>1. SentOK(u.pce)
    BY <1>1, <1>2, <1>6, ActiveSent
  <2>2. Good(SendAndClose(Count(u, "missed")))
    BY ZenonT(60), <1>1, <2>1, CountWork, SendGood DEF Counters
  <2> QED
    BY <1>3, <1>6, <2>2
<1> QED
  BY <1>4, <1>5, <1>6

\* e_end_activepce() flags as complete only a pce that has all its fragments.
LEMMA EEndGood ==
  ASSUME NEW r, Good(r), NEW f \in Frame
  PROVE  Good(e_end_activepce(r, f))
<1>1. r \in Work /\ r.pce \in Pce /\ OutOK(r.out) /\ SentOK(r.pce)
  BY ActiveSent DEF Good, Work
<1>2. CASE f.seq # r.pce.seq_number
  BY <1>2, DiscardGood DEF e_end_activepce
<1>3. CASE f.seq = r.pce.seq_number
           /\ r.pce.num_fragments > r.pce.recv_fragments
  <2>1. Good(SendAndClose(Count(r, "missed")))
    BY ZenonT(60), <1>1, CountWork, SendGood DEF Counters
  <2> QED
    BY <1>3, <2>1 DEF e_end_activepce
<1>4. CASE f.seq = r.pce.seq_number
           /\ ~(r.pce.num_fragments > r.pce.recv_fragments)
  <2> DEFINE p == r.pce
             q == [p EXCEPT !.f_complete = 1]
             e == [r EXCEPT !.pce = q]
  <2>1. /\ q \in Pce
        /\ q.seq_number = p.seq_number
        /\ q.num_fragments = p.num_fragments
        /\ q.recv_fragments = p.recv_fragments
        /\ q.mf = p.mf
    BY SMTT(60), <1>1 DEF Pce
  <2>2. SentOK(q)
    <3> SUFFICES ASSUME q.seq_number # 0
                 PROVE  Assembled(q)
      BY DEF SentOK
    <3> HIDE DEF q
    <3>1. /\ p.seq_number \in Nat /\ p.recv_fragments \in Nat
          /\ p.num_fragments \in Int
          /\ p.mf = Blocks(p.seq_number, p.recv_fragments)
      BY <1>1, <2>1 DEF Good, PceOK, Pce
    <3>2. Len(p.mf) = p.recv_fragments
      BY SMTT(60), <3>1, BlocksLen
    <3> QED
      BY SMTT(60), <1>4, <2>1, <3>1, <3>2 DEF Assembled
  <2> HIDE DEF q
  <2>3. e \in Work /\ e.pce = q /\ e.out = r.out
    BY <1>1, <2>1 DEF Work
  <2> HIDE DEF e
  <2>4. Good(SendAndClose(Count(e, "completed")))
    BY ZenonT(60), <1>1, <2>2, <2>3, CountWork, SendGood DEF Counters
  <2>5. e_end_activepce(r, f) = SendAndClose(Count(e, "completed"))
    BY <1>1, <1>4 DEF e_end_activepce, e, q, Work, Pce
  <2> QED
    BY <2>4, <2>5
<1> QED
  BY <1>2, <1>3, <1>4

\* The three stages of a data frame, one after the other, keep the record
\* good.
LEMMA DataTransferGood ==
  ASSUME NEW r, Good(r), r.status = 0, NEW f \in Frame,
         NEW load \in BOOLEAN, NEW saved \in BOOLEAN
  PROVE  Good(DataTransfer(r, f, load, saved))
<1> DEFINE counted  == IF "START" \in f.type /\ f.rtx
                       THEN Count(r, "retransmitted") ELSE r
           started  == IF "START" \in f.type
                       THEN e_start_activepce(counted, f, load) ELSE counted
           progress == IF started.status = 0 /\ "PROGRESS" \in f.type
                       THEN e_update_activepce(started, f, saved)
                       ELSE started
<1>1. Good(counted)
  BY CountGood DEF Counters
<1> HIDE DEF counted
<1>2. Good(started)
  BY <1>1, EStartGood
<1> HIDE DEF started
<1>3. Good(progress)
  BY <1>2, EUpdateGood
<1> HIDE DEF progress
<1>4. DataTransfer(r, f, load, saved) =
        IF progress.status = 0 /\ "END" \in f.type
        THEN e_end_activepce(progress, f) ELSE progress
  BY DEF DataTransfer, counted, started, progress
<1> QED
  BY <1>3, <1>4, EEndGood

-----------------------------------------------------------------------------
(***************************************************************************)
(* The account of the products.  Debt is what has been transmitted and not *)
(* yet counted otherwise; between frames it is 1 while a product is active *)
(* and 0 when none is.  It needs product sequence numbers other than 0.    *)
(***************************************************************************)
Debt(r) == r.stats["transmitted"] - r.stats["completed"] - r.stats["missed"]
           - r.stats["rejected"] - r.dropped

Act(p) == IF Active(p) THEN 1 ELSE 0

Empty(p) == p.seq_number = 0 => p.mf = <<>>

Settled(r) == Good(r) /\ Debt(r) = Act(r.pce) /\ Empty(r.pce)

\* How counting a product changes the debt: products started and not
\* accounted for.
LEMMA DebtCount ==
  ASSUME NEW r \in Work
  PROVE  /\ Debt(r) \in Int
         /\ Debt(Count(r, "transmitted")) = Debt(r) + 1
         /\ Debt(Count(r, "completed")) = Debt(r) - 1
         /\ Debt(Count(r, "missed")) = Debt(r) - 1
         /\ Debt(Count(r, "rejected")) = Debt(r) - 1
         /\ \A k \in {"received", "bad", "jumps", "retransmitted", "aborted"} :
              Debt(Count(r, k)) = Debt(r)
<1>1. r.stats \in [Counters -> Nat] /\ r.dropped \in Nat
  BY DEF Work
<1>2. \A k \in Counters : /\ Count(r, k).stats = [r.stats EXCEPT ![k] = @ + 1]
                          /\ Count(r, k).dropped = r.dropped
  BY CountWork
<1>3. r.stats["transmitted"] \in Nat /\ r.stats["completed"] \in Nat
      /\ r.stats["missed"] \in Nat /\ r.stats["rejected"] \in Nat
  BY <1>1 DEF Counters
<1>4. Debt(Count(r, "transmitted")) = Debt(r) + 1
  BY SMTT(60), <1>1, <1>2, <1>3 DEF Debt, Counters
<1>5. /\ Debt(Count(r, "completed")) = Debt(r) - 1
      /\ Debt(Count(r, "missed")) = Debt(r) - 1
      /\ Debt(Count(r, "rejected")) = Debt(r) - 1
  BY SMTT(60), <1>1, <1>2, <1>3 DEF Debt, Counters
<1>6. \A k \in {"received", "bad", "jumps", "retransmitted", "aborted"} :
        Debt(Count(r, k)) = Debt(r)
  BY SMTT(60), <1>1, <1>2, <1>3 DEF Debt, Counters
<1>7. Debt(r) \in Int
  BY SMTT(60), <1>1, <1>3 DEF Debt
<1> QED
  BY <1>4, <1>5, <1>6, <1>7

\* How closing the active pce changes the debt.
LEMMA DebtClose ==
  ASSUME NEW r \in Work
  PROVE  /\ Debt(close_pctl_activepce(r)) = Debt(r)
         /\ Debt(SendAndClose(r)) = Debt(r)
         /\ Debt(Discard(r)) = Debt(r) - Act(r.pce)
         /\ Act(close_pce(r.pce)) = 0
         /\ Empty(close_pce(r.pce))
<1>1. r.stats["transmitted"] \in Nat /\ r.stats["completed"] \in Nat
      /\ r.stats["missed"] \in Nat /\ r.stats["rejected"] \in Nat
      /\ r.dropped \in Nat /\ r.pce \in Pce
  BY DEF Work, Counters
<1>2. Debt(close_pctl_activepce(r)) = Debt(r) /\ Debt(SendAndClose(r)) = Debt(r)
  BY CloseWork, SendWork DEF Debt
<1>3. Debt(Discard(r)) = Debt(r) - Act(r.pce)
  <2>1. /\ Discard(r).stats = r.stats
        /\ Discard(r).dropped = r.dropped + Act(r.pce)
    BY DiscardWork DEF Act
  <2>2. Act(r.pce) \in Int
    BY SMTT(60) DEF Act
  <2> HIDE DEF Act
  <2> QED
    BY SMTT(60), <1>1, <2>1, <2>2 DEF Debt
<1>4. Act(close_pce(r.pce)) = 0 /\ Empty(close_pce(r.pce))
  BY <1>1, ClosePce DEF Act, Active, Empty
<1> QED
  BY <1>2, <1>3, <1>4

\* Counters outside the balance leave the record settled.
LEMMA CountSettled ==
  ASSUME NEW r, Settled(r),
         NEW k \in {"received", "bad", "jumps", "retransmitted", "aborted"}
  PROVE  /\ Settled(Count(r, k))
         /\ Count(r, k).pce = r.pce
         /\ Count(r, k).status = r.status
<1>1. k \in Counters
  BY DEF Counters
<1>2. r \in Work /\ Good(r)
  BY DEF Settled, Good
<1>3. Good(Count(r, k)) /\ Count(r, k).pce = r.pce
      /\ Count(r, k).status = r.status
  BY ZenonT(60), <1>1, <1>2, CountGood, CountWork
<1>4. Debt(Count(r, k)) = Debt(r)
  BY <1>2, DebtCount
<1> QED
  BY <1>3, <1>4 DEF Settled

\* Counting an active product as missed or completed and closing it settles
\* it.
LEMMA DebtCounted ==
  ASSUME NEW r \in Work, Debt(r) = 1,
         NEW k \in {"completed", "missed", "rejected"}
  PROVE  /\ Count(r, k) \in Work
         /\ Count(r, k).pce = r.pce
         /\ Debt(Count(r, k)) = 0
<1>1. k \in Counters
  BY DEF Counters
<1>2. Count(r, k) \in Work /\ Count(r, k).pce = r.pce
  BY ZenonT(60), <1>1, CountWork
<1>3. Debt(Count(r, k)) = Debt(r) - 1
  BY DebtCount
<1>4. Debt(Count(r, k)) = 0
  BY SMTT(60), <1>3
<1> QED
  BY <1>2, <1>4

\* start_activepce() settles the unfinished product before it takes the new
\* one.
LEMMA StartSettled ==
  ASSUME NEW r, Good(r), Empty(r.pce), Debt(r) = Act(r.pce) + 1,
         NEW f \in Frame, f.seq # 0, NEW load \in BOOLEAN
  PROVE  LET s == start_activepce(r, f, load)
         IN  /\ Empty(s.pce)
             /\ s.status \in 0..4
             /\ Debt(s) = 1
             /\ Act(s.pce) = IF s.status = 0 THEN 1 ELSE 0
<1> DEFINE cleared == IF open_pce_fails(r.pce)
                      THEN SendAndClose(Count(r, "missed"))
                      ELSE r
           status  == start_status(f, load)
           started == [cleared EXCEPT !.pce = NewPce(cleared.pce, f),
                                      !.status = status]
<1>0. r \in Work /\ r.pce \in Pce /\ r.pce.seq_number \in Nat
  BY DEF Good, Work, Pce
<1>1. cleared \in Work /\ cleared.pce \in Pce /\ Debt(cleared) = 1
  <2>1. CASE open_pce_fails(r.pce)
    <3>1. Act(r.pce) = 1
      BY <2>1 DEF open_pce_fails, Act, Active, Empty
    <3>2. Count(r, "missed") \in Work
      BY ZenonT(60), <1>0, CountWork DEF Counters
    <3>3. Debt(r) = 2
      BY SMTT(60), <3>1
    <3>4. Debt(Count(r, "missed")) = Debt(r) - 1
      BY <1>0, DebtCount
    <3>5. Debt(Count(r, "missed")) = 1
      BY SMTT(60), <3>3, <3>4
    <3> QED
      BY <2>1, <3>2, <3>5, SendWork, DebtClose DEF Work
  <2>2. CASE ~open_pce_fails(r.pce)
    BY SMTT(60), <1>0, <2>2 DEF open_pce_fails, Act, Active
  <2> QED
    BY <2>1, <2>2
<1>2. status \in 0..4
  BY StartStatus
<1> HIDE DEF cleared, status
<1>3. /\ started \in Work
      /\ started.pce = NewPce(cleared.pce, f)
      /\ started.status = status
      /\ started.stats = cleared.stats
      /\ started.dropped = cleared.dropped
  <2>1. NewPce(cleared.pce, f) \in Pce
    BY <1>1, NewPceType
  <2>2. status \in Int
    BY SMTT(60), <1>2
  <2> QED
    BY ZenonT(60), <1>1, <2>1, <2>2 DEF Work
<1> HIDE DEF started
<1>4. Debt(started) = 1 /\ Act(started.pce) = 1 /\ Empty(started.pce)
  BY ZenonT(60), <1>1, <1>3, NewPceType DEF Debt, Act, Active, Empty
<1>5. start_activepce(r, f, load) =
        IF status = 0 THEN started ELSE close_pctl_activepce(started)
  BY DEF start_activepce, cleared, status, started
<1> QED
  BY SMTT(60), <1>2, <1>3, <1>4, <1>5, CloseWork, DebtClose

\* e_start_activepce() counts the product that it could not start.
LEMMA EStartSettled ==
  ASSUME NEW r, Settled(r), NEW f \in Frame, f.seq # 0, NEW load \in BOOLEAN
  PROVE  Settled(e_start_activepce(r, f, load))
<1>0. r \in Work /\ Good(r) /\ Debt(r) = Act(r.pce) /\ Empty(r.pce)
  BY DEF Settled, Good
<1>1. Good(e_start_activepce(r, f, load))
  BY <1>0, EStartGood
<1>2. CASE f.block # 0
  <2> DEFINE v == [r EXCEPT !.status = 1]
  <2>1. v.pce = r.pce /\ v.stats = r.stats /\ v.dropped = r.dropped
    BY <1>0 DEF Work
  <2>2. e_start_activepce(r, f, load) = v
    BY <1>2 DEF e_start_activepce
  <2> HIDE DEF v
  <2> QED
    BY <1>0, <1>1, <2>1, <2>2 DEF Settled, Debt
<1>3. CASE f.block = 0
  <2> DEFINE t == Count(r, "transmitted")
             s == start_activepce(t, f, load)
  <2>1. Good(t) /\ t.pce = r.pce /\ Debt(t) = Act(t.pce) + 1 /\ Empty(t.pce)
    <3>1. "transmitted" \in Counters
      BY DEF Counters
    <3>2. Good(t) /\ t.pce = r.pce
      BY ZenonT(60), <1>0, <3>1, CountGood, CountWork
    <3>3. Debt(t) = Debt(r) + 1
      BY <1>0, DebtCount
    <3> QED
      BY <1>0, <3>2, <3>3
  <2> HIDE DEF t
  <2>2. Good(s) /\ s \in Work
    BY <2>1, StartGood DEF Good
  <2>3. Empty(s.pce) /\ s.status \in 0..4 /\ Debt(s) = 1
        /\ Act(s.pce) = IF s.status = 0 THEN 1 ELSE 0
    BY <2>1, StartSettled
  <2> HIDE DEF s
  <2>4. e_start_activepce(r, f, load) =
          CASE s.status = 0 -> s
            [] s.status = 4 -> Count(s, "rejected")
            [] OTHER        -> Count(s, "missed")
    BY <1>3 DEF e_start_activepce, s, t
  <2>5. CASE s.status = 0
    BY SMTT(60), <2>2, <2>3, <2>4, <2>5 DEF Settled
  <2>6. CASE s.status # 0
    <3>1. \A k \in {"rejected", "missed"} :
            Count(s, k).pce = s.pce /\ Debt(Count(s, k)) = 0
      BY <2>2, <2>3, DebtCounted
    <3> QED
      BY <1>1, <2>3, <2>4, <2>6, <3>1 DEF Settled
  <2> QED
    BY <2>5, <2>6
<1> QED
  BY <1>2, <1>3

\* e_update_activepce() counts the product that it gives up.
LEMMA EUpdateSettled ==
  ASSUME NEW r, Settled(r), r.status = 0, NEW f \in Frame, f.seq # 0,
         NEW saved \in BOOLEAN
  PROVE  Settled(e_update_activepce(r, f, saved))
<1> DEFINE u == update_activepce(r, f, saved)
<1>0. r \in Work /\ Good(r) /\ Debt(r) = Act(r.pce) /\ Empty(r.pce)
  BY DEF Settled, Good
<1>1. Good(e_update_activepce(r, f, saved))
  BY <1>0, EUpdateGood
<1>2. /\ u \in Work /\ u.pce \in Pce
      /\ u.stats = r.stats /\ u.dropped = r.dropped
      /\ u.pce.seq_number = r.pce.seq_number
      /\ \/ u.status \in {1, 2} /\ u.pce = r.pce
         \/ u.status \in {0, -1} /\ r.pce.seq_number = f.seq
  BY SMTT(60), <1>0, UpdateCases DEF Work, Frame
<1>3. Debt(u) = Act(u.pce) /\ Empty(u.pce)
  BY <1>0, <1>2 DEF Debt, Act, Active, Empty
<1>a. u.status = 2 => r.pce.seq_number = f.seq
  BY SMTT(60), <1>0 DEF update_activepce, Work
<1> HIDE DEF u
<1>4. e_update_activepce(r, f, saved) =
        CASE u.status = 0 -> u
          [] u.status = 1 -> [u EXCEPT !.status = 0]
          [] OTHER        -> SendAndClose(Count(u, "missed"))
  BY DEF e_update_activepce, u
<1>5. CASE u.status = 0
  BY SMTT(60), <1>1, <1>3, <1>4, <1>5 DEF Settled
<1>6. CASE u.status = 1
  <2> DEFINE v == [u EXCEPT !.status = 0]
  <2>1. v.pce = u.pce /\ v.stats = u.stats /\ v.dropped = u.dropped
    BY <1>2 DEF Work
  <2>2. e_update_activepce(r, f, saved) = v
    BY SMTT(60), <1>4, <1>6
  <2> HIDE DEF v
  <2> QED
    BY <1>1, <1>3, <2>1, <2>2 DEF Settled, Debt
<1>7. CASE u.status \in {2, -1}
  <2> DEFINE m == Count(u, "missed")
  <2>1. Act(u.pce) = 1
    BY SMTT(60), <1>2, <1>7, <1>a DEF Act, Active
  <2>2. m \in Work /\ Debt(m) = 0
    BY <1>2, <1>3, <2>1, DebtCounted
  <2>3. e_update_activepce(r, f, saved) = SendAndClose(m)
    BY SMTT(60), <1>4, <1>7
  <2> HIDE DEF m
  <2> QED
    BY SMTT(60), <1>1, <2>2, <2>3, SendWork, DebtClose DEF Settled
<1> QED
  BY <1>2, <1>5, <1>6, <1>7

\* e_end_activepce() counts the product as completed or missed, or it is
\* dropped.
LEMMA EEndSettled ==
  ASSUME NEW r, Settled(r), NEW f \in Frame, f.seq # 0
  PROVE  Settled(e_end_activepce(r, f))
<1>0. r \in Work /\ Good(r) /\ Debt(r) = Act(r.pce) /\ Empty(r.pce)
      /\ r.pce \in Pce
  BY DEF Settled, Good, Work
<1>1. Good(e_end_activepce(r, f))
  BY <1>0, EEndGood
<1>2. CASE f.seq # r.pce.seq_number
  <2>1. e_end_activepce(r, f) = Discard(r)
    BY <1>2 DEF e_end_activepce
  <2>2. Debt(Discard(r)) = 0
    BY SMTT(60), <1>0, DebtClose DEF Act
  <2> QED
    BY SMTT(60), <1>0, <1>1, <2>1, <2>2, DebtClose, DiscardWork DEF Settled
<1>3. CASE f.seq = r.pce.seq_number
  <2> DEFINE e == [r EXCEPT !.pce.f_complete = 1]
  <2>1. Act(r.pce) = 1
    BY <1>3 DEF Act, Active
  <2>2. PICK w \in Work : Debt(w) = 0
                          /\ e_end_activepce(r, f) = SendAndClose(w)
    <3>1. CASE r.pce.num_fragments > r.pce.recv_fragments
      <4>1. Count(r, "missed") \in Work /\ Debt(Count(r, "missed")) = 0
        BY <1>0, <2>1, DebtCounted
      <4> QED
        BY <1>3, <3>1, <4>1 DEF e_end_activepce
    <3>2. CASE ~(r.pce.num_fragments > r.pce.recv_fragments)
      <4>1. [r.pce EXCEPT !.f_complete = 1] \in Pce
        BY SMTT(60), <1>0 DEF Pce
      <4>2. e \in Work /\ e.stats = r.stats /\ e.dropped = r.dropped
        BY <1>0, <4>1 DEF Work
      <4>3. Debt(e) = 1
        BY <1>0, <2>1, <4>2 DEF Debt
      <4> HIDE DEF e
      <4>4. Count(e, "completed") \in Work /\ Debt(Count(e, "completed")) = 0
        BY <4>2, <4>3, DebtCounted
      <4> QED
        BY <1>3, <3>2, <4>4 DEF e_end_activepce, e
    <3> QED
      BY <3>1, <3>2
  <2> QED
    BY SMTT(60), <1>1, <2>2, SendWork, DebtClose DEF Settled
<1> QED
  BY <1>2, <1>3

\* A data frame leaves every product of its channel settled.
LEMMA DataTransferSettled ==
  ASSUME NEW r, Settled(r), r.status = 0, NEW f \in Frame, f.seq # 0,
         NEW load \in BOOLEAN, NEW saved \in BOOLEAN
  PROVE  Settled(DataTransfer(r, f, load, saved))
<1> DEFINE counted  == IF "START" \in f.type /\ f.rtx
                       THEN Count(r, "retransmitted") ELSE r
           started  == IF "START" \in f.type
                       THEN e_start_activepce(counted, f, load) ELSE counted
           progress == IF started.status = 0 /\ "PROGRESS" \in f.type
                       THEN e_update_activepce(started, f, saved)
                       ELSE started
<1>1. Settled(counted)
  BY CountSettled
<1> HIDE DEF counted
<1>2. Settled(started)
  BY <1>1, EStartSettled
<1> HIDE DEF started
<1>3. Settled(progress)
  BY <1>2, EUpdateSettled
<1> HIDE DEF progress
<1>4. DataTransfer(r, f, load, saved) =
        IF progress.status = 0 /\ "END" \in f.type
        THEN e_end_activepce(progress, f) ELSE progress
  BY DEF DataTransfer, counted, started, progress
<1> QED
  BY <1>3, <1>4, EEndSettled

-----------------------------------------------------------------------------
(***************************************************************************)
(* The invariants.  HandedOverIntact is about elements already sent; what  *)
(* makes it inductive is PceOK, the same about the product being received. *)
(***************************************************************************)
IInv == /\ TypeOK
        /\ \A c \in Channels : PceOK(activepce[c]) /\ OutOK(outbox[c])

\* Sequence number 0 marks a closed pce; no product is numbered 0.
NoZeroSeq == \A f \in Frames : f.seq # 0

AccountInv == \A c \in Channels : Debt(Reader(c)) = Act(activepce[c])
                                  /\ Empty(activepce[c])

\* A reader that has sent its elements starts a frame in a good state.
LEMMA ReaderGood ==
  ASSUME IInv, NEW c \in Channels
  PROVE  Good(Reader(c)) /\ Reader(c).status = 0
<1>1. <<>> \in Seq(Pce) /\ OutOK(<<>>)
  BY SMTT(60) DEF OutOK
<1> QED
  BY SMTT(60), <1>1 DEF IInv, TypeOK, Good, Work, Reader

\* So does the record after the frame is unpacked, whatever the jump.
LEMMA UnpackedGood ==
  ASSUME IInv, NEW c \in Channels, NEW f \in Frame
  PROVE  Good(Unpacked(c, f)) /\ Unpacked(c, f).status = 0
<1>1. "received" \in Counters /\ "jumps" \in Counters
  BY DEF Counters
<1>2. Reader(c) \in Work
  BY ReaderGood DEF Good
<1>3. /\ Good(Count(Reader(c), "received"))
      /\ Count(Reader(c), "received") \in Work
      /\ Count(Reader(c), "received").status = 0
  BY ZenonT(60), <1>1, <1>2, ReaderGood, CountGood, CountWork
<1>4. /\ Good(Count(Count(Reader(c), "received"), "jumps"))
      /\ Count(Count(Reader(c), "received"), "jumps").status = 0
  BY ZenonT(60), <1>1, <1>3, CountGood, CountWork
<1> QED
  BY <1>3, <1>4 DEF Unpacked

\* Storing a good record back keeps the invariant.
LEMMA FinishInv ==
  ASSUME IInv, NEW c \in Channels, NEW r, Good(r), Finish(c, r),
         fh' \in [Channels -> Nat]
  PROVE  IInv'
<1>1. r.pce \in Pce /\ r.stats \in [Counters -> Nat] /\ r.out \in Seq(Pce)
      /\ r.dropped \in Nat /\ PceOK(r.pce) /\ OutOK(r.out)
  BY DEF Good, Work
<1>2. TypeOK'
  BY ZenonT(60), <1>1 DEF IInv, TypeOK, Finish
<1>3. ASSUME NEW d \in Channels
      PROVE  PceOK(activepce[d])' /\ OutOK(outbox[d])'
  <2>1. activepce'[d] = (IF d = c THEN r.pce ELSE activepce[d])
    BY DEF IInv, TypeOK, Finish
  <2>2. outbox'[d] = (IF d = c THEN r.out ELSE outbox[d])
    BY DEF IInv, TypeOK, Finish
  <2>3. PceOK(activepce'[d]) /\ OutOK(outbox'[d])
    BY <1>1, <2>1, <2>2 DEF IInv
  <2> QED
    BY <2>3 DEF PceOK, OutOK, SentOK
<1> QED
  BY <1>2, <1>3 DEF IInv

\* The inductive invariant holds when pctl_init() has created the pces.
LEMMA InitInv == Init => IInv
<1> SUFFICES ASSUME Init PROVE IInv
  OBVIOUS
<1>1. FreshPce \subseteq Pce
  <2>1. <<>> \in Seq(Block)
    BY SMTT(60)
  <2>2. Garbage \subseteq Int /\ 0 \in Nat
    BY BoundsAssumption
  <2> SUFFICES ASSUME NEW p \in FreshPce PROVE p \in Pce
    OBVIOUS
  <2>3. PICK o \in Garbage, n \in Garbage, k \in Garbage, g \in Garbage :
          p = [seq_number |-> 0, orig_seq_number |-> o, num_fragments |-> n,
               recv_fragments |-> k, f_complete |-> g, mf |-> <<>>]
    BY DEF FreshPce
  <2> QED
    BY <2>1, <2>2, <2>3 DEF Pce
<1>2. <<>> \in Seq(Pce) /\ OutOK(<<>>)
  BY SMTT(60) DEF OutOK
<1>3. TypeOK
  BY <1>1, <1>2 DEF Init, TypeOK
<1>4. \A c \in Channels : activepce[c].seq_number = 0 /\ outbox[c] = <<>>
  BY ZenonT(60) DEF Init, FreshPce
<1> QED
  BY <1>2, <1>3, <1>4 DEF IInv, PceOK

\* Every frame and every send keeps it.
LEMMA NextInv == IInv /\ [Next]_vars => IInv'
<1> SUFFICES ASSUME IInv, [Next]_vars PROVE IInv'
  OBVIOUS
<1>1. CASE UNCHANGED vars
  BY <1>1 DEF vars, IInv, TypeOK, PceOK, OutOK, SentOK
<1>2. ASSUME NEW c \in Channels, NEW f \in Frames, BadFrame(c, f)
      PROVE  IInv'
  <2>1. "received" \in Counters /\ "bad" \in Counters
    BY DEF Counters
  <2>2. Good(Count(Count(Reader(c), "received"), "bad"))
    BY <2>1, ReaderGood, CountGood
  <2> QED
    BY <1>2, <2>2, FinishInv DEF BadFrame, IInv, TypeOK
<1>3. ASSUME NEW c \in Channels, NEW f \in Frames, NoData(c, f)
      PROVE  IInv'
  <2>1. f \in Frame /\ [fh EXCEPT ![c] = f.sbn_seq] \in [Channels -> Nat]
    BY FramesAssumption DEF IInv, TypeOK, Frame
  <2> QED
    BY <1>3, <2>1, UnpackedGood, FinishInv DEF NoData
<1>4. ASSUME NEW c \in Channels, NEW f \in Frames, AbortFrame(c, f)
      PROVE  IInv'
  <2>1. f \in Frame /\ [fh EXCEPT ![c] = f.sbn_seq] \in [Channels -> Nat]
    BY FramesAssumption DEF IInv, TypeOK, Frame
  <2>2. "aborted" \in Counters
    BY DEF Counters
  <2>3. Good(abort_activepce(Unpacked(c, f)))
    BY <2>1, <2>2, UnpackedGood, CountGood, DiscardGood DEF abort_activepce
  <2> QED
    BY <1>4, <2>1, <2>3, FinishInv DEF AbortFrame
<1>5. ASSUME NEW c \in Channels, NEW f \in Frames,
             NEW load \in BOOLEAN, NEW saved \in BOOLEAN,
             DataFrame(c, f, load, saved)
      PROVE  IInv'
  <2>1. f \in Frame /\ [fh EXCEPT ![c] = f.sbn_seq] \in [Channels -> Nat]
    BY FramesAssumption DEF IInv, TypeOK, Frame
  <2>2. Good(DataTransfer(Unpacked(c, f), f, load, saved))
    BY <2>1, UnpackedGood, DataTransferGood
  <2> QED
    BY <1>5, <2>1, <2>2, FinishInv DEF DataFrame
<1>6. ASSUME NEW c \in Channels, epctl_send(c)
      PROVE  IInv'
  <2>1. outbox[c] \in Seq(Pce) /\ outbox[c] # <<>> /\ OutOK(outbox[c])
    BY <1>6 DEF epctl_send, IInv, TypeOK
  <2>2. /\ Tail(outbox[c]) \in Seq(Pce)
        /\ Len(Tail(outbox[c])) = Len(outbox[c]) - 1
        /\ \A i \in 1..Len(Tail(outbox[c])) :
             Tail(outbox[c])[i] = outbox[c][i + 1] /\ i + 1 \in 1..Len(outbox[c])
    BY SMTT(60), <2>1
  <2>3. OutOK(Tail(outbox[c]))
    BY <2>1, <2>2 DEF OutOK
  <2>4. outbox' = [outbox EXCEPT ![c] = Tail(outbox[c])]
        /\ UNCHANGED <<fh, activepce, stats, dropped>>
    BY <1>6 DEF epctl_send
  <2>5. TypeOK'
    BY <2>2, <2>4 DEF IInv, TypeOK
  <2>6. ASSUME NEW d \in Channels
        PROVE  PceOK(activepce[d])' /\ OutOK(outbox[d])'
    <3>1. PceOK(activepce'[d]) /\ OutOK(outbox'[d])
      BY <2>3, <2>4 DEF IInv, TypeOK
    <3> QED
      BY <3>1 DEF PceOK, OutOK, SentOK
  <2> QED
    BY <2>5, <2>6 DEF IInv
<1> QED
  BY <1>1, <1>2, <1>3, <1>4, <1>5, <1>6 DEF Next, sbnframeproc

(***************************************************************************)
(* The variables keep their types: in particular an unfinished pce fresh   *)
(* from malloc() never puts a malformed element in the outbox.             *)
(***************************************************************************)
THEOREM TypeCorrect == Spec => []TypeOK
<1>1. IInv => TypeOK
  BY DEF IInv
<1> QED
  BY <1>1, InitInv, NextInv, PTL DEF Spec

(***************************************************************************)
(* For any channels and any frames, in any order: what sbnframeproc()      *)
(* hands to the processor queue is a gapless prefix of one product, and    *)
(* the whole of it when flagged complete.                                  *)
(***************************************************************************)
THEOREM ElementsIntact == Spec => []HandedOverIntact
<1>1. IInv => HandedOverIntact
  BY DEF IInv, OutOK, SentOK, HandedOverIntact
<1> QED
  BY <1>1, InitInv, NextInv, PTL DEF Spec

-----------------------------------------------------------------------------
\* Storing a settled record back keeps the account of the channels.
LEMMA FinishAccount ==
  ASSUME IInv, AccountInv, NEW c \in Channels, NEW r, Settled(r), Finish(c, r)
  PROVE  AccountInv'
<1>1. r.pce \in Pce /\ r.stats \in [Counters -> Nat] /\ r.dropped \in Nat
      /\ Debt(r) = Act(r.pce) /\ Empty(r.pce)
  BY DEF Settled, Good, Work
<1> SUFFICES ASSUME NEW d \in Channels
             PROVE  (Debt(Reader(d)) = Act(activepce[d]) /\ Empty(activepce[d]))'
  BY DEF AccountInv
<1>2. /\ activepce'[d] = (IF d = c THEN r.pce ELSE activepce[d])
      /\ stats'[d] = (IF d = c THEN r.stats ELSE stats[d])
      /\ dropped'[d] = (IF d = c THEN r.dropped ELSE dropped[d])
  BY DEF IInv, TypeOK, Finish
<1>3. Debt(Reader(d)) = Act(activepce[d]) /\ Empty(activepce[d])
  BY DEF AccountInv
<1> QED
  BY <1>1, <1>2, <1>3 DEF Debt, Act, Active, Empty, Reader

\* Nothing is owed at the start.
LEMMA InitAccount == Init => AccountInv
<1> SUFFICES ASSUME Init, NEW c \in Channels
             PROVE  Debt(Reader(c)) = Act(activepce[c]) /\ Empty(activepce[c])
  BY ZenonT(60) DEF AccountInv
<1>1. activepce[c].seq_number = 0 /\ activepce[c].mf = <<>>
  BY DEF Init, FreshPce
<1>2. stats[c] = [k \in Counters |-> 0] /\ dropped[c] = 0
  BY DEF Init
<1> QED
  BY SMTT(60), <1>1, <1>2 DEF Debt, Act, Active, Empty, Reader, Counters

\* Every frame and every send keeps the account.
LEMMA NextAccount ==
  ASSUME NoZeroSeq
  PROVE  IInv /\ AccountInv /\ [Next]_vars => AccountInv'
<1> SUFFICES ASSUME IInv, AccountInv, [Next]_vars PROVE AccountInv'
  OBVIOUS
<1>0. ASSUME NEW c \in Channels
      PROVE  Settled(Reader(c))
  <2>1. Reader(c).pce = activepce[c]
    BY DEF Reader
  <2> QED
    BY <2>1, ReaderGood DEF Settled, AccountInv
<1>a. ASSUME NEW c \in Channels, NEW f \in Frame
      PROVE  Settled(Unpacked(c, f)) /\ Unpacked(c, f).status = 0
  <2>1. Settled(Count(Reader(c), "received"))
    BY <1>0, CountSettled
  <2>2. Settled(Count(Count(Reader(c), "received"), "jumps"))
    BY <2>1, CountSettled
  <2> QED
    BY <2>1, <2>2, UnpackedGood DEF Unpacked
<1>b. \A f \in Frames : f \in Frame /\ f.seq # 0
  BY FramesAssumption DEF NoZeroSeq
<1>1. CASE UNCHANGED vars
  BY <1>1 DEF vars, AccountInv, Debt, Act, Active, Empty, Reader
<1>2. ASSUME NEW c \in Channels, NEW f \in Frames, BadFrame(c, f)
      PROVE  AccountInv'
  <2>1. Settled(Count(Reader(c), "received"))
    BY <1>0, CountSettled
  <2>2. Settled(Count(Count(Reader(c), "received"), "bad"))
    BY <2>1, CountSettled
  <2> QED
    BY <1>2, <2>2, FinishAccount DEF BadFrame
<1>3. ASSUME NEW c \in Channels, NEW f \in Frames, NoData(c, f)
      PROVE  AccountInv'
  BY <1>3, <1>a, <1>b, FinishAccount DEF NoData
<1>4. ASSUME NEW c \in Channels, NEW f \in Frames, AbortFrame(c, f)
      PROVE  AccountInv'
  <2> DEFINE w == Count(Unpacked(c, f), "aborted")
  <2>1. Settled(w)
    BY <1>a, <1>b, CountSettled
  <2> HIDE DEF w
  <2>2. w \in Work /\ Good(w) /\ Debt(w) = Act(w.pce) /\ w.pce \in Pce
    BY <2>1 DEF Settled, Good, Work
  <2>3. Debt(Discard(w)) = 0
    BY SMTT(60), <2>2, DebtClose DEF Act
  <2>4. Settled(Discard(w))
    BY <2>2, <2>3, DiscardGood, DebtClose, DiscardWork DEF Settled
  <2>5. abort_activepce(Unpacked(c, f)) = Discard(w)
    BY DEF abort_activepce, w
  <2> QED
    BY <1>4, <2>4, <2>5, FinishAccount DEF AbortFrame
<1>5. ASSUME NEW c \in Channels, NEW f \in Frames,
             NEW load \in BOOLEAN, NEW saved \in BOOLEAN,
             DataFrame(c, f, load, saved)
      PROVE  AccountInv'
  <2>1. Settled(DataTransfer(Unpacked(c, f), f, load, saved))
    BY <1>a, <1>b, DataTransferSettled
  <2> QED
    BY <1>5, <2>1, FinishAccount DEF DataFrame
<1>6. ASSUME NEW c \in Channels, epctl_send(c)
      PROVE  AccountInv'
  BY <1>6 DEF epctl_send, AccountInv, Debt, Act, Active, Empty, Reader
<1> QED
  BY <1>1, <1>2, <1>3, <1>4, <1>5, <1>6 DEF Next, sbnframeproc

\* The account of the channels is the conservation of products.
LEMMA AccountProducts == IInv /\ AccountInv => ProductsAccounted
<1> SUFFICES ASSUME IInv, AccountInv, NEW c \in Channels
             PROVE  stats[c]["transmitted"] =
                      stats[c]["completed"] + stats[c]["missed"]
                      + stats[c]["rejected"] + dropped[c]
                      + (IF Active(activepce[c]) THEN 1 ELSE 0)
  BY ZenonT(60) DEF ProductsAccounted
<1>1. stats[c]["transmitted"] \in Nat /\ stats[c]["completed"] \in Nat
      /\ stats[c]["missed"] \in Nat /\ stats[c]["rejected"] \in Nat
      /\ dropped[c] \in Nat
  BY DEF IInv, TypeOK, Counters
<1>2. stats[c]["transmitted"] - stats[c]["completed"] - stats[c]["missed"]
      - stats[c]["rejected"] - dropped[c]
      = (IF Active(activepce[c]) THEN 1 ELSE 0)
  BY DEF AccountInv, Debt, Act, Reader
<1> QED
  BY SMTT(60), <1>1, <1>2

(***************************************************************************)
(* For any channels and any frames whose products are not numbered 0,      *)
(* e_start_activepce()'s count of transmitted products is the sum of the   *)
(* completed, the missed, the rejected, the dropped and the active one.    *)
(***************************************************************************)
THEOREM ProductsConserved ==
  ASSUME NoZeroSeq
  PROVE  Spec => []ProductsAccounted
BY AccountProducts, InitInv, NextInv, InitAccount, NextAccount, PTL DEF Spec

-----------------------------------------------------------------------------
(***************************************************************************)
(* The slave readers.                                                      *)
(***************************************************************************)
Packet == [seq : Nat \ {0}, num : Nat \ {0}, block : Nat \ {0}]

\* What a master sends are packets of its products.
LEMMA PacketType == \A nbs \in Packets : nbs \in Packet /\ nbs.block <= nbs.num
<1> SUFFICES ASSUME NEW nbs \in Packets PROVE nbs \in Packet /\ nbs.block <= nbs.num
  OBVIOUS
<1>1. PICK x \in Products :
        nbs \in {[seq |-> x.seq, num |-> x.num, block |-> b] : b \in 1 .. x.num}
  BY DEF Packets
<1>2. x.seq \in Nat \ {0} /\ x.num \in Nat \ {0}
  BY ProductsAssumption DEF Product
<1> QED
  BY SMTT(60), <1>1, <1>2 DEF Packet

\* The pce of a new product of a slave.
LEMMA NewSlavePceType ==
  ASSUME NEW p \in Pce, NEW nbs \in Packet
  PROVE  /\ NewSlavePce(p, nbs) \in Pce
         /\ NewSlavePce(p, nbs).seq_number = nbs.seq
         /\ NewSlavePce(p, nbs).num_fragments = nbs.num
         /\ NewSlavePce(p, nbs).recv_fragments = 0
         /\ NewSlavePce(p, nbs).f_complete = 0
         /\ NewSlavePce(p, nbs).mf = p.mf
BY SMTT(60) DEF NewSlavePce, Pce, Packet

\* estart_activepce() counts the unfinished product as missed, and the new one
\* when its name is bad.
LEMMA SlaveStart ==
  ASSUME NEW r, Settled(r), r.status = 0, NEW nbs \in Packet, NEW fate \in Fates
  PROVE  LET s == estart_activepce(r, nbs, fate)
         IN  /\ Settled(s)
             /\ s.stats["missed"] = r.stats["missed"] + Act(r.pce) + One(fate = "bad")
             /\ fate = "ok" => /\ s.status = 0
                               /\ s.pce.seq_number = nbs.seq
                               /\ s.pce.num_fragments = nbs.num
                               /\ s.pce.recv_fragments = 0
             /\ fate # "ok" => s.status # 0 /\ ~Active(s.pce)
<1> DEFINE t == Count(r, "transmitted")
           mt == Count(t, "missed")
           cleared == IF open_pce_fails(t.pce) THEN SendAndClose(mt) ELSE t
           new == NewSlavePce(cleared.pce, nbs)
           started == [cleared EXCEPT !.pce = new]
<1>0. /\ r \in Work /\ Good(r) /\ Debt(r) = Act(r.pce) /\ Empty(r.pce) /\ r.pce \in Pce
      /\ r.stats \in [Counters -> Nat] /\ r.out \in Seq(Pce) /\ OutOK(r.out)
      /\ {"transmitted", "missed", "rejected"} \subseteq Counters
  BY DEF Settled, Good, Work, Counters
<1>1. /\ t \in Work /\ t.pce = r.pce /\ t.out = r.out /\ t.status = 0
      /\ t.stats["missed"] = r.stats["missed"] /\ Debt(t) = Act(r.pce) + 1
  <2>1. /\ t \in Work /\ t.pce = r.pce /\ t.out = r.out /\ t.status = 0
        /\ t.stats = [r.stats EXCEPT !["transmitted"] = @ + 1]
    BY <1>0, CountWork
  <2>2. Debt(t) = Debt(r) + 1
    BY <1>0, DebtCount
  <2> HIDE DEF t
  <2> QED
    BY <1>0, <2>1, <2>2
<1>2. /\ cleared \in Work /\ cleared.pce \in Pce /\ cleared.pce.mf = <<>>
      /\ OutOK(cleared.out) /\ Debt(cleared) = 1 /\ cleared.status = 0
      /\ cleared.stats["missed"] = r.stats["missed"] + Act(r.pce)
  <2>1. CASE open_pce_fails(t.pce)
    <3>1. Act(r.pce) = 1
      BY <1>0, <1>1, <2>1 DEF open_pce_fails, Act, Active, Empty
    <3>2. /\ mt \in Work /\ mt.pce = r.pce /\ mt.out = r.out /\ mt.status = 0
          /\ mt.stats["missed"] = r.stats["missed"] + 1 /\ Debt(mt) = 1
      <4> HIDE DEF t
      <4>1. Debt(mt) = Debt(t) - 1 /\ Debt(t) = 2
        BY SMTT(60), <1>1, <3>1, DebtCount
      <4>2. mt.stats = [t.stats EXCEPT ![("missed")] = @ + 1]
        BY <1>0, <1>1, CountWork
      <4>3. t.stats \in [Counters -> Nat]
        BY <1>1 DEF Work
      <4> QED
        BY SMTT(60), <1>0, <1>1, <4>1, <4>2, <4>3, CountWork
    <3> HIDE DEF mt
    <3>3. SentOK(mt.pce)
      BY <1>0, <3>2, ActiveSent DEF Good
    <3>4. Good(SendAndClose(mt))
      BY <1>0, <3>2, <3>3, SendGood
    <3> QED
      BY SMTT(60), <1>0, <2>1, <3>1, <3>2, <3>4, SendWork, DebtClose, ClosePce DEF Good
  <2>2. CASE ~open_pce_fails(t.pce)
    <3>1. Act(r.pce) = 0 /\ r.pce.mf = <<>>
      BY <1>0, <1>1, <2>2 DEF open_pce_fails, Act, Active, Pce
    <3> HIDE DEF t
    <3> QED
      BY SMTT(60), <1>0, <1>1, <2>2, <3>1 DEF Counters
  <2> QED
    BY <2>1, <2>2
<1> HIDE DEF cleared
<1>3. /\ new \in Pce /\ new.seq_number = nbs.seq /\ new.num_fragments = nbs.num
      /\ new.recv_fragments = 0 /\ new.f_complete = 0 /\ new.mf = <<>>
  BY <1>2, NewSlavePceType
<1> HIDE DEF new
<1>4. /\ started \in Work /\ started.pce = new /\ started.out = cleared.out
      /\ started.status = 0
      /\ started.stats = cleared.stats /\ started.dropped = cleared.dropped
  BY <1>2, <1>3 DEF Work
<1> HIDE DEF started
<1>5. Settled(started) /\ Debt(started) = 1 /\ Act(started.pce) = 1
  <2>1. Blocks(nbs.seq, 0) = <<>>
    BY SMTT(60) DEF Blocks
  <2>2. PceOK(started.pce) /\ Empty(started.pce)
    BY SMTT(60), <1>3, <1>4, <2>1 DEF PceOK, Empty
  <2>3. Debt(started) = 1 /\ Act(started.pce) = 1
    BY <1>2, <1>3, <1>4 DEF Debt, Act, Active, Packet
  <2> QED
    BY <1>2, <1>4, <2>2, <2>3 DEF Settled, Good
<1> DEFINE closed == close_pctl_activepce(started)
<1>6. /\ closed \in Work /\ closed.pce = close_pce(new) /\ Good(closed)
      /\ closed.stats = cleared.stats /\ closed.dropped = cleared.dropped
      /\ Debt(closed) = 1 /\ Act(closed.pce) = 0 /\ Empty(closed.pce)
  <2>1. closed \in Work /\ closed.pce = close_pce(new) /\ closed.out = cleared.out
        /\ closed.stats = cleared.stats /\ closed.dropped = cleared.dropped
    BY <1>3, <1>4, CloseWork
  <2>2. Act(close_pce(new)) = 0 /\ Empty(close_pce(new)) /\ PceOK(close_pce(new))
    BY <1>3, ClosePce DEF Act, Active, Empty, PceOK
  <2> QED
    BY <1>2, <1>4, <1>5, <2>1, <2>2, DebtClose DEF Good
<1> HIDE DEF closed
<1>a. ASSUME NEW v, Settled(v), NEW k \in Int
      PROVE  LET e == [v EXCEPT !.status = k]
             IN  Settled(e) /\ e.pce = v.pce /\ e.status = k /\ e.stats = v.stats
  <2> DEFINE e == [v EXCEPT !.status = k]
  <2>1. v \in Work
    BY <1>a DEF Settled, Good
  <2>2. /\ e \in Work /\ e.pce = v.pce /\ e.status = k /\ e.stats = v.stats
        /\ e.out = v.out /\ e.dropped = v.dropped
    BY <2>1 DEF Work
  <2> HIDE DEF e
  <2>3. Settled(e)
    BY <1>a, <2>2 DEF Settled, Good, Debt
  <2> QED
    BY <2>2, <2>3 DEF e
<1>7. CASE fate = "ok"
  <2>1. estart_activepce(r, nbs, fate) = started
    BY <1>7 DEF estart_activepce, started, new, cleared
  <2>2. One(fate = "bad") = 0 /\ cleared.stats["missed"] \in Nat
    BY <1>0, <1>2, <1>7 DEF One, Work
  <2> QED
    BY SMTT(60), <1>2, <1>3, <1>4, <1>5, <1>7, <2>1, <2>2
<1>8. CASE fate \in {"bad", "rejected"}
  <2> DEFINE k == IF fate = "bad" THEN "missed" ELSE "rejected"
             n == IF fate = "bad" THEN 2 ELSE 1
             v == Count(closed, k)
  <2>1. k \in {"completed", "missed", "rejected"} /\ k \in Counters /\ n \in Int /\ n # 0
    BY SMTT(60) DEF Counters
  <2>2. v \in Work /\ v.pce = closed.pce /\ v.out = closed.out /\ Debt(v) = 0
        /\ v.stats = [closed.stats EXCEPT ![k] = @ + 1]
    BY <1>6, <2>1, CountWork, DebtCounted
  <2>3. v.stats["missed"] = cleared.stats["missed"] + One(fate = "bad")
    <3>1. closed.stats \in [Counters -> Nat] /\ "missed" \in Counters
      BY <1>6 DEF Work, Counters
    <3>2. v.stats["missed"] = IF k = "missed" THEN closed.stats["missed"] + 1
                              ELSE closed.stats["missed"]
      BY <2>1, <2>2, <3>1
    <3>3. closed.stats["missed"] \in Nat
      BY <3>1
    <3> QED
      BY SMTT(60), <1>6, <1>8, <3>2, <3>3 DEF One
  <2>4. estart_activepce(r, nbs, fate) = [v EXCEPT !.status = n]
    BY <1>8 DEF estart_activepce, closed, started, new, cleared
  <2> HIDE DEF v, n, k
  <2>5. Settled(v) /\ ~Active(v.pce)
    BY SMTT(60), <1>6, <2>2 DEF Settled, Good, Act
  <2> QED
    BY SMTT(60), <1>2, <1>8, <1>a, <2>1, <2>3, <2>4, <2>5
<1>9. CASE fate = "duplicate"
  <2> DEFINE v == Discard(started)
  <2>1. Good(v) /\ v.pce = close_pce(new) /\ v.stats = cleared.stats /\ Debt(v) = 0
    BY SMTT(60), <1>4, <1>5, DiscardGood, DiscardWork, DebtClose DEF Settled
  <2>2. Act(v.pce) = 0 /\ ~Active(v.pce) /\ Empty(v.pce)
    BY <1>3, <2>1, ClosePce DEF Act, Active, Empty
  <2>3. estart_activepce(r, nbs, fate) = [v EXCEPT !.status = 1]
    BY <1>9 DEF estart_activepce, started, new, cleared
  <2> HIDE DEF v
  <2>4. Settled(v)
    BY <2>1, <2>2 DEF Settled
  <2>5. One(fate = "bad") = 0 /\ cleared.stats["missed"] \in Nat
    BY <1>0, <1>2, <1>9 DEF One, Work
  <2>6. 1 \in Int
    BY SMTT(60)
  <2>7. LET e == [v EXCEPT !.status = 1]
        IN  Settled(e) /\ e.pce = v.pce /\ e.status = 1 /\ e.stats = v.stats
    BY <1>a, <2>4, <2>6
  <2>8. cleared.stats["missed"] = r.stats["missed"] + Act(r.pce) + One(fate = "bad")
    BY SMTT(60), <1>2, <2>5
  <2> DEFINE e == [v EXCEPT !.status = 1]
  <2>9. estart_activepce(r, nbs, fate) = e /\ Settled(e) /\ e.pce = v.pce /\ e.status = 1
        /\ e.stats = cleared.stats
    BY <2>1, <2>3, <2>7
  <2> HIDE DEF e
  <2> QED
    BY SMTT(60), <1>9, <2>2, <2>8, <2>9
<1> QED
  BY <1>7, <1>8, <1>9 DEF Fates

\* eupdate_activepce() saves the next block of the active product, passes over
\* a packet of another one, or counts the product as missed and closes it.
LEMMA SlaveUpdate ==
  ASSUME NEW r, Settled(r), r.status = 0, NEW nbs \in Packet, NEW saved \in BOOLEAN
  PROVE  LET u == eupdate_activepce(r, nbs, saved)
         IN  /\ Settled(u)
             /\ \/ /\ nbs.seq # r.pce.seq_number
                   /\ u.status = 1 /\ u.pce = r.pce /\ u.stats = r.stats
                \/ /\ nbs.seq = r.pce.seq_number /\ nbs.block = r.pce.recv_fragments + 1
                   /\ u.status = 0 /\ u.stats = r.stats
                   /\ u.pce.seq_number = nbs.seq /\ u.pce.recv_fragments = nbs.block
                   /\ u.pce.num_fragments = r.pce.num_fragments
                \/ /\ nbs.seq = r.pce.seq_number
                   /\ nbs.block # r.pce.recv_fragments + 1 \/ ~saved
                   /\ u.status # 0 /\ ~Active(u.pce)
                   /\ u.stats["missed"] = r.stats["missed"] + 1
<1> DEFINE f == [seq |-> nbs.seq, block |-> nbs.block - 1]
           w == update_activepce(r, f, saved)
           mw == Count(w, "missed")
           closed == close_pctl_activepce(mw)
<1>0. /\ r \in Work /\ Good(r) /\ Debt(r) = Act(r.pce) /\ Empty(r.pce) /\ r.pce \in Pce
      /\ r.pce.recv_fragments \in Int /\ r.stats \in [Counters -> Nat] /\ "missed" \in Counters
      /\ PceOK(r.pce)
  BY DEF Settled, Good, Work, Counters, Pce
<1>1. f.seq = nbs.seq /\ f.seq \in Nat \ {0} /\ f.block \in Nat /\ f.block = nbs.block - 1
      /\ nbs.block \in Nat
  BY SMTT(60) DEF Packet
<1> HIDE DEF f
<1>2. /\ w \in Work
      /\ w.out = r.out /\ w.stats = r.stats /\ w.dropped = r.dropped
      /\ w.pce.seq_number = r.pce.seq_number
      /\ \/ w.status = 1 /\ w.pce = r.pce /\ r.pce.seq_number # f.seq
         \/ w.status = 2 /\ w.pce = r.pce /\ r.pce.seq_number = f.seq
            /\ f.block # r.pce.recv_fragments
         \/ w.status = r.status /\ PceOK(w.pce)
            /\ r.pce.seq_number = f.seq /\ f.block = r.pce.recv_fragments
            /\ w.pce.recv_fragments = f.block + 1
            /\ w.pce.num_fragments = r.pce.num_fragments
         \/ w.status = -1 /\ SentOK(w.pce) /\ ~saved
            /\ r.pce.seq_number = f.seq
  BY <1>0, <1>1, UpdateCases
<1>3. eupdate_activepce(r, nbs, saved) = IF w.status \in {0, 1} THEN w ELSE closed
  BY DEF eupdate_activepce, f
<1> HIDE DEF w
<1>4. Debt(w) = Act(w.pce) /\ w.pce \in Pce
  BY <1>0, <1>2 DEF Debt, Act, Active, Work
<1>5. CASE w.status = 1
  <2>1. w.pce = r.pce /\ nbs.seq # r.pce.seq_number
    BY SMTT(60), <1>1, <1>2, <1>5
  <2>2. Settled(w)
    BY <1>0, <1>2, <1>4, <2>1 DEF Settled, Good
  <2> QED
    BY <1>2, <1>3, <1>5, <2>1, <2>2
<1>6. CASE w.status = 0
  <2>1. /\ PceOK(w.pce) /\ r.pce.seq_number = f.seq /\ f.block = r.pce.recv_fragments
        /\ w.pce.recv_fragments = f.block + 1
        /\ w.pce.num_fragments = r.pce.num_fragments
    BY SMTT(60), <1>2, <1>6
  <2>2. Settled(w)
    BY <1>0, <1>1, <1>2, <1>4, <2>1 DEF Settled, Good, Empty
  <2>3. nbs.block = r.pce.recv_fragments + 1 /\ w.pce.recv_fragments = nbs.block
    BY SMTT(60), <1>0, <1>1, <2>1
  <2> QED
    BY <1>1, <1>2, <1>3, <1>6, <2>1, <2>2, <2>3
<1>7. CASE w.status \notin {0, 1}
  <2>1. nbs.seq = r.pce.seq_number /\ (nbs.block # r.pce.recv_fragments + 1 \/ ~saved)
    BY SMTT(60), <1>0, <1>1, <1>2, <1>7
  <2>2. Debt(w) = 1
    BY <1>1, <1>2, <1>4, <2>1 DEF Act, Active
  <2>3. /\ mw \in Work /\ mw.pce = w.pce /\ mw.out = r.out /\ Debt(mw) = 0
        /\ mw.status = w.status /\ mw.stats = [r.stats EXCEPT !["missed"] = @ + 1]
    BY SMTT(60), <1>0, <1>2, <2>2, CountWork, DebtCounted
  <2> HIDE DEF mw
  <2>4. /\ closed \in Work /\ closed.pce = close_pce(w.pce) /\ closed.out = r.out
        /\ closed.status = w.status /\ closed.stats = mw.stats /\ Debt(closed) = 0
    BY <2>3, CloseWork, DebtClose
  <2>5. close_pce(w.pce).seq_number = 0 /\ close_pce(w.pce).mf = <<>>
    BY <1>4, ClosePce
  <2> HIDE DEF closed
  <2>6. Settled(closed) /\ ~Active(closed.pce)
    BY <1>0, <2>4, <2>5 DEF Settled, Good, PceOK, Act, Active, Empty
  <2>7. closed.stats["missed"] = r.stats["missed"] + 1
    BY <1>0, <2>3, <2>4
  <2> QED
    BY <1>3, <1>7, <2>1, <2>4, <2>6, <2>7
<1> QED
  BY <1>5, <1>6, <1>7

\* eend_activepce() hands over the whole product or drops it, and closes it.
LEMMA SlaveEnd ==
  ASSUME NEW r, Settled(r), NEW nbs \in Packet, NEW exists \in BOOLEAN
  PROVE  LET e == eend_activepce(r, nbs, exists)
         IN  Settled(e) /\ ~Active(e.pce) /\ e.stats["missed"] = r.stats["missed"]
<1> DEFINE whole == [r EXCEPT !.pce.f_complete = 1]
           done == Count(whole, "completed")
<1>0. /\ r \in Work /\ Good(r) /\ Debt(r) = Act(r.pce) /\ Empty(r.pce) /\ r.pce \in Pce
      /\ r.stats \in [Counters -> Nat] /\ {"missed", "completed"} \subseteq Counters
      /\ PceOK(r.pce) /\ OutOK(r.out)
  BY DEF Settled, Good, Work, Counters
<1>a. close_pce(r.pce).seq_number = 0 /\ close_pce(r.pce).mf = <<>>
  BY <1>0, ClosePce
<1>1. CASE \/ nbs.seq # r.pce.seq_number
           \/ r.pce.num_fragments > r.pce.recv_fragments
           \/ exists
  <2>1. eend_activepce(r, nbs, exists) = Discard(r)
    BY <1>1 DEF eend_activepce
  <2>2. Debt(Discard(r)) = 0
    BY SMTT(60), <1>0, DebtClose DEF Act
  <2>3. /\ Good(Discard(r)) /\ Discard(r).pce = close_pce(r.pce)
        /\ Discard(r).stats = r.stats
    BY <1>0, DiscardGood, DiscardWork
  <2> QED
    BY <1>a, <2>1, <2>2, <2>3 DEF Settled, Act, Active, Empty
<1>2. CASE ~(\/ nbs.seq # r.pce.seq_number
             \/ r.pce.num_fragments > r.pce.recv_fragments
             \/ exists)
  <2>1. r.pce.seq_number # 0 /\ r.pce.num_fragments \in Int /\ r.pce.recv_fragments \in Nat
        /\ r.pce.num_fragments <= r.pce.recv_fragments
    BY SMTT(60), <1>0, <1>2 DEF Packet, Pce, PceOK
  <2> DEFINE q == [r.pce EXCEPT !.f_complete = 1]
  <2>2. /\ q \in Pce /\ q.seq_number = r.pce.seq_number /\ q.mf = r.pce.mf
        /\ q.num_fragments = r.pce.num_fragments /\ q.recv_fragments = r.pce.recv_fragments
    BY SMTT(60), <1>0 DEF Pce
  <2>3. SentOK(q)
    <3>1. q.mf = Blocks(q.seq_number, q.recv_fragments) /\ q.seq_number \in Nat
      BY <1>0, <2>1, <2>2 DEF PceOK, Pce
    <3>2. Len(q.mf) = q.recv_fragments
      BY <2>1, <2>2, <3>1, BlocksLen
    <3> HIDE DEF q
    <3> QED
      BY SMTT(60), <2>1, <2>2, <3>1, <3>2 DEF SentOK, Assembled
  <2>4. /\ whole \in Work /\ whole.pce = q /\ whole.out = r.out /\ whole.stats = r.stats
        /\ whole.dropped = r.dropped
    BY <1>0, <2>2 DEF Work
  <2> HIDE DEF whole, q
  <2>5. Debt(whole) = 1
    BY <1>0, <2>1, <2>4 DEF Debt, Act, Active
  <2>6. /\ done \in Work /\ done.pce = q /\ done.out = r.out /\ Debt(done) = 0
        /\ done.stats = [r.stats EXCEPT !["completed"] = @ + 1]
    BY SMTT(60), <1>0, <2>4, <2>5, CountWork, DebtCounted
  <2> HIDE DEF done
  <2>7. Good(SendAndClose(done)) /\ Debt(SendAndClose(done)) = 0
        /\ SendAndClose(done).stats = done.stats /\ SendAndClose(done).pce = close_pce(q)
    BY <1>0, <2>3, <2>6, SendGood, SendWork, DebtClose
  <2>8. close_pce(q).seq_number = 0 /\ close_pce(q).mf = <<>>
    BY <2>2, ClosePce
  <2>9. eend_activepce(r, nbs, exists) = SendAndClose(done)
    BY <1>2 DEF eend_activepce, done, whole
  <2> QED
    BY ZenonT(60), <1>0, <2>6, <2>7, <2>8, <2>9 DEF Settled, Act, Active, Empty
<1> QED
  BY <1>1, <1>2

-----------------------------------------------------------------------------
(***************************************************************************)
(* A reader is in step when the product being received is the one of the   *)
(* last packet and has all blocks up to that.  A reader that is out of     *)
(* step is going to miss the product it has, and the cause of it has been  *)
(* counted.                                                                *)
(***************************************************************************)
InStep(p, pos) ==
  /\ p.seq_number = pos.seq /\ p.num_fragments = pos.num
  /\ p.recv_fragments = pos.block /\ pos.block < pos.num

Late(p, pos) == One(Active(p) /\ ~InStep(p, pos))

Cost(pos, nbs, fate, saved) ==
  One(pos.block < pos.num /\ nbs.block = 1) + One(nbs.block = 1 /\ fate = "bad") + One(~saved)

Position == [seq : Nat, num : Nat, block : Nat]

\* One packet leaves the account in order, and costs what it may cost.
LEMMA SlaveStep ==
  ASSUME NEW r, Settled(r), r.status = 0, NEW nbs \in Packet, nbs.block <= nbs.num,
         NEW pos \in Position, NEW fate \in Fates, NEW saved \in BOOLEAN,
         NEW exists \in BOOLEAN,
         \/ pos = NoPacket
         \/ nbs.block = 1
         \/ pos.block < pos.num /\ nbs = [pos EXCEPT !.block = @ + 1]
  PROVE  LET s == slavenbsproc(r, nbs, fate, saved, exists)
         IN  /\ Settled(s)
             /\ s.stats["missed"] + Late(s.pce, nbs) <=
                  r.stats["missed"] + Late(r.pce, pos) + Cost(pos, nbs, fate, saved)
<1> DEFINE started == IF nbs.block = 1 THEN estart_activepce(r, nbs, fate) ELSE r
           updated == IF started.status = 0
                      THEN eupdate_activepce(started, nbs, saved) ELSE started
           s == slavenbsproc(r, nbs, fate, saved, exists)
           abandoned == One(pos.block < pos.num /\ nbs.block = 1)
           bad == One(nbs.block = 1 /\ fate = "bad")
<1> SUFFICES /\ Settled(s)
             /\ s.stats["missed"] + Late(s.pce, nbs) <=
                  r.stats["missed"] + Late(r.pce, pos) + Cost(pos, nbs, fate, saved)
  OBVIOUS
<1>0. /\ r.stats["missed"] \in Nat /\ abandoned \in {0, 1} /\ bad \in {0, 1}
      /\ Late(r.pce, pos) \in {0, 1} /\ One(~saved) \in {0, 1} /\ Act(r.pce) \in {0, 1}
      /\ nbs.block \in Nat \ {0} /\ nbs.num \in Nat \ {0} /\ nbs.seq \in Nat \ {0}
  BY DEF Settled, Good, Work, Counters, One, Late, Act, Packet
<1>1. Settled(started) /\ started.stats["missed"] \in Nat
  <2>1. Settled(started)
    BY SlaveStart
  <2> HIDE DEF started
  <2> QED
    BY <2>1 DEF Settled, Good, Work, Counters
<1>2. /\ started.stats["missed"] <= r.stats["missed"] + Late(r.pce, pos) + abandoned + bad
      /\ nbs.block = 1 /\ started.status = 0 =>
           /\ started.stats["missed"] <= r.stats["missed"] + Late(r.pce, pos) + abandoned
           /\ started.pce.seq_number = nbs.seq /\ started.pce.num_fragments = nbs.num
           /\ started.pce.recv_fragments = 0
      /\ nbs.block = 1 /\ started.status # 0 => ~Active(started.pce)
  <2>1. CASE nbs.block # 1
    BY SMTT(60), <1>0, <2>1
  <2>2. CASE nbs.block = 1
    <3>1. Act(r.pce) <= Late(r.pce, pos) + abandoned
      BY SMTT(60), <2>2 DEF Act, Late, InStep, One
    <3>2. /\ started.stats["missed"] = r.stats["missed"] + Act(r.pce) + One(fate = "bad")
          /\ fate = "ok" => /\ started.status = 0
                            /\ started.pce.seq_number = nbs.seq
                            /\ started.pce.num_fragments = nbs.num
                            /\ started.pce.recv_fragments = 0
          /\ fate # "ok" => started.status # 0 /\ ~Active(started.pce)
      BY ZenonT(60), <2>2, SlaveStart
    <3>3. bad = One(fate = "bad")
      BY <2>2
    <3>4. fate = "ok" => One(fate = "bad") = 0
      BY DEF One
    <3> HIDE DEF started, abandoned, bad
    <3> QED
      BY SMTT(60), <1>0, <3>1, <3>2, <3>3, <3>4
  <2> QED
    BY <2>1, <2>2
<1>3. nbs.block # 1 => started = r
  OBVIOUS
<1>4. s = IF updated.status = 0 /\ nbs.block = nbs.num
          THEN eend_activepce(updated, nbs, exists) ELSE updated
  BY DEF slavenbsproc
<1>5. Cost(pos, nbs, fate, saved) = abandoned + bad + One(~saved)
  BY DEF Cost
<1> HIDE DEF abandoned, bad
<1>6. CASE started.status # 0
  <2>1. s = started
    BY <1>4, <1>6
  <2>2. nbs.block = 1
    BY <1>3, <1>6
  <2>3. Late(s.pce, nbs) = 0
    BY <1>2, <1>6, <2>1, <2>2 DEF Late, One
  <2> HIDE DEF s, started
  <2> QED
    BY SMTT(60), <1>0, <1>1, <1>2, <1>5, <2>1, <2>3
<1>7. CASE started.status = 0
  <2> HIDE DEF started
  <2>1. /\ Settled(updated)
        /\ \/ /\ nbs.seq # started.pce.seq_number
              /\ updated.status = 1 /\ updated.pce = started.pce /\ updated.stats = started.stats
           \/ /\ nbs.seq = started.pce.seq_number
              /\ nbs.block = started.pce.recv_fragments + 1
              /\ updated.status = 0 /\ updated.stats = started.stats
              /\ updated.pce.seq_number = nbs.seq /\ updated.pce.recv_fragments = nbs.block
              /\ updated.pce.num_fragments = started.pce.num_fragments
           \/ /\ nbs.seq = started.pce.seq_number
              /\ nbs.block # started.pce.recv_fragments + 1 \/ ~saved
              /\ updated.status # 0 /\ ~Active(updated.pce)
              /\ updated.stats["missed"] = started.stats["missed"] + 1
    BY SMTT(60), <1>1, <1>7, SlaveUpdate
  <2> HIDE DEF updated
  <2>a. \* before the packet the reader was out of step, or the packet is the next one
        nbs.block # 1 => \/ Late(started.pce, pos) = 1
                         \/ ~Active(started.pce)
                         \/ /\ nbs.seq = started.pce.seq_number
                            /\ nbs.num = started.pce.num_fragments
                            /\ nbs.block = started.pce.recv_fragments + 1
    <3> SUFFICES ASSUME nbs.block # 1, Active(started.pce), InStep(started.pce, pos)
                 PROVE  /\ nbs.seq = started.pce.seq_number
                        /\ nbs.num = started.pce.num_fragments
                        /\ nbs.block = started.pce.recv_fragments + 1
      BY DEF Late, One
    <3>1. pos # NoPacket
      BY SMTT(60) DEF InStep, NoPacket
    <3>2. nbs = [pos EXCEPT !.block = @ + 1]
      BY <3>1
    <3> QED
      BY <3>2 DEF InStep, Position
  <2>b. nbs.block # 1 => started.stats["missed"] = r.stats["missed"]
                         /\ Late(started.pce, pos) = Late(r.pce, pos)
    BY <1>3
  <2>2. CASE updated.status = 1 /\ updated.pce = started.pce /\ updated.stats = started.stats
             /\ nbs.seq # started.pce.seq_number
    <3>1. nbs.block # 1
      BY <1>2, <1>7, <2>2
    <3>2. s = updated
      BY SMTT(60), <1>4, <2>2
    <3>3. Late(s.pce, nbs) <= Late(started.pce, pos)
      BY SMTT(60), <2>2, <2>a, <3>1, <3>2 DEF Late, One
    <3>4. Late(s.pce, nbs) \in {0, 1}
      BY DEF Late, One
    <3> HIDE DEF s
    <3> QED
      BY SMTT(60), <1>0, <1>5, <2>1, <2>2, <2>b, <3>1, <3>2, <3>3, <3>4
  <2>3. CASE updated.status = 0
    <3>1. /\ nbs.seq = started.pce.seq_number /\ nbs.block = started.pce.recv_fragments + 1
          /\ updated.stats = started.stats
          /\ updated.pce.seq_number = nbs.seq /\ updated.pce.recv_fragments = nbs.block
          /\ updated.pce.num_fragments = started.pce.num_fragments
      BY SMTT(60), <2>1, <2>3
    <3>2. CASE nbs.block = nbs.num
      <4>1. Settled(s) /\ ~Active(s.pce) /\ s.stats["missed"] = updated.stats["missed"]
        BY SMTT(60), <1>4, <2>1, <2>3, <3>2, SlaveEnd
      <4>2. Late(s.pce, nbs) = 0
        BY <4>1 DEF Late, One
      <4> HIDE DEF s
      <4> QED
        BY SMTT(60), <1>0, <1>1, <1>2, <1>5, <3>1, <4>1, <4>2
    <3>3. CASE nbs.block # nbs.num
      <4>1. s = updated
        BY <1>4, <3>3
      <4>2. CASE nbs.block = 1
        <5>1. InStep(s.pce, nbs)
          BY SMTT(60), <1>0, <1>2, <1>7, <3>1, <3>3, <4>1, <4>2 DEF InStep
        <5>2. Late(s.pce, nbs) = 0
          BY <5>1 DEF Late, One
        <5> HIDE DEF s
        <5> QED
          BY SMTT(60), <1>0, <1>1, <1>2, <1>5, <1>7, <2>1, <3>1, <4>1, <4>2, <5>2
      <4>3. CASE nbs.block # 1
        <5>1. Late(started.pce, pos) = 1 \/ InStep(s.pce, nbs)
          <6>1. Active(started.pce)
            BY <1>0, <3>1 DEF Active
          <6> QED
            BY SMTT(60), <1>0, <2>a, <3>1, <3>3, <4>1, <4>3, <6>1 DEF InStep
        <5>2. Late(s.pce, nbs) <= Late(started.pce, pos)
          BY SMTT(60), <5>1 DEF Late, One
        <5>3. Late(s.pce, nbs) \in {0, 1}
          BY DEF Late, One
        <5> HIDE DEF s
        <5> QED
          BY SMTT(60), <1>0, <1>5, <2>1, <2>b, <3>1, <4>1, <4>3, <5>2, <5>3
      <4> QED
        BY <4>2, <4>3
    <3> QED
      BY <3>2, <3>3
  <2>4. CASE /\ nbs.seq = started.pce.seq_number
             /\ nbs.block # started.pce.recv_fragments + 1 \/ ~saved
             /\ updated.status # 0 /\ ~Active(updated.pce)
             /\ updated.stats["missed"] = started.stats["missed"] + 1
    <3>1. s = updated /\ Late(s.pce, nbs) = 0
      BY <1>4, <2>4 DEF Late, One
    <3>2. Active(started.pce)
      BY <1>0, <2>4 DEF Active
    <3>3. CASE ~saved
      <4>1. One(~saved) = 1
        BY <3>3 DEF One
      <4> HIDE DEF s
      <4> QED
        BY SMTT(60), <1>0, <1>1, <1>2, <1>5, <2>1, <2>4, <3>1, <4>1
    <3>4. CASE nbs.block # started.pce.recv_fragments + 1
      <4>1. nbs.block # 1
        BY SMTT(60), <1>2, <1>7, <3>4
      <4>2. Late(started.pce, pos) = 1
        BY <2>a, <3>2, <3>4, <4>1
      <4> HIDE DEF s
      <4> QED
        BY SMTT(60), <1>0, <1>5, <2>1, <2>4, <2>b, <3>1, <4>1, <4>2
    <3> QED
      BY <2>4, <3>3, <3>4
  <2> QED
    BY <2>1, <2>2, <2>3, <2>4
<1> QED
  BY <1>6, <1>7

-----------------------------------------------------------------------------
(***************************************************************************)
(* The invariant: that of the noaaport readers for all channels, and for   *)
(* those of the slaves that the causes cover the misses, the one the       *)
(* reader is going to have included.                                       *)
(***************************************************************************)
SlaveTypeOK ==
  /\ slaves \subseteq Channels
  /\ stream \in [Channels -> Position]
  /\ causes \in [Channels -> Nat]

Covered(c) == stats[c]["missed"] + Late(activepce[c], stream[c]) <= causes[c]

ReadersInv == /\ IInv /\ AccountInv /\ SlaveTypeOK
              /\ \A c \in slaves : Covered(c)

LEMMA ReadersInitInv == ReadersInit => ReadersInv
<1> SUFFICES ASSUME ReadersInit PROVE ReadersInv
  OBVIOUS
<1>1. IInv /\ AccountInv
  BY InitInv, InitAccount DEF ReadersInit
<1>2. SlaveTypeOK
  BY DEF ReadersInit, SlaveTypeOK, Position, NoPacket
<1>3. ASSUME NEW c \in slaves
      PROVE  Covered(c)
  <2>1. c \in Channels
    BY <1>2 DEF SlaveTypeOK
  <2>2. stats[c]["missed"] = 0 /\ causes[c] = 0 /\ activepce[c].seq_number = 0
    BY <2>1 DEF ReadersInit, Init, FreshPce, Counters
  <2> QED
    BY SMTT(60), <2>2 DEF Covered, Late, One, Active
<1> QED
  BY <1>1, <1>2, <1>3 DEF ReadersInv

\* A noaaport reader leaves the channels of the others alone.
LEMMA OthersApart ==
  ASSUME IInv, NEW c \in Channels, NEW r, Finish(c, r), NEW d \in Channels, d # c
  PROVE  stats'[d] = stats[d] /\ activepce'[d] = activepce[d]
BY DEF IInv, TypeOK, Finish

\* What a slave reader does with a packet.
LEMMA SlavePacket ==
  ASSUME ReadersInv, NEW c \in slaves, NEW nbs \in Packets, slavenet_loop_nbs1(c, nbs)
  PROVE  ReadersInv'
<1> DEFINE r == Count(Reader(c), "received")
<1>0. /\ c \in Channels /\ nbs \in Packet /\ nbs.block <= nbs.num
      /\ stream[c] \in Position /\ causes[c] \in Nat
      /\ IInv /\ AccountInv /\ SlaveTypeOK /\ Covered(c)
  BY PacketType DEF ReadersInv, SlaveTypeOK
<1>1. Settled(Reader(c)) /\ Reader(c).status = 0 /\ Reader(c).pce = activepce[c]
      /\ Reader(c).stats = stats[c] /\ Reader(c) \in Work
  <2>1. Reader(c).pce = activepce[c] /\ Reader(c).stats = stats[c]
    BY ZenonT(60) DEF Reader
  <2> QED
    BY <1>0, <2>1, ReaderGood DEF Settled, AccountInv, Good
<1>2. /\ Settled(r) /\ r.status = 0 /\ r.pce = activepce[c]
      /\ r.stats["missed"] = stats[c]["missed"]
  <2>1. Settled(r) /\ r.pce = activepce[c] /\ r.status = 0
    BY <1>1, CountSettled
  <2>2. "received" \in Counters /\ "missed" \in Counters /\ "missed" # "received"
    BY DEF Counters
  <2>3. r.stats = [stats[c] EXCEPT !["received"] = @ + 1]
    BY SMTT(60), <1>1, <2>2, CountWork
  <2>4. stats[c] \in [Counters -> Nat]
    BY <1>0 DEF IInv, TypeOK
  <2> HIDE DEF r
  <2> QED
    BY <2>1, <2>2, <2>3, <2>4
<1>3. PICK fate \in Fates, saved \in BOOLEAN, exists \in BOOLEAN :
        /\ Finish(c, slavenbsproc(r, nbs, fate, saved, exists))
        /\ causes' = [causes EXCEPT ![c] = @ + (One(Midway(c) /\ nbs.block = 1)
                        + One(nbs.block = 1 /\ fate = "bad") + One(~saved))]
  BY ZenonT(60) DEF slavenet_loop_nbs1, Cause
<1> DEFINE s == slavenbsproc(r, nbs, fate, saved, exists)
           cost == Cost(stream[c], nbs, fate, saved)
<1>4. \/ stream[c] = NoPacket
      \/ nbs.block = 1
      \/ stream[c].block < stream[c].num /\ nbs = [stream[c] EXCEPT !.block = @ + 1]
  BY DEF slavenet_loop_nbs1, Follows, Midway
<1> HIDE DEF r
<1>5. /\ Settled(s)
      /\ s.stats["missed"] + Late(s.pce, nbs) <=
           r.stats["missed"] + Late(r.pce, stream[c]) + cost
  BY <1>0, <1>2, <1>4, SlaveStep
<1>6. Finish(c, s)
  BY <1>3
<1>7. causes' = [causes EXCEPT ![c] = @ + cost] /\ cost \in Nat
  BY SMTT(60), <1>3 DEF Cost, Midway, One
<1>8. /\ fh' = fh /\ slaves' = slaves /\ stream' = [stream EXCEPT ![c] = nbs]
  BY DEF slavenet_loop_nbs1
<1> HIDE DEF s, cost
<1>9. IInv' /\ AccountInv'
  <2>1. Good(s) /\ fh' \in [Channels -> Nat]
    BY <1>0, <1>5, <1>8 DEF Settled, IInv, TypeOK
  <2> QED
    BY <1>0, <1>5, <1>6, <2>1, FinishInv, FinishAccount
<1>10. SlaveTypeOK'
  <2>1. nbs \in Position
    BY <1>0 DEF Packet, Position
  <2> QED
    BY SMTT(60), <1>0, <1>7, <1>8, <2>1 DEF SlaveTypeOK
<1>11. ASSUME NEW d \in slaves
       PROVE  Covered(d)'
  <2>0. d \in Channels
    BY <1>0 DEF SlaveTypeOK
  <2>1. CASE d # c
    <3>1. /\ stats'[d] = stats[d] /\ activepce'[d] = activepce[d]
          /\ stream'[d] = stream[d] /\ causes'[d] = causes[d]
      BY <1>0, <1>6, <1>7, <1>8, <2>0, <2>1, OthersApart DEF SlaveTypeOK
    <3>2. Covered(d)
      BY DEF ReadersInv
    <3> QED
      BY SMTT(60), <3>1, <3>2 DEF Covered, Late, InStep, Active, One
  <2>2. CASE d = c
    <3>1. /\ stats'[c] = s.stats /\ activepce'[c] = s.pce
          /\ stream'[c] = nbs /\ causes'[c] = causes[c] + cost
      BY <1>0, <1>6, <1>7, <1>8 DEF SlaveTypeOK, Finish, IInv, TypeOK
    <3>2. stats[c]["missed"] + Late(activepce[c], stream[c]) <= causes[c]
      BY <1>0 DEF Covered
    <3>3. /\ stats[c]["missed"] \in Nat /\ Late(activepce[c], stream[c]) \in Nat
          /\ s.stats["missed"] \in Nat /\ Late(s.pce, nbs) \in Nat
      BY ZenonT(60), <1>0, <1>5 DEF IInv, TypeOK, Late, One, Settled, Good, Work, Counters
    <3>4. s.stats["missed"] + Late(s.pce, nbs) <= causes[c] + cost
      BY SMTT(60), <1>0, <1>2, <1>5, <1>7, <3>2, <3>3
    <3>5. stats'[c]["missed"] + Late(activepce'[c], stream'[c]) <= causes'[c]
      BY <3>1, <3>4
    <3> QED
      BY <2>2, <3>5 DEF Covered, Late, InStep, Active, One
  <2> QED
    BY <2>1, <2>2
<1> QED
  BY <1>8, <1>9, <1>10, <1>11 DEF ReadersInv

\* The steps that leave the slave readers alone.
LEMMA NoaaportStep ==
  ASSUME ReadersInv, NoZeroSeq, [Next]_vars, UNCHANGED slaveVars,
         \A c \in slaves : stats'[c] = stats[c] /\ activepce'[c] = activepce[c]
  PROVE  ReadersInv'
<1>1. IInv' /\ AccountInv'
  BY NextInv, NextAccount DEF ReadersInv
<1>2. SlaveTypeOK'
  BY DEF ReadersInv, SlaveTypeOK, slaveVars
<1>3. ASSUME NEW d \in slaves
      PROVE  Covered(d)'
  BY DEF ReadersInv, Covered, Late, InStep, Active, One, slaveVars
<1> QED
  BY <1>1, <1>2, <1>3 DEF ReadersInv, slaveVars

LEMMA ReadersNextInv ==
  ASSUME NoZeroSeq
  PROVE  ReadersInv /\ [ReadersNext]_svars => ReadersInv'
<1> SUFFICES ASSUME ReadersInv, [ReadersNext]_svars PROVE ReadersInv'
  OBVIOUS
<1>0. slaves \subseteq Channels /\ IInv /\ AccountInv /\ SlaveTypeOK
  BY DEF ReadersInv, SlaveTypeOK
<1>1. CASE UNCHANGED svars
  BY <1>1, NoaaportStep DEF svars, vars
<1>2. ASSUME NEW c \in Channels \ slaves, NoaaportReader(c)
      PROVE  ReadersInv'
  <2>1. PICK f \in Frames : sbnframeproc(c, f)
    BY <1>2 DEF NoaaportReader
  <2>2. \E r : Finish(c, r)
    BY <2>1 DEF sbnframeproc, BadFrame, NoData, AbortFrame, DataFrame
  <2>3. \A d \in slaves : stats'[d] = stats[d] /\ activepce'[d] = activepce[d]
    BY <1>0, <2>2, OthersApart
  <2>4. Next
    BY <2>1 DEF Next
  <2> QED
    BY <1>2, <2>3, <2>4, NoaaportStep DEF NoaaportReader
<1>3. ASSUME NEW c \in Channels, Send(c)
      PROVE  ReadersInv'
  <2>1. Next /\ UNCHANGED slaveVars /\ UNCHANGED <<stats, activepce>>
    BY ZenonT(60), <1>3 DEF Send, Next, epctl_send
  <2> QED
    BY <2>1, NoaaportStep
<1>4. ASSUME NEW c \in slaves, slavenet_open(c)
      PROVE  ReadersInv'
  <2>1. UNCHANGED <<vars, slaves, stream, causes>>
    BY <1>4 DEF slavenet_open
  <2>2. IInv' /\ AccountInv'
    BY <1>0, <2>1, NextInv, NextAccount
  <2> QED
    BY <2>1, <2>2 DEF ReadersInv, SlaveTypeOK, Covered, Late, InStep, Active, One, vars
<1>5. ASSUME NEW c \in slaves, slavenet_close(c)
      PROVE  ReadersInv'
  <2>1. /\ UNCHANGED <<vars, slaves>> /\ stream' = [stream EXCEPT ![c] = NoPacket]
        /\ causes' = [causes EXCEPT ![c] = @ + 1]
    BY <1>5 DEF slavenet_close, Cause
  <2>2. IInv' /\ AccountInv'
    BY <1>0, <2>1, NextInv, NextAccount
  <2>3. SlaveTypeOK'
    BY SMTT(60), <1>0, <2>1 DEF SlaveTypeOK, Position, NoPacket
  <2>4. ASSUME NEW d \in slaves
        PROVE  Covered(d)'
    <3>1. d \in Channels /\ Covered(d) /\ causes[d] \in Nat /\ stats[d]["missed"] \in Nat
      BY ZenonT(60), <1>0 DEF ReadersInv, SlaveTypeOK, IInv, TypeOK, Counters
    <3>2. CASE d # c
      BY <1>0, <2>1, <3>1, <3>2 DEF SlaveTypeOK, Covered, Late, InStep, Active, One, vars
    <3>3. CASE d = c
      <4>1. causes'[d] = causes[d] + 1 /\ stats'[d] = stats[d]
        BY <1>0, <2>1, <3>1, <3>3 DEF SlaveTypeOK, vars
      <4>2. Late(activepce'[d], stream'[d]) <= 1 /\ Late(activepce[d], stream[d]) >= 0
            /\ Late(activepce'[d], stream'[d]) \in Nat /\ Late(activepce[d], stream[d]) \in Nat
        BY SMTT(60) DEF Late, One
      <4>3. stats'[d]["missed"] + Late(activepce'[d], stream'[d]) <= causes'[d]
        BY SMTT(60), <3>1, <4>1, <4>2 DEF Covered
      <4> QED
        BY <4>3 DEF Covered, Late, InStep, Active, One
    <3> QED
      BY <3>2, <3>3
  <2> QED
    BY <2>1, <2>2, <2>3, <2>4 DEF ReadersInv
<1> QED
  BY <1>1, <1>2, <1>3, <1>4, <1>5, SlavePacket DEF ReadersNext, SlaveReader

-----------------------------------------------------------------------------
(***************************************************************************)
(* For any slaves next to any noaaport readers, and any interleaving of    *)
(* connections, packets and frames: each product that a slave reader       *)
(* counts as missed has a cause of its own on its connection.              *)
(***************************************************************************)
THEOREM SlaveMissesExplained ==
  ASSUME NoZeroSeq
  PROVE  ReadersSpec => []MissesExplained
<1>1. ReadersInv => MissesExplained
  <2> SUFFICES ASSUME ReadersInv, NEW c \in slaves PROVE stats[c]["missed"] <= causes[c]
    BY DEF MissesExplained
  <2>1. /\ stats[c]["missed"] + Late(activepce[c], stream[c]) <= causes[c]
        /\ causes[c] \in Nat /\ stats[c]["missed"] \in Nat
        /\ Late(activepce[c], stream[c]) \in Nat
    BY ZenonT(60) DEF ReadersInv, SlaveTypeOK, IInv, TypeOK, Covered, Late, One, Counters
  <2> QED
    BY SMTT(60), <2>1
<1> QED
  BY <1>1, ReadersInitInv, ReadersNextInv, PTL DEF ReadersSpec

(***************************************************************************)
(* With slave readers too, what is handed to the processor queue is a      *)
(* gapless prefix of one product, and the whole of it when flagged         *)
(* complete.                                                               *)
(***************************************************************************)
THEOREM ReadersElementsIntact ==
  ASSUME NoZeroSeq
  PROVE  ReadersSpec => []HandedOverIntact
<1>1. ReadersInv => HandedOverIntact
  BY DEF ReadersInv, IInv, OutOK, SentOK, HandedOverIntact
<1> QED
  BY <1>1, ReadersInitInv, ReadersNextInv, PTL DEF ReadersSpec

(***************************************************************************)
(* So does the conservation of products: those a slave reader counts as    *)
(* transmitted are completed, missed, rejected, dropped or active.         *)
(***************************************************************************)
THEOREM ReadersProductsConserved ==
  ASSUME NoZeroSeq
  PROVE  ReadersSpec => []ProductsAccounted
<1>1. ReadersInv => ProductsAccounted
  BY AccountProducts DEF ReadersInv
<1> QED
  BY <1>1, ReadersInitInv, ReadersNextInv, PTL DEF ReadersSpec

(***************************************************************************)
(* And so do the types, for both kinds of readers side by side.            *)
(***************************************************************************)
THEOREM ReadersTypesHold ==
  ASSUME NoZeroSeq
  PROVE  ReadersSpec => []TypeOK
<1>1. ReadersInv => TypeOK
  BY DEF ReadersInv, IInv
<1> QED
  BY <1>1, ReadersInitInv, ReadersNextInv, PTL DEF ReadersSpec
=============================================================================
