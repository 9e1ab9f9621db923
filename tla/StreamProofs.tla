---------------------------- MODULE StreamProofs ----------------------------
(***************************************************************************)
(* Proofs about what the clients of the network server are sent, for any   *)
(* clients, connections, products and faults: what a client reads is in    *)
(* order and not cut short, and nothing queued for it is forgotten while   *)
(* its thread goes on.                                                     *)
(***************************************************************************)
EXTENDS ServerProofs

\* A leaf is for Zenon unless it names SMT, and may take a minute.
USE ZenonT(60), SMTT(60)

GhostTypes == last \in [Conns -> Piece] /\ owed \in [Conns -> Seq(Products)]

\* What a thread holds: a product while it sends it or waits to, without a
\* connection in the second case.  Nothing is queued before there is a thread.
Holds(t) ==
  /\ th[t].st = "none" => queue[t] = <<>> /\ owed[t] = <<>>
  /\ th[t].st \in {"none", "top", "rcv"} => th[t].data = None
  /\ th[t].st \in {"send", "wait"} => th[t].data # None
  /\ th[t].st = "wait" => th[t].fd = None

\* What is on the connection of a thread, in its hands and in its queue, is in
\* order, and what is on the connection is whole.
Flow(t) ==
  /\ \A i, j \in 1..Len(queue[t]) : i < j => queue[t][i] < queue[t][j]
  /\ \A i \in 1..Len(queue[t]) : th[t].data < queue[t][i]
  /\ th[t].fd # None =>
       /\ last[th[t].fd].whole
       /\ \A i \in 1..Len(queue[t]) : last[th[t].fd].data < queue[t][i]
       /\ th[t].st = "send" => last[th[t].fd].data < th[t].data

\* All of it came before product b.
Below(t, b) ==
  /\ th[t].data < b
  /\ \A i \in 1..Len(queue[t]) : queue[t][i] < b
  /\ th[t].fd # None => last[th[t].fd].data < b

\* The thread may go on with the connection that its element has.
MayTake(t) ==
  th[t].st = "none" \/ (Alive(t) /\ th[t].fd = None /\ info[t].status = 0)

\* A connection is yet to be made, accepted, put in the table or taken by a
\* thread.
Untouched(c) ==
  \/ conn[c].st = "new"
  \/ \E p \in 1..Len(pending) : pending[p] = c
  \/ Admitting /\ srv.c = c
  \/ \E i \in 1..Len(table) : table[i].fd = c /\ MayTake(table[i].id)

\* Nothing is on such a connection.
Unwritten == \A c \in Conns : Untouched(c) => last[c] = Nothing

\* NothingLost, of one thread.
Owes(t) ==
  Alive(t) /\ ~th[t].f_exit /\ ~quit =>
    owed[t] = (IF th[t].data = None THEN <<>> ELSE <<th[t].data>>) \o queue[t]

Lines == \A t \in Conns : Alive(t) => Flow(t) /\ Below(t, next)

\* The threads to which a product is still to be sent have got no later one.
Sending ==
  srv.pc = "send" =>
    /\ srv.data < next
    /\ \A j \in srv.i .. Len(table) :
         Alive(table[j].id) => Below(table[j].id, srv.data)

Stream ==
  /\ GhostTypes /\ \A t \in Conns : Holds(t) /\ Owes(t)
  /\ Unwritten /\ Lines /\ Sending
-----------------------------------------------------------------------------
(***************************************************************************)
(* What a step of a thread does to the products: the thread ends or goes   *)
(* around its loop, takes one or loses one, writes one, fails to write it  *)
(* or to find it, waits for another connection, or finds one.              *)
(***************************************************************************)
NoProductMoves == queue' = queue /\ owed' = owed /\ last' = last

Ends(t) == th'[t].st = "ended" /\ NoProductMoves

GoesOn(t) ==
  /\ th[t].st \in {"top", "rcv"} /\ th'[t].st \in {"top", "rcv"}
  /\ th'[t].data = th[t].data /\ th'[t].fd = th[t].fd
  /\ th[t].f_exit => th'[t].f_exit
  /\ NoProductMoves

Takes(t) ==
  /\ th[t].st = "rcv" /\ queue[t] # <<>> /\ th'[t].st = "send"
  /\ th'[t].data = Head(queue[t]) /\ th'[t].fd = th[t].fd
  /\ th[t].f_exit => th'[t].f_exit
  /\ queue' = [queue EXCEPT ![t] = Tail(queue[t])]
  /\ owed' = owed /\ last' = last

Loses(t) ==
  /\ th[t].st = "rcv" /\ th'[t].st = "top"
  /\ th'[t].data = th[t].data /\ th'[t].fd = th[t].fd
  /\ th[t].f_exit => th'[t].f_exit
  /\ queue' = [queue EXCEPT ![t] = <<>>] /\ owed' = [owed EXCEPT ![t] = <<>>]
  /\ last' = last

Piece1(t, whole) == [data |-> th[t].data, whole |-> whole]

Writes(t) ==
  /\ th[t].st = "send" /\ th'[t].st = "top"
  /\ th'[t].data = None /\ th'[t].fd = th[t].fd
  /\ th[t].f_exit => th'[t].f_exit
  /\ queue' = queue
  /\ owed' = [owed EXCEPT ![t] = Paid(owed[t], th[t].data)]
  /\ last' = [last EXCEPT ![th[t].fd] = Piece1(t, TRUE)]

Fails(t) ==
  /\ th[t].st = "send" /\ th'[t].fd = None
  /\ \/ /\ th'[t].st = "wait"
        /\ th'[t].data = th[t].data /\ (th[t].f_exit => th'[t].f_exit)
     \/ th'[t].st = "top" /\ th'[t].data = None /\ th'[t].f_exit
  /\ queue' = queue /\ owed' = owed
  /\ last' = last \/ last' = [last EXCEPT ![th[t].fd] = Piece1(t, FALSE)]

GivesUp(t) ==
  /\ th[t].st \in {"send", "wait"} /\ th'[t].st = "top"
  /\ th'[t].data = None /\ th'[t].fd = th[t].fd /\ th'[t].f_exit
  /\ NoProductMoves

Waits(t) ==
  /\ th[t].st = "wait" /\ th'[t].st = "wait"
  /\ th'[t].data = th[t].data /\ th'[t].fd = th[t].fd
  /\ th[t].f_exit => th'[t].f_exit
  /\ NoProductMoves

Resumes(t) ==
  /\ th[t].st = "wait" /\ info[t].status = 0 /\ th'[t].fd = info[t].fd
  /\ th[t].f_exit => th'[t].f_exit
  /\ \/ th'[t].st = "send" /\ th'[t].data = th[t].data
     \/ th'[t].st = "top" /\ th'[t].data = None /\ (quit \/ th[t].f_exit)
  /\ NoProductMoves

Does(t) ==
  \/ Ends(t) \/ GoesOn(t) \/ Takes(t) \/ Loses(t) \/ Writes(t) \/ Fails(t)
  \/ GivesUp(t) \/ Waits(t) \/ Resumes(t)

\* Each action of a thread is one of these.
LEMMA ThreadDoes ==
  ASSUME ThreadTypes, NEW t \in Conns, ThreadStep(t)
  PROVE  Does(t)
<1> USE DEF ThreadTypes, shared, ghosts, NoProductMoves
<1>0. th[t] \in Thread /\ info[t] \in ThreadInfo
  OBVIOUS
<1>1. CASE client_thread_main(t) \/ Canceled(t)
  <2>1. cleanup(t)
    BY <1>1 DEF client_thread_main, Canceled
  <2>2. th'[t].st = "ended"
    BY <2>1 DEF cleanup, NoThread
  <2> QED
    BY <2>1, <2>2 DEF cleanup, Ends, Does
<1>2. CASE periodic(t)
  <2>1. th' = [th EXCEPT ![t] = [th[t] EXCEPT !.st = "rcv", !.f_exit = qerr[t]]]
        /\ th[t].st = "top" /\ ~th[t].f_exit
    BY ZenonT(60), <1>2, <1>0 DEF periodic, Thread
  <2>2. th'[t].st = "rcv" /\ th'[t].fd = th[t].fd /\ th'[t].data = th[t].data
    BY <1>0, <2>1 DEF Thread
  <2> QED
    BY ZenonT(60), <1>2, <2>1, <2>2 DEF periodic, GoesOn, Does
<1>3. CASE NoData(t)
  <2>1. th' = [th EXCEPT ![t] = [th[t] EXCEPT !.st = "top"]] /\ th[t].st = "rcv"
    BY <1>3, <1>0 DEF NoData, Thread
  <2>2. /\ th'[t].st = "top" /\ th'[t].fd = th[t].fd /\ th'[t].data = th[t].data
        /\ th'[t].f_exit = th[t].f_exit
    BY <1>0, <2>1 DEF Thread
  <2> QED
    BY ZenonT(60), <1>3, <2>1, <2>2 DEF NoData, GoesOn, Does
<1>4. CASE connqueue_rcv(t)
  <2>1. CASE /\ th' = [th EXCEPT ![t].st = "send", ![t].data = Head(queue[t])]
             /\ queue' = [queue EXCEPT ![t] = Tail(@)] /\ UNCHANGED owed
    <3>1. th' = [th EXCEPT ![t] = [th[t] EXCEPT !.st = "send",
                                                !.data = Head(queue[t])]]
      BY ZenonT(60), <1>0, <2>1 DEF Thread
    <3>2. /\ th'[t].st = "send" /\ th'[t].fd = th[t].fd
          /\ th'[t].data = Head(queue[t]) /\ th'[t].f_exit = th[t].f_exit
      BY <1>0, <3>1 DEF Thread
    <3> QED
      BY ZenonT(60), <1>4, <2>1, <3>2 DEF connqueue_rcv, Takes, Does
  <2>2. CASE /\ th' = [th EXCEPT ![t].st = "top"]
             /\ \/ queue' = queue /\ owed' = owed
                \/ /\ queue' = [queue EXCEPT ![t] = <<>>]
                   /\ owed' = [owed EXCEPT ![t] = <<>>]
    <3>1. th' = [th EXCEPT ![t] = [th[t] EXCEPT !.st = "top"]]
      BY ZenonT(60), <1>0, <2>2 DEF Thread
    <3>2. /\ th'[t].st = "top" /\ th'[t].fd = th[t].fd
          /\ th'[t].data = th[t].data /\ th'[t].f_exit = th[t].f_exit
      BY <1>0, <3>1 DEF Thread
    <3>3. th[t].st = "rcv" /\ last' = last
      BY <1>4 DEF connqueue_rcv
    <3>4. CASE queue' = queue /\ owed' = owed
      BY ZenonT(60), <3>2, <3>3, <3>4 DEF GoesOn, Does
    <3>5. CASE queue' = [queue EXCEPT ![t] = <<>>] /\ owed' = [owed EXCEPT ![t] = <<>>]
      BY ZenonT(60), <3>2, <3>3, <3>5 DEF Loses, Does
    <3> QED
      BY <2>2, <3>4, <3>5
  <2> QED
    BY <1>4, <2>1, <2>2 DEF connqueue_rcv
<1>5. ASSUME NEW b \in BOOLEAN
      PROVE  /\ Return(t, b).st = "top" /\ Return(t, b).fd = th[t].fd
             /\ Return(t, b).data = None
             /\ (th[t].f_exit \/ b => Return(t, b).f_exit)
             /\ Return(t, b) \in Thread
  <2>1. (th[t].f_exit \/ b) \in BOOLEAN /\ 0 \in 0 .. Retry
    BY SMTT(60), <1>0, ThreadsAssumption
  <2> DEFINE f == th[t].f_exit \/ b
  <2>2. Return(t, b) = [th[t] EXCEPT !.st = "top", !.data = None, !.count = 0,
                                     !.f_exit = f]
    BY DEF Return
  <2>3. f \in BOOLEAN
    BY <2>1
  <2>4. th[t].f_exit \/ b => f
    OBVIOUS
  <2> HIDE DEF f
  <2>5. /\ Return(t, b).st = "top" /\ Return(t, b).fd = th[t].fd
        /\ Return(t, b).data = None /\ Return(t, b).f_exit = f
        /\ Return(t, b) \in Thread
    BY ZenonT(60), <1>0, <2>1, <2>2, <2>3 DEF Thread
  <2> QED
    BY ZenonT(60), <2>4, <2>5
<1>6. CASE Sent(t)
  <2>1. th' = [th EXCEPT ![t] = Return(t, FALSE)]
    BY <1>6 DEF Sent
  <2>2. /\ th'[t].st = "top" /\ th'[t].fd = th[t].fd /\ th'[t].data = None
        /\ (th[t].f_exit => th'[t].f_exit)
    BY ZenonT(60), <1>5, <2>1
  <2>3. /\ th[t].st = "send" /\ queue' = queue
        /\ owed' = [owed EXCEPT ![t] = Paid(owed[t], th[t].data)]
        /\ last' = [last EXCEPT ![th[t].fd] = Piece1(t, TRUE)]
    BY <1>6 DEF Sent, Wrote, Piece1
  <2> QED
    BY ZenonT(60), <2>2, <2>3 DEF Writes, Does
<1>7. CASE NoFile(t)
  <2>1. th' = [th EXCEPT ![t] = Return(t, TRUE)]
    BY <1>7 DEF NoFile
  <2>2. /\ th'[t].st = "top" /\ th'[t].fd = th[t].fd /\ th'[t].data = None
        /\ th'[t].f_exit
    BY ZenonT(60), <1>5, <2>1
  <2> QED
    BY ZenonT(60), <1>7, <2>2 DEF NoFile, GivesUp, Does
<1>8. CASE WriteFails(t)
  <2> DEFINE x == [Return(t, TRUE) EXCEPT !.fd = None]
             y == [th[t] EXCEPT !.st = "wait", !.fd = None]
  <2>1. /\ x.fd = None /\ x.st = "top" /\ x.data = None
        /\ x.f_exit
    BY ZenonT(60), <1>5 DEF Thread
  <2>2. /\ y.fd = None /\ y.st = "wait" /\ y.data = th[t].data
        /\ y.f_exit = th[t].f_exit
    BY ZenonT(60), <1>0 DEF Thread
  <2>3. th' = [th EXCEPT ![t] = IF th[t].count = Retry THEN x ELSE y]
    BY <1>8 DEF WriteFails
  <2> HIDE DEF x, y
  <2>4. th'[t] = x \/ th'[t] = y
    BY <2>3
  <2>5. /\ th[t].st = "send" /\ queue' = queue /\ owed' = owed
        /\ last' = last \/ last' = [last EXCEPT ![th[t].fd] = Piece1(t, FALSE)]
    BY <1>8 DEF WriteFails, Wrote, Piece1
  <2> QED
    BY ZenonT(60), <2>1, <2>2, <2>4, <2>5 DEF Fails, Does
<1>9. CASE wait_client_reconnection(t)
  <2> DEFINE stop == quit \/ th[t].f_exit
             a == [Return(t, FALSE) EXCEPT !.fd = info[t].fd]
             b == [[th[t] EXCEPT !.st = "send"] EXCEPT !.fd = info[t].fd]
             c == Return(t, TRUE)
             d == [th[t] EXCEPT !.count = @ + 1]
  <2>1. /\ a.st = "top" /\ a.fd = info[t].fd /\ a.data = None
        /\ (th[t].f_exit => a.f_exit)
    BY ZenonT(60), <1>5 DEF Thread
  <2>2. /\ b.st = "send" /\ b.fd = info[t].fd /\ b.data = th[t].data
        /\ b.f_exit = th[t].f_exit
    BY ZenonT(60), <1>0 DEF Thread
  <2>3. /\ c.st = "top" /\ c.fd = th[t].fd /\ c.data = None
        /\ c.f_exit
    BY ZenonT(60), <1>5
  <2>4. /\ d.st = th[t].st /\ d.fd = th[t].fd /\ d.data = th[t].data
        /\ d.f_exit = th[t].f_exit
    BY ZenonT(60), <1>0 DEF Thread
  <2>5. /\ th[t].st = "wait" /\ NoProductMoves
        /\ \/ info[t].status = 0 /\ stop /\ th'[t] = a
           \/ info[t].status = 0 /\ ~stop /\ th'[t] = b
           \/ th'[t] = c \/ th'[t] = d
    <3> DEFINE e == IF info[t].status = 0 THEN (IF stop THEN a ELSE b)
                    ELSE IF stop \/ th[t].count + 1 = Retry THEN c ELSE d
    <3>1. th' = [th EXCEPT ![t] = e]
      <4>1. CASE info[t].status = 0 /\ stop
        BY <1>9, <4>1, ZenonT(60) DEF wait_client_reconnection
      <4>2. CASE info[t].status = 0 /\ ~stop
        BY <1>9, <4>2, ZenonT(60) DEF wait_client_reconnection
      <4>3. CASE info[t].status # 0 /\ (stop \/ th[t].count + 1 = Retry)
        BY <1>9, <4>3, ZenonT(60) DEF wait_client_reconnection
      <4>4. CASE info[t].status # 0 /\ ~(stop \/ th[t].count + 1 = Retry)
        BY <1>9, <4>4, ZenonT(60) DEF wait_client_reconnection
      <4> QED
        BY ZenonT(60), <4>1, <4>2, <4>3, <4>4
    <3>2. th'[t] = e
      BY ZenonT(60), <3>1
    <3> QED
      BY ZenonT(60), <1>9, <3>2 DEF wait_client_reconnection
  <2> HIDE DEF a, b, c, d
  <2>6. CASE info[t].status = 0 /\ stop /\ th'[t] = a
    BY <2>1, <2>5, <2>6 DEF Resumes, Does
  <2>7. CASE info[t].status = 0 /\ ~stop /\ th'[t] = b
    BY <2>2, <2>5, <2>7 DEF Resumes, Does
  <2>8. CASE th'[t] = c
    BY <2>3, <2>5, <2>8 DEF GivesUp, Does
  <2>9. CASE th'[t] = d
    BY <2>4, <2>5, <2>9 DEF Waits, Does
  <2> QED
    BY <2>5, <2>6, <2>7, <2>8, <2>9
<1> QED
  BY <1>1, <1>2, <1>3, <1>4, <1>6, <1>7, <1>8, <1>9 DEF ThreadStep
-----------------------------------------------------------------------------
(***************************************************************************)
(* What the thread keeps with it.                                          *)
(***************************************************************************)
\* The products and connections, and the numbers they are.
LEMMA Numbers ==
  ASSUME ThreadTypes, GhostTypes, NEW t \in Conns
  PROVE  /\ None = 0 /\ Products \subseteq Nat \ {0} /\ Conns \subseteq Nat \ {0}
         /\ th[t].data \in Nat /\ th[t].data \in Products \cup {None}
         /\ th[t].fd \in Conns \cup {None} /\ info[t].fd \in Conns \cup {None}
         /\ queue[t] \in Seq(Products) /\ owed[t] \in Seq(Products)
         /\ Len(queue[t]) \in Nat
         /\ \A i \in 1..Len(queue[t]) : queue[t][i] \in Products
         /\ \A c \in Conns : last[c] \in Piece /\ last[c].data \in Nat
         /\ Nothing \in Piece /\ Nothing.data = 0 /\ Nothing.whole
<1>1. None = 0 /\ Products \subseteq Nat \ {0} /\ Conns \subseteq Nat \ {0}
  BY SMTT(60), ThreadsAssumption DEF None, Products, Conns
<1>2. th[t] \in Thread /\ info[t] \in ThreadInfo
  BY DEF ThreadTypes
<1>3. /\ th[t].data \in Products \cup {None} /\ th[t].fd \in Conns \cup {None}
      /\ info[t].fd \in Conns \cup {None}
  BY ZenonT(60), <1>2 DEF Thread, ThreadInfo
<1>4. queue[t] \in Seq(Products) /\ owed[t] \in Seq(Products)
  BY DEF ThreadTypes, GhostTypes
<1>5. ASSUME NEW c \in Conns PROVE last[c] \in Piece /\ last[c].data \in Products \cup {None}
  BY DEF GhostTypes, Piece
<1>6. Nothing \in Piece /\ Nothing.data = 0 /\ Nothing.whole
  BY <1>1 DEF Nothing, Piece
<1>7. th[t].data \in Nat /\ \A c \in Conns : last[c].data \in Nat
  <2>1. \A x \in Products \cup {None} : x \in Nat
    BY SMTT(60), <1>1
  <2> QED
    BY ZenonT(60), <1>3, <1>5, <2>1
<1>8. Len(queue[t]) \in Nat /\ \A i \in 1..Len(queue[t]) : queue[t][i] \in Products
  BY <1>4, LenProperties, ElementOfSeq
<1> QED
  BY ZenonT(60), <1>1, <1>3, <1>4, <1>5, <1>6, <1>7, <1>8

\* What is written on a connection, or is left on it.
LEMMA WrittenPiece ==
  ASSUME ThreadTypes, GhostTypes, NEW t \in Conns, NEW b \in BOOLEAN,
         last' = [last EXCEPT ![th[t].fd] = Piece1(t, b)]
  PROVE  /\ last' \in [Conns -> Piece]
         /\ \A c \in Conns : c # th[t].fd => last'[c] = last[c]
         /\ th[t].fd # None => /\ last'[th[t].fd] = Piece1(t, b)
                               /\ last'[th[t].fd].data = th[t].data
                               /\ b => last'[th[t].fd].whole
<1>1. Piece1(t, b) \in Piece /\ Piece1(t, b).data = th[t].data
      /\ (b => Piece1(t, b).whole)
  BY Numbers DEF Piece1, Piece
<1>2. last \in [Conns -> Piece]
  BY DEF GhostTypes
<1>3. th[t].fd # None => th[t].fd \in Conns
  BY Numbers
<1> HIDE DEF Piece1
<1> QED
  BY ZenonT(60), <1>1, <1>2, <1>3

\* What is owed after a product is sent.
LEMMA PaidType ==
  ASSUME NEW s \in Seq(Products), NEW p
  PROVE  Paid(s, p) \in Seq(Products)
  BY HeadTailProperties DEF Paid

\* The ghosts keep their types.
LEMMA GhostsKeepTypes ==
  ASSUME ThreadTypes, GhostTypes, NEW t \in Conns, Does(t)
  PROVE  GhostTypes'
<1>1. last' \in [Conns -> Piece]
  <2>1. \/ last' = last
        \/ \E b \in BOOLEAN : last' = [last EXCEPT ![th[t].fd] = Piece1(t, b)]
    BY ZenonT(60)
    DEF Does, Ends, GoesOn, Takes, Loses, Writes, Fails, GivesUp, Waits, Resumes,
        NoProductMoves
  <2> QED
    BY <2>1, WrittenPiece DEF GhostTypes
<1>2. owed' \in [Conns -> Seq(Products)]
  <2>1. \/ owed' = owed \/ owed' = [owed EXCEPT ![t] = <<>>]
        \/ owed' = [owed EXCEPT ![t] = Paid(owed[t], th[t].data)]
    BY ZenonT(60)
    DEF Does, Ends, GoesOn, Takes, Loses, Writes, Fails, GivesUp, Waits, Resumes,
        NoProductMoves
  <2>2. Paid(owed[t], th[t].data) \in Seq(Products) /\ <<>> \in Seq(Products)
    BY PaidType, EmptySeq DEF GhostTypes
  <2> QED
    BY ZenonT(60), <2>1, <2>2 DEF GhostTypes
<1> QED
  BY <1>1, <1>2 DEF GhostTypes

\* A thread that runs still holds a product when it has one to send.
LEMMA HoldsKept ==
  ASSUME ThreadTypes, GhostTypes, NEW t \in Conns, Does(t), Holds(t)
  PROVE  Holds(t)'
<1>1. None = 0 /\ 0 \notin Products /\ queue[t] \in Seq(Products)
  BY Numbers
<1>2. queue[t] # <<>> => Head(queue[t]) # None
  BY <1>1, HeadTailProperties
<1> QED
  BY ZenonT(60), <1>2
  DEF Does, Ends, GoesOn, Takes, Loses, Writes, Fails, GivesUp, Waits, Resumes, Holds

\* The elements of a queue after its first one is taken.
LEMMA TailElements ==
  ASSUME NEW s \in Seq(Products), s # <<>>
  PROVE  /\ Head(s) = s[1] /\ Head(s) \in Products /\ Tail(s) \in Seq(Products)
         /\ Len(s) \in Nat /\ Len(s) >= 1 /\ Len(Tail(s)) = Len(s) - 1
         /\ \A i \in 1..Len(Tail(s)) : Tail(s)[i] = s[i + 1]
  BY SMTT(60), HeadTailProperties, LenProperties

\* The connection that a thread finds restored has nothing on it.
FindsFresh(t) ==
  info[t].status = 0 /\ th[t].fd = None /\ info[t].fd # None =>
    last[info[t].fd] = Nothing

\* What is on its connection, in its hands and in its queue stays in order.
LEMMA FlowKept ==
  ASSUME ThreadTypes, GhostTypes, ThreadTypes', NEW t \in Conns, Does(t),
         Holds(t), Alive(t), Flow(t), FindsFresh(t), Alive(t)'
  PROVE  Flow(t)'
<1> DEFINE q == queue[t]
<1>0. /\ None = 0 /\ th[t].data \in Nat /\ q \in Seq(Products) /\ Len(q) \in Nat
      /\ \A i \in 1..Len(q) : q[i] \in Nat \ {0}
      /\ \A c \in Conns : last[c].data \in Nat
      /\ Nothing.data = 0 /\ Nothing.whole
      /\ queue \in [Conns -> Seq(Products)]
      /\ th[t].fd \in Conns \cup {None} /\ info[t].fd \in Conns \cup {None}
  BY ZenonT(60), Numbers DEF ThreadTypes
<1>1. /\ \A i, j \in 1..Len(q) : i < j => q[i] < q[j]
      /\ \A i \in 1..Len(q) : th[t].data < q[i]
      /\ th[t].fd # None =>
           /\ last[th[t].fd].whole
           /\ \A i \in 1..Len(q) : last[th[t].fd].data < q[i]
           /\ th[t].st = "send" => last[th[t].fd].data < th[t].data
  BY ZenonT(60) DEF Flow
<1>2. CASE Ends(t)
  BY <1>2 DEF Ends, Alive
<1>3. CASE GoesOn(t) \/ GivesUp(t) \/ Waits(t)
  <2>1. /\ queue' = queue /\ last' = last /\ th'[t].fd = th[t].fd
        /\ th'[t].st # "send"
        /\ th'[t].data = th[t].data \/ th'[t].data = None
    BY ZenonT(60), <1>3 DEF GoesOn, GivesUp, Waits, NoProductMoves
  <2>2. \A i \in 1..Len(q) : th'[t].data < q[i]
    BY SMTT(60), <1>0, <1>1, <2>1
  <2> QED
    BY ZenonT(60), <1>1, <2>1, <2>2 DEF Flow
<1>4. CASE Takes(t)
  <2>1. /\ q # <<>> /\ queue'[t] = Tail(q) /\ last' = last
        /\ th'[t].data = Head(q) /\ th'[t].fd = th[t].fd
    BY <1>0, <1>4 DEF Takes
  <2>2. /\ Head(q) = q[1] /\ Len(Tail(q)) = Len(q) - 1 /\ Len(q) >= 1
        /\ \A i \in 1..Len(Tail(q)) : Tail(q)[i] = q[i + 1]
    BY <1>0, <2>1, TailElements
  <2> HIDE DEF q
  <2>3. /\ \A i, j \in 1..Len(Tail(q)) : i < j => Tail(q)[i] < Tail(q)[j]
        /\ \A i \in 1..Len(Tail(q)) : Head(q) < Tail(q)[i]
    BY SMTT(60), <1>0, <1>1, <2>2
  <2>4. th[t].fd # None =>
          /\ \A i \in 1..Len(Tail(q)) : last[th[t].fd].data < Tail(q)[i]
          /\ last[th[t].fd].data < Head(q)
    BY SMTT(60), <1>0, <1>1, <2>2
  <2> QED
    BY ZenonT(60), <1>1, <2>1, <2>3, <2>4 DEF Flow
<1>5. CASE Loses(t)
  <2>1. /\ queue'[t] = <<>> /\ last' = last /\ th'[t].st = "top"
        /\ th'[t].data = th[t].data /\ th'[t].fd = th[t].fd
    BY <1>0, <1>5 DEF Loses
  <2>2. \A i \in 1..Len(<<>>) : FALSE
    BY SMTT(60)
  <2> QED
    BY ZenonT(60), <1>1, <2>1, <2>2 DEF Flow
<1>6. CASE Writes(t)
  <2>1. /\ queue' = queue /\ th'[t].st = "top" /\ th'[t].data = None
        /\ th'[t].fd = th[t].fd
        /\ last' = [last EXCEPT ![th[t].fd] = Piece1(t, TRUE)]
    BY <1>6 DEF Writes
  <2>2. th[t].fd # None => /\ last'[th[t].fd].data = th[t].data
                           /\ last'[th[t].fd].whole
    BY ZenonT(60), <2>1, WrittenPiece
  <2>3. \A i \in 1..Len(q) : None < q[i]
    BY SMTT(60), <1>0
  <2> QED
    BY ZenonT(60), <1>1, <2>1, <2>2, <2>3 DEF Flow
<1>7. CASE Fails(t)
  <2>1. /\ queue' = queue /\ th'[t].fd = None
        /\ th'[t].data = th[t].data \/ th'[t].data = None
    BY ZenonT(60), <1>7 DEF Fails
  <2>2. \A i \in 1..Len(q) : th'[t].data < q[i]
    BY SMTT(60), <1>0, <1>1, <2>1
  <2> QED
    BY ZenonT(60), <1>1, <2>1, <2>2 DEF Flow
<1>8. CASE Resumes(t)
  <2>1. /\ queue' = queue /\ last' = last /\ th'[t].fd = info[t].fd
        /\ th[t].st = "wait" /\ info[t].status = 0
        /\ \/ th'[t].st = "send" /\ th'[t].data = th[t].data
           \/ th'[t].st = "top" /\ th'[t].data = None
    BY ZenonT(60), <1>8 DEF Resumes, NoProductMoves
  <2>2. th[t].fd = None /\ th[t].data # None
    BY <2>1 DEF Holds
  <2>3. th'[t].fd # None => last'[th'[t].fd] = Nothing
    BY <2>1, <2>2 DEF FindsFresh
  <2>4. /\ \A i \in 1..Len(q) : th'[t].data < q[i]
        /\ \A i \in 1..Len(q) : 0 < q[i]
        /\ th'[t].st = "send" => 0 < th'[t].data
    BY SMTT(60), <1>0, <1>1, <2>1, <2>2
  <2> QED
    BY ZenonT(60), <1>0, <1>1, <2>1, <2>3, <2>4 DEF Flow
<1> QED
  BY <1>2, <1>3, <1>4, <1>5, <1>6, <1>7, <1>8 DEF Does

\* All of it stays below a product that is above all of it.
LEMMA BelowKept ==
  ASSUME ThreadTypes, GhostTypes, ThreadTypes', NEW t \in Conns, Does(t),
         Holds(t), FindsFresh(t), NEW b \in Nat, Below(t, b), Alive(t)'
  PROVE  Below(t, b)'
<1> DEFINE q == queue[t]
<1>0. /\ None = 0 /\ th[t].data \in Nat /\ q \in Seq(Products) /\ Len(q) \in Nat
      /\ Nothing.data = 0
      /\ queue \in [Conns -> Seq(Products)]
      /\ th[t].fd \in Conns \cup {None} /\ info[t].fd \in Conns \cup {None}
  BY ZenonT(60), Numbers DEF ThreadTypes
<1>1. /\ th[t].data < b /\ \A i \in 1..Len(q) : q[i] < b
      /\ th[t].fd # None => last[th[t].fd].data < b
  BY ZenonT(60) DEF Below
<1>2. 0 < b /\ None < b
  BY SMTT(60), <1>0, <1>1
<1>3. CASE Ends(t)
  BY <1>3 DEF Ends, Alive
<1>4. CASE GoesOn(t) \/ GivesUp(t) \/ Waits(t)
  <2>1. /\ queue' = queue /\ last' = last /\ th'[t].fd = th[t].fd
        /\ th'[t].data = th[t].data \/ th'[t].data = None
    BY ZenonT(60), <1>4 DEF GoesOn, GivesUp, Waits, NoProductMoves
  <2> QED
    BY ZenonT(60), <1>1, <1>2, <2>1 DEF Below
<1>5. CASE Takes(t)
  <2>1. /\ q # <<>> /\ queue'[t] = Tail(q) /\ last' = last
        /\ th'[t].data = Head(q) /\ th'[t].fd = th[t].fd
    BY <1>0, <1>5 DEF Takes
  <2>2. /\ Head(q) = q[1] /\ Len(Tail(q)) = Len(q) - 1 /\ Len(q) >= 1
        /\ \A i \in 1..Len(Tail(q)) : Tail(q)[i] = q[i + 1]
    BY <1>0, <2>1, TailElements
  <2> HIDE DEF q
  <2>3. Head(q) < b /\ \A i \in 1..Len(Tail(q)) : Tail(q)[i] < b
    BY SMTT(60), <1>0, <1>1, <2>2
  <2> QED
    BY ZenonT(60), <1>1, <2>1, <2>3 DEF Below
<1>6. CASE Loses(t)
  <2>1. /\ queue'[t] = <<>> /\ last' = last
        /\ th'[t].data = th[t].data /\ th'[t].fd = th[t].fd
    BY <1>0, <1>6 DEF Loses
  <2>2. \A i \in 1..Len(<<>>) : FALSE
    BY SMTT(60)
  <2> QED
    BY ZenonT(60), <1>1, <2>1, <2>2 DEF Below
<1>7. CASE Writes(t)
  <2>1. /\ queue' = queue /\ th'[t].data = None /\ th'[t].fd = th[t].fd
        /\ last' = [last EXCEPT ![th[t].fd] = Piece1(t, TRUE)]
    BY <1>7 DEF Writes
  <2>2. th[t].fd # None => last'[th[t].fd].data = th[t].data
    BY ZenonT(60), <2>1, WrittenPiece
  <2> QED
    BY ZenonT(60), <1>1, <1>2, <2>1, <2>2 DEF Below
<1>8. CASE Fails(t)
  <2>1. /\ queue' = queue /\ th'[t].fd = None
        /\ th'[t].data = th[t].data \/ th'[t].data = None
    BY ZenonT(60), <1>8 DEF Fails
  <2> QED
    BY ZenonT(60), <1>1, <1>2, <2>1 DEF Below
<1>9. CASE Resumes(t)
  <2>1. /\ queue' = queue /\ last' = last /\ th'[t].fd = info[t].fd
        /\ th[t].st = "wait" /\ info[t].status = 0
        /\ th'[t].data = th[t].data \/ th'[t].data = None
    BY ZenonT(60), <1>9 DEF Resumes, NoProductMoves
  <2>2. th[t].fd = None
    BY <2>1 DEF Holds
  <2>3. th'[t].fd # None => last'[th'[t].fd] = Nothing
    BY <2>1, <2>2 DEF FindsFresh
  <2> QED
    BY ZenonT(60), <1>0, <1>1, <1>2, <2>1, <2>3 DEF Below
<1> QED
  BY <1>3, <1>4, <1>5, <1>6, <1>7, <1>8, <1>9 DEF Does

\* A step on one connection, as StreamIntact has it.
Intact(c) ==
  last'[c] \notin {last[c], Nothing} => last[c].whole /\ last[c].data < last'[c].data

\* A thread writes on no other connection than its own, and there in order.
LEMMA WritesInOrder ==
  ASSUME ThreadTypes, GhostTypes, NEW t \in Conns, Does(t), Flow(t)
  PROVE  \A c \in Conns : (c # th[t].fd => last'[c] = last[c]) /\ Intact(c)
<1>1. CASE last' = last
  BY <1>1 DEF Intact
<1>2. ASSUME NEW b \in BOOLEAN, last' = [last EXCEPT ![th[t].fd] = Piece1(t, b)],
             th[t].st = "send", NEW c \in Conns
      PROVE  (c # th[t].fd => last'[c] = last[c]) /\ Intact(c)
  <2>1. c # th[t].fd => last'[c] = last[c]
    BY <1>2, WrittenPiece
  <2>2. CASE c = th[t].fd
    <3>1. th[t].fd # None
      BY <2>2, Numbers
    <3>2. last'[c].data = th[t].data
      BY ZenonT(60), <1>2, <2>2, <3>1, WrittenPiece
    <3>3. last[c].whole /\ last[c].data < th[t].data
      BY ZenonT(60), <1>2, <2>2, <3>1 DEF Flow
    <3> QED
      BY ZenonT(60), <2>2, <3>2, <3>3 DEF Intact
  <2> QED
    BY <2>1, <2>2 DEF Intact
<1>3. \/ last' = last
      \/ /\ th[t].st = "send"
         /\ \E b \in BOOLEAN : last' = [last EXCEPT ![th[t].fd] = Piece1(t, b)]
  BY ZenonT(60)
  DEF Does, Ends, GoesOn, Takes, Loses, Writes, Fails, GivesUp, Waits, Resumes,
      NoProductMoves
<1> QED
  BY <1>1, <1>2, <1>3

\* A product in front of others.
LEMMA InFront ==
  ASSUME NEW s \in Seq(Products), NEW p \in Products
  PROVE  /\ <<>> \o s = s /\ <<p>> \o s # <<>>
         /\ Head(<<p>> \o s) = p /\ Tail(<<p>> \o s) = s
         /\ s # <<>> => <<Head(s)>> \o Tail(s) = s
  BY SMTT(60)

\* Nothing that is queued for a thread is forgotten in a step of it.
LEMMA OwesKept ==
  ASSUME ThreadTypes, GhostTypes, NEW t \in Conns, Does(t), Holds(t), Alive(t),
         Owes(t), quit' = quit
  PROVE  Owes(t)'
<1> DEFINE q == queue[t]
           d == th[t].data
<1> SUFFICES ASSUME Alive(t)', ~th'[t].f_exit, ~quit
             PROVE  owed'[t] = (IF th'[t].data = None THEN <<>> ELSE <<th'[t].data>>)
                                 \o queue'[t]
  BY ZenonT(60) DEF Owes
<1>0. /\ q \in Seq(Products) /\ d \in Products \cup {None}
      /\ queue \in [Conns -> Seq(Products)] /\ owed \in [Conns -> Seq(Products)]
      /\ \A p \in Products : p # None
  BY Numbers DEF ThreadTypes, GhostTypes
<1>1. ~th[t].f_exit => owed[t] = (IF d = None THEN <<>> ELSE <<d>>) \o q
  BY ZenonT(60) DEF Owes
<1>2. CASE Ends(t) \/ GivesUp(t)
  BY <1>2 DEF Ends, Alive, GivesUp
<1>3. CASE GoesOn(t) \/ Waits(t)
  BY ZenonT(60), <1>1, <1>3 DEF GoesOn, Waits, NoProductMoves
<1>4. CASE Takes(t)
  <2>1. /\ q # <<>> /\ queue'[t] = Tail(q) /\ owed' = owed /\ ~th[t].f_exit
        /\ th'[t].data = Head(q) /\ d = None
    BY ZenonT(60), <1>0, <1>4 DEF Takes, Holds
  <2>2. Head(q) # None /\ <<Head(q)>> \o Tail(q) = q /\ <<>> \o q = q
    BY <1>0, <2>1, HeadTailProperties, InFront
  <2> QED
    BY ZenonT(60), <1>1, <2>1, <2>2
<1>5. CASE Loses(t)
  <2>1. queue'[t] = <<>> /\ owed'[t] = <<>> /\ th'[t].data = None
    BY ZenonT(60), <1>0, <1>5 DEF Loses, Holds
  <2>2. <<>> \o <<>> = <<>>
    BY SMTT(60)
  <2> QED
    BY ZenonT(60), <2>1, <2>2
<1>6. CASE Writes(t)
  <2>1. /\ queue' = queue /\ owed'[t] = Paid(owed[t], d) /\ ~th[t].f_exit
        /\ th'[t].data = None /\ d # None
    BY ZenonT(60), <1>0, <1>6 DEF Writes, Holds
  <2>2. owed[t] = <<d>> \o q
    BY <1>1, <2>1
  <2>3. Paid(owed[t], d) = q /\ <<>> \o q = q
    BY SMTT(60), <1>0, <2>1, <2>2, InFront DEF Paid
  <2> QED
    BY ZenonT(60), <2>1, <2>3
<1>7. CASE Fails(t)
  BY ZenonT(60), <1>1, <1>7 DEF Fails
<1>8. CASE Resumes(t)
  BY ZenonT(60), <1>1, <1>8 DEF Resumes, NoProductMoves
<1> QED
  BY ZenonT(60), <1>2, <1>3, <1>4, <1>5, <1>6, <1>7, <1>8 DEF Does
-----------------------------------------------------------------------------
(***************************************************************************)
(* A step of a thread.                                                     *)
(***************************************************************************)
\* What a thread has is not changed by another.
LEMMA OthersSame ==
  ASSUME ThreadTypes, GhostTypes, NEW t \in Conns, Does(t)
  PROVE  /\ th'[t].st # "none"
         /\ \A u \in Conns : u # t => queue'[u] = queue[u] /\ owed'[u] = owed[u]
<1>1. th'[t].st # "none"
  BY ZenonT(60)
  DEF Does, Ends, GoesOn, Takes, Loses, Writes, Fails, GivesUp, Waits, Resumes
<1>2. queue \in [Conns -> Seq(Products)] /\ owed \in [Conns -> Seq(Products)]
  BY DEF ThreadTypes, GhostTypes
<1>3. /\ \/ queue' = queue \/ queue' = [queue EXCEPT ![t] = Tail(queue[t])]
         \/ queue' = [queue EXCEPT ![t] = <<>>]
      /\ \/ owed' = owed \/ owed' = [owed EXCEPT ![t] = <<>>]
         \/ owed' = [owed EXCEPT ![t] = Paid(owed[t], th[t].data)]
  BY ZenonT(60)
  DEF Does, Ends, GoesOn, Takes, Loses, Writes, Fails, GivesUp, Waits, Resumes,
      NoProductMoves
<1> QED
  BY ZenonT(60), <1>1, <1>2, <1>3

\* The element of a thread that runs, and its connection.
LEMMA OwnElement ==
  ASSUME Types, Links, NEW t \in Conns, Alive(t)
  PROVE  \E i \in 1..Len(table) :
           /\ table[i].id = t /\ Linked(table[i])
           /\ table[i].fd \in Conns \cup {None}
           /\ th[t].fd # None => th[t].fd = table[i].fd
           /\ info[t].status = 0 => info[t].fd = table[i].fd
           /\ \A j \in 1..Len(table) : j # i => Unlike(table[i], table[j])
<1>1. PICK i \in 1..Len(table) : table[i].id = t
  BY DEF Links, NotFreedInUse
<1>2. /\ Linked(table[i])
      /\ \A j \in 1..Len(table) : j # i => Unlike(table[i], table[j])
  BY ZenonT(60) DEF Links
<1>3. table[i].fd \in Conns \cup {None}
  BY TableElement DEF Types
<1>4. /\ th[t].fd # None => th[t].fd = table[i].fd
      /\ info[t].status = 0 => info[t].fd = table[i].fd
  BY ZenonT(60), <1>1, <1>2 DEF Linked
<1> QED
  BY ZenonT(60), <1>1, <1>2, <1>3, <1>4

\* The connection on which a thread writes is touched, and is not another's.
LEMMA OwnConnection ==
  ASSUME Types, Links, NEW t \in Conns, Alive(t), th[t].fd # None
  PROVE  /\ ~Untouched(th[t].fd)
         /\ \A u \in Conns : Alive(u) /\ u # t => th[u].fd # th[t].fd
<1>1. PICK i \in 1..Len(table) :
        /\ table[i].id = t /\ Linked(table[i])
        /\ th[t].fd = table[i].fd
        /\ \A j \in 1..Len(table) : j # i => Unlike(table[i], table[j])
  BY ZenonT(60), OwnElement
<1>2. conn[th[t].fd].st # "new"
  BY ZenonT(60), <1>1 DEF Linked
<1>3. \A p \in 1..Len(pending) : pending[p] # th[t].fd
  BY ZenonT(60), <1>1 DEF Links, Unseen
<1>4. Admitting => srv.c # th[t].fd
  BY ZenonT(60), <1>1 DEF Links, Newcomer
<1>5. ASSUME NEW j \in 1..Len(table), table[j].fd = th[t].fd, MayTake(table[j].id)
      PROVE  FALSE
  <2>1. j = i
    BY ZenonT(60), <1>1, <1>5 DEF Unlike
  <2> QED
    BY ZenonT(60), <1>1, <1>5, <2>1 DEF MayTake, Alive
<1>6. ASSUME NEW u \in Conns, Alive(u), u # t, th[u].fd = th[t].fd PROVE FALSE
  <2>1. PICK j \in 1..Len(table) : table[j].id = u /\ th[u].fd = table[j].fd
    BY ZenonT(60), <1>6, OwnElement
  <2>2. j # i
    BY <1>1, <1>6, <2>1
  <2> QED
    BY ZenonT(60), <1>1, <1>6, <2>1, <2>2 DEF Unlike
<1> QED
  BY ZenonT(60), <1>2, <1>3, <1>4, <1>5, <1>6 DEF Untouched

\* What a thread finds restored has nothing on it.
LEMMA RestoredFresh ==
  ASSUME Types, Links, Unwritten, NEW t \in Conns, Alive(t)
  PROVE  FindsFresh(t)
<1> SUFFICES ASSUME info[t].status = 0, th[t].fd = None, info[t].fd # None
             PROVE  last[info[t].fd] = Nothing
  BY DEF FindsFresh
<1>1. PICK i \in 1..Len(table) :
        /\ table[i].id = t /\ table[i].fd \in Conns \cup {None}
        /\ info[t].fd = table[i].fd
  BY ZenonT(60), OwnElement
<1>2. MayTake(table[i].id)
  BY ZenonT(60), <1>1 DEF MayTake
<1> QED
  BY ZenonT(60), <1>1, <1>2 DEF Unwritten, Untouched

\* A step of a thread leaves to itself and the others what they have.
LEMMA ThreadLines ==
  ASSUME Types, Links, Stream, NEW t \in Conns, ThreadRuns(t)
  PROVE  Stream' /\ \A c \in Conns : Intact(c)
<1>0. /\ ThreadTypes /\ GhostTypes /\ ThreadStep(t) /\ Holds(t) /\ Owes(t)
      /\ conn' = conn /\ pending' = pending /\ table' = table /\ srv' = srv
      /\ next' = next
  BY ZenonT(60) DEF Types, Stream, ThreadRuns, serverVars
<1>1. ThreadTypes' /\ Stepped(t) /\ Does(t) /\ Alive(t)
  BY ZenonT(60), <1>0, ThreadStepTypes, ThreadDoes DEF Stepped
<1>2. FindsFresh(t) /\ Flow(t) /\ Below(t, next)
  BY ZenonT(60), <1>1, RestoredFresh DEF Stream, Lines
<1>3. GhostTypes' /\ Holds(t)'
  BY ZenonT(60), <1>0, <1>1, GhostsKeepTypes, HoldsKept
<1>4. quit' = quit
  BY ZenonT(60), <1>0 DEF ThreadStep, client_thread_main, Canceled, cleanup, periodic,
     connqueue_rcv, NoData, Sent, NoFile, WriteFails, wait_client_reconnection
<1>5. Owes(t)'
  BY ZenonT(60), <1>0, <1>1, <1>4, OwesKept
<1>6. \A c \in Conns : (c # th[t].fd => last'[c] = last[c]) /\ Intact(c)
  BY ZenonT(60), <1>0, <1>1, <1>2, WritesInOrder
<1>7. /\ th'[t].st # "none"
      /\ \A u \in Conns : u # t =>
           /\ th'[u] = th[u] /\ info'[u] = info[u]
           /\ queue'[u] = queue[u] /\ owed'[u] = owed[u]
  BY ZenonT(60), <1>0, <1>1, OthersSame DEF Stepped
<1>8. ASSUME NEW b \in Nat, NEW u \in Conns, Alive(u)'
      PROVE  Flow(u)' /\ (Below(u, b) => Below(u, b)')
  <2>1. CASE u = t
    BY ZenonT(60), <1>0, <1>1, <1>2, <1>3, <1>5, <1>8, <2>1, FlowKept, BelowKept
  <2>2. CASE u # t
    <3>1. th'[u] = th[u] /\ queue'[u] = queue[u] /\ Alive(u)
      BY ZenonT(60), <1>7, <1>8, <2>2 DEF Alive
    <3>2. th[u].fd # None => th[u].fd \in Conns /\ th[u].fd # th[t].fd
      BY <1>0, <1>1, <2>2, <3>1, OwnConnection, Numbers
    <3>3. th[u].fd # None => last'[th[u].fd] = last[th[u].fd]
      BY ZenonT(60), <1>6, <3>2
    <3>4. Flow(u)
      BY ZenonT(60), <3>1 DEF Stream, Lines
    <3> QED
      BY ZenonT(60), <3>1, <3>3, <3>4 DEF Flow, Below
  <2> QED
    BY <2>1, <2>2
<1>9. \A u \in Conns : Holds(u)' /\ Owes(u)'
  <2> SUFFICES ASSUME NEW u \in Conns, u # t PROVE Holds(u)' /\ Owes(u)'
    BY <1>3, <1>5
  <2>1. /\ th'[u] = th[u] /\ queue'[u] = queue[u] /\ owed'[u] = owed[u]
        /\ Holds(u) /\ Owes(u)
    BY ZenonT(60), <1>7 DEF Stream
  <2> QED
    BY ZenonT(60), <1>4, <2>1 DEF Holds, Owes, Alive
<1>10. \A u \in Conns : Alive(u)' => Alive(u)
  BY ZenonT(60), <1>1, <1>7 DEF Alive
<1>11. Lines'
  <2>1. next \in Nat
    BY SMTT(60), ThreadsAssumption DEF Types, TableTypes
  <2>2. \A u \in Conns : Alive(u) => Below(u, next)
    BY ZenonT(60) DEF Stream, Lines
  <2>3. \A u \in Conns : Alive(u)' => Flow(u)' /\ Below(u, next)'
    BY ZenonT(60), <1>0, <1>8, <1>10, <2>1, <2>2
  <2> QED
    BY ZenonT(60), <1>0, <2>3 DEF Lines
<1>12. Sending'
  <2> SUFFICES ASSUME srv.pc = "send", NEW j \in srv.i .. Len(table),
                      Alive(table[j].id)'
               PROVE  Below(table[j].id, srv.data)'
    BY ZenonT(60), <1>0 DEF Sending, Stream
  <2>1. j \in 1..Len(table) /\ srv.data \in Nat
    <3>1. srv.i >= 1 /\ srv.i \in Nat /\ Len(table) \in Nat /\ srv.data \in Products
      BY SrvFields, LenProperties DEF Types, TableTypes, Places
    <3>2. srv.data \in Nat
      BY SMTT(60), <3>1, ThreadsAssumption DEF Products
    <3> QED
      BY SMTT(60), <3>1, <3>2
  <2>2. table[j].id \in Conns /\ table'[j].id = table[j].id
    BY <1>0, <2>1, TableElement DEF Types
  <2>3. Below(table[j].id, srv.data)
    BY ZenonT(60), <1>0, <1>10, <2>2 DEF Stream, Sending
  <2> QED
    BY ZenonT(60), <1>0, <1>8, <2>1, <2>2, <2>3
<1>13. Unwritten'
  <2> SUFFICES ASSUME NEW c \in Conns, Untouched(c)' PROVE last'[c] = Nothing
    BY DEF Unwritten
  <2>1. Untouched(c)
    <3> SUFFICES ASSUME NEW i \in 1..Len(table), table[i].fd = c,
                        MayTake(table[i].id)'
                 PROVE  Untouched(c)
      BY ZenonT(60), <1>0 DEF Untouched, Admitting
    <3>1. table[i].id \in Conns /\ c # None
      BY ZenonT(60), <1>0, TableElement, Numbers DEF Types
    <3>2. MayTake(table[i].id)
      <4>1. CASE table[i].id # t
        BY ZenonT(60), <1>0, <1>7, <3>1, <4>1 DEF MayTake, Alive
      <4>2. CASE table[i].id = t
        <5>1. Alive(t)' /\ th'[t].fd = None /\ info'[t].status = 0
          BY ZenonT(60), <1>0, <1>7, <4>2 DEF MayTake
        <5>2. /\ info' = info
              /\ \/ th'[t].fd = th[t].fd
                 \/ info[t].status = 0 /\ th'[t].fd = info[t].fd
          BY SMTT(60), <1>1, <5>1 DEF Stepped, Alive
        <5>3. info[t].status = 0 /\ info[t].fd = c
          BY ZenonT(60), <1>1, <4>2, <5>1, <5>2 DEF Links, Linked
        <5> QED
          BY ZenonT(60), <1>1, <3>1, <4>2, <5>1, <5>2, <5>3 DEF MayTake
      <4> QED
        BY <4>1, <4>2
    <3> QED
      BY ZenonT(60), <3>2 DEF Untouched
  <2>2. c # th[t].fd
    BY <1>0, <1>1, <2>1, OwnConnection, Numbers
  <2> QED
    BY ZenonT(60), <1>6, <2>1, <2>2 DEF Stream, Unwritten
<1> QED
  BY ZenonT(60), <1>3, <1>6, <1>9, <1>11, <1>12, <1>13 DEF Stream
-----------------------------------------------------------------------------
(***************************************************************************)
(* The steps of the server thread that leave the products where they are.  *)
(***************************************************************************)
SameWork ==
  /\ \A t \in Conns : /\ th'[t].st = th[t].st /\ th'[t].fd = th[t].fd
                      /\ th'[t].data = th[t].data /\ th'[t].f_exit = th[t].f_exit
  /\ queue' = queue /\ owed' = owed /\ (quit => quit')

\* The same, but for threads that have ended, whose queues may be freed.
WorkLeft ==
  /\ \A t \in Conns : /\ th'[t].st = th[t].st /\ th'[t].fd = th[t].fd
                      /\ th'[t].data = th[t].data /\ th'[t].f_exit = th[t].f_exit
                      /\ \/ queue'[t] = queue[t] /\ owed'[t] = owed[t]
                         \/ ~Alive(t) /\ queue'[t] = <<>> /\ owed'[t] = <<>>
  /\ owed' \in [Conns -> Seq(Products)] /\ (quit => quit')

\* What is on a connection is gone when it is closed.
Wiped ==
  last' \in [Conns -> Piece] /\ \A c \in Conns : last'[c] \in {last[c], Nothing}

\* A thread that is cancelled keeps what it has.
LEMMA CancelWork ==
  ASSUME ThreadTypes, NEW t \in Conns, pthread_cancel(t)
  PROVE  SameWork
<1>1. th[t] \in Thread
  BY DEF ThreadTypes
<1> DEFINE r == [th[t] EXCEPT !.canceled = TRUE]
<1>2. /\ r.st = th[t].st /\ r.fd = th[t].fd /\ r.data = th[t].data
      /\ r.f_exit = th[t].f_exit
  BY ZenonT(60), <1>1 DEF Thread
<1>3. th' = th \/ th' = [th EXCEPT ![t] = r]
  BY <1>1 DEF pthread_cancel, Thread
<1>4. queue' = queue /\ quit' = quit /\ owed' = owed
  BY DEF pthread_cancel, shared
<1> HIDE DEF r
<1>5. \A u \in Conns : th'[u] = th[u] \/ (u = t /\ th'[u] = r)
  BY ZenonT(60), <1>3 DEF ThreadTypes
<1> QED
  BY ZenonT(60), <1>2, <1>4, <1>5 DEF SameWork

\* A connection that is closed has nothing on it.
LEMMA CloseWipes ==
  ASSUME GhostTypes, NEW fd \in Conns \cup {None}, Close(fd)
  PROVE  Wiped
<1>1. Nothing \in Piece
  BY DEF Nothing, Piece
<1>2. last \in [Conns -> Piece]
  BY DEF GhostTypes
<1>3. last' = last \/ last' = [last EXCEPT ![fd] = Nothing]
  BY DEF Close
<1> QED
  BY ZenonT(60), <1>1, <1>2, <1>3 DEF Wiped

\* What is kept by all of these steps.
LEMMA WorkKept ==
  ASSUME ThreadTypes, GhostTypes, WorkLeft, Wiped,
         \A t \in Conns : Holds(t) /\ Owes(t)
  PROVE  /\ GhostTypes' /\ \A t \in Conns : Holds(t)' /\ Owes(t)'
         /\ \A c \in Conns : Intact(c)
         /\ \A t \in Conns : Alive(t)' <=> Alive(t)
         /\ \A t \in Conns : Alive(t) /\ Flow(t) => Flow(t)'
         /\ \A t \in Conns, b \in Nat \ {0} :
              Alive(t) /\ Below(t, b) => Below(t, b)'
<1>1. GhostTypes'
  BY DEF GhostTypes, WorkLeft, Wiped
<1>2. \A t \in Conns : Alive(t)' <=> Alive(t)
  BY DEF Alive, WorkLeft
<1>3. ASSUME NEW t \in Conns PROVE Holds(t)' /\ Owes(t)'
  <2>1. /\ th'[t].st = th[t].st /\ th'[t].fd = th[t].fd
        /\ th'[t].data = th[t].data /\ th'[t].f_exit = th[t].f_exit
        /\ \/ queue'[t] = queue[t] /\ owed'[t] = owed[t]
           \/ ~Alive(t) /\ queue'[t] = <<>> /\ owed'[t] = <<>>
        /\ (quit => quit') /\ (Alive(t)' => Alive(t))
    BY ZenonT(60), <1>2 DEF WorkLeft
  <2>2. Holds(t)'
    BY ZenonT(60), <2>1 DEF Holds
  <2>3. Owes(t)'
    BY ZenonT(60), <2>1 DEF Owes
  <2> QED
    BY <2>2, <2>3
<1>4. \A c \in Conns : Intact(c)
  BY DEF Wiped, Intact
<1>5. ASSUME NEW t \in Conns, Alive(t), Flow(t) PROVE Flow(t)'
  <2> DEFINE q == queue[t]
  <2>1. /\ th'[t].fd = th[t].fd /\ th'[t].data = th[t].data
        /\ th'[t].st = th[t].st /\ queue'[t] = queue[t]
    BY <1>5 DEF WorkLeft
  <2>2. CASE th[t].fd = None
    BY ZenonT(60), <1>5, <2>1, <2>2 DEF Flow
  <2>3. CASE th[t].fd # None /\ last'[th[t].fd] = last[th[t].fd]
    BY ZenonT(60), <1>5, <2>1, <2>3 DEF Flow
  <2>4. CASE th[t].fd # None /\ last'[th[t].fd] = Nothing
    <3>1. Nothing.whole /\ Nothing.data = 0 /\ None = 0
      BY ZenonT(60), Numbers
    <3>2. /\ \A i \in 1..Len(q) : 0 < q[i]
          /\ th[t].st = "send" => 0 < th[t].data
      <4>1. th[t].st = "send" => th[t].data # None
        BY DEF Holds
      <4> QED
        BY SMTT(60), <4>1, Numbers
    <3> QED
      BY ZenonT(60), <1>5, <2>1, <2>4, <3>1, <3>2 DEF Flow
  <2>5. th[t].fd \in Conns \cup {None}
    BY Numbers
  <2> QED
    BY <2>2, <2>3, <2>4, <2>5 DEF Wiped
<1>6. ASSUME NEW t \in Conns, NEW b \in Nat \ {0}, Alive(t), Below(t, b)
      PROVE  Below(t, b)'
  <2>1. /\ th'[t].fd = th[t].fd /\ th'[t].data = th[t].data /\ queue'[t] = queue[t]
    BY <1>6 DEF WorkLeft
  <2>2. th[t].fd # None =>
          last'[th[t].fd] = last[th[t].fd] \/ last'[th[t].fd] = Nothing
    BY Numbers DEF Wiped
  <2>3. Nothing.data < b
    BY SMTT(60), Numbers
  <2> QED
    BY ZenonT(60), <1>6, <2>1, <2>2, <2>3 DEF Below
<1> QED
  BY ZenonT(60), <1>1, <1>2, <1>3, <1>4, <1>5, <1>6

\* A step after which no connection is newly untouched, and which does not
\* begin or continue a distribution.
LEMMA LeftKeeps ==
  ASSUME Types, Types', Stream, WorkLeft, Wiped, next' = next,
         \A c \in Conns : Untouched(c)' => Untouched(c),
         srv'.pc = "send" => srv' = srv /\ table' = table
  PROVE  Stream' /\ \A c \in Conns : Intact(c)
<1>1. /\ GhostTypes' /\ \A t \in Conns : Holds(t)' /\ Owes(t)'
      /\ \A c \in Conns : Intact(c)
      /\ \A t \in Conns : Alive(t)' <=> Alive(t)
      /\ \A t \in Conns : Alive(t) /\ Flow(t) => Flow(t)'
      /\ \A t \in Conns, b \in Nat \ {0} :
           Alive(t) /\ Below(t, b) => Below(t, b)'
  BY WorkKept DEF Types, Stream
<1>2. Unwritten'
  BY ZenonT(60) DEF Stream, Unwritten, Wiped
<1>3. Lines'
  <2>1. next \in Nat \ {0}
    BY SMTT(60), ThreadsAssumption DEF Types, TableTypes
  <2> QED
    BY ZenonT(60), <1>1, <2>1 DEF Stream, Lines
<1>4. Sending'
  <2> SUFFICES ASSUME srv'.pc = "send", NEW j \in srv.i .. Len(table),
                      Alive(table[j].id)'
               PROVE  Below(table[j].id, srv.data)'
    BY ZenonT(60) DEF Sending, Stream
  <2>1. srv' = srv /\ table' = table
    OBVIOUS
  <2>2. j \in 1..Len(table) /\ srv.data \in Products
    BY SMTT(60), <2>1, SrvFields, LenProperties DEF Types, TableTypes, Places
  <2>3. srv.data \in Nat \ {0}
    BY SMTT(60), <2>2, ThreadsAssumption DEF Products
  <2>4. table[j].id \in Conns
    BY <2>2, TableElement DEF Types
  <2>5. Below(table[j].id, srv.data)
    BY ZenonT(60), <1>1, <2>1, <2>4 DEF Stream, Sending
  <2> QED
    BY ZenonT(60), <1>1, <2>1, <2>3, <2>4, <2>5
<1> QED
  BY <1>1, <1>2, <1>3, <1>4 DEF Stream

\* The same, when no queue is freed.
LEMMA CalmKeeps ==
  ASSUME Types, Types', Stream, SameWork, Wiped, next' = next,
         \A c \in Conns : Untouched(c)' => Untouched(c),
         srv'.pc = "send" => srv' = srv /\ table' = table
  PROVE  Stream' /\ \A c \in Conns : Intact(c)
<1>1. WorkLeft
  BY ZenonT(60) DEF SameWork, WorkLeft, Stream, GhostTypes
<1> QED
  BY ZenonT(60), <1>1, LeftKeeps

\* The steps that leave the links alone leave the connections as untouched.
LEMMA IdleUntouched ==
  ASSUME Types, Idle
  PROVE  \A c \in Conns : Untouched(c)' => Untouched(c)
<1> SUFFICES ASSUME NEW c \in Conns, Untouched(c)' PROVE Untouched(c)
  OBVIOUS
<1>1. conn'[c].st = "new" => conn[c].st = "new"
  BY DEF Idle, SameConns
<1>2. pending' = pending
  BY DEF Idle
<1>3. Admitting' => srv' = srv
  BY DEF Idle, Admitting, Elsewhere
<1>4. ASSUME NEW i \in 1..Len(table'), table'[i].fd = c, MayTake(table[i].id)'
      PROVE  Untouched(c)
  <2>1. i \in 1..Len(table) /\ table'[i].fd = table[i].fd /\ table'[i].id = table[i].id
    BY DEF Idle, SameTable
  <2>2. table[i].id \in Conns
    BY <2>1, TableElement DEF Types
  <2>3. MayTake(table[i].id)
    BY ZenonT(60), <1>4, <2>1, <2>2 DEF Idle, SameThreads, MayTake, Alive
  <2> QED
    BY ZenonT(60), <1>4, <2>1, <2>3 DEF Untouched
<1> QED
  BY ZenonT(60), <1>1, <1>2, <1>3, <1>4 DEF Untouched, Admitting

\* Steps that do not touch the threads.
LEMMA ThreadsAlone ==
  ASSUME GhostTypes, UNCHANGED threadVars
  PROVE  SameWork /\ Wiped
<1>1. th' = th /\ queue' = queue /\ owed' = owed /\ quit' = quit /\ last' = last
  BY DEF threadVars, shared, ghosts
<1>2. SameWork
  BY ZenonT(60), <1>1 DEF SameWork
<1>3. Wiped
  BY ZenonT(60), <1>1 DEF Wiped, GhostTypes
<1> QED
  BY <1>2, <1>3

\* A deletion begins.
LEMMA DeletionBegins ==
  ASSUME Types, GhostTypes, NEW k \in 1..Len(table), NEW ret, NEW i,
         poll_del_connection(k, ret, i)
  PROVE  SameWork /\ Wiped /\ srv'.pc = "join"
<1>1. table[k].id \in Conns /\ srv \in Srv
  BY TableElement DEF Types, TableTypes
<1>2. SameWork
  BY <1>1, CancelWork DEF poll_del_connection, Types
<1>3. Wiped
  BY ZenonT(60) DEF poll_del_connection, Wiped, GhostTypes
<1>4. srv'.pc = "join"
  BY <1>1 DEF poll_del_connection, Srv
<1> QED
  BY <1>2, <1>3, <1>4

\* The walk leads to no distribution.
LEMMA WalkOn ==
  ASSUME Types, srv.pc \in DOMAIN After, srv.pc # "send" \/ srv.i >= Len(table),
         NextElement \/ srv' = At(After[srv.pc])
  PROVE  srv'.pc # "send"
<1>1. srv.pc \in {"finished", "dirty", "events", "send"}
  BY DEF After
<1>2. After[srv.pc] \in {"unidentified", "spawn", "queue", "loop"}
  BY SMTT(60), <1>1 DEF After
<1>3. srv \in Srv /\ srv.i \in Nat /\ Len(table) \in Nat
  BY SrvFields, LenProperties DEF Types, TableTypes
<1>4. CASE srv' = At(After[srv.pc])
  BY <1>2, <1>4 DEF At
<1>5. CASE srv' = [srv EXCEPT !.i = @ + 1] /\ srv.i < Len(table)
  BY SMTT(60), <1>3, <1>5 DEF Srv
<1> QED
  BY <1>4, <1>5 DEF NextElement

\* The steps of the server thread that change neither the table nor the threads,
\* but for a thread that is cancelled.
LEMMA QuietKeeps ==
  ASSUME Types, Links, Stream, Types',
         \/ StartConnections \/ EndScan \/ server_main_ends \/ NoEvent
         \/ process_finished_connections \/ poll_client_hangup
         \/ process_unidentified_connections \/ poll \/ PassFails \/ handle_client
  PROVE  Stream' /\ \A c \in Conns : Intact(c)
<1>0. GhostTypes
  BY DEF Stream
<1>1. Idle
  BY ScansIdle, DeletionsIdle, UnidentifiedIdle, PollIdle, PassFailsIdle, HandleIdle
<1>2. \A c \in Conns : Untouched(c)' => Untouched(c)
  BY <1>1, IdleUntouched
<1>3. SUFFICES SameWork /\ Wiped /\ srv'.pc # "send" /\ next' = next
  BY <1>2, CalmKeeps
<1>4. CASE StartConnections \/ server_main_ends
  BY SMTT(60), <1>0, <1>4, ThreadsAlone DEF StartConnections, server_main_ends, At
<1>5. CASE EndScan
  <2>1. srv.i >= Len(table)
    BY SMTT(60), <1>5, SrvFields, LenProperties DEF EndScan, Types, TableTypes
  <2> QED
    BY ZenonT(60), <1>0, <1>5, <2>1, WalkOn, ThreadsAlone DEF EndScan
<1>6. ASSUME Skip, srv.pc \in {"events", "finished"}
      PROVE  SameWork /\ Wiped /\ srv'.pc # "send" /\ next' = next
  <2>1. srv.pc \in DOMAIN After /\ srv.pc # "send"
    BY <1>6 DEF After
  <2> QED
    BY ZenonT(60), <1>0, <1>6, <2>1, WalkOn, ThreadsAlone DEF Skip
<1>7. CASE NoEvent
  BY <1>6, <1>7 DEF NoEvent, Scanning
<1>8. ASSUME NEW k \in 1..Len(table), NEW ret, NEW i, poll_del_connection(k, ret, i)
      PROVE  SameWork /\ Wiped /\ srv'.pc # "send"
  BY <1>0, <1>8, DeletionBegins
<1>9. CASE process_finished_connections
  <2>1. srv.i \in 1..Len(table) /\ srv.pc = "finished"
    BY <1>9, ScanIndex DEF process_finished_connections, Types
  <2> QED
    BY <1>6, <1>8, <1>9, <2>1 DEF process_finished_connections
<1>10. CASE poll_client_hangup
  <2>1. srv.i \in 1..Len(table)
    BY <1>10, ScanIndex DEF poll_client_hangup, Types
  <2> QED
    BY <1>8, <1>10, <2>1 DEF poll_client_hangup
<1>11. CASE process_unidentified_connections
  <2>1. CASE srv' = At("dirty") /\ UNCHANGED threadVars
    BY <1>0, <1>11, <2>1, ThreadsAlone DEF process_unidentified_connections, At
  <2>2. ASSUME NEW i \in srv.i .. Len(table),
               poll_del_connection(i, "unidentified", i + 1)
        PROVE  SameWork /\ Wiped /\ srv'.pc # "send" /\ next' = next
    <3>1. i \in 1..Len(table)
      BY <2>2, FirstIndex DEF Types
    <3> QED
      BY <1>8, <1>11, <2>2, <3>1 DEF process_unidentified_connections
  <2> QED
    BY ZenonT(60), <1>11, <2>1, <2>2 DEF process_unidentified_connections
<1>12. CASE poll
  BY <1>0, <1>12, ThreadsAlone DEF poll, At
<1>13. CASE PassFails
  BY <1>0, <1>13, ThreadsAlone DEF PassFails, At
<1>14. CASE handle_client
  <2>1. srv.i \in 1..Len(table) /\ srv.pc = "events" /\ srv.pc \in DOMAIN After
    BY <1>14, ScanIndex DEF handle_client, Types, After
  <2>2. CASE NextElement /\ UNCHANGED threadVars
    BY ZenonT(60), <1>0, <1>14, <2>1, <2>2, WalkOn, ThreadsAlone DEF handle_client
  <2>3. CASE poll_del_connection(srv.i, "events", srv.i + 1)
    BY <1>8, <1>14, <2>1, <2>3 DEF handle_client
  <2> QED
    BY ZenonT(60), <1>14, <2>2, <2>3 DEF handle_client
<1> QED
  BY <1>4, <1>5, <1>7, <1>9, <1>10, <1>11, <1>12, <1>13, <1>14

\* The steps of the clients, but for a connection, and of the environment.
LEMMA ClientsKeep ==
  ASSUME Types, Links, Stream, Types',
         \/ \E c \in Conns : Hangup(c)
         \/ \E c \in Conns, m \in Messages : Say(c, m)
         \/ set_quit_flag \/ UNCHANGED vars
  PROVE  Stream' /\ \A c \in Conns : Intact(c)
<1>0. GhostTypes
  BY DEF Stream
<1>1. Idle
  BY ClientsIdle
<1>2. \A c \in Conns : Untouched(c)' => Untouched(c)
  BY <1>1, IdleUntouched
<1>3. srv' = srv /\ table' = table /\ next' = next
  BY ZenonT(60) DEF Hangup, Say, set_quit_flag, vars, serverVars
<1>4. SameWork /\ Wiped
  <2>1. CASE UNCHANGED threadVars
    BY <1>0, <2>1, ThreadsAlone
  <2>2. CASE set_quit_flag
    <3>1. th' = th /\ queue' = queue /\ owed' = owed /\ quit' /\ last' = last
      BY <2>2 DEF set_quit_flag, shared, ghosts
    <3>2. SameWork
      BY ZenonT(60), <3>1 DEF SameWork
    <3> QED
      BY ZenonT(60), <1>0, <3>1, <3>2 DEF Wiped, GhostTypes
  <2> QED
    BY ZenonT(60), <2>1, <2>2 DEF Hangup, Say, vars
<1> QED
  BY ZenonT(60), <1>2, <1>3, <1>4, CalmKeeps
-----------------------------------------------------------------------------
(***************************************************************************)
(* The steps that accept, move and close connections.                      *)
(***************************************************************************)
\* Where the connections that are untouched after a step come from.
LEMMA StillUntouched ==
  ASSUME \A c \in Conns : conn'[c].st = "new" => conn[c].st = "new",
         \A p \in 1..Len(pending') : Untouched(pending'[p]),
         Admitting' => Untouched(srv'.c),
         \A i \in 1..Len(table') :
           table'[i].fd # None /\ MayTake(table[i].id)' => Untouched(table'[i].fd)
  PROVE  \A c \in Conns : Untouched(c)' => Untouched(c)
<1> SUFFICES ASSUME NEW c \in Conns, Untouched(c)' PROVE Untouched(c)
  OBVIOUS
<1>1. CASE conn'[c].st = "new"
  BY ZenonT(60), <1>1 DEF Untouched
<1>2. CASE \E p \in 1..Len(pending') : pending'[p] = c
  BY ZenonT(60), <1>2
<1>3. CASE Admitting' /\ srv'.c = c
  BY ZenonT(60), <1>3
<1>4. CASE \E i \in 1..Len(table') : table'[i].fd = c /\ MayTake(table[i].id)'
  <2>1. c # None
    BY SMTT(60) DEF Conns, None
  <2> QED
    BY ZenonT(60), <1>4, <2>1
<1> QED
  BY ZenonT(60), <1>1, <1>2, <1>3, <1>4 DEF Untouched

\* A connection that is closed is not new, and no other becomes new.
LEMMA NotNew ==
  ASSUME TableTypes, NEW fd \in Conns \cup {None},
         \/ conn' = conn
         \/ conn' = [conn EXCEPT ![fd] = NoConn("closed")]
  PROVE  \A c \in Conns : conn'[c].st = "new" => conn[c].st = "new"
<1>1. NoConn("closed").st = "closed"
  BY DEF NoConn
<1>2. \A c \in Conns : conn'[c] = conn[c] \/ conn'[c] = NoConn("closed")
  BY ZenonT(60) DEF TableTypes
<1> QED
  BY <1>1, <1>2

\* The connections in the table, when the threads and the table stay.
LEMMA TableUntouched ==
  ASSUME Types, SameThreads, table' = table
  PROVE  \A i \in 1..Len(table') :
           table'[i].fd # None /\ MayTake(table[i].id)' => Untouched(table'[i].fd)
<1> SUFFICES ASSUME NEW i \in 1..Len(table), MayTake(table[i].id)'
             PROVE  Untouched(table[i].fd)
  OBVIOUS
<1>1. table[i].id \in Conns
  BY TableElement DEF Types
<1>2. MayTake(table[i].id)
  BY ZenonT(60), <1>1 DEF SameThreads, MayTake, Alive
<1> QED
  BY ZenonT(60), <1>2 DEF Untouched

\* The connection accepted, and those that are still to be.
LEMMA AcceptUntouched ==
  ASSUME Types, Links, Accepting
  PROVE  /\ Head(pending) \in Conns /\ Untouched(Head(pending))
         /\ \A p \in 1..Len(pending') : Untouched(pending'[p])
<1>1. pending \in Seq(Conns) /\ pending # <<>> /\ pending' = Tail(pending)
  BY DEF Types, TableTypes, Places, Accepting
<1>2. /\ Len(pending) \in Nat /\ Len(pending) # 0 /\ Head(pending) = pending[1]
      /\ Len(pending') = Len(pending) - 1
      /\ \A p \in 1..Len(pending') : pending'[p] = pending[p + 1]
  BY SMTT(60), <1>1, HeadTailProperties, LenProperties, EmptySeq
<1>3. 1 \in 1..Len(pending) /\ \A p \in 1..Len(pending') : p + 1 \in 1..Len(pending)
  BY SMTT(60), <1>2
<1>4. \A p \in 1..Len(pending) : Untouched(pending[p])
  BY ZenonT(60) DEF Untouched
<1>5. Head(pending) \in Conns
  BY ZenonT(60), Accepted
<1> QED
  BY ZenonT(60), <1>2, <1>3, <1>4, <1>5

\* A connection is accepted, or turns out to be gone.
LEMMA AcceptStream ==
  ASSUME Types, Links, Stream, Types',
         AcceptAborted \/ NewClient \/ ReplaceClient \/ poll_restore_connection
  PROVE  Stream' /\ \A c \in Conns : Intact(c)
<1> DEFINE h == Head(pending)
<1>0. /\ GhostTypes /\ Accepting /\ next' = next
      /\ h \in Conns /\ Untouched(h)
      /\ \A p \in 1..Len(pending') : Untouched(pending'[p])
  BY ZenonT(60), AcceptUntouched
  DEF Stream, AcceptAborted, NewClient, ReplaceClient, poll_restore_connection
<1> HIDE DEF h
<1>1. \A c \in Conns : conn'[c].st = "new" => conn[c].st = "new"
  <2>1. conn' = conn \/ conn' = [conn EXCEPT ![h] = NoConn("closed")]
    BY ZenonT(60)
    DEF AcceptAborted, NewClient, ReplaceClient, poll_restore_connection, h
  <2> QED
    BY ZenonT(60), <1>0, <2>1, NotNew DEF Types
<1>2. CASE AcceptAborted
  <2>1. UNCHANGED threadVars /\ table' = table /\ srv'.pc = "queue"
    BY <1>2 DEF AcceptAborted, At
  <2>2. SameThreads /\ SameWork /\ Wiped
    BY <1>0, <2>1, ThreadsAlone DEF SameThreads, threadVars, shared
  <2>3. ~Admitting' /\ srv'.pc # "send"
    BY <2>1 DEF Admitting
  <2> QED
    BY ZenonT(60), <1>0, <1>1, <2>1, <2>2, <2>3, TableUntouched, StillUntouched, CalmKeeps
<1>3. CASE NewClient
  <2>1. UNCHANGED threadVars /\ table' = table /\ srv'.pc = "admit" /\ srv'.c = h
    BY <1>3 DEF NewClient, At, h
  <2>2. SameThreads /\ SameWork /\ Wiped
    BY <1>0, <2>1, ThreadsAlone DEF SameThreads, threadVars, shared
  <2>3. Untouched(srv'.c) /\ srv'.pc # "send"
    BY <1>0, <2>1
  <2> QED
    BY ZenonT(60), <1>0, <1>1, <2>1, <2>2, <2>3, TableUntouched, StillUntouched, CalmKeeps
<1>4. CASE ReplaceClient
  <2>1. PICK i \in 1..Len(table) :
          /\ pthread_cancel(table[i].id)
          /\ srv' = [At("join") EXCEPT !.k = i, !.ret = "admit", !.c = h]
    BY ZenonT(60), <1>4 DEF ReplaceClient, h
  <2>2. table' = table /\ last' = last /\ srv'.pc = "join" /\ srv'.c = h
    BY ZenonT(60), <1>4, <2>1 DEF ReplaceClient, At
  <2>3. table[i].id \in Conns
    BY TableElement DEF Types
  <2>4. SameThreads /\ SameWork
    BY <2>1, <2>3, CancelSame, CancelWork DEF Types
  <2>5. Wiped
    BY ZenonT(60), <1>0, <2>2 DEF Wiped, GhostTypes
  <2>6. Untouched(srv'.c) /\ srv'.pc # "send"
    BY <1>0, <2>2
  <2> QED
    BY ZenonT(60), <1>0, <1>1, <2>2, <2>4, <2>5, <2>6, TableUntouched, StillUntouched,
       CalmKeeps
<1>5. CASE poll_restore_connection
  <2>1. PICK i \in 1..Len(table) :
          /\ set_connection_status(table[i].id, h)
          /\ table' = [table EXCEPT ![i].fd = h]
    BY ZenonT(60), <1>5 DEF poll_restore_connection, h
  <2>2. table[i] \in Element /\ table \in Seq(Element) /\ table[i].id \in Conns
    BY TableElement DEF Types, TableTypes
  <2>3. /\ th' = th /\ queue' = queue /\ owed' = owed /\ quit' = quit /\ last' = last
        /\ srv'.pc = "events" /\ info' = [info EXCEPT ![table[i].id].status = 0,
                                                      ![table[i].id].fd = h]
    BY ZenonT(60), <1>5, <2>1
    DEF set_connection_status, ghosts, poll_restore_connection, At
  <2>4. SameWork /\ Wiped
    BY ZenonT(60), <1>0, <2>3 DEF SameWork, Wiped, GhostTypes
  <2>5. ~Admitting' /\ srv'.pc # "send"
    BY <2>3 DEF Admitting
  <2> DEFINE x == [table[i] EXCEPT !.fd = h]
  <2>6. x \in Element /\ x.fd = h
    BY ZenonT(60), <1>0, <2>2 DEF Element
  <2>7. table' = [table EXCEPT ![i] = x]
    BY ZenonT(60), <2>1, <2>2, LenProperties DEF Element
  <2> HIDE DEF x
  <2>8. /\ Len(table') = Len(table) /\ table'[i].fd = h
        /\ \A j \in 1..Len(table) : j # i => table'[j] = table[j]
    BY SMTT(60), <2>2, <2>6, <2>7, ExceptSeq
  <2>9. ASSUME NEW j \in 1..Len(table'), MayTake(table[j].id)'
        PROVE  Untouched(table'[j].fd)
    <3>1. CASE j = i
      BY <1>0, <2>8, <3>1
    <3>2. CASE j # i
      <4>1. j \in 1..Len(table) /\ table'[j] = table[j] /\ table[j].id \in Conns
        BY <2>8, <3>2, TableElement DEF Types
      <4>2. table[j].id # table[i].id
        BY <3>2, <4>1 DEF Links, Unlike
      <4>3. info'[table[j].id] = info[table[j].id]
        BY <2>2, <2>3, <4>1, <4>2 DEF Types, ThreadTypes
      <4>4. MayTake(table[j].id)
        BY ZenonT(60), <2>3, <2>9, <4>1, <4>3 DEF MayTake, Alive
      <4> QED
        BY ZenonT(60), <4>1, <4>4 DEF Untouched
    <3> QED
      BY <3>1, <3>2
  <2>10. \A c \in Conns : Untouched(c)' => Untouched(c)
    BY ZenonT(60), <1>0, <1>1, <2>5, <2>9, StillUntouched
  <2> QED
    BY ZenonT(60), <1>0, <2>4, <2>5, <2>10, CalmKeeps
<1> QED
  BY <1>2, <1>3, <1>4, <1>5

\* The connections to be accepted are untouched.
LEMMA PendingUntouched ==
  ASSUME pending' = pending
  PROVE  \A p \in 1..Len(pending') : Untouched(pending'[p])
  BY ZenonT(60) DEF Untouched

\* The connection accepted is refused or put in the table.
LEMMA AdmitStream ==
  ASSUME Types, Links, Stream, Types', Refused \/ conn_table_add_element
  PROVE  Stream' /\ \A c \in Conns : Intact(c)
<1>0. /\ GhostTypes /\ next' = next /\ pending' = pending
      /\ srv.pc = "admit" /\ srv.c \in Conns
      /\ Untouched(srv.c)
  BY ZenonT(60)
  DEF Stream, Refused, conn_table_add_element, Types, Places, Untouched, Admitting
<1>1. CASE Refused
  <2>1. /\ th' = th /\ info' = info /\ queue' = queue /\ owed' = owed /\ quit' = quit
        /\ table' = table /\ srv'.pc = "queue" /\ Close(srv.c)
    BY <1>1 DEF Refused, shared, At
  <2>2. SameThreads /\ SameWork
    BY ZenonT(60), <2>1 DEF SameThreads, SameWork
  <2>3. Wiped
    BY <1>0, <2>1, CloseWipes
  <2>4. \A c \in Conns : conn'[c].st = "new" => conn[c].st = "new"
    BY <1>0, <2>1, NotNew DEF Close, Types
  <2>5. ~Admitting' /\ srv'.pc # "send"
    BY <2>1 DEF Admitting
  <2> QED
    BY ZenonT(60), <1>0, <2>1, <2>2, <2>3, <2>4, <2>5, TableUntouched, PendingUntouched,
       StillUntouched, CalmKeeps
<1>2. CASE conn_table_add_element
  <2> DEFINE e == [id |-> srv.c, ip |-> conn[srv.c].ip, fd |-> srv.c,
                   identified |-> FALSE, revents |-> "none"]
  <2>1. /\ UNCHANGED threadVars /\ conn' = conn /\ table' = Append(table, e)
        /\ srv'.pc = "events"
    BY <1>2 DEF conn_table_add_element, At
  <2>2. SameWork /\ Wiped /\ th' = th /\ info' = info
    BY <1>0, <2>1, ThreadsAlone DEF threadVars, shared
  <2>3. ~Admitting' /\ srv'.pc # "send"
    BY <2>1 DEF Admitting
  <2>4. e \in Element /\ e.fd = srv.c /\ table \in Seq(Element)
    <3>1. conn[srv.c].ip \in Ips
      BY <1>0 DEF Types, TableTypes, Conn
    <3> QED
      BY <1>0, <3>1 DEF Element, Types, TableTypes
  <2> HIDE DEF e
  <2>5. /\ Len(table) \in Nat /\ Len(table') = Len(table) + 1
        /\ table'[Len(table) + 1] = e
        /\ \A j \in 1..Len(table) : table'[j] = table[j]
    BY SMTT(60), <2>1, <2>4, AppendProperties, LenProperties
  <2>6. ASSUME NEW j \in 1..Len(table'), MayTake(table[j].id)'
        PROVE  Untouched(table'[j].fd)
    <3>1. CASE j = Len(table) + 1
      BY <1>0, <2>4, <2>5, <3>1
    <3>2. CASE j # Len(table) + 1
      <4>1. j \in 1..Len(table) /\ table'[j] = table[j]
        BY SMTT(60), <2>5, <3>2
      <4>2. MayTake(table[j].id)
        BY ZenonT(60), <2>2, <2>6, <4>1 DEF MayTake, Alive
      <4> QED
        BY ZenonT(60), <4>1, <4>2 DEF Untouched
    <3> QED
      BY <3>1, <3>2
  <2>7. \A c \in Conns : Untouched(c)' => Untouched(c)
    BY ZenonT(60), <1>0, <2>1, <2>3, <2>6, PendingUntouched, StillUntouched
  <2> QED
    BY ZenonT(60), <1>0, <2>2, <2>3, <2>7, CalmKeeps
<1> QED
  BY <1>1, <1>2

\* A client connects.
LEMMA ConnectStream ==
  ASSUME Types, Links, Stream, Types', NEW c \in Conns, NEW ip \in Ips, Connect(c, ip)
  PROVE  Stream' /\ \A d \in Conns : Intact(d)
<1>0. /\ GhostTypes /\ next' = next /\ pending' = Append(pending, c)
      /\ UNCHANGED threadVars /\ table' = table /\ srv' = srv
      /\ conn[c].st = "new" /\ pending \in Seq(Conns)
      /\ conn' = [conn EXCEPT ![c].st = "up", ![c].ip = ip]
  BY DEF Stream, Connect, Types, TableTypes
<1>1. SameThreads /\ SameWork /\ Wiped
  BY <1>0, ThreadsAlone DEF SameThreads, threadVars, shared
<1>2. \A d \in Conns : conn'[d].st = "new" => conn[d].st = "new"
  <2>1. \A d \in Conns : d # c => conn'[d] = conn[d]
    BY <1>0 DEF Types, TableTypes
  <2> QED
    BY <1>0, <2>1
<1>3. ASSUME NEW p \in 1..Len(pending') PROVE Untouched(pending'[p])
  <2>1. /\ Len(pending) \in Nat /\ Len(pending') = Len(pending) + 1
        /\ pending'[Len(pending) + 1] = c
        /\ \A q \in 1..Len(pending) : pending'[q] = pending[q]
    BY SMTT(60), <1>0, AppendProperties, LenProperties
  <2>2. Untouched(c)
    BY ZenonT(60), <1>0 DEF Untouched
  <2>3. \A q \in 1..Len(pending) : Untouched(pending[q])
    BY ZenonT(60) DEF Untouched
  <2>4. p = Len(pending) + 1 \/ p \in 1..Len(pending)
    BY SMTT(60), <2>1
  <2> QED
    BY ZenonT(60), <2>1, <2>2, <2>3, <2>4
<1>4. Admitting' => Untouched(srv'.c)
  BY ZenonT(60), <1>0 DEF Admitting, Untouched
<1>5. \A d \in Conns : Untouched(d)' => Untouched(d)
  BY ZenonT(60), <1>0, <1>1, <1>2, <1>3, <1>4, TableUntouched, StillUntouched
<1> QED
  BY ZenonT(60), <1>0, <1>1, <1>5, CalmKeeps

\* The connection of a client whose thread could not write is closed.
LEMMA DirtyStream ==
  ASSUME Types, Links, Stream, Types', process_dirty_connections
  PROVE  Stream' /\ \A c \in Conns : Intact(c)
<1>0. /\ GhostTypes /\ srv.i \in 1..Len(table) /\ srv.pc = "dirty"
      /\ srv.pc \in DOMAIN After
  BY ScanIndex DEF Stream, process_dirty_connections, Types, After
<1>1. CASE Skip
  <2>1. /\ UNCHANGED threadVars /\ conn' = conn /\ pending' = pending
        /\ table' = table /\ next' = next
    BY <1>1 DEF Skip
  <2>2. SameThreads /\ SameWork /\ Wiped
    BY <1>0, <2>1, ThreadsAlone DEF SameThreads, threadVars, shared
  <2>3. srv'.pc \in {"finished", "dirty", "events", "send",
                     "unidentified", "spawn", "queue", "loop"}
    BY <1>0, <1>1, NextMoves DEF Skip, Types
  <2>4. srv'.pc # "send" /\ ~Admitting'
    BY <1>0, <1>1, <2>3, WalkOn DEF Skip, Admitting
  <2> QED
    BY ZenonT(60), <2>1, <2>2, <2>4, TableUntouched, PendingUntouched, StillUntouched,
       CalmKeeps
<1>2. CASE /\ Close(This.fd)
           /\ table' = [table EXCEPT ![srv.i].fd = None]
           /\ NextElement
           /\ UNCHANGED <<th, shared, quit, owed, pending, next>>
  <2>1. /\ th' = th /\ info' = info /\ queue' = queue /\ owed' = owed /\ quit' = quit
        /\ pending' = pending /\ next' = next
    BY <1>2 DEF shared
  <2>2. This = table[srv.i] /\ table[srv.i] \in Element /\ This.fd \in Conns \cup {None}
        /\ table \in Seq(Element)
    BY <1>0, TableElement DEF Types, This, TableTypes
  <2>3. SameWork
    BY ZenonT(60), <2>1 DEF SameWork
  <2>4. Wiped
    BY <1>0, <1>2, <2>2, CloseWipes
  <2>5. \A c \in Conns : conn'[c].st = "new" => conn[c].st = "new"
    BY <1>2, <2>2, NotNew DEF Close, Types
  <2>6. srv'.pc \in {"finished", "dirty", "events", "send",
                     "unidentified", "spawn", "queue", "loop"}
    BY <1>0, <1>2, NextMoves DEF Types
  <2>7. srv'.pc # "send" /\ ~Admitting'
    BY <1>0, <1>2, <2>6, WalkOn DEF Admitting
  <2> DEFINE x == [table[srv.i] EXCEPT !.fd = None]
  <2>8. x \in Element /\ x.fd = None
    BY ZenonT(60), <2>2 DEF Element
  <2>9. table' = [table EXCEPT ![srv.i] = x]
    BY ZenonT(60), <1>0, <1>2, <2>2, LenProperties DEF Element
  <2> HIDE DEF x
  <2>10. /\ Len(table') = Len(table) /\ table'[srv.i].fd = None
         /\ \A j \in 1..Len(table) : j # srv.i => table'[j] = table[j]
    BY SMTT(60), <1>0, <2>2, <2>8, <2>9, ExceptSeq
  <2>11. ASSUME NEW j \in 1..Len(table'), table'[j].fd # None, MayTake(table[j].id)'
         PROVE  Untouched(table'[j].fd)
    <3>1. j \in 1..Len(table) /\ table'[j] = table[j]
      BY <2>10, <2>11
    <3>2. MayTake(table[j].id)
      BY ZenonT(60), <2>1, <2>11, <3>1 DEF MayTake, Alive
    <3> QED
      BY ZenonT(60), <3>1, <3>2 DEF Untouched
  <2>12. \A c \in Conns : Untouched(c)' => Untouched(c)
    BY ZenonT(60), <2>1, <2>5, <2>7, <2>11, PendingUntouched, StillUntouched
  <2> QED
    BY ZenonT(60), <2>1, <2>3, <2>4, <2>7, <2>12, CalmKeeps
<1> QED
  BY <1>1, <1>2 DEF process_dirty_connections

\* The end of the server thread closes the connections; the last step of it
\* frees the table.
LEMMA CloseStream ==
  ASSUME Types, Links, Stream, Types', conn_table_destroy \/ close_server
  PROVE  Stream' /\ \A c \in Conns : Intact(c)
<1>0. GhostTypes /\ next' = next /\ pending' = pending
  BY ZenonT(60) DEF Stream, conn_table_destroy, close_server
<1>1. CASE conn_table_destroy
  <2>1. srv.i \in 1..Len(table) /\ srv \in Srv
    BY <1>1, ScanIndex DEF conn_table_destroy, Types, TableTypes
  <2>2. This = table[srv.i] /\ This.id \in Conns /\ This.fd \in Conns \cup {None}
    BY <2>1, TableElement DEF Types, This
  <2>3. table' = table /\ srv'.pc = "destroy_join"
    BY <1>1, <2>1 DEF conn_table_destroy, Srv
  <2>4. SameThreads /\ SameWork
    BY <1>1, <2>2, CancelSame, CancelWork DEF conn_table_destroy, Types
  <2>5. Wiped
    BY <1>0, <1>1, <2>2, CloseWipes DEF conn_table_destroy
  <2>6. \A c \in Conns : conn'[c].st = "new" => conn[c].st = "new"
    BY <1>1, <2>2, NotNew DEF Close, Types, conn_table_destroy
  <2>7. srv'.pc # "send" /\ ~Admitting'
    BY <2>3 DEF Admitting
  <2> QED
    BY ZenonT(60), <1>0, <2>3, <2>4, <2>5, <2>6, <2>7, TableUntouched, PendingUntouched,
       StillUntouched, CalmKeeps
<1>2. CASE close_server
  <2>1. UNCHANGED threadVars /\ table' = <<>> /\ conn' = conn /\ srv'.pc = "done"
    BY <1>2 DEF close_server, At
  <2>2. SameWork /\ Wiped
    BY <1>0, <2>1, ThreadsAlone
  <2>3. srv'.pc # "send" /\ ~Admitting' /\ \A i \in 1..Len(table') : FALSE
    BY SMTT(60), <2>1 DEF Admitting
  <2>4. \A c \in Conns : Untouched(c)' => Untouched(c)
    BY ZenonT(60), <1>0, <2>1, <2>3, PendingUntouched, StillUntouched
  <2> QED
    BY ZenonT(60), <1>0, <2>2, <2>3, <2>4, CalmKeeps
<1> QED
  BY <1>1, <1>2
-----------------------------------------------------------------------------
(***************************************************************************)
(* A queue is freed; a thread starts; a product is distributed.            *)
(***************************************************************************)
\* The queue of a thread that has ended is freed.
LEMMA FreedLeft ==
  ASSUME ThreadTypes, GhostTypes, NEW t \in Conns, Freed(t), ~Alive(t)
  PROVE  WorkLeft /\ th' = th /\ \A u \in Conns : u # t => info'[u] = info[u]
<1>1. /\ th' = th /\ quit' = quit
      /\ queue' = [queue EXCEPT ![t] = <<>>] /\ owed' = [owed EXCEPT ![t] = <<>>]
      /\ info' = [info EXCEPT ![t] = NoInfo]
  BY DEF Freed
<1>2. /\ queue \in [Conns -> Seq(Products)] /\ owed \in [Conns -> Seq(Products)]
      /\ info \in [Conns -> ThreadInfo] /\ <<>> \in Seq(Products)
  BY EmptySeq DEF ThreadTypes, GhostTypes
<1>3. /\ owed' \in [Conns -> Seq(Products)]
      /\ \A u \in Conns : \/ queue'[u] = queue[u] /\ owed'[u] = owed[u]
                          \/ u = t /\ queue'[u] = <<>> /\ owed'[u] = <<>>
  BY ZenonT(60), <1>1, <1>2
<1>4. WorkLeft
  BY ZenonT(60), <1>1, <1>3 DEF WorkLeft
<1> QED
  BY ZenonT(60), <1>1, <1>2, <1>4

\* An element is deleted once its thread has ended.
LEMMA DeleteStream ==
  ASSUME Types, Links, Stream, Types', conn_table_del_element
  PROVE  Stream' /\ \A c \in Conns : Intact(c)
<1> DEFINE k == srv.k
           t == table[k].id
<1>0. /\ GhostTypes /\ ThreadTypes /\ TableTypes /\ next' = next /\ pending' = pending
      /\ srv.pc = "join" /\ k \in 1..Len(table) /\ srv.ret \in Deleting
      /\ ~Alive(t) /\ Freed(t) /\ Close(table[k].fd)
      /\ table' = RemoveAt(table, k)
      /\ srv' = [srv EXCEPT !.pc = srv.ret, !.k = 0, !.ret = "loop"]
  BY DEF Stream, Types, Places, conn_table_del_element
<1> HIDE DEF k
<1>1. /\ t \in Conns /\ table[k].fd \in Conns \cup {None}
      /\ table \in Seq(Element) /\ srv \in Srv
  BY <1>0, TableElement DEF Types, TableTypes
<1>2. /\ srv'.pc = srv.ret /\ srv'.c = srv.c /\ srv.ret # "send" /\ srv.ret # "join"
  BY <1>0, <1>1 DEF Srv, Deleting
<1>3. WorkLeft /\ th' = th /\ \A u \in Conns : u # t => info'[u] = info[u]
  BY ZenonT(60), <1>0, <1>1, FreedLeft
<1>4. Wiped
  BY ZenonT(60), <1>0, <1>1, CloseWipes
<1>5. \A c \in Conns : conn'[c].st = "new" => conn[c].st = "new"
  BY <1>0, <1>1, NotNew DEF Close
<1>6. Admitting' => Untouched(srv'.c)
  BY ZenonT(60), <1>0, <1>2 DEF Admitting, Untouched
<1>7. ASSUME NEW j \in 1..Len(table'), MayTake(table[j].id)'
      PROVE  Untouched(table'[j].fd)
  <2>1. PICK m \in 1..Len(table) : m # k /\ table'[j] = table[m]
    <3>1. /\ Len(table') = Len(table) - 1 /\ Len(table) \in Nat /\ k \in Nat
          /\ \A l \in 1..Len(table') :
               table'[l] = IF l < k THEN table[l] ELSE table[l + 1]
      BY SMTT(60), <1>0, <1>1, Removed, LenProperties
    <3>2. CASE j < k
      BY SMTT(60), <3>1, <3>2
    <3>3. CASE ~(j < k)
      <4>1. j + 1 \in 1..Len(table) /\ j + 1 # k /\ table'[j] = table[j + 1]
        BY SMTT(60), <3>1, <3>3
      <4> QED
        BY <4>1
    <3> QED
      BY <3>2, <3>3
  <2>2. table[m].id \in Conns /\ table[m].id # t
    BY <1>0, <2>1, TableElement DEF Links, Unlike
  <2>3. MayTake(table[m].id)
    BY ZenonT(60), <1>3, <1>7, <2>1, <2>2 DEF MayTake, Alive
  <2> QED
    BY ZenonT(60), <2>1, <2>3 DEF Untouched
<1>8. \A c \in Conns : Untouched(c)' => Untouched(c)
  BY ZenonT(60), <1>0, <1>5, <1>6, <1>7, PendingUntouched, StillUntouched
<1> QED
  BY ZenonT(60), <1>0, <1>2, <1>3, <1>4, <1>8, LeftKeeps

\* The same at the end of the server thread.
LEMMA DestroyedStream ==
  ASSUME Types, Links, Stream, Types', Destroyed
  PROVE  Stream' /\ \A c \in Conns : Intact(c)
<1> DEFINE t == This.id
<1>0. /\ GhostTypes /\ ThreadTypes /\ TableTypes /\ next' = next /\ pending' = pending
      /\ srv.pc = "destroy_join" /\ srv.i \in 1..Len(table) /\ srv \in Srv
      /\ ~Alive(t) /\ Freed(t) /\ last' = last /\ conn' = conn /\ table' = table
      /\ srv' = [srv EXCEPT !.pc = "destroy", !.i = @ + 1]
  BY SMTT(60), SrvFields, LenProperties DEF Stream, Types, TableTypes, Places, Destroyed
<1>1. t \in Conns
  BY <1>0, TableElement DEF This
<1>2. srv'.pc = "destroy"
  BY <1>0 DEF Srv
<1>3. ~Admitting' /\ srv'.pc # "send"
  BY <1>2 DEF Admitting
<1>4. WorkLeft /\ th' = th /\ \A u \in Conns : u # t => info'[u] = info[u]
  BY ZenonT(60), <1>0, <1>1, FreedLeft
<1>5. Wiped
  BY ZenonT(60), <1>0 DEF Wiped, GhostTypes
<1> HIDE DEF t
<1>6. ASSUME NEW j \in 1..Len(table'), MayTake(table[j].id)'
      PROVE  Untouched(table'[j].fd)
  <2>1. j \in 1..Len(table) /\ table'[j] = table[j] /\ table[j].id \in Conns
    BY <1>0, TableElement
  <2>2. MayTake(table[j].id)
    BY ZenonT(60), <1>0, <1>4, <1>6, <2>1 DEF MayTake, Alive
  <2> QED
    BY ZenonT(60), <2>1, <2>2 DEF Untouched
<1>7. \A c \in Conns : Untouched(c)' => Untouched(c)
  BY ZenonT(60), <1>0, <1>3, <1>6, PendingUntouched, StillUntouched
<1> QED
  BY ZenonT(60), <1>0, <1>3, <1>4, <1>5, <1>7, LeftKeeps

\* A step at which the threads but t keep what they have, and what is on the
\* connections stays.
LEMMA OthersKeep ==
  ASSUME NEW t \in Conns, last' = last, quit' = quit,
         \A u \in Conns : u # t =>
           th'[u] = th[u] /\ queue'[u] = queue[u] /\ owed'[u] = owed[u]
  PROVE  \A u \in Conns : u # t =>
           /\ Alive(u)' <=> Alive(u)
           /\ Holds(u) => Holds(u)'
           /\ Owes(u) => Owes(u)'
           /\ Flow(u) => Flow(u)'
           /\ \A b : Below(u, b) => Below(u, b)'
<1> SUFFICES ASSUME NEW u \in Conns, u # t
             PROVE  /\ Alive(u)' <=> Alive(u)
                    /\ Holds(u) => Holds(u)'
                    /\ Owes(u) => Owes(u)'
                    /\ Flow(u) => Flow(u)'
                    /\ \A b : Below(u, b) => Below(u, b)'
  OBVIOUS
<1>1. th'[u] = th[u] /\ queue'[u] = queue[u] /\ owed'[u] = owed[u]
  OBVIOUS
<1>2. Alive(u)' <=> Alive(u)
  BY ZenonT(60), <1>1 DEF Alive
<1>3. (Holds(u) => Holds(u)') /\ (Owes(u) => Owes(u)')
  BY ZenonT(60), <1>1, <1>2 DEF Holds, Owes
<1>4. (Flow(u) => Flow(u)') /\ \A b : Below(u, b) => Below(u, b)'
  BY ZenonT(60), <1>1 DEF Flow, Below
<1> QED
  BY ZenonT(60), <1>2, <1>3, <1>4

\* A thread starts on a connection with nothing on it, and with an empty queue.
LEMMA SpawnStream ==
  ASSUME Types, Links, Stream, Types', spawn_client_threads
  PROVE  Stream' /\ \A c \in Conns : Intact(c)
<1>0. /\ GhostTypes /\ ThreadTypes /\ TableTypes /\ Places
      /\ conn' = conn /\ pending' = pending /\ table' = table
      /\ next' = next /\ srv.pc = "spawn" /\ srv \in Srv
  BY DEF Stream, Types, TableTypes, spawn_client_threads
<1>1. ASSUME NEW n \in First(srv.i, NeedsThread),
             poll_del_connection(n, "spawn", n + 1)
      PROVE  Stream' /\ \A c \in Conns : Intact(c)
  <2>1. n \in srv.i .. Len(table)
    BY DEF First
  <2>2. n \in 1..Len(table)
    BY <1>0, <2>1, FirstIndex
  <2>3. SameWork /\ Wiped /\ srv'.pc # "send"
    BY <1>0, <1>1, <2>2, DeletionBegins
  <2>4. \A c \in Conns : Untouched(c)' => Untouched(c)
    BY <1>1, SpawnFailsIdle, IdleUntouched
  <2> QED
    BY ZenonT(60), <1>0, <2>3, <2>4, CalmKeeps
<1>2. ASSUME NEW n \in First(srv.i, NeedsThread),
             client_thread_create(table[n].id, table[n].fd),
             srv' = [srv EXCEPT !.i = n + 1]
      PROVE  Stream' /\ \A c \in Conns : Intact(c)
  <2>1. n \in srv.i .. Len(table) /\ th[table[n].id].st = "none"
    BY DEF First, NeedsThread, f_thread_created
  <2>2. n \in 1..Len(table)
    BY <1>0, <2>1, FirstIndex
  <2>0. PICK t \in Conns, f \in Conns \cup {None} : t = table[n].id /\ f = table[n].fd
    BY ZenonT(60), <1>0, <2>2, TableElement
  <2> DEFINE x == [NoThread EXCEPT !.st = "top", !.fd = f]
  <2>3. th[t].st = "none"
    BY <2>0, <2>1
  <2>4. x.st = "top" /\ x.fd = f /\ x.data = None /\ ~x.f_exit
    BY DEF NoThread
  <2>5. /\ th' = [th EXCEPT ![t] = x]
        /\ info' = [info EXCEPT ![t] = [NoInfo EXCEPT !.fd = f]]
        /\ queue' = queue /\ owed' = owed /\ quit' = quit /\ last' = last
    BY <1>2, <2>0 DEF client_thread_create, ghosts
  <2>6. srv'.pc = "spawn"
    BY <1>0, <1>2 DEF Srv
  <2> HIDE DEF x
  <2>7. /\ th'[t] = x
        /\ \A u \in Conns : u # t => th'[u] = th[u] /\ info'[u] = info[u]
    BY <1>0, <2>5 DEF ThreadTypes
  <2>8. \A u \in Conns : u # t =>
          /\ Alive(u)' <=> Alive(u)
          /\ Holds(u) => Holds(u)' /\ (Owes(u) => Owes(u)')
          /\ Flow(u) => Flow(u)' /\ (\A b : Below(u, b) => Below(u, b)')
    BY ZenonT(60), <2>5, <2>7, OthersKeep
  <2>9. queue[t] = <<>> /\ owed[t] = <<>>
    BY ZenonT(60), <2>3 DEF Stream, Holds
  <2>10. f # None => last[f] = Nothing
    <3>1. MayTake(t)
      BY <2>3 DEF MayTake
    <3> QED
      BY ZenonT(60), <2>0, <2>2, <3>1 DEF Stream, Unwritten, Untouched
  <2>11. Holds(t)' /\ Owes(t)'
    <3>1. <<>> \o <<>> = <<>>
      BY SMTT(60)
    <3>2. Holds(t)'
      BY ZenonT(60), <2>4, <2>7 DEF Holds
    <3>3. Owes(t)'
      BY ZenonT(60), <2>4, <2>5, <2>7, <2>9, <3>1 DEF Owes
    <3> QED
      BY <3>2, <3>3
  <2>12. Flow(t)' /\ Below(t, next)'
    <3>1. /\ Nothing.data = 0 /\ Nothing.whole /\ None = 0
      BY ZenonT(60), <1>0, Numbers
    <3>2. 0 < next /\ \A i \in 1..Len(<<>>) : FALSE
      BY SMTT(60), <1>0, ThreadsAssumption DEF TableTypes
    <3>3. Flow(t)'
      BY ZenonT(60), <2>4, <2>5, <2>7, <2>9, <2>10, <3>1, <3>2 DEF Flow
    <3>4. Below(t, next)'
      BY ZenonT(60), <1>0, <2>4, <2>5, <2>7, <2>9, <2>10, <3>1, <3>2 DEF Below
    <3> QED
      BY <3>3, <3>4
  <2>13. Lines'
    BY ZenonT(60), <1>0, <2>8, <2>12 DEF Stream, Lines
  <2>14. GhostTypes' /\ \A u \in Conns : Holds(u)' /\ Owes(u)'
    BY ZenonT(60), <1>0, <2>5, <2>8, <2>11 DEF Stream, GhostTypes
  <2>15. ~Admitting' /\ Sending'
    BY <2>6 DEF Admitting, Sending
  <2>16. ASSUME NEW j \in 1..Len(table'), table'[j].fd # None, MayTake(table[j].id)'
         PROVE  Untouched(table'[j].fd)
    <3>1. j \in 1..Len(table) /\ table'[j] = table[j] /\ table[j].id \in Conns
      BY <1>0, TableElement
    <3>2. table[j].id # t
      <4>1. SUFFICES ASSUME table[j].id = t PROVE FALSE
        OBVIOUS
      <4>2. j = n
        BY ZenonT(60), <2>0, <2>2, <3>1, <4>1 DEF Links, Unlike
      <4> QED
        BY ZenonT(60), <2>0, <2>4, <2>7, <2>16, <3>1, <4>1, <4>2 DEF MayTake
    <3>3. MayTake(table[j].id)
      BY ZenonT(60), <2>7, <2>16, <3>1, <3>2 DEF MayTake, Alive
    <3> QED
      BY ZenonT(60), <3>1, <3>3 DEF Untouched
  <2>17. Unwritten'
    <3>1. \A c \in Conns : Untouched(c)' => Untouched(c)
      BY ZenonT(60), <1>0, <2>15, <2>16, PendingUntouched, StillUntouched
    <3> QED
      BY ZenonT(60), <2>5, <3>1 DEF Stream, Unwritten
  <2>18. \A c \in Conns : Intact(c)
    BY <2>5 DEF Intact
  <2> QED
    BY <2>13, <2>14, <2>15, <2>17, <2>18 DEF Stream
<1> QED
  BY <1>1, <1>2 DEF spawn_client_threads

\* The next product is later than all that the threads have.
LEMMA QueueStream ==
  ASSUME Types, Links, Stream, Types', process_server_queue
  PROVE  Stream' /\ \A c \in Conns : Intact(c)
<1>0. /\ ThreadTypes /\ GhostTypes /\ UNCHANGED threadVars /\ next' = next + 1
      /\ table' = table /\ srv' = [At("send") EXCEPT !.data = next] /\ next \in Nat \ {0}
  BY SMTT(60), ThreadsAssumption DEF Types, TableTypes, Stream, process_server_queue
<1>1. SameWork /\ Wiped /\ th' = th /\ queue' = queue /\ last' = last /\ owed' = owed
      /\ quit' = quit
  BY <1>0, ThreadsAlone DEF threadVars, shared, ghosts
<1>2. srv'.data = next /\ srv'.i = 1
  BY <1>0 DEF At
<1>3. Unwritten'
  <2>1. \A c \in Conns : Untouched(c)' => Untouched(c)
    BY ScansIdle, IdleUntouched
  <2> QED
    BY ZenonT(60), <1>1, <2>1 DEF Stream, Unwritten
<1>4. GhostTypes' /\ \A t \in Conns : Holds(t)' /\ Owes(t)'
  BY ZenonT(60), <1>1 DEF Stream, GhostTypes, Holds, Owes, Alive
<1>5. ASSUME NEW t \in Conns, Alive(t)'
      PROVE  Flow(t)' /\ Below(t, next)' /\ Below(t, next)
  <2>1. Flow(t) /\ Below(t, next)
    BY ZenonT(60), <1>1, <1>5 DEF Stream, Lines, Alive
  <2>2. Flow(t)'
    BY ZenonT(60), <1>1, <2>1 DEF Flow
  <2>3. Below(t, next + 1)
    <3>1. /\ th[t].data \in Nat /\ th[t].fd \in Conns \cup {None}
          /\ \A i \in 1..Len(queue[t]) : queue[t][i] \in Nat
          /\ \A c \in Conns : last[c].data \in Nat
      BY <1>0, Numbers
    <3> QED
      BY SMTT(60), <1>0, <2>1, <3>1 DEF Below
  <2> QED
    BY ZenonT(60), <1>0, <1>1, <2>1, <2>2, <2>3 DEF Below
<1>6. Lines'
  BY ZenonT(60), <1>0, <1>5 DEF Lines
<1>7. Sending'
  <2>1. next < next + 1
    BY SMTT(60), <1>0
  <2>2. ASSUME NEW j \in 1 .. Len(table), Alive(table[j].id)'
        PROVE  Below(table[j].id, srv.data)'
    <3>1. table[j].id \in Conns
      BY TableElement DEF Types
    <3> QED
      BY ZenonT(60), <1>0, <1>1, <1>2, <1>5, <2>2, <3>1 DEF Below, Alive
  <2> QED
    BY ZenonT(60), <1>0, <1>2, <2>1, <2>2 DEF Sending
<1>8. \A c \in Conns : Intact(c)
  BY <1>1 DEF Intact
<1> QED
  BY <1>3, <1>4, <1>6, <1>7, <1>8 DEF Stream

\* What a queue is with a product at its end.
LEMMA AppendEnds ==
  ASSUME NEW s \in Seq(Products), NEW p \in Products
  PROVE  /\ Append(s, p) \in Seq(Products) /\ Len(Append(s, p)) = Len(s) + 1
         /\ \A i \in 1 .. Len(s) + 1 :
              \/ i \in 1..Len(s) /\ Append(s, p)[i] = s[i]
              \/ i = Len(s) + 1 /\ Append(s, p)[i] = p
         /\ <<>> \o Append(s, p) = Append(<<>> \o s, p)
         /\ \A d \in Products : <<d>> \o Append(s, p) = Append(<<d>> \o s, p)
  BY SMTT(60)

\* A thread that has nothing from product p on may get p.
LEMMA FlowAppended ==
  ASSUME ThreadTypes, GhostTypes, NEW t \in Conns, NEW p \in Products,
         Flow(t), Below(t, p), NEW b \in Nat, p < b,
         th' = th, last' = last, queue'[t] = Append(queue[t], p)
  PROVE  Flow(t)' /\ Below(t, b)'
<1> DEFINE q == queue[t]
           r == Append(q, p)
           d == th[t].data
           f == th[t].fd
<1>1. /\ d \in Nat /\ f \in Conns \cup {None} /\ q \in Seq(Products)
      /\ Len(q) \in Nat /\ Products \subseteq Nat \ {0}
      /\ \A i \in 1..Len(q) : q[i] \in Nat
      /\ \A c \in Conns : last[c].data \in Nat
  BY Numbers
<1>2. /\ Len(r) = Len(q) + 1
      /\ \A i \in 1..Len(r) : \/ i \in 1..Len(q) /\ r[i] = q[i]
                              \/ i = Len(q) + 1 /\ r[i] = p
  BY <1>1, AppendEnds
<1>3. /\ \A i, j \in 1..Len(q) : i < j => q[i] < q[j]
      /\ \A i \in 1..Len(q) : d < q[i] /\ q[i] < p
      /\ d < p
  BY DEF Flow, Below
<1>4. f # None =>
        /\ last[f].data < p /\ \A i \in 1..Len(q) : last[f].data < q[i]
        /\ last[f].data \in Nat
  BY <1>1 DEF Flow, Below
<1>5. f # None => last[f].whole /\ (th[t].st = "send" => last[f].data < d)
  BY ZenonT(60) DEF Flow
<1> HIDE DEF q, r, d, f
<1>6. p \in Nat /\ b \in Nat
  BY <1>1
<1>7. /\ \A i, j \in 1..Len(r) : i < j => r[i] < r[j]
      /\ \A i \in 1..Len(r) : d < r[i] /\ r[i] < b
      /\ d < b
  <2>1. d < b /\ \A i \in 1..Len(q) : q[i] < b
    BY SMTT(60), <1>1, <1>3, <1>6
  <2>2. \A i \in 1..Len(r) : d < r[i] /\ r[i] < b
    BY <1>2, <1>3, <2>1
  <2>3. ASSUME NEW i \in 1..Len(r), NEW j \in 1..Len(r), i < j
        PROVE  r[i] < r[j]
    <3>1. i \in 1..Len(q) /\ r[i] = q[i]
      BY SMTT(60), <1>1, <1>2, <2>3
    <3> QED
      BY <1>2, <1>3, <2>3, <3>1
  <2> QED
    BY <2>1, <2>2, <2>3
<1>8. f # None => last[f].data < b /\ \A i \in 1..Len(r) : last[f].data < r[i]
  <2>1. f # None => last[f].data < b
    BY SMTT(60), <1>4, <1>6
  <2> QED
    BY ZenonT(60), <1>2, <1>4, <2>1
<1>9. queue'[t] = r
  BY DEF r, q
<1>10. Flow(t)'
  BY ZenonT(60), <1>5, <1>7, <1>8, <1>9 DEF Flow, d, f
<1>11. Below(t, b)'
  BY ZenonT(60), <1>7, <1>8, <1>9 DEF Below, d, f
<1> QED
  BY <1>10, <1>11

\* What a thread is owed with the product.
LEMMA OwesAppended ==
  ASSUME ThreadTypes, GhostTypes, NEW t \in Conns, NEW p \in Products, Owes(t),
         th' = th, quit' = quit, queue'[t] = Append(queue[t], p),
         owed'[t] = Append(owed[t], p)
  PROVE  Owes(t)'
<1>1. /\ th[t].data \in Products \cup {None} /\ queue[t] \in Seq(Products)
  BY Numbers
<1>2. CASE th[t].data = None
  <2>1. <<>> \o Append(queue[t], p) = Append(<<>> \o queue[t], p)
    BY ZenonT(60), <1>1, AppendEnds
  <2> QED
    BY ZenonT(60), <1>2, <2>1 DEF Owes, Alive
<1>3. CASE th[t].data # None
  <2>1. <<th[t].data>> \o Append(queue[t], p) = Append(<<th[t].data>> \o queue[t], p)
    BY <1>1, <1>3, AppendEnds
  <2> QED
    BY ZenonT(60), <1>3, <2>1 DEF Owes, Alive
<1> QED
  BY <1>2, <1>3

\* The product is put in the queue of a thread, or passed over.
LEMMA SendStream ==
  ASSUME Types, Links, Stream, Types', server_send_client_queues
  PROVE  Stream' /\ \A c \in Conns : Intact(c)
<1>0. /\ ThreadTypes /\ GhostTypes /\ table' = table /\ next' = next /\ srv \in Srv
      /\ srv.pc = "send" /\ srv.i \in 1..Len(table) /\ NextElement
      /\ srv.data \in Products /\ srv.data < next /\ next \in Nat
      /\ th' = th /\ quit' = quit /\ last' = last /\ last \in [Conns -> Piece]
  <2>1. /\ ThreadTypes /\ GhostTypes /\ TableTypes /\ Places
        /\ srv.pc = "send" /\ srv.i <= Len(table)
    BY ZenonT(60) DEF Stream, Types, server_send_client_queues, Scanning
  <2>2. /\ table' = table /\ next' = next /\ NextElement
        /\ th' = th /\ quit' = quit /\ last' = last
    BY ZenonT(60)
    DEF server_send_client_queues, Skip, threadVars, ghosts, connqueue_snd
  <2>3. srv \in Srv /\ srv.i \in 1..Len(table) /\ next \in Nat
    BY SMTT(60), <2>1, ScanIndex, ThreadsAssumption DEF TableTypes, server_send_client_queues, Types
  <2>4. srv.data \in Products /\ srv.data < next
    BY ZenonT(60), <2>1 DEF Stream, Sending, Places
  <2> QED
    BY ZenonT(60), <2>1, <2>2, <2>3, <2>4 DEF GhostTypes
<1>1. Unwritten'
  <2>1. \A c \in Conns : Untouched(c)' => Untouched(c)
    BY SendIdle, IdleUntouched
  <2> QED
    BY ZenonT(60), <1>0, <2>1 DEF Stream, Unwritten
<1>2. \A c \in Conns : Intact(c)
  BY <1>0 DEF Intact
<1>3. \/ srv'.pc = "loop"
      \/ srv'.pc = "send" /\ srv'.data = srv.data /\ srv'.i = srv.i + 1
  <2>1. CASE srv.i < Len(table)
    BY <1>0, <2>1 DEF NextElement, Srv
  <2>2. CASE ~(srv.i < Len(table))
    <3>1. srv' = At("loop")
      BY SMTT(60), <1>0, <2>2 DEF NextElement, After
    <3> QED
      BY <3>1 DEF At
  <2> QED
    BY <2>1, <2>2
<1>4. PICK t \in Conns : t = This.id
  BY <1>0, TableElement DEF This, Types
<1>5. ASSUME \A u \in Conns : u # t => queue'[u] = queue[u] /\ owed'[u] = owed[u],
             owed' \in [Conns -> Seq(Products)], Holds(t)', Owes(t)',
             Alive(t) => Flow(t)' /\ Below(t, next)'
      PROVE  Stream'
  <2>1. \A u \in Conns : u # t =>
          /\ Alive(u)' <=> Alive(u)
          /\ Holds(u) => Holds(u)' /\ (Owes(u) => Owes(u)')
          /\ Flow(u) => Flow(u)' /\ (\A b : Below(u, b) => Below(u, b)')
    BY ZenonT(60), <1>0, <1>5, OthersKeep
  <2>2. Alive(t)' <=> Alive(t)
    BY <1>0 DEF Alive
  <2>3. GhostTypes' /\ \A u \in Conns : Holds(u)' /\ Owes(u)'
    BY ZenonT(60), <1>0, <1>5, <2>1 DEF Stream, GhostTypes
  <2>4. Lines'
    BY ZenonT(60), <1>0, <1>5, <2>1, <2>2 DEF Stream, Lines
  <2>5. ASSUME NEW j \in srv.i + 1 .. Len(table), Alive(table[j].id)'
        PROVE  Below(table[j].id, srv.data)'
               \/ srv'.pc # "send"
    <3>1. j \in srv.i .. Len(table) /\ j \in 1..Len(table) /\ j # srv.i
      BY SMTT(60), <1>0
    <3>2. PICK u \in Conns : u = table[j].id
      BY <3>1, TableElement DEF Types
    <3>3. u # t
      BY <1>0, <1>4, <3>1, <3>2 DEF Links, Unlike, This
    <3>4. Alive(u)
      BY ZenonT(60), <1>0, <2>1, <2>5, <3>2, <3>3
    <3>5. Below(u, srv.data)
      BY ZenonT(60), <1>0, <3>1, <3>2, <3>4 DEF Stream, Sending
    <3>6. PICK b \in Products : b = srv.data
      BY <1>0
    <3>7. Below(u, b)
      BY ZenonT(60), <3>5, <3>6 DEF Below
    <3>8. Below(u, b)'
      BY ZenonT(60), <1>0, <1>5, <3>3, <3>7 DEF Below
    <3> QED
      BY ZenonT(60), <1>0, <1>3, <3>2, <3>6, <3>8 DEF Below
  <2>6. Sending'
    BY ZenonT(60), <1>0, <1>3, <2>5 DEF Sending
  <2> QED
    BY <1>1, <2>3, <2>4, <2>6 DEF Stream
<1>6. CASE queue' = queue /\ owed' = owed
  <2>1. Holds(t)' /\ Owes(t)' /\ (Alive(t) => Flow(t)' /\ Below(t, next)')
    BY ZenonT(60), <1>0, <1>6 DEF Stream, Holds, Owes, Alive, Lines, Flow, Below
  <2>2. owed' \in [Conns -> Seq(Products)]
    BY <1>0, <1>6 DEF GhostTypes
  <2> QED
    BY ZenonT(60), <1>2, <1>5, <1>6, <2>1, <2>2
<1>7. CASE /\ isnetclient_running(This)
           /\ queue' = [queue EXCEPT ![This.id] = Append(@, srv.data)]
           /\ owed' = [owed EXCEPT ![This.id] = Append(@, srv.data)]
  <2> DEFINE p == srv.data
  <2>1. th[t].st # "none"
    BY ZenonT(60), <1>4, <1>7 DEF isnetclient_running, f_thread_created
  <2>2. /\ queue \in [Conns -> Seq(Products)] /\ owed \in [Conns -> Seq(Products)]
        /\ owed[t] \in Seq(Products)
    BY <1>0 DEF ThreadTypes, GhostTypes
  <2>3. /\ queue'[t] = Append(queue[t], p) /\ owed'[t] = Append(owed[t], p)
        /\ \A u \in Conns : u # t => queue'[u] = queue[u] /\ owed'[u] = owed[u]
    BY <1>4, <1>7, <2>2
  <2>4. owed' \in [Conns -> Seq(Products)]
    <3>1. Append(owed[t], p) \in Seq(Products)
      BY <1>0, <2>2, AppendEnds
    <3> QED
      BY <1>4, <1>7, <2>2, <3>1
  <2>5. Holds(t)'
    BY ZenonT(60), <1>0, <2>1 DEF Stream, Holds
  <2>6. Owes(t)'
    <3>1. Owes(t)
      BY DEF Stream
    <3> QED
      BY ZenonT(60), <1>0, <2>3, <3>1, OwesAppended
  <2>7. ASSUME Alive(t) PROVE Flow(t)' /\ Below(t, next)'
    <3>1. Flow(t) /\ Below(t, p)
      <4>1. srv.i \in srv.i .. Len(table)
        BY SMTT(60), <1>0
      <4> QED
        BY ZenonT(60), <1>0, <1>4, <2>7, <4>1 DEF Stream, Lines, Sending, This
    <3>2. PICK b \in Nat : b = next
      BY <1>0
    <3>3. Flow(t)' /\ Below(t, b)'
      BY ZenonT(60), <1>0, <2>3, <3>1, <3>2, FlowAppended
    <3> QED
      BY ZenonT(60), <1>0, <3>2, <3>3
  <2> QED
    BY ZenonT(60), <1>2, <1>5, <2>3, <2>4, <2>5, <2>6, <2>7
<1> QED
  BY <1>6, <1>7
  DEF server_send_client_queues, Skip, threadVars, shared, ghosts, connqueue_snd
-----------------------------------------------------------------------------
(***************************************************************************)
(* Every step.                                                             *)
(***************************************************************************)
\* At the start no thread has anything.
LEMMA StreamInit == Init => Stream
<1> SUFFICES ASSUME Init PROVE Stream
  OBVIOUS
<1>1. /\ NoThread.st = "none" /\ NoThread.data = None
      /\ Nothing \in Piece /\ <<>> \in Seq(Products)
  BY EmptySeq DEF NoThread, Nothing, Piece
<1>2. /\ th = [t \in Conns |-> NoThread] /\ queue = [t \in Conns |-> <<>>]
      /\ owed = [t \in Conns |-> <<>>] /\ last = [c \in Conns |-> Nothing]
      /\ srv.pc = "loop"
  BY DEF Init, ThreadsInit, At
<1>3. GhostTypes
  BY ZenonT(60), <1>1, <1>2 DEF GhostTypes
<1>4. \A t \in Conns : th[t].st = "none" /\ ~Alive(t)
  BY ZenonT(60), <1>1, <1>2 DEF Alive
<1>5. \A t \in Conns : Holds(t) /\ Owes(t)
  BY ZenonT(60), <1>1, <1>2, <1>4 DEF Holds, Owes
<1>6. Unwritten
  BY ZenonT(60), <1>2 DEF Unwritten
<1>7. Lines /\ Sending
  BY ZenonT(60), <1>2, <1>4 DEF Lines, Sending
<1> QED
  BY <1>3, <1>5, <1>6, <1>7 DEF Stream

\* Every step keeps the streams, and writes in order.
LEMMA StreamNext ==
  ASSUME Types, Links, Stream, [Next]_vars
  PROVE  Stream' /\ \A c \in Conns : Intact(c)
<1>1. Types'
  BY LinksNext
<1>2. CASE ServerStep
  <2>1. CASE \/ StartConnections \/ EndScan \/ server_main_ends \/ NoEvent
             \/ process_finished_connections \/ poll_client_hangup
             \/ process_unidentified_connections \/ poll \/ PassFails \/ handle_client
    BY <1>1, <2>1, QuietKeeps
  <2>2. CASE process_dirty_connections \/ spawn_client_threads
    BY <1>1, <2>2, DirtyStream, SpawnStream
  <2>3. CASE \/ AcceptAborted \/ NewClient \/ ReplaceClient \/ poll_restore_connection
             \/ Refused \/ conn_table_add_element
    BY <1>1, <2>3, AcceptStream, AdmitStream
  <2>4. CASE \/ conn_table_del_element \/ conn_table_destroy \/ Destroyed
             \/ close_server
    BY <1>1, <2>4, DeleteStream, DestroyedStream, CloseStream
  <2>5. CASE process_server_queue \/ server_send_client_queues
    BY <1>1, <2>5, QueueStream, SendStream
  <2> QED
    BY <1>2, <2>1, <2>2, <2>3, <2>4, <2>5 DEF ServerStep, process_connections
<1>3. CASE \E t \in Conns : ThreadRuns(t)
  BY <1>3, ThreadLines
<1>4. CASE \E c \in Conns : \E ip \in Ips : Connect(c, ip)
  BY <1>1, <1>4, ConnectStream
<1>5. CASE \/ \E c \in Conns : Hangup(c)
           \/ \E c \in Conns, m \in Messages : Say(c, m)
           \/ set_quit_flag \/ UNCHANGED vars
  BY <1>1, <1>5, ClientsKeep
<1> QED
  BY <1>2, <1>3, <1>4, <1>5 DEF Next, Terminated

\* The three together are an invariant.
LEMMA StreamAlways == Spec => [](Types /\ Links /\ Stream)
<1>1. Init => Types /\ Links /\ Stream
  BY LinksInit, StreamInit
<1>2. Types /\ Links /\ Stream /\ [Next]_vars => (Types /\ Links /\ Stream)'
  BY LinksNext, StreamNext
<1> QED
  BY <1>1, <1>2, PTL DEF Spec

(***************************************************************************)
(* What a client receives on a connection is whole products in the order   *)
(* in which they came: a product is not written after part of another one, *)
(* nor after a later one, nor twice, whatever connections are lost,        *)
(* restored and replaced.  After a write that fails the connection is not  *)
(* written on again, and a thread that waits for its client starts on a    *)
(* connection with nothing on it.                                          *)
(***************************************************************************)
THEOREM StreamsStayIntact == Spec => StreamIntact
<1>1. Types /\ Links /\ Stream /\ [Next]_vars =>
        [\A c \in Conns : last'[c] \notin {last[c], Nothing} =>
           last[c].whole /\ last[c].data < last'[c].data]_vars
  BY StreamNext DEF Intact
<1> QED
  BY <1>1, StreamAlways, PTL DEF Spec, StreamIntact

(***************************************************************************)
(* As long as a client thread runs, also while its client is away, what    *)
(* was queued for the client and not sent is in the hands of the thread or *)
(* in its queue, in order: it survives the loss of the connection.         *)
(***************************************************************************)
THEOREM NothingIsLost == Spec => []NothingLost
<1>1. Stream => NothingLost
  BY ZenonT(60) DEF Stream, Owes, NothingLost
<1> QED
  BY <1>1, StreamAlways, PTL

(***************************************************************************)
(* The types of the server and of its threads.  The count of the retries   *)
(* stays within its limit and the queues hold only products.               *)
(***************************************************************************)
THEOREM ServerTypesHold == Spec => []TypeOK
<1>1. Types /\ Stream => TypeOK
  BY ZenonT(60)
  DEF Types, ThreadTypes, TableTypes, Stream, GhostTypes, TypeOK, ThreadsTypeOK
<1> QED
  BY <1>1, StreamAlways, PTL
=============================================================================
