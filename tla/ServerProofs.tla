---------------------------- MODULE ServerProofs ----------------------------
(***************************************************************************)
(* Proofs about the network server, for any clients, connections, size of  *)
(* the table and faults: what client threads and the server thread share   *)
(* is neither freed nor mixed up.                                          *)
(***************************************************************************)
EXTENDS Server, TLAPS

\* A leaf is for Zenon unless it names SMT, and may take a minute.
USE ZenonT(60), SMTT(60)

\* Facts about sequences: their elements.
LEMMA ElementOfSeq ==
  ASSUME NEW A, NEW q \in Seq(A), NEW k \in 1..Len(q) PROVE q[k] \in A
  BY SMTT(60)

\* The empty sequence.
LEMMA EmptySeq == ASSUME NEW A PROVE <<>> \in Seq(A) /\ Len(<<>>) = 0
  BY SMTT(60)

\* A sequence is a function on 1..Len(q).
LEMMA LenProperties ==
  ASSUME NEW A, NEW q \in Seq(A)
  PROVE  Len(q) \in Nat /\ DOMAIN q = 1..Len(q) /\ q \in [1..Len(q) -> A]
  BY SMTT(60)

\* An element is replaced.
LEMMA ExceptSeq ==
  ASSUME NEW A, NEW q \in Seq(A), NEW k \in 1..Len(q), NEW a \in A
  PROVE  LET r == [q EXCEPT ![k] = a]
         IN  /\ r \in Seq(A) /\ Len(r) = Len(q)
             /\ \A j \in 1..Len(q) : r[j] = IF j = k THEN a ELSE q[j]
  BY SMTT(60)

\* Two sequences in a row.
LEMMA ConcatProperties ==
  ASSUME NEW A, NEW q \in Seq(A), NEW r \in Seq(A)
  PROVE  /\ q \o r \in Seq(A) /\ Len(q \o r) = Len(q) + Len(r)
         /\ \A j \in 1..Len(q) + Len(r) :
              (q \o r)[j] = IF j <= Len(q) THEN q[j] ELSE r[j - Len(q)]
  BY SMTT(60)

\* A part of a sequence.
LEMMA SubSeqProperties ==
  ASSUME NEW A, NEW q \in Seq(A), NEW m \in Nat \ {0}, NEW n \in 0..Len(q), m <= n + 1
  PROVE  /\ SubSeq(q, m, n) \in Seq(A) /\ Len(SubSeq(q, m, n)) = n + 1 - m
         /\ \A j \in 1..n + 1 - m : SubSeq(q, m, n)[j] = q[m + j - 1]
  BY SMTT(60)

\* The first element and the rest.
LEMMA HeadTailProperties ==
  ASSUME NEW A, NEW q \in Seq(A), q # <<>>
  PROVE  /\ Head(q) \in A /\ Tail(q) \in Seq(A) /\ Len(Tail(q)) = Len(q) - 1
         /\ \A j \in 1..Len(q) - 1 : Tail(q)[j] = q[j + 1]
  BY SMTT(60)

\* An element is added.
LEMMA AppendProperties ==
  ASSUME NEW A, NEW q \in Seq(A), NEW a \in A
  PROVE  /\ Append(q, a) \in Seq(A) /\ Len(Append(q, a)) = Len(q) + 1
         /\ \A j \in 1..Len(q) : Append(q, a)[j] = q[j]
         /\ Append(q, a)[Len(q) + 1] = a
  BY SMTT(60)

\* What is left of the table when element k is deleted.
LEMMA Removed ==
  ASSUME NEW s \in Seq(Element), NEW k \in 1..Len(s)
  PROVE  LET r == RemoveAt(s, k)
         IN  /\ r \in Seq(Element) /\ Len(r) = Len(s) - 1
             /\ \A j \in 1..Len(r) : r[j] = IF j < k THEN s[j] ELSE s[j + 1]
<1> DEFINE a == SubSeq(s, 1, k - 1)
           b == SubSeq(s, k + 1, Len(s))
<1>1. Len(s) \in Nat /\ k \in Nat /\ k >= 1 /\ k <= Len(s)
  BY SMTT(60), LenProperties
<1>2. /\ a \in Seq(Element) /\ Len(a) = k - 1
      /\ \A j \in 1 .. k - 1 : a[j] = s[j]
  BY SMTT(60), <1>1, SubSeqProperties
<1>3. /\ b \in Seq(Element) /\ Len(b) = Len(s) - k
      /\ \A j \in 1 .. Len(s) - k : b[j] = s[k + j]
  BY SMTT(60), <1>1, SubSeqProperties
<1>4. RemoveAt(s, k) = a \o b
  BY DEF RemoveAt
<1> HIDE DEF a, b
<1>5. /\ a \o b \in Seq(Element) /\ Len(a \o b) = Len(a) + Len(b)
      /\ \A j \in 1 .. Len(a) + Len(b) :
           (a \o b)[j] = IF j <= Len(a) THEN a[j] ELSE b[j - Len(a)]
  BY ZenonT(60), <1>2, <1>3, ConcatProperties
<1>6. ASSUME NEW j \in 1..Len(a \o b)
      PROVE  (a \o b)[j] = IF j < k THEN s[j] ELSE s[j + 1]
  <2>1. CASE j < k
    BY SMTT(60), <1>1, <1>2, <1>3, <1>5, <2>1
  <2>2. CASE ~(j < k)
    <3>1. j - Len(a) \in 1 .. Len(s) - k /\ k + (j - Len(a)) = j + 1
      BY SMTT(60), <1>1, <1>2, <1>3, <1>5, <2>2
    <3> QED
      BY SMTT(60), <1>1, <1>2, <1>3, <1>5, <2>2, <3>1
  <2> QED
    BY <2>1, <2>2
<1> QED
  BY SMTT(60), <1>1, <1>2, <1>3, <1>4, <1>5, <1>6
-----------------------------------------------------------------------------
(***************************************************************************)
(* The types, but for the ghosts, and where the server thread may be.      *)
(***************************************************************************)
ThreadTypes ==
  /\ th \in [Conns -> Thread] /\ info \in [Conns -> ThreadInfo]
  /\ queue \in [Conns -> Seq(Products)] /\ qerr \in [Conns -> BOOLEAN]
  /\ quit \in BOOLEAN
  /\ \A t \in Conns : th[t].st = "wait" => th[t].count < Retry

\* The stages that delete an element and come back.
Deleting == {"finished", "unidentified", "spawn", "events", "admit"}

TableTypes ==
  /\ conn \in [Conns -> Conn] /\ pending \in Seq(Conns)
  /\ open \subseteq Conns /\ table \in Seq(Element)
  /\ srv \in Srv /\ next \in 1 .. MaxProducts + 1

Places ==
  /\ srv.i >= 1
  /\ srv.pc = "send" => srv.data \in Products
  /\ srv.pc = "join" => srv.k \in 1..Len(table) /\ srv.ret \in Deleting
  /\ srv.pc = "destroy_join" => srv.i <= Len(table)
  /\ srv.pc = "admit" \/ (srv.pc = "join" /\ srv.ret = "admit") => srv.c \in Conns
  /\ srv.pc = "accept" => pending # <<>>

\* What a step makes of the state of its thread: a thread that runs ends or goes
\* on, on its connection, on none, or on the one it finds restored.
Stepped(t) ==
  /\ \A u \in Conns : u # t => th'[u] = th[u] /\ info'[u] = info[u]
  /\ Alive(t)
  /\ \/ th'[t].st = "ended"
     \/ /\ info' = info
        /\ \/ th'[t].fd = th[t].fd
           \/ info[t].status = 0 /\ th'[t].fd = info[t].fd
     \/ th'[t].fd = None /\ info'[t].status = 1

\* A step of a thread keeps the types.
LEMMA ThreadStepTypes ==
  ASSUME ThreadTypes, NEW t \in Conns, ThreadStep(t)
  PROVE  ThreadTypes' /\ Stepped(t)
<1> USE DEF ThreadTypes, shared, ghosts
<1>0. th[t] \in Thread /\ info[t] \in ThreadInfo /\ NoThread \in Thread
      /\ Retry \in Nat
  BY SMTT(60), ThreadsAssumption DEF Thread, NoThread, ThreadInfo
<1>1. CASE client_thread_main(t) \/ Canceled(t)
  <2>1. cleanup(t) /\ Alive(t)
    BY <1>1 DEF client_thread_main, Canceled, Alive
  <2>2. [NoThread EXCEPT !.st = "ended"] \in Thread
    BY ZenonT(60), <1>0 DEF Thread, NoThread
  <2>3. th' \in [Conns -> Thread] /\ th'[t].st = "ended"
        /\ \A u \in Conns : u # t => th'[u] = th[u]
    BY <2>1, <2>2 DEF cleanup, NoThread
  <2>4. [info[t] EXCEPT !.finished = TRUE] \in ThreadInfo
    BY ZenonT(60), <1>0 DEF ThreadInfo
  <2>5. info' \in [Conns -> ThreadInfo]
        /\ \A u \in Conns : u # t => info'[u] = info[u]
    BY <2>1, <2>4 DEF cleanup
  <2> QED
    BY <2>1, <2>3, <2>5 DEF cleanup, Stepped
<1>2. CASE periodic(t)
  <2>1. [th[t] EXCEPT !.st = "rcv", !.f_exit = qerr[t]] \in Thread
    BY ZenonT(60), <1>0 DEF Thread
  <2>2. th' = [th EXCEPT ![t] = [th[t] EXCEPT !.st = "rcv", !.f_exit = qerr[t]]]
    BY ZenonT(60), <1>2, <1>0 DEF periodic, Thread
  <2>3. th'[t].st = "rcv" /\ th'[t].fd = th[t].fd
    BY <1>0, <2>2 DEF Thread
  <2> QED
    BY <1>2, <2>1, <2>2, <2>3 DEF periodic, Stepped, Alive
<1>3. CASE connqueue_rcv(t)
  <2>1. queue[t] \in Seq(Products) /\ queue[t] # <<>>
    BY <1>3 DEF connqueue_rcv
  <2>2. Head(queue[t]) \in Products /\ Tail(queue[t]) \in Seq(Products)
    BY <2>1, HeadTailProperties
  <2>3. queue' \in [Conns -> Seq(Products)]
    <3>1. queue' \in {queue, [queue EXCEPT ![t] = Tail(queue[t])],
                      [queue EXCEPT ![t] = <<>>]}
      BY <1>3 DEF connqueue_rcv
    <3>2. <<>> \in Seq(Products)
      BY EmptySeq
    <3> QED
      BY ZenonT(60), <2>2, <3>1, <3>2
  <2>4. th' \in {[th EXCEPT ![t] = [th[t] EXCEPT !.st = "send", !.data = Head(queue[t])]],
                 [th EXCEPT ![t] = [th[t] EXCEPT !.st = "top"]]}
    BY ZenonT(60), <1>0, <1>3 DEF connqueue_rcv, Thread
  <2>5. /\ [th[t] EXCEPT !.st = "send", !.data = Head(queue[t])] \in Thread
        /\ [th[t] EXCEPT !.st = "top"] \in Thread
    BY ZenonT(60), <1>0, <2>2 DEF Thread
  <2>6. th'[t].st \in {"send", "top"} /\ th'[t].fd = th[t].fd
    <3>1. CASE th' = [th EXCEPT ![t] = [th[t] EXCEPT !.st = "top"]]
      BY <1>0, <3>1 DEF Thread
    <3>2. CASE th' = [th EXCEPT ![t] = [th[t] EXCEPT !.st = "send",
                                                    !.data = Head(queue[t])]]
      BY <1>0, <3>2 DEF Thread
    <3> QED
      BY <2>4, <3>1, <3>2
  <2> QED
    BY ZenonT(60), <1>3, <2>3, <2>4, <2>5, <2>6 DEF connqueue_rcv, Stepped, Alive
<1>4. CASE NoData(t)
  <2>1. [th[t] EXCEPT !.st = "top"] \in Thread
    BY ZenonT(60), <1>0 DEF Thread
  <2>2. th' = [th EXCEPT ![t] = [th[t] EXCEPT !.st = "top"]]
    BY <1>4, <1>0 DEF NoData, Thread
  <2>3. th'[t].st = "top" /\ th'[t].fd = th[t].fd
    BY <1>0, <2>2 DEF Thread
  <2> QED
    BY <1>4, <2>1, <2>2, <2>3 DEF NoData, Stepped, Alive
<1>5. ASSUME NEW b \in BOOLEAN
      PROVE  /\ Return(t, b) \in Thread
             /\ Return(t, b).st = "top" /\ Return(t, b).fd = th[t].fd
  <2>1. (th[t].f_exit \/ b) \in BOOLEAN /\ 0 \in 0 .. Retry
    BY SMTT(60), <1>0
  <2> DEFINE f == th[t].f_exit \/ b
  <2>2. Return(t, b) = [th[t] EXCEPT !.st = "top", !.data = None, !.count = 0,
                                     !.f_exit = f]
    BY DEF Return
  <2>3. f \in BOOLEAN
    BY <2>1
  <2> HIDE DEF f
  <2> QED
    BY ZenonT(60), <1>0, <2>1, <2>2, <2>3 DEF Thread
<1>6. CASE Sent(t) \/ NoFile(t)
  <2>1. PICK b \in BOOLEAN : th' = [th EXCEPT ![t] = Return(t, b)]
    BY ZenonT(60), <1>6 DEF Sent, NoFile
  <2>2. th'[t].st = "top" /\ th'[t].fd = th[t].fd /\ th' \in [Conns -> Thread]
    BY <1>5, <2>1
  <2> QED
    BY ZenonT(60), <1>6, <2>1, <2>2 DEF Sent, NoFile, Stepped, Alive
<1>7. CASE WriteFails(t)
  <2> DEFINE x == [Return(t, TRUE) EXCEPT !.fd = None]
             y == [th[t] EXCEPT !.st = "wait", !.fd = None]
  <2>1. x \in Thread /\ x.fd = None /\ x.st = "top"
    BY ZenonT(60), <1>5 DEF Thread
  <2>2. y \in Thread /\ y.fd = None /\ y.st = "wait" /\ y.count = th[t].count
    BY ZenonT(60), <1>0 DEF Thread
  <2>3. th' = [th EXCEPT ![t] = IF th[t].count = Retry THEN x ELSE y]
    BY <1>7 DEF WriteFails
  <2>4. th[t].count \in 0 .. Retry
    BY <1>0 DEF Thread
  <2> HIDE DEF x, y
  <2>5. /\ th' \in [Conns -> Thread] /\ th'[t].fd = None
        /\ th'[t].st = "wait" => th'[t].count < Retry
    BY SMTT(60), <1>0, <2>1, <2>2, <2>3, <2>4
  <2>6. [info[t] EXCEPT !.status = 1, !.fd = None] \in ThreadInfo
    BY ZenonT(60), <1>0 DEF ThreadInfo
  <2>7. info' = [info EXCEPT ![t] = [info[t] EXCEPT !.status = 1, !.fd = None]]
    BY ZenonT(60), <1>0, <1>7 DEF WriteFails, ThreadInfo
  <2>8. info' \in [Conns -> ThreadInfo] /\ info'[t].status = 1
    BY <1>0, <2>6, <2>7 DEF ThreadInfo
  <2> QED
    BY ZenonT(60), <1>7, <2>3, <2>5, <2>7, <2>8 DEF WriteFails, Stepped, Alive
<1>8. CASE wait_client_reconnection(t)
  <2> DEFINE stop == quit \/ th[t].f_exit
             a == [Return(t, FALSE) EXCEPT !.fd = info[t].fd]
             b == [[th[t] EXCEPT !.st = "send"] EXCEPT !.fd = info[t].fd]
             c == Return(t, TRUE)
             d == [th[t] EXCEPT !.count = @ + 1]
  <2>1. info[t].fd \in Conns \cup {None} /\ th[t].count \in 0 .. Retry
        /\ th[t].count < Retry /\ th[t].st = "wait"
    BY <1>0, <1>8 DEF ThreadInfo, Thread, wait_client_reconnection
  <2>2. a \in Thread /\ a.st = "top" /\ a.fd = info[t].fd
    BY ZenonT(60), <1>5, <2>1 DEF Thread
  <2>3. b \in Thread /\ b.st = "send" /\ b.fd = info[t].fd
    BY ZenonT(60), <1>0, <2>1 DEF Thread
  <2>4. c \in Thread /\ c.st = "top" /\ c.fd = th[t].fd
    BY ZenonT(60), <1>5
  <2>5. d \in Thread /\ d.count = th[t].count + 1 /\ d.fd = th[t].fd /\ d.st = th[t].st
    <3>1. th[t].count + 1 \in 0 .. Retry
      BY SMTT(60), <1>0, <2>1
    <3> QED
      BY ZenonT(60), <1>0, <3>1 DEF Thread
  <2>6. th' = [th EXCEPT ![t] =
                 IF info[t].status = 0 THEN (IF stop THEN a ELSE b)
                 ELSE IF stop \/ th[t].count + 1 = Retry THEN c ELSE d]
    <3>1. CASE info[t].status = 0 /\ stop
      BY <1>8, <3>1, ZenonT(60) DEF wait_client_reconnection
    <3>2. CASE info[t].status = 0 /\ ~stop
      BY <1>8, <3>2, ZenonT(60) DEF wait_client_reconnection
    <3>3. CASE info[t].status # 0 /\ (stop \/ th[t].count + 1 = Retry)
      BY <1>8, <3>3, ZenonT(60) DEF wait_client_reconnection
    <3>4. CASE info[t].status # 0 /\ ~(stop \/ th[t].count + 1 = Retry)
      BY <1>8, <3>4, ZenonT(60) DEF wait_client_reconnection
    <3> QED
      BY ZenonT(60), <3>1, <3>2, <3>3, <3>4
  <2> HIDE DEF a, b, c, d, stop
  <2>7. th' \in [Conns -> Thread]
    BY <2>2, <2>3, <2>4, <2>5, <2>6
  <2>8. th'[t].st = "wait" => th'[t].count < Retry
    BY SMTT(60), <1>0, <2>1, <2>2, <2>3, <2>4, <2>5, <2>6
  <2>9. \/ th'[t].fd = th[t].fd
        \/ info[t].status = 0 /\ th'[t].fd = info[t].fd
    BY <2>2, <2>3, <2>4, <2>5, <2>6
  <2> QED
    BY ZenonT(60), <1>8, <2>6, <2>7, <2>8, <2>9 DEF wait_client_reconnection, Stepped, Alive
<1> QED
  BY <1>1, <1>2, <1>3, <1>4, <1>6, <1>7, <1>8 DEF ThreadStep
-----------------------------------------------------------------------------
(***************************************************************************)
(* The steps of the server thread and of the clients that leave the links  *)
(* between elements, threads and connections as they are.                  *)
(***************************************************************************)
Types == ThreadTypes /\ TableTypes /\ Places

SameThreads ==
  /\ info' = info
  /\ \A t \in Conns : th'[t].st = th[t].st /\ th'[t].fd = th[t].fd

SameTable ==
  /\ Len(table') = Len(table)
  /\ \A i \in 1..Len(table) : /\ table'[i].id = table[i].id
                              /\ table'[i].ip = table[i].ip
                              /\ table'[i].fd = table[i].fd

SameConns ==
  \A c \in Conns : /\ conn'[c].ip = conn[c].ip
                   /\ conn'[c].st = "new" <=> conn[c].st = "new"

\* From a stage of the loop to another, to a deletion, or to the end.
Elsewhere ==
  /\ srv.pc \notin {"admit", "join", "destroy", "destroy_join", "done"}
  /\ srv'.pc \notin {"admit", "destroy_join", "done"}
  /\ srv'.pc = "join" => srv'.ret # "admit"
  /\ srv'.pc = "destroy" => srv'.i = 1

Idle ==
  /\ Types'
  /\ SameThreads /\ SameTable /\ SameConns /\ open' = open /\ pending' = pending
  /\ srv' = srv \/ Elsewhere

\* A new stage.
LEMMA AtTypes ==
  ASSUME NEW pc \in Stages
  PROVE  /\ At(pc) \in Srv /\ At(pc).pc = pc /\ At(pc).i = 1
         /\ At(pc).c = None /\ At(pc).ret = "loop"
  BY DEF At, Srv, Stages

\* The fields of the server thread's place.
LEMMA SrvFields ==
  ASSUME NEW s \in Srv
  PROVE  s.pc \in Stages /\ s.i \in Nat /\ s.k \in Nat /\ s.ret \in Stages
  BY DEF Srv

\* The next element, or the stage after the walk.
LEMMA NextMoves ==
  ASSUME TableTypes, Places, srv.pc \in DOMAIN After,
         NextElement \/ srv' = At(After[srv.pc])
  PROVE  /\ srv' \in Srv /\ srv'.i >= 1
         /\ srv'.pc \in {"finished", "dirty", "events", "send",
                         "unidentified", "spawn", "queue", "loop"}
         /\ srv'.pc = "send" => srv'.data \in Products
<1>1. srv.pc \in {"finished", "dirty", "events", "send"}
  BY DEF After
<1>2. After[srv.pc] \in {"unidentified", "spawn", "queue", "loop"}
  BY SMTT(60), <1>1 DEF After
<1>3. srv \in Srv /\ srv.i \in Nat
  BY SrvFields DEF TableTypes
<1>4. CASE srv' = At(After[srv.pc])
  <2>1. After[srv.pc] \in Stages
    BY <1>2 DEF Stages
  <2> QED
    BY SMTT(60), <1>2, <1>4, <2>1, AtTypes
<1>5. CASE srv' = [srv EXCEPT !.i = @ + 1]
  <2>1. /\ srv' \in Srv /\ srv'.i = srv.i + 1 /\ srv'.pc = srv.pc
        /\ srv'.data = srv.data
    BY SMTT(60), <1>3, <1>5 DEF Srv
  <2> QED
    BY SMTT(60), <1>1, <1>3, <2>1 DEF Places
<1> QED
  BY <1>4, <1>5 DEF NextElement

\* Cancelling a thread changes nothing the server thread can see.
LEMMA CancelSame ==
  ASSUME ThreadTypes, NEW t \in Conns, pthread_cancel(t)
  PROVE  ThreadTypes' /\ SameThreads
<1> USE DEF ThreadTypes
<1>1. th[t] \in Thread
  OBVIOUS
<1> DEFINE r == [th[t] EXCEPT !.canceled = TRUE]
<1>2. r \in Thread /\ r.st = th[t].st /\ r.fd = th[t].fd /\ r.count = th[t].count
  BY ZenonT(60), <1>1 DEF Thread
<1>3. th' = th \/ th' = [th EXCEPT ![t] = r]
  BY <1>1 DEF pthread_cancel, Thread
<1>4. info' = info /\ queue' = queue /\ qerr' = qerr /\ quit' = quit
  BY DEF pthread_cancel, shared
<1> HIDE DEF r
<1>5. CASE th' = th
  BY <1>4, <1>5 DEF SameThreads
<1>6. CASE th' = [th EXCEPT ![t] = r]
  <2>1. th' \in [Conns -> Thread]
    BY <1>2, <1>6
  <2>2. \A u \in Conns : /\ th'[u].st = th[u].st /\ th'[u].fd = th[u].fd
                         /\ th'[u].count = th[u].count
    BY <1>2, <1>6
  <2> QED
    BY ZenonT(60), <1>4, <2>1, <2>2 DEF SameThreads
<1> QED
  BY <1>3, <1>5, <1>6

\* A deletion starts, of an element of which only the flags may have changed.
LEMMA DelFlags ==
  ASSUME Types, NEW k \in 1..Len(table), NEW ret \in Deleting \ {"admit"},
         NEW i \in Nat \ {0}, poll_del_connection(k, ret, i),
         srv.pc \notin {"accept", "admit", "join", "destroy", "destroy_join", "done"},
         table' \in Seq(Element), SameTable, UNCHANGED <<conn, pending, open, next>>
  PROVE  Idle
<1>1. table[k].id \in Conns /\ srv \in Srv /\ Len(table) \in Nat
  <2>1. table[k] \in Element
    BY ElementOfSeq DEF Types, TableTypes
  <2> QED
    BY <2>1, LenProperties DEF Types, TableTypes, Element
<1>2. ThreadTypes' /\ SameThreads
  BY <1>1, CancelSame DEF Types, poll_del_connection
<1>3. /\ srv' \in Srv /\ srv'.pc = "join" /\ srv'.k = k /\ srv'.ret = ret
      /\ srv'.i = i /\ srv'.c = srv.c
  <2>1. k \in Nat /\ i \in Nat /\ ret \in Stages /\ "join" \in Stages
    BY SMTT(60), <1>1 DEF Stages, Deleting
  <2> QED
    BY ZenonT(60), <1>1, <2>1 DEF poll_del_connection, Srv
<1>4. TableTypes'
  BY <1>3 DEF Types, TableTypes
<1>5. Len(table') = Len(table)
  BY DEF SameTable
<1>6. Places'
  BY SMTT(60), <1>1, <1>3, <1>5 DEF Places
<1> QED
  BY <1>2, <1>3, <1>4, <1>6
  DEF Types, Idle, SameConns, Elsewhere

\* A deletion starts.
LEMMA DelMoves ==
  ASSUME Types, NEW k \in 1..Len(table), NEW ret \in Deleting \ {"admit"},
         NEW i \in Nat \ {0}, poll_del_connection(k, ret, i),
         srv.pc \notin {"accept", "admit", "join", "destroy", "destroy_join", "done"},
         UNCHANGED <<conn, pending, open, table, next>>
  PROVE  Idle
<1>1. table' \in Seq(Element) /\ SameTable
  BY DEF Types, TableTypes, SameTable
<1> QED
  BY <1>1, DelFlags

\* A step of the server thread alone, to a stage of its loop.
LEMMA StageMoves ==
  ASSUME Types, UNCHANGED <<threadVars, conn, pending, open, table>>,
         next' \in 1 .. MaxProducts + 1, srv' \in Srv, srv'.i >= 1,
         srv'.pc = "send" => srv'.data \in Products,
         srv'.pc \notin {"accept", "admit", "join", "destroy_join", "done"},
         srv'.pc = "destroy" => srv'.i = 1,
         srv.pc \notin {"admit", "join", "destroy", "destroy_join", "done"}
  PROVE  Idle
<1>1. /\ th' = th /\ info' = info /\ queue' = queue /\ qerr' = qerr /\ quit' = quit
      /\ conn' = conn /\ pending' = pending /\ open' = open /\ table' = table
  BY DEF threadVars, shared
<1>2. ThreadTypes' /\ SameThreads
  BY <1>1 DEF Types, ThreadTypes, SameThreads
<1>3. TableTypes' /\ Places'
  BY <1>1 DEF Types, TableTypes, Places
<1> QED
  BY <1>1, <1>2, <1>3 DEF Types, Idle, SameTable, SameConns, Elsewhere

\* A table whose elements have other flags.
LEMMA Reflagged ==
  ASSUME TableTypes, NEW t,
         t = [i \in 1..Len(table) |-> t[i]],
         \A i \in 1..Len(table) :
           t[i] \in Element /\ t[i].id = table[i].id /\ t[i].ip = table[i].ip
                            /\ t[i].fd = table[i].fd,
         table' = t
  PROVE  table' \in Seq(Element) /\ SameTable
<1>1. Len(table) \in Nat
  BY LenProperties DEF TableTypes
<1>2. t \in [1..Len(table) -> Element]
  OBVIOUS
<1>3. t \in Seq(Element)
  BY SMTT(60), <1>1, <1>2
<1>4. Len(t) = Len(table)
  <2>1. Len(t) \in Nat /\ DOMAIN t = 1..Len(t)
    BY <1>3, LenProperties
  <2>2. 1..Len(t) = 1..Len(table)
    BY <1>2, <2>1
  <2> QED
    BY SMTT(60), <1>1, <2>1, <2>2
<1> QED
  BY <1>3, <1>4 DEF SameTable

\* The elements of the table.
LEMMA TableElement ==
  ASSUME TableTypes, NEW i \in 1..Len(table)
  PROVE  /\ table[i] \in Element /\ i \in Nat /\ i # 0
         /\ table[i].id \in Conns /\ table[i].ip \in Ips
         /\ table[i].fd \in Conns \cup {None}
<1>1. table[i] \in Element /\ Len(table) \in Nat
  BY ElementOfSeq, LenProperties DEF TableTypes
<1> QED
  BY SMTT(60), <1>1 DEF Element

\* Where the walk is.
LEMMA ScanIndex ==
  ASSUME TableTypes, Places, NEW stage, Scanning(stage)
  PROVE  srv.i \in 1..Len(table) /\ srv.pc = stage /\ srv.i + 1 \in Nat \ {0}
<1>1. srv.i \in Nat /\ Len(table) \in Nat
  BY SrvFields, LenProperties DEF TableTypes
<1> QED
  BY SMTT(60), <1>1 DEF Scanning, Places

\* The steps of the loops that only look.
LEMMA ScansIdle ==
  ASSUME Types,
         \/ StartConnections \/ EndScan \/ process_server_queue \/ server_main_ends
         \/ NoEvent
  PROVE  Idle
<1>1. MaxProducts \in Nat /\ next \in 1 .. MaxProducts + 1
  BY ThreadsAssumption DEF Types, TableTypes
<1>2. CASE StartConnections \/ server_main_ends
  <2>1. "finished" \in Stages /\ "destroy" \in Stages
    BY DEF Stages
  <2>2. srv' \in Srv /\ srv'.i = 1 /\ srv'.pc \in {"finished", "destroy"}
    BY <1>2, <2>1, AtTypes DEF StartConnections, server_main_ends
  <2> QED
    BY SMTT(60), <1>1, <1>2, <2>2, StageMoves DEF StartConnections, server_main_ends
<1>3. CASE EndScan
  <2>1. srv.pc \in {"finished", "dirty", "events", "send"}
    BY <1>3 DEF EndScan, After
  <2> QED
    BY <1>1, <1>3, <2>1, NextMoves, StageMoves DEF EndScan, Types
<1>4. CASE NoEvent
  <2>1. srv.pc = "events" /\ "events" \in DOMAIN After
    BY <1>4 DEF NoEvent, Scanning, After
  <2> QED
    BY <1>1, <1>4, <2>1, NextMoves, StageMoves DEF NoEvent, Skip, Types
<1>5. CASE process_server_queue
  <2>1. /\ srv' = [At("send") EXCEPT !.data = next] /\ next \in Products
        /\ next' \in 1 .. MaxProducts + 1
    BY SMTT(60), <1>1, <1>5 DEF process_server_queue, Products
  <2>2. srv' \in Srv /\ srv'.i = 1 /\ srv'.pc = "send" /\ srv'.data = next
    BY <2>1 DEF At, Srv, Stages
  <2> QED
    BY SMTT(60), <1>5, <2>1, <2>2, StageMoves DEF process_server_queue
<1> QED
  BY <1>2, <1>3, <1>4, <1>5

\* The walks that may delete an element.
LEMMA DeletionsIdle ==
  ASSUME Types,
         process_finished_connections \/ poll_client_hangup
  PROVE  Idle
<1>1. next \in 1 .. MaxProducts + 1
  BY DEF Types, TableTypes
<1>2. CASE process_finished_connections
  <2>1. srv.i \in 1..Len(table) /\ srv.pc = "finished" /\ srv.i + 1 \in Nat \ {0}
    BY <1>2, ScanIndex DEF process_finished_connections, Types
  <2>2. "finished" \in DOMAIN After /\ "finished" \in Deleting \ {"admit"}
    BY DEF After, Deleting
  <2>3. CASE poll_del_connection(srv.i, "finished", srv.i + 1)
             /\ UNCHANGED <<conn, pending, open, table, next>>
    BY <2>1, <2>2, <2>3, DelMoves
  <2>4. CASE Skip
    BY <1>1, <2>1, <2>2, <2>4, NextMoves, StageMoves DEF Skip, Types
  <2> QED
    BY <1>2, <2>3, <2>4 DEF process_finished_connections
<1>3. CASE poll_client_hangup
  <2>1. srv.i \in 1..Len(table) /\ srv.pc = "events" /\ srv.i + 1 \in Nat \ {0}
    BY <1>3, ScanIndex DEF poll_client_hangup, Types
  <2>2. "events" \in Deleting \ {"admit"}
    BY DEF Deleting
  <2> QED
    BY <1>3, <2>1, <2>2, DelMoves DEF poll_client_hangup
<1> QED
  BY <1>2, <1>3

\* The element that a loop acts on is in the table.
LEMMA FirstIndex ==
  ASSUME TableTypes, Places, NEW i, NEW j, i = srv.i,
         j \in i .. Len(table)
  PROVE  j \in 1..Len(table) /\ j + 1 \in Nat \ {0}
<1>1. srv.i \in Nat /\ Len(table) \in Nat /\ srv.i >= 1
  BY SrvFields, LenProperties DEF TableTypes, Places
<1> QED
  BY SMTT(60), <1>1

\* A step that changes the flags of elements and goes to another stage.
LEMMA FlagsIdle ==
  ASSUME Types, table' \in Seq(Element), SameTable, conn' \in [Conns -> Conn],
         SameConns,
         UNCHANGED <<threadVars, pending, open, next>>,
         srv' \in Srv, srv'.i >= 1,
         srv'.pc \notin {"send", "admit", "join", "destroy", "destroy_join", "done"},
         srv'.pc = "accept" => pending # <<>>,
         srv.pc \notin {"accept", "admit", "join", "destroy", "destroy_join", "done"}
  PROVE  Idle
<1>1. /\ th' = th /\ info' = info /\ queue' = queue /\ qerr' = qerr /\ quit' = quit
      /\ pending' = pending /\ open' = open /\ next' = next
  BY DEF threadVars, shared
<1>2. ThreadTypes' /\ SameThreads
  BY <1>1 DEF Types, ThreadTypes, SameThreads
<1>3. TableTypes' /\ Places'
  BY <1>1 DEF Types, TableTypes, Places
<1> QED
  BY <1>1, <1>2, <1>3 DEF Types, Idle, Elsewhere

\* A client without a protocol gets one or is deleted.
LEMMA UnidentifiedIdle ==
  ASSUME Types, process_unidentified_connections
  PROVE  Idle
<1>1. srv.pc = "unidentified"
  BY DEF process_unidentified_connections
<1>2. ASSUME NEW late,
             table' = [i \in 1..Len(table) |->
                        [table[i] EXCEPT !.identified = @ \/ i \in late]]
      PROVE  table' \in Seq(Element) /\ SameTable
  <2>1. ASSUME NEW i \in 1..Len(table)
        PROVE  /\ table'[i] \in Element /\ table'[i].id = table[i].id
               /\ table'[i].ip = table[i].ip /\ table'[i].fd = table[i].fd
    <3>1. table[i] \in Element
      BY TableElement DEF Types
    <3> DEFINE b == table[i].identified \/ i \in late
    <3>2. table'[i] = [table[i] EXCEPT !.identified = b]
      BY <1>2
    <3>3. b \in BOOLEAN
      OBVIOUS
    <3> HIDE DEF b
    <3> QED
      BY <3>1, <3>2, <3>3 DEF Element
  <2>2. table' = [i \in 1..Len(table) |-> table'[i]]
    BY <1>2
  <2> QED
    BY <2>1, <2>2, Reflagged DEF Types
<1>3. table' \in Seq(Element) /\ SameTable
  BY <1>2 DEF process_unidentified_connections
<1>4. conn' = conn /\ UNCHANGED <<pending, open, next>>
  BY DEF process_unidentified_connections
<1>5. CASE srv' = At("dirty") /\ UNCHANGED threadVars
  <2>1. "dirty" \in Stages
    BY DEF Stages
  <2>2. srv' \in Srv /\ srv'.i >= 1 /\ srv'.pc = "dirty"
    BY SMTT(60), <1>5, <2>1, AtTypes
  <2> QED
    BY <1>1, <1>3, <1>4, <1>5, <2>2, FlagsIdle DEF SameConns, Types, TableTypes
<1>6. ASSUME NEW i \in srv.i .. Len(table),
             poll_del_connection(i, "unidentified", i + 1)
      PROVE  Idle
  <2>1. i \in 1..Len(table) /\ i + 1 \in Nat \ {0}
    BY <1>6, FirstIndex DEF Types
  <2>2. "unidentified" \in Deleting \ {"admit"}
    BY DEF Deleting
  <2> QED
    BY <1>1, <1>3, <1>4, <1>6, <2>1, <2>2, DelFlags
<1> QED
  BY ZenonT(60), <1>5, <1>6 DEF process_unidentified_connections

\* A pass ends early: poll() or accept() fails.
LEMMA PassFailsIdle ==
  ASSUME Types, PassFails
  PROVE  Idle
<1>1. "queue" \in Stages
  BY DEF Stages
<1>2. srv' \in Srv /\ srv'.i >= 1 /\ srv'.pc = "queue"
  BY SMTT(60), <1>1, AtTypes DEF PassFails
<1>3. srv.pc \in {"spawn", "accept"}
  BY DEF PassFails
<1>4. UNCHANGED <<threadVars, conn, pending, open, table>> /\ next' = next
  BY DEF PassFails
<1>5. next' \in 1 .. MaxProducts + 1
  BY <1>4 DEF Types, TableTypes
<1> QED
  BY <1>2, <1>3, <1>4, <1>5, StageMoves

\* poll() writes the events of each element.
LEMMA PollIdle ==
  ASSUME Types, poll
  PROVE  Idle
<1>1. ASSUME NEW i \in 1..Len(table)
      PROVE  /\ table'[i] \in Element /\ table'[i].id = table[i].id
             /\ table'[i].ip = table[i].ip /\ table'[i].fd = table[i].fd
  <2>1. table[i] \in Element
    BY TableElement DEF Types
  <2>2. PICK r \in [1..Len(table) -> {"none", "in", "hup"}] :
          table' = [j \in 1..Len(table) |-> [table[j] EXCEPT !.revents = r[j]]]
    BY DEF poll
  <2>3. table'[i] = [table[i] EXCEPT !.revents = r[i]] /\ r[i] \in {"none", "in", "hup"}
    BY <2>2
  <2> QED
    BY <2>1, <2>3 DEF Element
<1>2. table' = [i \in 1..Len(table) |-> table'[i]]
  BY DEF poll
<1>3. table' \in Seq(Element) /\ SameTable
  BY <1>1, <1>2, Reflagged DEF Types
<1>4. "accept" \in Stages /\ "events" \in Stages
  BY DEF Stages
<1>5. /\ srv' \in Srv /\ srv'.i >= 1 /\ srv'.pc \in {"accept", "events"}
      /\ srv'.pc = "accept" => pending # <<>>
  BY SMTT(60), <1>4, AtTypes DEF poll
<1> QED
  BY <1>3, <1>5, FlagsIdle DEF poll, SameConns, Types, TableTypes

\* A connection whose message is read, or that hangs up.
LEMMA SameConnIdle ==
  ASSUME TableTypes, NEW c \in Conns, NEW x \in Conn,
         x.ip = conn[c].ip, x.st = "new" <=> conn[c].st = "new",
         conn' = [conn EXCEPT ![c] = x]
  PROVE  conn' \in [Conns -> Conn] /\ SameConns
  BY DEF TableTypes, SameConns

\* A client says its protocol, or something else.
LEMMA HandleIdle ==
  ASSUME Types, handle_client
  PROVE  Idle
<1>1. srv.i \in 1..Len(table) /\ srv.pc = "events" /\ srv.i + 1 \in Nat \ {0}
  BY ScanIndex DEF handle_client, Types
<1>2. conn' \in [Conns -> Conn] /\ SameConns
  <2>1. conn' = [conn EXCEPT ![This.fd] = [conn[This.fd] EXCEPT !.msg = "none"]]
    BY DEF handle_client
  <2>2. CASE This.fd \in Conns
    <3>1. conn[This.fd] \in Conn
      BY <2>2 DEF Types, TableTypes
    <3> DEFINE x == [conn[This.fd] EXCEPT !.msg = "none"]
    <3>2. x \in Conn /\ x.ip = conn[This.fd].ip /\ x.st = conn[This.fd].st
      BY <3>1 DEF Conn
    <3> HIDE DEF x
    <3> QED
      BY ZenonT(60), <2>1, <2>2, <3>2, SameConnIdle DEF Types, x
  <2>3. CASE This.fd \notin Conns
    <3>1. conn' = conn
      BY <2>1, <2>3 DEF Types, TableTypes
    <3> QED
      BY <3>1 DEF Types, TableTypes, SameConns
  <2> QED
    BY <2>2, <2>3
<1>3. CASE /\ table' = [table EXCEPT ![srv.i].identified = TRUE,
                                     ![srv.i].revents = "none"]
           /\ NextElement /\ UNCHANGED threadVars
  <2> DEFINE x == [table[srv.i] EXCEPT !.identified = TRUE, !.revents = "none"]
  <2>1. table[srv.i] \in Element
    BY <1>1, TableElement DEF Types
  <2>2. /\ x \in Element /\ x.id = table[srv.i].id /\ x.ip = table[srv.i].ip
        /\ x.fd = table[srv.i].fd
    BY ZenonT(60), <2>1 DEF Element
  <2>3. table' = [table EXCEPT ![srv.i] = x]
    BY ZenonT(60), <1>1, <1>3, <2>1, LenProperties DEF Types, TableTypes, Element
  <2> HIDE DEF x
  <2>4. table' \in Seq(Element) /\ SameTable
    BY SMTT(60), <1>1, <2>2, <2>3, ExceptSeq DEF Types, TableTypes, SameTable
  <2>5. "events" \in DOMAIN After
    BY DEF After
  <2>6. /\ srv' \in Srv /\ srv'.i >= 1
        /\ srv'.pc \in {"events", "queue"}
    <3>1. srv \in Srv /\ srv.i \in Nat
      BY SrvFields DEF Types, TableTypes
    <3>2. After["events"] = "queue" /\ "queue" \in Stages
      BY DEF After, Stages
    <3>3. [srv EXCEPT !.i = @ + 1] \in Srv
          /\ [srv EXCEPT !.i = @ + 1].i = srv.i + 1
          /\ [srv EXCEPT !.i = @ + 1].pc = "events"
      BY <1>1, <3>1 DEF Srv
    <3> QED
      BY SMTT(60), <1>1, <1>3, <3>1, <3>2, <3>3, AtTypes DEF NextElement
  <2> QED
    BY <1>1, <1>2, <1>3, <2>4, <2>6, FlagsIdle DEF handle_client
<1>4. CASE poll_del_connection(srv.i, "events", srv.i + 1) /\ UNCHANGED table
  <2>1. table[srv.i].id \in Conns /\ srv \in Srv /\ Len(table) \in Nat
    BY <1>1, TableElement, LenProperties DEF Types, TableTypes
  <2>2. ThreadTypes' /\ SameThreads
    BY <1>4, <2>1, CancelSame DEF Types, poll_del_connection
  <2>3. srv' \in Srv /\ srv'.pc = "join" /\ srv'.k = srv.i /\ srv'.ret = "events"
        /\ srv'.i = srv.i + 1 /\ srv'.c = srv.c
    <3>1. srv.i \in Nat /\ srv.i + 1 \in Nat /\ "events" \in Stages /\ "join" \in Stages
      BY SMTT(60), <1>1, <2>1 DEF Stages
    <3> QED
      BY ZenonT(60), <1>4, <2>1, <3>1 DEF poll_del_connection, Srv
  <2>4. pending' = pending /\ open' = open /\ next' = next
    BY DEF handle_client
  <2>5. TableTypes'
    BY <1>2, <1>4, <2>3, <2>4 DEF Types, TableTypes
  <2>6. Places'
    BY SMTT(60), <1>1, <1>4, <2>1, <2>3 DEF Places, Deleting
  <2> QED
    BY <1>1, <1>2, <1>4, <2>2, <2>3, <2>4, <2>5, <2>6
    DEF Types, Idle, SameTable, Elsewhere
<1> QED
  BY <1>3, <1>4 DEF handle_client

\* A product is queued for a client, or not.
LEMMA SendIdle ==
  ASSUME Types, server_send_client_queues
  PROVE  Idle
<1>1. /\ srv.i \in 1..Len(table) /\ srv.pc = "send" /\ "send" \in DOMAIN After
      /\ srv.data \in Products /\ next \in 1 .. MaxProducts + 1
  BY ScanIndex DEF server_send_client_queues, Types, Places, After, TableTypes
<1>2. /\ srv' \in Srv /\ srv'.i >= 1
      /\ srv'.pc \in {"finished", "dirty", "events", "send",
                      "unidentified", "spawn", "queue", "loop"}
      /\ srv'.pc = "send" => srv'.data \in Products
  BY <1>1, NextMoves DEF server_send_client_queues, Skip, Types
<1>3. CASE Skip
  BY <1>1, <1>2, <1>3, StageMoves DEF Skip
<1>4. CASE connqueue_snd(This.id, srv.data)
           /\ UNCHANGED <<conn, pending, open, table, next>>
  <2>1. This.id \in Conns
    BY <1>1, TableElement DEF Types, This
  <2>2. th' = th /\ info' = info /\ quit' = quit
    BY <1>4 DEF connqueue_snd
  <2>3. queue' \in [Conns -> Seq(Products)]
    <3>1. queue[This.id] \in Seq(Products)
      BY <2>1 DEF Types, ThreadTypes
    <3>2. Append(queue[This.id], srv.data) \in Seq(Products)
      BY <1>1, <3>1, AppendProperties
    <3>3. queue' \in {queue, [queue EXCEPT ![This.id] =
                                Append(queue[This.id], srv.data)]}
      BY <1>4 DEF connqueue_snd
    <3> QED
      BY ZenonT(60), <2>1, <3>2, <3>3 DEF Types, ThreadTypes
  <2>4. qerr' \in [Conns -> BOOLEAN]
    <3>1. qerr' \in {qerr, [qerr EXCEPT ![This.id] = TRUE],
                     [qerr EXCEPT ![This.id] = FALSE]}
      BY <1>4 DEF connqueue_snd
    <3> QED
      BY ZenonT(60), <2>1, <3>1 DEF Types, ThreadTypes
  <2>5. ThreadTypes' /\ SameThreads
    BY <2>2, <2>3, <2>4 DEF Types, ThreadTypes, SameThreads
  <2>6. TableTypes' /\ Places'
    BY <1>2, <1>4 DEF Types, TableTypes, Places
  <2> QED
    BY <1>1, <1>2, <1>4, <2>5, <2>6
    DEF Types, Idle, SameTable, SameConns, Elsewhere
<1> QED
  BY <1>3, <1>4 DEF server_send_client_queues

\* The queue of a new client cannot be made.
LEMMA SpawnFailsIdle ==
  ASSUME Types, spawn_client_threads, NEW i \in First(srv.i, NeedsThread),
         poll_del_connection(i, "spawn", i + 1)
  PROVE  Idle
<1>1. i \in srv.i .. Len(table) /\ srv.pc = "spawn"
  BY DEF First, spawn_client_threads
<1>2. i \in 1..Len(table) /\ i + 1 \in Nat \ {0}
  BY <1>1, FirstIndex DEF Types
<1>3. "spawn" \in Deleting \ {"admit"}
  BY DEF Deleting
<1> QED
  BY <1>1, <1>2, <1>3, DelMoves DEF spawn_client_threads

\* What a client says or its hanging up, the signal, and the end.
LEMMA ClientsIdle ==
  ASSUME Types,
         \/ \E c \in Conns : Hangup(c)
         \/ \E c \in Conns, m \in Messages : Say(c, m)
         \/ set_quit_flag \/ UNCHANGED vars
  PROVE  Idle
<1> USE DEF vars, threadVars, serverVars, shared, ghosts
<1>1. ASSUME NEW c \in Conns, NEW x \in Conn, x.ip = conn[c].ip,
             x.st = "new" <=> conn[c].st = "new", conn' = [conn EXCEPT ![c] = x],
             UNCHANGED <<threadVars, pending, open, table, srv, next>>
      PROVE  Idle
  <2>1. conn' \in [Conns -> Conn] /\ SameConns
    BY ZenonT(60), <1>1, SameConnIdle DEF Types
  <2>2. ThreadTypes' /\ SameThreads
    BY <1>1 DEF Types, ThreadTypes, SameThreads
  <2>3. TableTypes' /\ Places'
    BY <1>1, <2>1 DEF Types, TableTypes, Places
  <2> QED
    BY <1>1, <2>1, <2>2, <2>3 DEF Types, Idle, SameTable
<1>2. ASSUME NEW c \in Conns, Hangup(c) PROVE Idle
  <2>1. conn[c] \in Conn /\ conn[c].st = "up"
    BY <1>2 DEF Types, TableTypes, Hangup
  <2>2. PICK m \in {conn[c].msg, "none"} :
          conn' = [conn EXCEPT ![c] = [conn[c] EXCEPT !.st = "closed", !.msg = m]]
    BY ZenonT(60), <1>2, <2>1 DEF Hangup, Types, TableTypes, Conn
  <2> DEFINE x == [conn[c] EXCEPT !.st = "closed", !.msg = m]
  <2>3. x \in Conn /\ x.ip = conn[c].ip /\ x.st = "closed"
    BY ZenonT(60), <2>1, <2>2 DEF Conn
  <2>4. UNCHANGED <<threadVars, pending, open, table, srv, next>>
    BY <1>2 DEF Hangup
  <2> QED
    BY ZenonT(60), <1>1, <2>1, <2>2, <2>3, <2>4
<1>3. ASSUME NEW c \in Conns, NEW m \in Messages, Say(c, m) PROVE Idle
  <2>1. conn[c] \in Conn /\ conn[c].st = "up"
    BY <1>3 DEF Types, TableTypes, Say
  <2> DEFINE x == [conn[c] EXCEPT !.msg = m, !.said = TRUE]
  <2>2. conn' = [conn EXCEPT ![c] = x]
    BY <1>3, <2>1 DEF Say, Types, TableTypes, Conn
  <2>3. x \in Conn /\ x.ip = conn[c].ip /\ x.st = "up"
    BY ZenonT(60), <2>1 DEF Conn
  <2>4. UNCHANGED <<threadVars, pending, open, table, srv, next>>
    BY <1>3 DEF Say
  <2> QED
    BY ZenonT(60), <1>1, <2>1, <2>2, <2>3, <2>4
<1>4. CASE set_quit_flag \/ UNCHANGED vars
  <2>1. /\ th' = th /\ info' = info /\ queue' = queue /\ qerr' = qerr
        /\ quit' \in BOOLEAN
        /\ conn' = conn /\ pending' = pending /\ open' = open /\ table' = table
        /\ srv' = srv /\ next' = next
    BY ZenonT(60), <1>4 DEF set_quit_flag, Types, ThreadTypes
  <2>2. ThreadTypes' /\ SameThreads
    BY <2>1 DEF Types, ThreadTypes, SameThreads
  <2>3. TableTypes' /\ Places'
    BY <2>1 DEF Types, TableTypes, Places
  <2> QED
    BY <2>1, <2>2, <2>3 DEF Types, Idle, SameTable, SameConns
<1> QED
  BY <1>2, <1>3, <1>4
-----------------------------------------------------------------------------
(***************************************************************************)
(* The links between the table, the threads and the connections.           *)
(***************************************************************************)
Closing == srv.pc \in {"destroy", "destroy_join"}

\* An element's connections have been made, the one it has is open and of its
\* client; its thread writes on that one or on none, and finds no other.
Linked(e) ==
  /\ conn[e.id].st # "new" /\ (e.fd # None => conn[e.fd].st # "new")
  /\ ~Closing /\ e.fd # None => e.fd \in open /\ conn[e.fd].ip = e.ip
  /\ Alive(e.id) =>
       /\ th[e.id].fd # None => th[e.id].fd = e.fd /\ info[e.id].status = 0
       /\ info[e.id].status = 0 => info[e.id].fd = e.fd

\* Two elements have nothing in common.
Unlike(d, e) == d.id # e.id /\ d.ip # e.ip /\ (d.fd = e.fd => d.fd = None)

\* A connection to be accepted is of no element, and is there once.
Unseen(c) ==
  /\ conn[c].st # "new"
  /\ \A i \in 1..Len(table) : table[i].id # c /\ table[i].fd # c
  /\ Admitting => srv.c # c

\* The one accepted is of no element, and no client has two: the element of
\* its client is the one being deleted.
Newcomer ==
  /\ conn[srv.c].st # "new" /\ srv.c \in open
  /\ \A i \in 1..Len(table) : /\ table[i].id # srv.c /\ table[i].fd # srv.c
                              /\ table[i].ip = conn[srv.c].ip =>
                                   srv.pc = "join" /\ i = srv.k

Links ==
  /\ \A i \in 1..Len(table) : Linked(table[i])
  /\ \A i, j \in 1..Len(table) : i # j => Unlike(table[i], table[j])
  /\ \A p \in 1..Len(pending) : Unseen(pending[p])
  /\ \A p, q \in 1..Len(pending) : pending[p] = pending[q] => p = q
  /\ Admitting => Newcomer
  /\ Closing => \A j \in 1..Len(table) : j < srv.i => ~Alive(table[j].id)
  /\ Len(table) <= MaxClients
  /\ NotFreedInUse

\* The links at the start.
LEMMA LinksInit == Init => Types /\ Links
<1> SUFFICES ASSUME Init PROVE Types /\ Links
  OBVIOUS
<1>1. /\ MaxConns \in Nat /\ MaxProducts \in Nat /\ Retry \in Nat
      /\ MaxIps \in Nat \ {0} /\ MaxClients \in Nat
  BY ThreadsAssumption, ServerAssumption
<1>2. /\ NoThread \in Thread /\ NoThread.st = "none" /\ NoInfo \in ThreadInfo
      /\ NoConn("new") \in Conn
  BY SMTT(60), <1>1 DEF NoThread, Thread, NoInfo, ThreadInfo, NoConn, Conn, Ips
<1>3. ThreadTypes
  BY ZenonT(60), <1>2, EmptySeq DEF Init, ThreadsInit, ThreadTypes
<1>4. srv \in Srv /\ srv.pc = "loop" /\ srv.i = 1
  BY DEF Init, At, Srv, Stages
<1>5. TableTypes
  BY SMTT(60), <1>1, <1>2, <1>4, EmptySeq DEF Init, TableTypes
<1>6. Places
  BY SMTT(60), <1>4 DEF Places
<1>7. Len(table) = 0 /\ Len(pending) = 0
  BY EmptySeq DEF Init
<1>8. \A t \in Conns : ~Alive(t)
  BY <1>2 DEF Init, ThreadsInit, Alive
<1> QED
  BY SMTT(60), <1>1, <1>3, <1>4, <1>5, <1>6, <1>7, <1>8
  DEF Types, Links, Admitting, Closing, NotFreedInUse

\* The steps that leave the links alone.
LEMMA IdleKeeps ==
  ASSUME Types, Links, Idle
  PROVE  Links'
<1> USE DEF Idle
<1>1. \A t \in Conns : Alive(t)' <=> Alive(t)
  BY DEF SameThreads, Alive
<1>2. \A i \in 1..Len(table) : /\ table[i].id \in Conns
                               /\ table[i].fd \in Conns \cup {None}
  BY TableElement DEF Types
<1>3. \A p \in 1..Len(pending) : pending[p] \in Conns
  BY ElementOfSeq DEF Types, TableTypes
<1>4. Closing' => srv' = srv \/ srv'.i = 1
  BY DEF Closing, Elsewhere
<1>5. Admitting' => srv' = srv
  BY DEF Admitting, Elsewhere
<1>6. ~Closing' => ~Closing
  BY DEF Closing, Elsewhere
<1>7. \A i \in 1..Len(table') : Linked(table[i])'
  BY SMTT(60), <1>1, <1>2, <1>6 DEF Links, Linked, SameThreads, SameTable, SameConns
<1>8. \A i, j \in 1..Len(table') : i # j => Unlike(table'[i], table'[j])
  BY SMTT(60) DEF Links, Unlike, SameTable
<1>9. ASSUME NEW p \in 1..Len(pending') PROVE Unseen(pending[p])'
  <2>1. p \in 1..Len(pending) /\ pending'[p] = pending[p] /\ pending[p] \in Conns
    BY <1>3
  <2>2. Unseen(pending[p])
    BY <2>1 DEF Links
  <2>3. conn'[pending[p]].st # "new"
    BY <2>1, <2>2 DEF Unseen, SameConns
  <2>4. \A i \in 1..Len(table') : table'[i].id # pending[p] /\ table'[i].fd # pending[p]
    BY <2>2 DEF Unseen, SameTable
  <2>5. Admitting' => srv'.c # pending[p]
    BY <1>5, <2>2 DEF Unseen, Admitting
  <2> QED
    BY <2>1, <2>3, <2>4, <2>5 DEF Unseen
<1>10. Admitting' => Newcomer'
  <2> SUFFICES ASSUME Admitting' PROVE Newcomer'
    OBVIOUS
  <2>1. srv' = srv /\ Admitting /\ srv.c \in Conns
    BY <1>5 DEF Admitting, Types, Places
  <2> QED
    BY ZenonT(60), <2>1 DEF Links, Newcomer, SameTable, SameConns
<1>11. Closing' => \A j \in 1..Len(table') : j < srv'.i => ~Alive(table[j].id)'
  <2>1. CASE srv' = srv
    BY <1>1, <1>2, <2>1 DEF Links, Closing, SameTable
  <2>2. CASE srv'.i = 1
    BY SMTT(60), <2>2, LenProperties DEF Types, TableTypes
  <2> QED
    BY <1>4, <2>1, <2>2
<1>12. NotFreedInUse'
  BY SMTT(60), <1>1 DEF Links, NotFreedInUse, SameTable
<1>13. Len(table') <= MaxClients
  BY DEF Links, SameTable
<1>14. \A p, q \in 1..Len(pending') : pending'[p] = pending'[q] => p = q
  BY DEF Links
<1> QED
  BY <1>7, <1>8, <1>9, <1>10, <1>11, <1>12, <1>13, <1>14 DEF Links, Unlike
-----------------------------------------------------------------------------
(***************************************************************************)
(* The steps that change the links.                                        *)
(***************************************************************************)
\* A thread goes on, gives up its connection, or takes a restored one.
LEMMA ThreadKeeps ==
  ASSUME Types, Links, NEW t \in Conns, ThreadRuns(t)
  PROVE  Types' /\ Links'
<1>1. /\ conn' = conn /\ pending' = pending /\ open' = open /\ table' = table
      /\ srv' = srv /\ next' = next
  BY DEF ThreadRuns, serverVars
<1>2. ThreadTypes' /\ Stepped(t)
  BY ThreadStepTypes DEF Types, ThreadRuns
<1>3. TableTypes' /\ Places'
  BY <1>1 DEF Types, TableTypes, Places
<1>4. \A u \in Conns : Alive(u)' => Alive(u)
  BY <1>2 DEF Stepped, Alive
<1>5. ASSUME NEW i \in 1..Len(table) PROVE Linked(table[i])'
  <2>1. Linked(table[i]) /\ table[i].id \in Conns
    BY TableElement DEF Links, Types
  <2>2. CASE table[i].id # t
    BY <1>1, <1>2, <1>4, <2>1, <2>2 DEF Linked, Stepped, Closing
  <2>3. CASE table[i].id = t
    <3>1. CASE th'[t].st = "ended"
      BY <1>1, <2>1, <2>3, <3>1 DEF Linked, Alive, Closing
    <3>2. CASE info' = info /\ \/ th'[t].fd = th[t].fd
                               \/ info[t].status = 0 /\ th'[t].fd = info[t].fd
      BY <1>1, <1>4, <2>1, <2>3, <3>2 DEF Linked, Closing
    <3>3. CASE th'[t].fd = None /\ info'[t].status = 1
      BY SMTT(60), <1>1, <2>1, <2>3, <3>3 DEF Linked, Closing
    <3> QED
      BY <1>2, <3>1, <3>2, <3>3 DEF Stepped
  <2> QED
    BY <2>2, <2>3
<1>6. \A p \in 1..Len(pending) : Unseen(pending[p])'
  BY ZenonT(60), <1>1 DEF Links, Unseen, Admitting
<1>7. Admitting' => Newcomer'
  BY <1>1 DEF Links, Newcomer, Admitting
<1>8. Closing' => \A j \in 1..Len(table) : j < srv.i => ~Alive(table[j].id)'
  BY <1>1, <1>4, TableElement DEF Links, Closing, Types
<1>9. NotFreedInUse'
  BY <1>1, <1>4 DEF Links, NotFreedInUse
<1> QED
  BY ZenonT(60), <1>1, <1>2, <1>3, <1>5, <1>6, <1>7, <1>8, <1>9 DEF Types, Links, Unlike

\* A client connects.
LEMMA ConnectKeeps ==
  ASSUME Types, Links, NEW c \in Conns, NEW ip \in Ips, Connect(c, ip)
  PROVE  Types' /\ Links'
<1>1. /\ th' = th /\ info' = info /\ queue' = queue /\ qerr' = qerr /\ quit' = quit
      /\ open' = open /\ table' = table /\ srv' = srv /\ next' = next
      /\ pending' = Append(pending, c) /\ conn[c].st = "new"
  BY DEF Connect, threadVars, shared
<1> DEFINE x == [conn[c] EXCEPT !.st = "up", !.ip = ip]
<1>2. conn[c] \in Conn
  BY DEF Types, TableTypes
<1>3. conn' = [conn EXCEPT ![c] = x]
  BY ZenonT(60), <1>2 DEF Connect, Types, TableTypes, Conn
<1>4. x \in Conn /\ x.st = "up"
  BY ZenonT(60), <1>2 DEF Conn
<1> HIDE DEF x
<1>5. /\ conn' \in [Conns -> Conn] /\ conn'[c].st = "up"
      /\ \A d \in Conns : d # c => conn'[d] = conn[d]
  BY <1>3, <1>4 DEF Types, TableTypes
<1>6. /\ pending \in Seq(Conns) /\ Len(pending) \in Nat
      /\ pending' \in Seq(Conns) /\ Len(pending') = Len(pending) + 1
      /\ \A p \in 1..Len(pending) : pending'[p] = pending[p] /\ pending[p] \in Conns
      /\ pending'[Len(pending) + 1] = c
  <2>1. pending \in Seq(Conns) /\ Len(pending) \in Nat
    BY LenProperties DEF Types, TableTypes
  <2>2. \A p \in 1..Len(pending) : pending[p] \in Conns
    BY <2>1, ElementOfSeq
  <2>3. /\ pending' \in Seq(Conns) /\ Len(pending') = Len(pending) + 1
        /\ \A p \in 1..Len(pending) : pending'[p] = pending[p]
        /\ pending'[Len(pending) + 1] = c
    BY SMTT(60), <1>1, <2>1, AppendProperties
  <2> QED
    BY <2>1, <2>2, <2>3
<1>7. ThreadTypes' /\ TableTypes'
  BY <1>1, <1>5, <1>6 DEF Types, ThreadTypes, TableTypes
<1>8. Places'
  <2>1. pending' # <<>>
    BY SMTT(60), <1>6, EmptySeq
  <2> QED
    BY ZenonT(60), <1>1, <2>1 DEF Types, Places
<1>9. \A i \in 1..Len(table) :
        /\ table[i].id \in Conns /\ table[i].fd \in Conns \cup {None}
        /\ table[i].id # c /\ table[i].fd # c
  <2>1. c # None
    BY SMTT(60) DEF None, Conns
  <2> QED
    BY ZenonT(60), <1>1, <2>1, TableElement DEF Types, Links, Linked
<1>10. \A i \in 1..Len(table) : Linked(table[i])'
  BY ZenonT(60), <1>1, <1>5, <1>9 DEF Links, Linked, Closing, Alive
<1>11. Admitting' => Newcomer' /\ srv.c # c
  BY ZenonT(60), <1>1, <1>5 DEF Links, Newcomer, Admitting, Types, Places
<1>12. \A p \in 1..Len(pending) : pending[p] # c
  BY ZenonT(60), <1>1 DEF Links, Unseen
<1>13. ASSUME NEW p \in 1..Len(pending') PROVE Unseen(pending[p])'
  <2>1. CASE p \in 1..Len(pending)
    BY SMTT(60), <1>1, <1>5, <1>6, <1>12, <2>1 DEF Links, Unseen, Admitting
  <2>2. CASE p = Len(pending) + 1
    BY ZenonT(60), <1>1, <1>5, <1>6, <1>9, <1>11, <2>2 DEF Unseen
  <2> QED
    BY SMTT(60), <1>6, <2>1, <2>2
<1>14. \A p, q \in 1..Len(pending') : pending'[p] = pending'[q] => p = q
  <2>1. \A p \in 1..Len(pending') : p \in 1..Len(pending) \/ p = Len(pending) + 1
    BY SMTT(60), <1>6
  <2> QED
    BY ZenonT(60), <1>6, <1>12, <2>1 DEF Links
<1>15. Closing' => \A j \in 1..Len(table) : j < srv.i => ~Alive(table[j].id)'
  BY ZenonT(60), <1>1 DEF Links, Closing, Alive
<1>16. NotFreedInUse'
  BY <1>1 DEF Links, NotFreedInUse, Alive
<1> QED
  BY ZenonT(60), <1>1, <1>7, <1>8, <1>10, <1>11, <1>13, <1>14, <1>15, <1>16
  DEF Types, Links, Unlike

\* The connections to be accepted.
LEMMA PendingConn ==
  ASSUME TableTypes, NEW p \in 1..Len(pending)
  PROVE  pending[p] \in Conns /\ pending[p] # None
<1>1. pending[p] \in Conns
  BY ElementOfSeq DEF TableTypes
<1> QED
  BY SMTT(60), <1>1 DEF Conns, None

\* A connection is closed.
LEMMA CloseConn ==
  ASSUME TableTypes, NEW fd \in Conns \cup {None}, Close(fd)
  PROVE  /\ conn' \in [Conns -> Conn] /\ open' \subseteq Conns /\ open' = open \ {fd}
         /\ \A c \in Conns : /\ c # fd => conn'[c] = conn[c]
                             /\ conn[c].st # "new" => conn'[c].st # "new"
<1>1. NoConn("closed") \in Conn /\ NoConn("closed").st = "closed"
  BY SMTT(60), ServerAssumption DEF NoConn, Conn, Ips
<1>2. CASE fd = None
  BY <1>2 DEF Close, TableTypes
<1>3. CASE fd # None
  BY <1>1, <1>3 DEF Close, TableTypes
<1> QED
  BY <1>2, <1>3

\* The connection of a client whose thread could not write is closed.
LEMMA DirtyKeeps ==
  ASSUME Types, Links, process_dirty_connections
  PROVE  Types' /\ Links'
<1>1. /\ srv.i \in 1..Len(table) /\ srv.pc = "dirty" /\ "dirty" \in DOMAIN After
      /\ next \in 1 .. MaxProducts + 1
  BY ScanIndex DEF process_dirty_connections, Types, After, TableTypes
<1>2. CASE Skip
  <2>1. Idle
    BY <1>1, <1>2, NextMoves, StageMoves DEF Skip, Types
  <2> QED
    BY <2>1, IdleKeeps DEF Idle
<1>3. CASE /\ isnetclient_running(This) /\ info[This.id].status # 0 /\ This.fd # None
           /\ Close(This.fd)
           /\ table' = [table EXCEPT ![srv.i].fd = None]
           /\ NextElement
           /\ UNCHANGED <<th, shared, quit, owed, pending, next>>
  <2> DEFINE n == srv.i
             x == [table[n] EXCEPT !.fd = None]
  <2>1. /\ table[n] \in Element /\ table[n].id \in Conns
        /\ table[n].fd \in Conns \cup {None} /\ table \in Seq(Element)
    BY <1>1, TableElement DEF Types, TableTypes
  <2>2. /\ x \in Element /\ x.id = table[n].id /\ x.ip = table[n].ip /\ x.fd = None
    BY <2>1 DEF Element
  <2>3. table' = [table EXCEPT ![n] = x]
    BY <1>1, <1>3, <2>1, LenProperties DEF Element
  <2> HIDE DEF x
  <2>4. /\ table' \in Seq(Element) /\ Len(table') = Len(table)
        /\ \A i \in 1..Len(table) : table'[i] = IF i = n THEN x ELSE table[i]
    BY SMTT(60), <1>1, <2>1, <2>2, <2>3, ExceptSeq
  <2>5. /\ conn' \in [Conns -> Conn] /\ open' \subseteq Conns
        /\ open' = open \ {table[n].fd}
        /\ \A c \in Conns : /\ c # table[n].fd => conn'[c] = conn[c]
                            /\ conn[c].st # "new" => conn'[c].st # "new"
    BY <1>3, <2>1, CloseConn DEF Types, This
  <2>6. /\ srv' \in Srv /\ srv'.i >= 1
        /\ srv'.pc \in {"finished", "dirty", "events", "send",
                        "unidentified", "spawn", "queue", "loop"}
        /\ srv'.pc = "send" => srv'.data \in Products
    BY <1>1, <1>3, NextMoves DEF Types
  <2>7. /\ th' = th /\ info' = info /\ queue' = queue /\ qerr' = qerr /\ quit' = quit
        /\ pending' = pending /\ next' = next
    BY <1>3 DEF shared
  <2>8. Types'
    BY <2>4, <2>5, <2>6, <2>7 DEF Types, ThreadTypes, TableTypes, Places
  <2>9. ~Closing /\ ~Closing' /\ ~Admitting'
    BY <1>1, <2>6 DEF Closing, Admitting
  <2>10. ASSUME NEW i \in 1..Len(table) PROVE Linked(table[i])'
    <3>1. Linked(table[i]) /\ table[i].id \in Conns /\ table[i].fd \in Conns \cup {None}
      BY TableElement DEF Links, Types
    <3>2. CASE i = n
      <4>1. info[table[i].id].status # 0 /\ table'[i] = x
        BY <1>3, <2>4, <3>2 DEF This
      <4> QED
        BY <2>2, <2>5, <2>7, <3>1, <3>2, <4>1 DEF Linked, Alive
    <3>3. CASE i # n
      <4>1. table[i].fd = table[n].fd => table[i].fd = None
        BY <1>1, <3>3 DEF Links, Unlike
      <4>2. table'[i] = table[i]
        BY <2>4, <3>3
      <4>3. table[i].fd # None =>
              conn'[table[i].fd] = conn[table[i].fd]
              /\ (table[i].fd \in open => table[i].fd \in open')
        BY <2>5, <3>1, <4>1
      <4> QED
        BY <2>5, <2>7, <2>9, <3>1, <4>2, <4>3 DEF Linked, Alive
    <3> QED
      BY <3>2, <3>3
  <2>11. ASSUME NEW p \in 1..Len(pending) PROVE Unseen(pending[p])'
    <3>1. Unseen(pending[p]) /\ pending[p] \in Conns /\ pending[p] # None
      BY PendingConn DEF Links, Types
    <3> QED
      BY ZenonT(60), <1>1, <2>2, <2>4, <2>5, <2>7, <2>9, <3>1 DEF Unseen
  <2>12. \A i, j \in 1..Len(table) : i # j => Unlike(table'[i], table'[j])
    BY SMTT(60), <2>2, <2>4 DEF Links, Unlike
  <2>13. NotFreedInUse'
    BY SMTT(60), <2>2, <2>4, <2>7 DEF Links, NotFreedInUse, Alive
  <2> QED
    BY <2>4, <2>7, <2>8, <2>9, <2>10, <2>11, <2>12, <2>13 DEF Links, Unlike
<1> QED
  BY <1>2, <1>3 DEF process_dirty_connections

\* A thread is made for an element that has none.
LEMMA SpawnKeeps ==
  ASSUME Types, Links, spawn_client_threads
  PROVE  Types' /\ Links'
<1>1. ASSUME NEW n \in First(srv.i, NeedsThread),
             poll_del_connection(n, "spawn", n + 1)
      PROVE  Types' /\ Links'
  BY <1>1, SpawnFailsIdle, IdleKeeps DEF Idle
<1>2. ASSUME NEW n \in First(srv.i, NeedsThread),
             client_thread_create(table[n].id, table[n].fd),
             srv' = [srv EXCEPT !.i = n + 1]
      PROVE  Types' /\ Links'
  <2>1. n \in srv.i .. Len(table) /\ srv.pc = "spawn"
    BY <1>2 DEF First, spawn_client_threads
  <2>2. n \in 1..Len(table) /\ n + 1 \in Nat \ {0}
    BY <2>1, FirstIndex DEF Types
  <2> DEFINE t == table[n].id
             x == [NoThread EXCEPT !.st = "top", !.fd = table[n].fd]
             y == [NoInfo EXCEPT !.fd = table[n].fd]
  <2>3. t \in Conns /\ table[n].fd \in Conns \cup {None} /\ Retry \in Nat
    BY <2>2, TableElement, ThreadsAssumption DEF Types
  <2>4. x \in Thread /\ x.st = "top" /\ x.fd = table[n].fd
    <3>1. NoThread \in Thread
      BY SMTT(60), <2>3 DEF NoThread, Thread
    <3> QED
      BY ZenonT(60), <2>3, <3>1 DEF Thread
  <2>5. y \in ThreadInfo /\ y.status = 0 /\ y.fd = table[n].fd
    BY ZenonT(60), <2>3 DEF NoInfo, ThreadInfo
  <2>6. /\ th' = [th EXCEPT ![t] = x] /\ info' = [info EXCEPT ![t] = y]
        /\ queue' = queue /\ qerr' = qerr /\ quit' = quit
    BY <1>2 DEF client_thread_create
  <2> HIDE DEF x, y
  <2>7. /\ conn' = conn /\ pending' = pending /\ open' = open /\ table' = table
        /\ next' = next
    BY DEF spawn_client_threads
  <2>8. /\ srv' \in Srv /\ srv'.pc = "spawn" /\ srv'.i >= 1
    <3>1. srv \in Srv /\ srv.pc = "spawn" /\ n + 1 \in Nat /\ n + 1 >= 1
      BY SMTT(60), <2>1, <2>2 DEF Types, TableTypes
    <3>2. srv' \in Srv /\ srv'.pc = "spawn" /\ srv'.i = n + 1
      BY ZenonT(60), <1>2, <3>1 DEF Srv
    <3> QED
      BY <3>1, <3>2
  <2>9. ThreadTypes'
    <3>1. /\ th \in [Conns -> Thread] /\ info \in [Conns -> ThreadInfo]
          /\ \A u \in Conns : th[u].st = "wait" => th[u].count < Retry
      BY DEF Types, ThreadTypes
    <3>2. th' \in [Conns -> Thread] /\ info' \in [Conns -> ThreadInfo]
      BY <2>3, <2>4, <2>5, <2>6, <3>1
    <3>3. \A u \in Conns : th'[u].st = "wait" => th'[u].count < Retry
      BY <2>3, <2>4, <2>6, <3>1
    <3> QED
      BY <2>6, <3>2, <3>3 DEF Types, ThreadTypes
  <2>10. TableTypes' /\ Places'
    BY <2>7, <2>8 DEF Types, TableTypes, Places
  <2>11. ~Closing /\ ~Closing' /\ ~Admitting'
    BY <2>1, <2>8 DEF Closing, Admitting
  <2>12. ASSUME NEW i \in 1..Len(table) PROVE Linked(table[i])'
    <3>1. Linked(table[i]) /\ table[i].id \in Conns
      BY TableElement DEF Links, Types
    <3>2. CASE i = n
      <4>1. th'[t] = x /\ info'[t] = y
        BY <2>3, <2>6 DEF Types, ThreadTypes
      <4> QED
        BY <2>4, <2>5, <2>7, <2>11, <3>1, <3>2, <4>1 DEF Linked
    <3>3. CASE i # n
      <4>1. table[i].id # t
        BY <2>2, <3>3 DEF Links, Unlike
      <4>2. th'[table[i].id] = th[table[i].id] /\ info'[table[i].id] = info[table[i].id]
        BY <2>6, <3>1, <4>1 DEF Types, ThreadTypes
      <4> QED
        BY <2>7, <2>11, <3>1, <4>2 DEF Linked, Alive
    <3> QED
      BY <3>2, <3>3
  <2>13. \A p \in 1..Len(pending) : Unseen(pending[p])'
    BY <2>7, <2>11 DEF Links, Unseen
  <2>14. NotFreedInUse'
    <3>1. \A u \in Conns : u # t => th'[u] = th[u]
      BY <2>6 DEF Types, ThreadTypes
    <3> QED
      BY <2>2, <2>7, <3>1 DEF Links, NotFreedInUse, Alive
  <2> QED
    BY ZenonT(60), <2>7, <2>9, <2>10, <2>11, <2>12, <2>13, <2>14 DEF Types, Links, Unlike
<1> QED
  BY <1>1, <1>2 DEF spawn_client_threads

\* The first of the connections to be accepted is new to the table and to the
\* others.
LEMMA Accepted ==
  ASSUME Types, Links, Accepting
  PROVE  LET c == Head(pending)
         IN  /\ c \in Conns /\ c # None /\ Unseen(c)
             /\ pending' \in Seq(Conns)
             /\ \A p \in 1..Len(pending') :
                  pending'[p] \in Conns /\ Unseen(pending'[p]) /\ pending'[p] # c
             /\ \A p, q \in 1..Len(pending') : pending'[p] = pending'[q] => p = q
             /\ ~Closing /\ ~Admitting
<1>1. pending \in Seq(Conns) /\ pending # <<>> /\ pending' = Tail(pending)
  BY DEF Types, TableTypes, Places, Accepting
<1>2. /\ Len(pending) \in Nat /\ Len(pending) # 0 /\ Head(pending) = pending[1]
      /\ pending' \in Seq(Conns) /\ Len(pending') = Len(pending) - 1
      /\ \A p \in 1..Len(pending') : pending'[p] = pending[p + 1]
  BY SMTT(60), <1>1, HeadTailProperties, LenProperties, EmptySeq
<1>3. 1 \in 1..Len(pending)
      /\ \A p \in 1..Len(pending') : p + 1 \in 1..Len(pending) /\ p + 1 # 1
  BY SMTT(60), <1>2
<1>4. \A p \in 1..Len(pending) : pending[p] \in Conns /\ pending[p] # None
  BY PendingConn DEF Types
<1>5. \A p, q \in 1..Len(pending') : pending'[p] = pending'[q] => p = q
  <2> SUFFICES ASSUME NEW p \in 1..Len(pending'), NEW q \in 1..Len(pending'),
                      pending'[p] = pending'[q]
               PROVE  p = q
    OBVIOUS
  <2>1. p + 1 = q + 1
    BY <1>2, <1>3 DEF Links
  <2> QED
    BY SMTT(60), <1>2, <2>1
<1>6. ~Closing /\ ~Admitting
  BY DEF Closing, Admitting, Accepting
<1> QED
  BY ZenonT(60), <1>2, <1>3, <1>4, <1>5, <1>6 DEF Links

\* What stays linked when the threads and the table stay as they are.
LEMMA StillLinked ==
  ASSUME Types, Links, ~Closing, th' = th, info' = info, table' = table,
         open \subseteq open',
         \A i \in 1..Len(table) :
           /\ conn[table[i].id].st # "new" => conn'[table[i].id].st # "new"
           /\ table[i].fd # None => conn'[table[i].fd] = conn[table[i].fd]
  PROVE  /\ \A i \in 1..Len(table) : Linked(table[i])'
         /\ NotFreedInUse'
  BY ZenonT(60) DEF Links, Linked, NotFreedInUse, Alive

\* The client of the connection has gone, or has no element in the table.
LEMMA AcceptKeeps ==
  ASSUME Types, Links, AcceptAborted \/ NewClient
  PROVE  Types' /\ Links'
<1> DEFINE c == Head(pending)
<1>1. /\ c \in Conns /\ c # None /\ Unseen(c)
      /\ pending' \in Seq(Conns)
      /\ \A p \in 1..Len(pending') :
           pending'[p] \in Conns /\ Unseen(pending'[p]) /\ pending'[p] # c
      /\ \A p, q \in 1..Len(pending') : pending'[p] = pending'[q] => p = q
      /\ ~Closing /\ ~Admitting
  BY Accepted DEF AcceptAborted, NewClient
<1>2. /\ th' = th /\ info' = info /\ queue' = queue /\ qerr' = qerr /\ quit' = quit
      /\ table' = table /\ next' = next
  BY DEF AcceptAborted, NewClient, threadVars, shared
<1>3. ThreadTypes'
  BY <1>2 DEF Types, ThreadTypes
<1>4. \A i \in 1..Len(table) : /\ table[i].id \in Conns
                               /\ table[i].fd \in Conns \cup {None}
                               /\ table[i].id # c /\ table[i].fd # c
  BY <1>1, TableElement DEF Types, Unseen
<1> HIDE DEF c
<1>5. CASE AcceptAborted
  <2>1. /\ conn' = [conn EXCEPT ![c] = NoConn("closed")] /\ open' = open
        /\ srv' = At("queue")
    BY <1>5 DEF AcceptAborted, c
  <2>2. NoConn("closed") \in Conn /\ NoConn("closed").st = "closed"
        /\ "queue" \in Stages
    BY SMTT(60), ServerAssumption DEF NoConn, Conn, Ips, Stages
  <2>3. /\ conn' \in [Conns -> Conn]
        /\ \A d \in Conns : d # c => conn'[d] = conn[d]
    BY <1>1, <2>1, <2>2 DEF Types, TableTypes
  <2>4. srv' \in Srv /\ srv'.pc = "queue" /\ srv'.i = 1
    BY <2>1, <2>2, AtTypes
  <2>5. TableTypes' /\ Places'
    BY SMTT(60), <1>1, <1>2, <2>1, <2>3, <2>4 DEF Types, TableTypes, Places
  <2>6. (\A i \in 1..Len(table) : Linked(table[i])') /\ NotFreedInUse'
    BY ZenonT(60), <1>1, <1>2, <1>4, <2>1, <2>3, StillLinked
  <2>7. ~Admitting' /\ ~Closing'
    BY <2>4 DEF Admitting, Closing
  <2>8. \A p \in 1..Len(pending') : Unseen(pending[p])'
    BY ZenonT(60), <1>1, <1>2, <2>3, <2>7 DEF Unseen
  <2> QED
    BY ZenonT(60), <1>1, <1>2, <1>3, <2>5, <2>6, <2>7, <2>8 DEF Types, Links, Unlike
<1>6. CASE NewClient
  <2>1. /\ conn' = conn /\ open' = open \cup {c}
        /\ srv' = [At("admit") EXCEPT !.c = c]
        /\ \A i \in 1..Len(table) : table[i].ip # conn[c].ip
    BY <1>6 DEF NewClient, Found, c
  <2>2. srv' \in Srv /\ srv'.pc = "admit" /\ srv'.i = 1 /\ srv'.c = c
    BY <1>1, <2>1 DEF At, Srv, Stages
  <2>3. TableTypes' /\ Places'
    BY SMTT(60), <1>1, <1>2, <2>1, <2>2 DEF Types, TableTypes, Places
  <2>4. (\A i \in 1..Len(table) : Linked(table[i])') /\ NotFreedInUse'
    BY <1>1, <1>2, <2>1, StillLinked
  <2>5. ~Closing'
    BY <2>2 DEF Closing
  <2>6. \A p \in 1..Len(pending') : Unseen(pending[p])'
    BY <1>1, <1>2, <2>1, <2>2 DEF Unseen
  <2>7. Newcomer'
    BY SMTT(60), <1>1, <1>2, <1>4, <2>1, <2>2 DEF Newcomer, Unseen
  <2> QED
    BY ZenonT(60), <1>1, <1>2, <1>3, <2>3, <2>4, <2>5, <2>6, <2>7 DEF Types, Links, Unlike
<1> QED
  BY <1>5, <1>6

\* The element of the client is to be deleted first.
LEMMA ReplaceKeeps ==
  ASSUME Types, Links, ReplaceClient
  PROVE  Types' /\ Links'
<1> DEFINE c == Head(pending)
<1>1. /\ c \in Conns /\ c # None /\ Unseen(c)
      /\ pending' \in Seq(Conns)
      /\ \A p \in 1..Len(pending') :
           pending'[p] \in Conns /\ Unseen(pending'[p]) /\ pending'[p] # c
      /\ \A p, q \in 1..Len(pending') : pending'[p] = pending'[q] => p = q
      /\ ~Closing /\ ~Admitting
  BY Accepted DEF ReplaceClient
<1>2. PICK n \in 1..Len(table) :
        /\ table[n].ip = conn[c].ip
        /\ pthread_cancel(table[n].id)
        /\ srv' = [At("join") EXCEPT !.k = n, !.ret = "admit", !.c = c]
  BY ZenonT(60) DEF ReplaceClient, Found
<1>3. /\ table' = table /\ next' = next /\ conn' = conn /\ open' = open \cup {c}
  BY DEF ReplaceClient
<1> HIDE DEF c
<1>4. ThreadTypes' /\ SameThreads
  BY <1>2, TableElement, CancelSame DEF Types
<1>5. \A t \in Conns : Alive(t)' <=> Alive(t)
  BY <1>4 DEF SameThreads, Alive
<1>6. \A i \in 1..Len(table) : /\ table[i].id \in Conns
                               /\ table[i].fd \in Conns \cup {None}
                               /\ table[i].id # c /\ table[i].fd # c
                               /\ table[i].ip = conn[c].ip => i = n
  <2>1. \A i \in 1..Len(table) : i # n => table[i].ip # table[n].ip
    BY DEF Links, Unlike
  <2> QED
    BY <1>1, <1>2, <2>1, TableElement DEF Types, Unseen
<1>7. /\ srv' \in Srv /\ srv'.pc = "join" /\ srv'.k = n /\ srv'.ret = "admit"
      /\ srv'.i = 1 /\ srv'.c = c
  <2>1. n \in Nat
    BY <1>2, TableElement DEF Types
  <2> QED
    BY ZenonT(60), <1>1, <1>2, <2>1 DEF At, Srv, Stages
<1>8. TableTypes' /\ Places'
  BY SMTT(60), <1>1, <1>2, <1>3, <1>7 DEF Types, TableTypes, Places, Deleting
<1>9. \A i \in 1..Len(table) : Linked(table[i])'
  BY ZenonT(60), <1>1, <1>3, <1>4, <1>5, <1>6 DEF Links, Linked, SameThreads
<1>10. NotFreedInUse'
  BY <1>3, <1>5 DEF Links, NotFreedInUse
<1>11. \A p \in 1..Len(pending') : Unseen(pending[p])'
  BY ZenonT(60), <1>1, <1>3, <1>7 DEF Unseen
<1>12. Newcomer'
  BY ZenonT(60), <1>1, <1>3, <1>6, <1>7 DEF Newcomer, Unseen
<1>13. ~Closing'
  BY <1>7 DEF Closing
<1> QED
  BY ZenonT(60), <1>1, <1>3, <1>4, <1>8, <1>9, <1>10, <1>11, <1>12, <1>13
  DEF Types, Links, Unlike

\* The client's element gets the new connection, for its thread to find.
LEMMA RestoreKeeps ==
  ASSUME Types, Links, poll_restore_connection
  PROVE  Types' /\ Links'
<1> DEFINE c == Head(pending)
<1>1. /\ c \in Conns /\ c # None /\ Unseen(c)
      /\ pending' \in Seq(Conns)
      /\ \A p \in 1..Len(pending') :
           pending'[p] \in Conns /\ Unseen(pending'[p]) /\ pending'[p] # c
      /\ \A p, q \in 1..Len(pending') : pending'[p] = pending'[q] => p = q
      /\ ~Closing /\ ~Admitting
  BY Accepted DEF poll_restore_connection
<1>2. PICK n \in 1..Len(table) :
        /\ table[n].ip = conn[c].ip /\ info[table[n].id].status = 1
        /\ set_connection_status(table[n].id, c)
        /\ table' = [table EXCEPT ![n].fd = c]
  BY ZenonT(60) DEF poll_restore_connection, Found
<1>3. /\ next' = next /\ conn' = conn /\ open' = open \cup {c} /\ srv' = At("events")
  BY DEF poll_restore_connection
<1> HIDE DEF c
<1> DEFINE t == table[n].id
           x == [table[n] EXCEPT !.fd = c]
           y == [info[t] EXCEPT !.status = 0, !.fd = c]
<1>4. table[n] \in Element /\ t \in Conns /\ table \in Seq(Element)
      /\ info[t] \in ThreadInfo
  BY TableElement DEF Types, TableTypes, ThreadTypes
<1>5. x \in Element /\ x.id = t /\ x.ip = table[n].ip /\ x.fd = c
  BY <1>1, <1>4 DEF Element
<1>6. y \in ThreadInfo /\ y.status = 0 /\ y.fd = c
  BY ZenonT(60), <1>1, <1>4 DEF ThreadInfo
<1>7. table' = [table EXCEPT ![n] = x]
  BY <1>2, <1>4, LenProperties DEF Element
<1>8. /\ th' = th /\ queue' = queue /\ qerr' = qerr /\ quit' = quit
      /\ info' = [info EXCEPT ![t] = y]
  BY ZenonT(60), <1>2, <1>4 DEF set_connection_status, Types, ThreadTypes, ThreadInfo
<1> HIDE DEF x, y
<1>9. /\ table' \in Seq(Element) /\ Len(table') = Len(table)
      /\ \A i \in 1..Len(table) : table'[i] = IF i = n THEN x ELSE table[i]
  BY SMTT(60), <1>4, <1>5, <1>7, ExceptSeq
<1>10. /\ info' \in [Conns -> ThreadInfo] /\ info'[t] = y
       /\ \A u \in Conns : u # t => info'[u] = info[u]
  BY <1>4, <1>6, <1>8 DEF Types, ThreadTypes
<1>11. srv' \in Srv /\ srv'.pc = "events" /\ srv'.i = 1
  BY <1>3, AtTypes DEF Stages
<1>12. ThreadTypes' /\ TableTypes' /\ Places'
  <2>1. ThreadTypes'
    BY <1>8, <1>10 DEF Types, ThreadTypes
  <2>2. TableTypes'
    BY <1>1, <1>3, <1>9, <1>11 DEF Types, TableTypes
  <2>3. Places'
    BY SMTT(60), <1>11 DEF Places
  <2> QED
    BY <2>1, <2>2, <2>3
<1>13. ~Closing' /\ ~Admitting'
  BY <1>11 DEF Closing, Admitting
<1>14. \A i \in 1..Len(table) : /\ table[i].id \in Conns
                                /\ table[i].fd \in Conns \cup {None}
                                /\ table[i].id # c /\ table[i].fd # c
                                /\ i # n => table[i].id # t
  <2>1. \A i \in 1..Len(table) : i # n => table[i].id # t
    BY DEF Links, Unlike
  <2> QED
    BY <1>1, <2>1, TableElement DEF Types, Unseen
<1>15. ASSUME NEW i \in 1..Len(table) PROVE Linked(table[i])'
  <2>1. Linked(table[i])
    BY DEF Links
  <2>2. CASE i = n
    <3>1. Alive(t) => th[t].fd = None
      BY SMTT(60), <1>2, <2>1, <2>2 DEF Linked
    <3> QED
      BY SMTT(60), <1>1, <1>2, <1>3, <1>5, <1>6, <1>8, <1>9, <1>10, <2>1, <2>2, <3>1
      DEF Linked, Alive, Unseen
  <2>3. CASE i # n
    BY ZenonT(60), <1>1, <1>3, <1>8, <1>9, <1>10, <1>14, <2>1, <2>3 DEF Linked, Alive
  <2> QED
    BY <2>2, <2>3
<1>16. \A i, j \in 1..Len(table) : i # j => Unlike(table'[i], table'[j])
  BY SMTT(60), <1>5, <1>9, <1>14 DEF Links, Unlike
<1>17. ASSUME NEW p \in 1..Len(pending') PROVE Unseen(pending[p])'
  <2>1. Unseen(pending'[p]) /\ pending'[p] # c
    BY <1>1
  <2>2. \A i \in 1..Len(table) :
          table'[i].id = table[i].id /\ table'[i].fd \in {table[i].fd, c}
    BY <1>5, <1>9
  <2>3. \A i \in 1..Len(table') : /\ table'[i].id # pending'[p]
                                  /\ table'[i].fd # pending'[p]
    BY <1>9, <2>1, <2>2 DEF Unseen
  <2> QED
    BY <1>3, <1>13, <2>1, <2>3 DEF Unseen
<1>18. NotFreedInUse'
  <2>1. \A i \in 1..Len(table) : table'[i].id = table[i].id
    BY <1>5, <1>9
  <2>2. \A u \in Conns : Alive(u)' <=> Alive(u)
    BY <1>8 DEF Alive
  <2> QED
    BY <1>9, <2>1, <2>2 DEF Links, NotFreedInUse
<1> QED
  BY ZenonT(60), <1>1, <1>9, <1>12, <1>13, <1>15, <1>16, <1>17, <1>18 DEF Types, Links, Unlike

\* The connection that was accepted is refused, or gets an element.
LEMMA AdmitKeeps ==
  ASSUME Types, Links, Refused \/ conn_table_add_element
  PROVE  Types' /\ Links'
<1> DEFINE c == srv.c
<1>1. srv.pc = "admit" /\ Admitting /\ ~Closing /\ c \in Conns /\ Newcomer /\ c # None
  BY SMTT(60) DEF Refused, conn_table_add_element, Admitting, Closing, Types, Places, Links,
         Conns, None
<1>2. \A i \in 1..Len(table) : /\ table[i].id \in Conns
                               /\ table[i].fd \in Conns \cup {None}
                               /\ table[i].id # c /\ table[i].fd # c
                               /\ table[i].ip # conn[c].ip
  BY <1>1, TableElement DEF Types, Newcomer
<1>3. /\ th' = th /\ info' = info /\ queue' = queue /\ qerr' = qerr /\ quit' = quit
      /\ pending' = pending /\ next' = next
  BY DEF Refused, conn_table_add_element, threadVars, shared
<1>4. ThreadTypes'
  BY <1>3 DEF Types, ThreadTypes
<1>5. \A p \in 1..Len(pending) : /\ pending[p] \in Conns /\ pending[p] # c
                                 /\ Unseen(pending[p])
  BY ZenonT(60), <1>1, PendingConn DEF Types, Links, Unseen
<1> HIDE DEF c
<1>6. CASE Refused
  <2>1. /\ conn' \in [Conns -> Conn] /\ open' \subseteq Conns /\ open' = open \ {c}
        /\ \A d \in Conns : /\ d # c => conn'[d] = conn[d]
                            /\ conn[d].st # "new" => conn'[d].st # "new"
    BY ZenonT(60), <1>1, <1>6, CloseConn DEF Refused, Types, c
  <2>2. table' = table /\ srv' = At("queue") /\ "queue" \in Stages
    BY <1>6 DEF Refused, Stages
  <2>3. srv' \in Srv /\ srv'.pc = "queue" /\ srv'.i = 1
    BY <2>2, AtTypes
  <2>4. TableTypes' /\ Places'
    BY SMTT(60), <1>3, <2>1, <2>2, <2>3 DEF Types, TableTypes, Places
  <2>5. ~Closing' /\ ~Admitting'
    BY <2>3 DEF Closing, Admitting
  <2>6. \A i \in 1..Len(table) : Linked(table[i])'
    BY ZenonT(60), <1>1, <1>2, <1>3, <2>1, <2>2 DEF Links, Linked, Alive
  <2>7. \A p \in 1..Len(pending) : Unseen(pending[p])'
    BY ZenonT(60), <1>3, <1>5, <2>1, <2>2, <2>5 DEF Unseen
  <2>8. NotFreedInUse'
    BY ZenonT(60), <1>3, <2>2 DEF Links, NotFreedInUse, Alive
  <2> QED
    BY ZenonT(60), <1>3, <1>4, <2>2, <2>4, <2>5, <2>6, <2>7, <2>8 DEF Types, Links, Unlike
<1>7. CASE conn_table_add_element
  <2> DEFINE x == [id |-> c, ip |-> conn[c].ip, fd |-> c,
                   identified |-> FALSE, revents |-> "none"]
  <2>1. /\ table' = Append(table, x) /\ srv' = At("events") /\ conn' = conn
        /\ open' = open /\ Len(table) # MaxClients /\ "events" \in Stages
    BY <1>7 DEF conn_table_add_element, c, Stages
  <2>2. conn[c] \in Conn
    BY <1>1 DEF Types, TableTypes, c
  <2>3. /\ x \in Element /\ x.id = c /\ x.ip = conn[c].ip /\ x.fd = c
    BY <1>1, <2>2 DEF Element, Conn, c
  <2> HIDE DEF x
  <2> DEFINE n == Len(table) + 1
  <2>4. /\ Len(table) \in Nat /\ table' \in Seq(Element) /\ Len(table') = n
        /\ \A i \in 1..Len(table) : table'[i] = table[i]
        /\ table'[n] = x
        /\ \A i \in 1..n : i \in 1..Len(table) \/ i = n
        /\ 1..Len(table) \subseteq 1..n /\ n \in 1..n
    BY SMTT(60), <2>1, <2>3, AppendProperties, LenProperties DEF Types, TableTypes
  <2> HIDE DEF n
  <2>5. srv' \in Srv /\ srv'.pc = "events" /\ srv'.i = 1
    BY <2>1, AtTypes
  <2>6. TableTypes' /\ Places'
    BY SMTT(60), <1>3, <2>1, <2>4, <2>5 DEF Types, TableTypes, Places
  <2>7. ~Closing' /\ ~Admitting'
    BY <2>5 DEF Closing, Admitting
  <2>8. \A i \in 1..Len(table) : Linked(table[i])
    BY DEF Links
  <2>9. ~Alive(c) /\ conn[c].st # "new"
    BY <1>1, <1>2 DEF Links, NotFreedInUse, Newcomer, c
  <2>10. ASSUME NEW i \in 1..n PROVE Linked(table[i])'
    <3>1. CASE i \in 1..Len(table)
      BY ZenonT(60), <1>1, <1>3, <2>1, <2>4, <2>8, <3>1 DEF Linked, Alive
    <3>2. CASE i = n
      <4>1. c \in open
        BY <1>1 DEF Newcomer, c
      <4> QED
        BY ZenonT(60), <1>3, <2>1, <2>3, <2>4, <2>9, <3>2, <4>1 DEF Linked, Alive
    <3> QED
      BY <2>4, <3>1, <3>2
  <2>11. ASSUME NEW i \in 1..n, NEW j \in 1..n, i # j
         PROVE  Unlike(table'[i], table'[j])
    <3>1. CASE i \in 1..Len(table) /\ j \in 1..Len(table)
      BY ZenonT(60), <2>4, <2>11, <3>1 DEF Links, Unlike
    <3>2. CASE i \in 1..Len(table) /\ j = n
      BY <1>2, <2>3, <2>4, <3>2 DEF Unlike
    <3>3. CASE i = n /\ j \in 1..Len(table)
      BY <1>2, <2>3, <2>4, <3>3 DEF Unlike
    <3> QED
      BY ZenonT(60), <2>4, <2>11, <3>1, <3>2, <3>3
  <2>12. ASSUME NEW p \in 1..Len(pending) PROVE Unseen(pending[p])'
    <3>1. Unseen(pending[p]) /\ pending[p] # c
      BY <1>5
    <3>2. \A i \in 1..n : table'[i].id # pending[p] /\ table'[i].fd # pending[p]
      BY <2>3, <2>4, <3>1 DEF Unseen
    <3> QED
      BY <1>3, <2>1, <2>4, <2>7, <3>1, <3>2 DEF Unseen
  <2>13. NotFreedInUse'
    BY ZenonT(60), <1>3, <2>4 DEF Links, NotFreedInUse, Alive
  <2>14. Len(table') <= MaxClients
    <3>1. Len(table) <= MaxClients /\ MaxClients \in Nat
      BY ServerAssumption DEF Links
    <3> QED
      BY SMTT(60), <2>1, <2>4, <3>1 DEF n
  <2> QED
    BY ZenonT(60), <1>3, <1>4, <2>4, <2>6, <2>7, <2>10, <2>11, <2>12, <2>13, <2>14
    DEF Types, Links, Unlike
<1> QED
  BY <1>6, <1>7

\* conn_element_release() keeps the types of what the threads share.
LEMMA FreedTypes ==
  ASSUME ThreadTypes, NEW t \in Conns, Freed(t)
  PROVE  /\ ThreadTypes' /\ th' = th
         /\ \A u \in Conns : u # t => info'[u] = info[u]
<1>1. NoInfo \in ThreadInfo /\ <<>> \in Seq(Products)
  BY EmptySeq DEF NoInfo, ThreadInfo
<1>2. /\ info' = [info EXCEPT ![t] = NoInfo] /\ queue' = [queue EXCEPT ![t] = <<>>]
      /\ qerr' = [qerr EXCEPT ![t] = FALSE] /\ th' = th /\ quit' = quit
  BY DEF Freed
<1> QED
  BY <1>1, <1>2 DEF ThreadTypes

\* An element is deleted once its thread has ended.
LEMMA DeleteKeeps ==
  ASSUME Types, Links, conn_table_del_element
  PROVE  Types' /\ Links'
<1> DEFINE k == srv.k
           fd == table[k].fd
           Old(j) == IF j < k THEN j ELSE j + 1
<1>1. /\ srv.pc = "join" /\ ~Alive(table[k].id) /\ Freed(table[k].id) /\ Close(fd)
      /\ table' = RemoveAt(table, k)
      /\ srv' = [srv EXCEPT !.pc = srv.ret, !.k = 0, !.ret = "loop"]
      /\ pending' = pending /\ next' = next
  BY DEF conn_table_del_element
<1>2. /\ k \in 1..Len(table) /\ srv.ret \in Deleting /\ srv \in Srv
      /\ table \in Seq(Element) /\ Len(table) \in Nat
  BY <1>1, LenProperties DEF Types, Places, TableTypes
<1>3. table[k].id \in Conns /\ fd \in Conns \cup {None}
  BY <1>2, TableElement DEF Types
<1>4. /\ conn' \in [Conns -> Conn] /\ open' \subseteq Conns /\ open' = open \ {fd}
      /\ \A c \in Conns : /\ c # fd => conn'[c] = conn[c]
                          /\ conn[c].st # "new" => conn'[c].st # "new"
  BY <1>1, <1>3, CloseConn DEF Types
<1>5. /\ ThreadTypes' /\ th' = th
      /\ \A u \in Conns : u # table[k].id => info'[u] = info[u]
  BY <1>1, <1>3, FreedTypes DEF Types
<1>6. /\ table' \in Seq(Element) /\ Len(table') = Len(table) - 1
      /\ \A j \in 1..Len(table') : table'[j] = IF j < k THEN table[j] ELSE table[j + 1]
  BY <1>1, <1>2, Removed
<1>7. \A j \in 1..Len(table') :
        Old(j) \in 1..Len(table) /\ Old(j) # k /\ table'[j] = table[Old(j)]
  BY SMTT(60), <1>2, <1>6
<1>8. \A i, j \in 1..Len(table') : i # j => Old(i) # Old(j)
  BY SMTT(60), <1>2, <1>6
<1>9. \A i \in 1..Len(table) : i # k =>
        \E j \in 1..Len(table') : table'[j] = table[i]
  <2> SUFFICES ASSUME NEW i \in 1..Len(table), i # k
               PROVE  \E j \in 1..Len(table') : table'[j] = table[i]
    OBVIOUS
  <2>1. CASE i < k
    BY SMTT(60), <1>2, <1>6, <2>1
  <2>2. CASE i > k
    <3>1. i - 1 \in 1..Len(table') /\ ~(i - 1 < k) /\ (i - 1) + 1 = i
      BY SMTT(60), <1>2, <1>6, <2>2
    <3> QED
      BY <1>6, <3>1
  <2> QED
    BY SMTT(60), <1>2, <2>1, <2>2
<1>10. /\ srv' \in Srv /\ srv'.pc = srv.ret /\ srv'.i = srv.i /\ srv'.c = srv.c
  <2>1. srv.ret \in Stages /\ "loop" \in Stages
    BY <1>2, SrvFields DEF Stages
  <2> QED
    BY ZenonT(60), <1>1, <1>2, <2>1 DEF Srv
<1>11. TableTypes'
  BY <1>1, <1>4, <1>6, <1>10 DEF Types, TableTypes
<1>12. Places'
  BY <1>1, <1>2, <1>10 DEF Types, Places, Deleting
<1>13. ~Closing /\ ~Closing' /\ (Admitting' <=> Admitting) /\ srv'.pc # "join"
  BY <1>1, <1>2, <1>10 DEF Closing, Admitting, Deleting
<1> HIDE DEF Old
<1>14. ASSUME NEW i \in 1..Len(table), i # k
       PROVE  /\ Linked(table[i]) /\ table[i].id \in Conns
              /\ table[i].fd \in Conns \cup {None}
              /\ table[i].id # table[k].id /\ table[i].ip # table[k].ip
              /\ table[i].fd = fd => table[i].fd = None
  BY <1>2, <1>14, TableElement DEF Types, Links, Unlike
<1> HIDE DEF k, fd
<1>15. ASSUME NEW j \in 1..Len(table') PROVE Linked(table[j])'
  <2> DEFINE i == Old(j)
  <2>1. i \in 1..Len(table) /\ i # k /\ table'[j] = table[i]
    BY <1>7
  <2> HIDE DEF i
  <2>2. /\ Linked(table[i]) /\ table[i].id \in Conns
        /\ table[i].fd \in Conns \cup {None} /\ table[i].id # table[k].id
        /\ table[i].fd = fd => table[i].fd = None
    BY ZenonT(60), <1>14, <2>1
  <2>3. table[i].fd # None => /\ conn'[table[i].fd] = conn[table[i].fd]
                              /\ table[i].fd \in open => table[i].fd \in open'
    BY <1>4, <2>2
  <2>4. info'[table[i].id] = info[table[i].id]
    BY <1>5, <2>2
  <2> QED
    BY ZenonT(60), <1>4, <1>5, <1>13, <2>1, <2>2, <2>3, <2>4 DEF Linked, Alive
<1>16. \A i, j \in 1..Len(table') : i # j => Unlike(table'[i], table'[j])
  BY <1>7, <1>8 DEF Links
<1>17. ASSUME NEW p \in 1..Len(pending') PROVE Unseen(pending[p])'
  <2>1. Unseen(pending[p]) /\ pending[p] \in Conns /\ pending'[p] = pending[p]
    BY <1>1, <1>17, PendingConn DEF Types, Links
  <2> QED
    BY <1>4, <1>7, <1>10, <1>13, <2>1 DEF Unseen
<1>18. Admitting' => Newcomer'
  <2> SUFFICES ASSUME Admitting PROVE Newcomer'
    BY <1>13
  <2>1. Newcomer /\ srv.c \in Conns
    BY DEF Links, Types, Places, Admitting
  <2>2. srv.c # fd
    BY <1>2, <2>1 DEF Newcomer, fd, k
  <2>3. conn'[srv.c] = conn[srv.c] /\ srv.c \in open'
    BY <1>4, <2>1, <2>2 DEF Newcomer
  <2>4. \A i \in 1..Len(table) : i # k =>
          table[i].id # srv.c /\ table[i].fd # srv.c /\ table[i].ip # conn[srv.c].ip
    BY <2>1 DEF Newcomer, k
  <2> QED
    BY <1>7, <1>10, <2>1, <2>3, <2>4 DEF Newcomer
<1>19. NotFreedInUse'
  <2> SUFFICES ASSUME NEW t \in Conns, Alive(t)'
               PROVE  \E j \in 1..Len(table') : table'[j].id = t
    BY DEF NotFreedInUse
  <2>1. Alive(t)
    BY <1>5 DEF Alive
  <2>2. PICK i \in 1..Len(table) : table[i].id = t
    BY <2>1 DEF Links, NotFreedInUse
  <2>3. i # k
    BY <1>1, <2>1, <2>2 DEF k
  <2> QED
    BY <1>9, <2>2, <2>3
<1>20. Len(table') <= MaxClients
  <2>1. Len(table) <= MaxClients /\ MaxClients \in Nat
    BY ServerAssumption DEF Links
  <2> QED
    BY SMTT(60), <1>2, <1>6, <2>1
<1> QED
  BY <1>1, <1>5, <1>11, <1>12, <1>13, <1>15, <1>16, <1>17, <1>18, <1>19, <1>20
  DEF Types, Links, Unlike

\* At the end each connection is closed and its thread is stopped and joined.
LEMMA DestroyKeeps ==
  ASSUME Types, Links, conn_table_destroy \/ Destroyed
  PROVE  Types' /\ Links'
<1>1. /\ srv.i \in 1..Len(table) /\ Len(table) \in Nat /\ srv.i + 1 \in Nat
      /\ Closing /\ ~Admitting
  <2>1. srv.i \in Nat /\ Len(table) \in Nat
    BY SrvFields, LenProperties DEF Types, TableTypes
  <2> QED
    BY SMTT(60), <2>1
    DEF conn_table_destroy, Scanning, Destroyed, Types, Places, Closing, Admitting
<1>2. /\ This.id \in Conns /\ This.fd \in Conns \cup {None} /\ srv \in Srv
  BY <1>1, TableElement DEF Types, TableTypes, This
<1>3. pending' = pending /\ next' = next /\ table' = table
  BY DEF conn_table_destroy, Destroyed
<1>4. /\ conn' \in [Conns -> Conn] /\ open' \subseteq Conns
      /\ \A c \in Conns : conn[c].st # "new" => conn'[c].st # "new"
  <2>1. CASE conn_table_destroy
    BY <1>2, <2>1, CloseConn DEF conn_table_destroy, Types
  <2>2. CASE Destroyed
    BY <2>2 DEF Destroyed, Types, TableTypes
  <2> QED
    BY <2>1, <2>2
<1>5. /\ ThreadTypes'
      /\ \A u \in Conns : /\ Alive(u)' <=> Alive(u)
                          /\ th'[u].fd = th[u].fd
                          /\ Alive(u) => info'[u] = info[u]
  <2>1. CASE conn_table_destroy
    <3>1. ThreadTypes' /\ SameThreads
      BY <1>2, <2>1, CancelSame DEF conn_table_destroy, Types
    <3> QED
      BY <3>1 DEF SameThreads, Alive
  <2>2. CASE Destroyed
    <3>1. /\ ThreadTypes' /\ th' = th /\ ~Alive(This.id)
          /\ \A u \in Conns : u # This.id => info'[u] = info[u]
      BY <1>2, <2>2, FreedTypes DEF Destroyed, Types
    <3> QED
      BY <3>1 DEF Alive
  <2> QED
    BY ZenonT(60), <2>1, <2>2
<1>6. /\ srv' \in Srv /\ srv'.i >= 1 /\ Closing' /\ ~Admitting'
      /\ srv'.pc = "destroy_join" => srv'.i <= Len(table)
      /\ srv'.pc \in {"destroy", "destroy_join"}
  <2>1. CASE conn_table_destroy
    <3>1. srv' \in Srv /\ srv'.i = srv.i /\ srv'.pc = "destroy_join"
      BY <1>2, <2>1 DEF conn_table_destroy, Srv, Stages
    <3> QED
      BY SMTT(60), <1>1, <3>1 DEF Closing, Admitting
  <2>2. CASE Destroyed
    <3>1. srv' \in Srv /\ srv'.i = srv.i + 1 /\ srv'.pc = "destroy"
      BY ZenonT(60), <1>1, <1>2, <2>2 DEF Destroyed, Srv, Stages
    <3> QED
      BY SMTT(60), <1>1, <3>1 DEF Closing, Admitting
  <2> QED
    BY <2>1, <2>2
<1>7. TableTypes' /\ Places'
  BY <1>3, <1>4, <1>6 DEF Types, TableTypes, Places
<1>8. \A j \in 1..Len(table) : j < srv'.i => ~Alive(table[j].id)
  <2>1. \A j \in 1..Len(table) : j < srv.i => ~Alive(table[j].id)
    BY <1>1 DEF Links
  <2>2. CASE conn_table_destroy
    <3>1. srv'.i = srv.i
      BY <1>2, <2>2 DEF conn_table_destroy, Srv
    <3> QED
      BY <2>1, <3>1
  <2>3. CASE Destroyed
    <3>1. srv'.i = srv.i + 1 /\ ~Alive(table[srv.i].id)
      BY <1>2, <2>3 DEF Destroyed, Srv, This
    <3>2. \A j \in 1..Len(table) : j < srv'.i => j < srv.i \/ j = srv.i
      BY SMTT(60), <1>1, <3>1
    <3> QED
      BY <2>1, <3>1, <3>2
  <2> QED
    BY <2>2, <2>3
<1>9. \A i \in 1..Len(table) : Linked(table[i])'
  <2> SUFFICES ASSUME NEW i \in 1..Len(table) PROVE Linked(table[i])'
    OBVIOUS
  <2>1. /\ Linked(table[i]) /\ table[i].id \in Conns
        /\ table[i].fd \in Conns \cup {None}
    BY ZenonT(60), TableElement DEF Links, Types
  <2> QED
    BY ZenonT(60), <1>3, <1>4, <1>5, <1>6, <2>1 DEF Linked
<1>10. \A p \in 1..Len(pending) : Unseen(pending[p])'
  BY ZenonT(60), <1>3, <1>4, <1>6, PendingConn DEF Links, Unseen, Types
<1>11. NotFreedInUse'
  BY ZenonT(60), <1>3, <1>5 DEF Links, NotFreedInUse
<1>12. Closing' => \A j \in 1..Len(table') : j < srv'.i => ~Alive(table[j].id)'
  <2>1. \A j \in 1..Len(table) : table[j].id \in Conns
    BY TableElement DEF Types
  <2>2. ASSUME NEW j \in 1..Len(table), j < srv'.i PROVE ~Alive(table[j].id)'
    <3>1. table'[j].id = table[j].id /\ ~Alive(table[j].id)
      BY <1>3, <1>8, <2>2
    <3> QED
      BY <1>3, <1>5, <2>1, <3>1 DEF Alive
  <2> QED
    BY <1>3, <2>2
<1>13. /\ \A j, l \in 1..Len(table) : j # l => Unlike(table[j], table[l])'
       /\ \A j \in 1..Len(table) : Linked(table[j])'
       /\ \A p, q \in 1..Len(pending) : pending[p] = pending[q] => p = q
  BY ZenonT(60), <1>3, <1>9 DEF Links, Unlike
<1> QED
  BY ZenonT(60), <1>3, <1>5, <1>6, <1>7, <1>10, <1>11, <1>12, <1>13 DEF Types, Links

\* The table is freed when the last thread has been joined.
LEMMA CloseServerKeeps ==
  ASSUME Types, Links, close_server
  PROVE  Types' /\ Links'
<1>1. /\ th' = th /\ info' = info /\ queue' = queue /\ qerr' = qerr /\ quit' = quit
      /\ conn' = conn /\ pending' = pending /\ open' = open /\ next' = next
      /\ table' = <<>> /\ srv' = At("done") /\ "done" \in Stages
  BY DEF close_server, threadVars, shared, Stages
<1>2. srv' \in Srv /\ srv'.pc = "done" /\ srv'.i = 1
  BY <1>1, AtTypes
<1>3. table' \in Seq(Element) /\ Len(table') = 0
  BY <1>1, EmptySeq
<1>4. ThreadTypes' /\ TableTypes' /\ Places'
  BY SMTT(60), <1>1, <1>2, <1>3 DEF Types, ThreadTypes, TableTypes, Places
<1>5. \A t \in Conns : ~Alive(t)
  <2>1. srv.i \in Nat /\ Len(table) \in Nat /\ srv.i > Len(table) /\ Closing
    BY SrvFields, LenProperties DEF Types, TableTypes, close_server, Closing
  <2>2. \A j \in 1..Len(table) : ~Alive(table[j].id)
    BY SMTT(60), <2>1 DEF Links
  <2> QED
    BY <2>2 DEF Links, NotFreedInUse
<1>6. NotFreedInUse'
  BY <1>1, <1>5 DEF NotFreedInUse, Alive
<1>7. ~Closing' /\ ~Admitting'
  BY <1>2 DEF Closing, Admitting
<1>8. \A p \in 1..Len(pending) : Unseen(pending[p])'
  <2>1. \A i \in 1..Len(table') : FALSE
    BY SMTT(60), <1>3
  <2> QED
    BY ZenonT(60), <1>1, <1>7, <2>1 DEF Links, Unseen
<1>9. Len(table') <= MaxClients
  BY SMTT(60), <1>3, ServerAssumption
<1> QED
  BY SMTT(60), <1>1, <1>3, <1>4, <1>6, <1>7, <1>8, <1>9 DEF Types, Links

\* Every step keeps the types and the links.
LEMMA LinksNext == Types /\ Links /\ [Next]_vars => Types' /\ Links'
<1> SUFFICES ASSUME Types, Links, [Next]_vars PROVE Types' /\ Links'
  OBVIOUS
<1>1. CASE Idle
  BY <1>1, IdleKeeps DEF Idle
<1>2. CASE ServerStep
  BY <1>1, <1>2, ScansIdle, DeletionsIdle, UnidentifiedIdle, PollIdle, PassFailsIdle,
     HandleIdle, SendIdle, DirtyKeeps, SpawnKeeps, AcceptKeeps, ReplaceKeeps, RestoreKeeps,
     AdmitKeeps, DeleteKeeps, DestroyKeeps, CloseServerKeeps
  DEF ServerStep, process_connections
<1>3. CASE \E t \in Conns : ThreadRuns(t)
  BY <1>3, ThreadKeeps
<1>4. CASE \E c \in Conns : \E ip \in Ips : Connect(c, ip)
  BY <1>4, ConnectKeeps
<1>5. CASE \/ \E c \in Conns : Hangup(c)
           \/ \E c \in Conns, m \in Messages : Say(c, m)
           \/ set_quit_flag \/ UNCHANGED vars
  BY <1>1, <1>5, ClientsIdle
<1> QED
  BY <1>2, <1>3, <1>4, <1>5 DEF Next, Terminated

\* The two together are an invariant.
LEMMA LinksAlways == Spec => [](Types /\ Links)
  BY LinksInit, LinksNext, PTL DEF Spec

(***************************************************************************)
(* For any number of clients, connections and elements, the queue and the  *)
(* threadinfo of a running client thread are never freed: a deletion waits *)
(* for the thread that it cancels, and so does the end of the server.      *)
(***************************************************************************)
THEOREM NeverFreedInUse == Spec => []NotFreedInUse
<1>1. Types /\ Links => NotFreedInUse
  BY DEF Links
<1> QED
  BY <1>1, LinksAlways, PTL

(***************************************************************************)
(* A client thread writes only on an open connection of its own client,    *)
(* however connections are lost, closed, restored and replaced: its copy   *)
(* of the descriptor is that of its element whenever it has one.           *)
(***************************************************************************)
THEOREM WritesGoHome == Spec => []WritesOwnConnection
<1>1. Types /\ Links => WritesOwnConnection
  <2> SUFFICES ASSUME Types, Links, ~Closing, NEW t \in Conns, Alive(t),
                      th[t].fd # None
               PROVE  /\ th[t].fd \in open
                      /\ \A i \in 1..Len(table) :
                           table[i].id = t => table[i].ip = conn[th[t].fd].ip
    BY DEF WritesOwnConnection, Closing
  <2>1. \E i \in 1..Len(table) : table[i].id = t
    BY DEF Links, NotFreedInUse
  <2>2. ASSUME NEW i \in 1..Len(table), table[i].id = t
        PROVE  th[t].fd \in open /\ table[i].ip = conn[th[t].fd].ip
    BY <2>2 DEF Links, Linked
  <2> QED
    BY <2>1, <2>2
<1> QED
  BY <1>1, LinksAlways, PTL

(***************************************************************************)
(* No client ever has two elements in the table, and there are no more     *)
(* than conn_table_add_element() is told to allow, although a client is    *)
(* looked up before its old element has been deleted.                      *)
(***************************************************************************)
THEOREM ElementsUnique == Spec => []OneElementEach
<1>1. Types /\ Links => OneElementEach
  BY DEF Links, Unlike, OneElementEach
<1> QED
  BY <1>1, LinksAlways, PTL
-----------------------------------------------------------------------------
(***************************************************************************)
(* The descriptors.                                                        *)
(***************************************************************************)
\* What conn_table_destroy() has walked over has no open connection.
Shut ==
  Closing => \A j \in 1..Len(table) :
               j < srv.i \/ (j = srv.i /\ srv.pc = "destroy_join") =>
                 table[j].fd \notin open

\* A step after which what was held is still held, or has been closed.
LEMMA StaysHeld ==
  ASSUME open' \subseteq open,
         \A i \in 1..Len(table) : \/ table[i].fd \notin open'
                                  \/ \E j \in 1..Len(table') : table'[j].fd = table[i].fd,
         Admitting => \/ srv.c \notin open'
                      \/ Admitting' /\ srv'.c = srv.c
                      \/ \E j \in 1..Len(table') : table'[j].fd = srv.c
  PROVE  Lost' \subseteq Lost
  BY ZenonT(60) DEF Lost

\* A step that changes neither the table nor the descriptors.
LEMMA SameHeld ==
  ASSUME open' = open, table' = table, ~Admitting \/ srv' = srv
  PROVE  Lost' \subseteq Lost
<1>1. Admitting => Admitting' /\ srv'.c = srv.c
  BY DEF Admitting
<1> QED
  BY ZenonT(60), <1>1, StaysHeld

\* A connection is accepted that will be put in the table or closed.
LEMMA NewlyHeld ==
  ASSUME NEW h, open' = open \cup {h}, table' = table, ~Admitting,
         Admitting', srv'.c = h
  PROVE  Lost' \subseteq Lost
  BY ZenonT(60) DEF Lost

\* The steps that leave the links as they are lose nothing.
LEMMA IdleHolds ==
  ASSUME Types, Shut, Idle
  PROVE  Lost' \subseteq Lost /\ Shut'
<1> USE DEF Idle
<1>1. /\ open' = open /\ Len(table') = Len(table)
      /\ \A i \in 1..Len(table) : table'[i].fd = table[i].fd
  BY DEF SameTable
<1>2. Admitting => srv' = srv
  BY DEF Admitting, Elsewhere
<1>3. Admitting => Admitting' /\ srv'.c = srv.c
  BY <1>2 DEF Admitting
<1>4. Lost' \subseteq Lost
  BY ZenonT(60), <1>1, <1>3, StaysHeld
<1>5. CASE srv' = srv
  BY ZenonT(60), <1>1, <1>4, <1>5 DEF Shut, Closing
<1>6. CASE Elsewhere
  <2>1. Closing' => srv'.i = 1 /\ srv'.pc = "destroy"
    BY <1>6 DEF Closing, Elsewhere
  <2>2. \A j \in 1..Len(table') : ~(j < 1)
    <3>1. Len(table') \in Nat
      BY LenProperties DEF Types, TableTypes
    <3> QED
      BY SMTT(60), <3>1
  <2> QED
    BY ZenonT(60), <1>4, <2>1, <2>2 DEF Shut
<1> QED
  BY <1>4, <1>5, <1>6

\* The connection of a client whose thread could not write is closed.
LEMMA DirtyHolds ==
  ASSUME Types, process_dirty_connections
  PROVE  Lost' \subseteq Lost /\ ~Closing'
<1>1. /\ srv.i \in 1..Len(table) /\ srv.pc = "dirty" /\ NextElement
      /\ Len(table) \in Nat
  BY ScanIndex, LenProperties DEF process_dirty_connections, Types, TableTypes, Skip
<1>2. ~Closing' /\ ~Admitting
  <2>1. srv'.pc \in {"finished", "dirty", "events", "send",
                     "unidentified", "spawn", "queue", "loop"}
    BY <1>1, NextMoves DEF Types, After
  <2> QED
    BY <1>1, <2>1 DEF Closing, Admitting
<1>3. CASE table' = table /\ open' = open
  BY <1>2, <1>3, SameHeld
<1>4. CASE Close(This.fd) /\ table' = [table EXCEPT ![srv.i].fd = None]
  <2>1. open' = open \ {table[srv.i].fd}
    BY <1>4 DEF Close, This
  <2>2. /\ Len(table') = Len(table)
        /\ \A j \in 1..Len(table) : j # srv.i => table'[j] = table[j]
    BY SMTT(60), <1>1, <1>4, ElementOfSeq DEF Types, TableTypes
  <2> QED
    BY ZenonT(60), <1>2, <2>1, <2>2, StaysHeld
<1> QED
  BY <1>2, <1>3, <1>4 DEF process_dirty_connections, Skip
\* A connection is accepted: it is refused or the table will have it.
LEMMA AcceptHolds ==
  ASSUME Types, Links, AcceptAborted \/ NewClient \/ ReplaceClient
  PROVE  Lost' \subseteq Lost /\ ~Closing'
<1>1. ~Admitting /\ srv.pc = "accept" /\ table' = table
  BY DEF AcceptAborted, NewClient, ReplaceClient, Accepting, Admitting
<1>2. CASE AcceptAborted
  <2>1. open' = open /\ ~Closing'
    BY <1>2 DEF AcceptAborted, Closing, At
  <2> QED
    BY <1>1, <2>1, SameHeld
<1>3. CASE NewClient \/ ReplaceClient
  <2>1. open' = open \cup {Head(pending)}
    BY <1>3 DEF NewClient, ReplaceClient
  <2>2. srv'.c = Head(pending) /\ Admitting' /\ ~Closing'
    <3>1. CASE NewClient
      BY <3>1 DEF NewClient, At, Admitting, Closing
    <3>2. CASE ReplaceClient
      <4>1. PICK i \in 1..Len(table) :
              srv' = [At("join") EXCEPT !.k = i, !.ret = "admit", !.c = Head(pending)]
        BY <3>2 DEF ReplaceClient
      <4> QED
        BY <4>1 DEF At, Admitting, Closing
    <3> QED
      BY <1>3, <3>1, <3>2
  <2> QED
    BY <1>1, <2>1, <2>2, NewlyHeld
<1> QED
  BY <1>2, <1>3

\* A connection is restored: the descriptor that it replaces may be lost.
LEMMA RestoreLoses ==
  ASSUME Types, poll_restore_connection, NEW c \in Lost' \ Lost
  PROVE  \E i \in 1..Len(table) :
           /\ table[i].fd = c /\ info[table[i].id].status = 1
           /\ pending # <<>> /\ table' = [table EXCEPT ![i].fd = Head(pending)]
<1>1. PICK i \in 1..Len(table) :
        /\ info[table[i].id].status = 1
        /\ table' = [table EXCEPT ![i].fd = Head(pending)]
  BY DEF poll_restore_connection
<1>2. srv.pc = "accept" /\ open' = open \cup {Head(pending)} /\ pending # <<>>
  BY DEF poll_restore_connection, Accepting, Types, Places
<1>3. /\ Len(table') = Len(table) /\ table'[i].fd = Head(pending)
      /\ \A j \in 1..Len(table) : j # i => table'[j] = table[j]
  BY SMTT(60), <1>1, ElementOfSeq DEF Types, TableTypes, Element
<1>4. c \in open' /\ \A j \in 1..Len(table') : table'[j].fd # c
  BY DEF Lost
<1>5. c \in open
  BY ZenonT(60), <1>2, <1>3, <1>4
<1>6. ~Admitting
  BY <1>2 DEF Admitting
<1>7. PICK j \in 1..Len(table) : table[j].fd = c
  BY ZenonT(60), <1>5, <1>6 DEF Lost
<1>8. j = i
  BY ZenonT(60), <1>3, <1>4, <1>7
<1> QED
  BY ZenonT(60), <1>1, <1>2, <1>7, <1>8

\* The accepted connection is closed or gets an element.
LEMMA AdmitHolds ==
  ASSUME Types, Refused \/ conn_table_add_element
  PROVE  Lost' \subseteq Lost /\ ~Closing'
<1>1. CASE Refused
  <2>1. open' = open \ {srv.c} /\ table' = table /\ ~Closing'
    BY <1>1 DEF Refused, Close, Closing, At
  <2> QED
    BY ZenonT(60), <2>1, StaysHeld
<1>2. CASE conn_table_add_element
  <2> DEFINE e == [id |-> srv.c, ip |-> conn[srv.c].ip, fd |-> srv.c,
                   identified |-> FALSE, revents |-> "none"]
  <2>1. open' = open /\ table' = Append(table, e) /\ ~Closing' /\ e.fd = srv.c
    BY <1>2 DEF conn_table_add_element, Closing, At
  <2>2. e \in Element
    <3>1. srv.c \in Conns /\ conn[srv.c].ip \in Ips
      BY <1>2 DEF conn_table_add_element, Types, Places, TableTypes, Conn
    <3> QED
      BY <3>1 DEF Element
  <2> HIDE DEF e
  <2>3. /\ Len(table') = Len(table) + 1 /\ Len(table) \in Nat
        /\ \A j \in 1..Len(table) : table'[j] = table[j]
        /\ table'[Len(table) + 1] = e
    BY SMTT(60), <2>1, <2>2, AppendProperties, LenProperties DEF Types, TableTypes
  <2>4. /\ Len(table) + 1 \in 1..Len(table')
        /\ \A j \in 1..Len(table) : j \in 1..Len(table')
    BY SMTT(60), <2>3
  <2> QED
    BY ZenonT(60), <2>1, <2>3, <2>4, StaysHeld
<1> QED
  BY <1>1, <1>2
\* An element is deleted with its connection.
LEMMA DeleteHolds ==
  ASSUME Types, conn_table_del_element
  PROVE  Lost' \subseteq Lost /\ ~Closing'
<1> DEFINE k == srv.k
           New(i) == IF i < k THEN i ELSE i - 1
<1>1. /\ srv.pc = "join" /\ open' = open \ {table[k].fd} /\ table' = RemoveAt(table, k)
      /\ srv' = [srv EXCEPT !.pc = srv.ret, !.k = 0, !.ret = "loop"]
  BY DEF conn_table_del_element, Close
<1>2. /\ k \in 1..Len(table) /\ srv.ret \in Deleting /\ srv \in Srv
      /\ table \in Seq(Element) /\ Len(table) \in Nat
  BY <1>1, LenProperties DEF Types, Places, TableTypes
<1>3. /\ Len(table') = Len(table) - 1
      /\ \A j \in 1..Len(table') : table'[j] = IF j < k THEN table[j] ELSE table[j + 1]
  BY <1>1, <1>2, Removed
<1>4. ASSUME NEW i \in 1..Len(table), i # k
      PROVE  \E j \in 1..Len(table') : table'[j].fd = table[i].fd
  <2>1. New(i) \in 1..Len(table') /\ i = IF New(i) < k THEN New(i) ELSE New(i) + 1
    BY SMTT(60), <1>2, <1>3, <1>4
  <2>2. table'[New(i)] = table[i]
    BY <1>3, <2>1
  <2> QED
    BY <2>1, <2>2
<1>5. srv'.pc = srv.ret /\ srv'.c = srv.c
  BY <1>1, <1>2 DEF Srv
<1>6. ~Closing' /\ (Admitting => Admitting' /\ srv'.c = srv.c)
  BY <1>1, <1>2, <1>5 DEF Closing, Admitting, Deleting
<1>7. \A i \in 1..Len(table) : \/ table[i].fd \notin open'
                               \/ \E j \in 1..Len(table') : table'[j].fd = table[i].fd
  BY ZenonT(60), <1>1, <1>4
<1> QED
  BY ZenonT(60), <1>1, <1>6, <1>7, StaysHeld

\* conn_table_destroy() closes the connections one by one, and the table is
\* freed when none is open.
LEMMA DestroyHolds ==
  ASSUME Types, Shut, conn_table_destroy \/ Destroyed \/ close_server
  PROVE  Lost' \subseteq Lost /\ Shut'
<1>1. srv.i \in Nat /\ Len(table) \in Nat /\ srv \in Srv
  BY SrvFields, LenProperties DEF Types, TableTypes
<1>2. ~Admitting /\ Closing
  BY DEF Admitting, Closing, conn_table_destroy, Destroyed, close_server, Scanning
<1>3. CASE conn_table_destroy
  <2>1. /\ open' = open \ {table[srv.i].fd} /\ table' = table
        /\ srv' = [srv EXCEPT !.pc = "destroy_join"]
    BY <1>3 DEF conn_table_destroy, Close, This
  <2>2. srv'.pc = "destroy_join" /\ srv'.i = srv.i
    BY <1>1, <2>1 DEF Srv
  <2>3. Lost' \subseteq Lost
    BY ZenonT(60), <1>2, <2>1, StaysHeld
  <2> QED
    BY ZenonT(60), <1>2, <2>1, <2>2, <2>3 DEF Shut
<1>4. CASE Destroyed
  <2>1. /\ open' = open /\ table' = table /\ srv.pc = "destroy_join"
        /\ srv' = [srv EXCEPT !.pc = "destroy", !.i = @ + 1]
    BY <1>4 DEF Destroyed
  <2>2. srv'.pc = "destroy" /\ srv'.i = srv.i + 1
    BY <1>1, <2>1 DEF Srv
  <2>3. \A j \in 1..Len(table) : j < srv.i + 1 => j < srv.i \/ j = srv.i
    BY SMTT(60), <1>1
  <2> QED
    BY ZenonT(60), <1>2, <2>1, <2>2, <2>3, SameHeld DEF Shut
<1>5. CASE close_server
  <2>1. /\ open' = open /\ srv' = At("done") /\ srv.i > Len(table)
    BY <1>5 DEF close_server
  <2>2. \A j \in 1..Len(table) : j < srv.i
    BY SMTT(60), <1>1, <2>1
  <2>3. \A j \in 1..Len(table) : table[j].fd \notin open'
    BY ZenonT(60), <1>2, <2>1, <2>2 DEF Shut
  <2>4. Lost' \subseteq Lost
    BY ZenonT(60), <1>2, <2>1, <2>3, StaysHeld
  <2>5. ~Closing'
    BY <2>1 DEF Closing, At
  <2> QED
    BY ZenonT(60), <2>4, <2>5 DEF Shut
<1> QED
  BY <1>3, <1>4, <1>5

\* A step on the descriptors, as LostOnlyByRestore has it.
LostNow(c) ==
  \E i \in 1..Len(table) :
    /\ table[i].fd = c /\ info[table[i].id].status = 1
    /\ pending # <<>> /\ table' = [table EXCEPT ![i].fd = Head(pending)]

\* Every step keeps what conn_table_destroy() relies on, and loses a descriptor
\* only when it restores a connection.
LEMMA ShutNext ==
  ASSUME Types, Links, Shut, [Next]_vars
  PROVE  Shut' /\ \A c \in Lost' \ Lost : LostNow(c)
<1>1. CASE Lost' \subseteq Lost /\ (Shut' \/ ~Closing')
  BY <1>1 DEF Shut
<1>2. CASE Idle
  BY <1>1, <1>2, IdleHolds
<1>3. CASE ServerStep
  <2>1. CASE spawn_client_threads
    <3>1. /\ open' = open /\ table' = table /\ srv.pc = "spawn"
          /\ srv'.pc \in {"spawn", "join"}
      <4>1. srv \in Srv
        BY DEF Types, TableTypes
      <4> QED
        BY <2>1, <4>1 DEF spawn_client_threads, poll_del_connection, Srv
    <3> QED
      BY <1>1, <3>1, SameHeld DEF Admitting, Closing
  <2>2. CASE poll_restore_connection
    <3>1. ~Closing'
      BY <2>2 DEF poll_restore_connection, Closing, At
    <3> QED
      BY <2>2, <3>1, RestoreLoses DEF LostNow, Shut
  <2>3. CASE \/ process_dirty_connections \/ AcceptAborted \/ NewClient \/ ReplaceClient
             \/ Refused \/ conn_table_add_element \/ conn_table_del_element
             \/ conn_table_destroy \/ Destroyed \/ close_server
    BY <1>1, <2>3, DirtyHolds, AcceptHolds, AdmitHolds, DeleteHolds, DestroyHolds
  <2> QED
    BY <1>2, <1>3, <2>1, <2>2, <2>3, ScansIdle, DeletionsIdle, UnidentifiedIdle,
       PollIdle, PassFailsIdle, HandleIdle, SendIdle
    DEF ServerStep, process_connections
<1>4. CASE \/ \E t \in Conns : ThreadRuns(t)
           \/ \E c \in Conns : \E ip \in Ips : Connect(c, ip)
  <2>1. open' = open /\ table' = table /\ srv' = srv
    BY <1>4 DEF ThreadRuns, Connect, serverVars
  <2>2. Shut'
    BY <2>1 DEF Shut, Closing
  <2> QED
    BY <1>1, <2>1, <2>2, SameHeld
<1>5. CASE \/ \E c \in Conns : Hangup(c)
           \/ \E c \in Conns, m \in Messages : Say(c, m)
           \/ set_quit_flag \/ UNCHANGED vars
  BY <1>2, <1>5, ClientsIdle
<1> QED
  BY <1>3, <1>4, <1>5 DEF Next, Terminated

(***************************************************************************)
(* No descriptor is lost, whatever connections are closed, replaced,       *)
(* refused and deleted, by the walks over the table or at the end, except  *)
(* by poll_restore_connection(), and that one loses the descriptor of an   *)
(* element whose thread has given it up and that it overwrites: closing it *)
(* there would be enough.                                                  *)
(***************************************************************************)
THEOREM DescriptorsKept == Spec => LostOnlyByRestore
<1>1. Init => Shut
  BY DEF Init, Shut, Closing, At
<1>2. Types /\ Links /\ Shut /\ [Next]_vars => Shut'
  BY ShutNext
<1>3. Types /\ Links /\ Shut /\ [Next]_vars =>
        [\A c \in Lost' \ Lost :
           \E i \in 1..Len(table) :
             /\ table[i].fd = c /\ info[table[i].id].status = 1
             /\ pending # <<>> /\ table' = [table EXCEPT ![i].fd = Head(pending)]]_vars
  BY ShutNext DEF LostNow
<1> QED
  BY <1>1, <1>2, <1>3, LinksAlways, PTL DEF Spec, LostOnlyByRestore
=============================================================================
