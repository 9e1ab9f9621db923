--------------------------- MODULE ClientThreads ----------------------------
(***************************************************************************)
(* The client threads of src/serverc.c with their queues                   *)
(* (src/libconnth/cq.c over src/libqdb/qdb.c) and the thread_info_st of    *)
(* src/libconnth/ce.c that a thread shares with the server thread.         *)
(*                                                                         *)
(* A thread works on a private copy of its connection element; what it     *)
(* shares is reached through pointers in it.  It is named here by the      *)
(* connection that its client first made.  The queue is locked from the    *)
(* beginning to the end of a send, and of a receive that finds something.  *)
(***************************************************************************)
EXTENDS Integers, Sequences

CONSTANTS MaxConns,     \* bound: connections made
          MaxProducts,  \* bound: products distributed
          Retry,        \* ce->reconnect_wait_sleep_retry
          HardLimit,    \* client_queue_maxsize_hard, 0 = none
          Faults        \* what may fail: "memory", "queue", "db", "file", "socket"

Conns == 1 .. MaxConns
Products == 1 .. MaxProducts

\* The file descriptor -1, and no product.
None == 0

ASSUME ThreadsAssumption ==
  /\ MaxConns \in Nat /\ MaxProducts \in Nat
  /\ Retry \in Nat /\ HardLimit \in Nat
  /\ Faults \subseteq {"memory", "queue", "db", "file", "socket"}

VARIABLES th,      \* the private state of each thread
          info,    \* ce->threadinfo of each thread
          queue,   \* ce->cq of each thread
          qerr,    \* its flag QDB_FSTATUS_DBERROR
          quit,    \* the flag read by get_quit_flag()
          last,    \* ghost: what was written last on each connection
          owed     \* ghost: the products queued for each thread that are
                   \* not yet sent

shared == <<info, queue, qerr>>
ghosts == <<last, owed>>
threadVars == <<th, shared, quit, ghosts>>

Thread == [st : {"none", "top", "rcv", "send", "wait", "ended"},
           fd : Conns \cup {None}, f_exit : BOOLEAN, canceled : BOOLEAN,
           data : Products \cup {None}, count : 0 .. Retry]

ThreadInfo == [finished : BOOLEAN, status : {0, 1}, fd : Conns \cup {None}]

\* A product written on a connection, whole or in part.
Piece == [data : Products \cup {None}, whole : BOOLEAN]
Nothing == [data |-> None, whole |-> TRUE]

NoThread == [st |-> "none", fd |-> None, f_exit |-> FALSE, canceled |-> FALSE,
             data |-> None, count |-> 0]
NoInfo == [finished |-> FALSE, status |-> 0, fd |-> None]

ThreadsInit ==
  /\ th = [t \in Conns |-> NoThread]
  /\ info = [t \in Conns |-> NoInfo]
  /\ queue = [t \in Conns |-> <<>>]
  /\ qerr = [t \in Conns |-> FALSE]
  /\ quit = FALSE
  /\ last = [c \in Conns |-> Nothing]
  /\ owed = [t \in Conns |-> <<>>]

Alive(t) == th[t].st \notin {"none", "ended"}

-----------------------------------------------------------------------------
(***************************************************************************)
(* What the server thread does to a thread and its queue.                  *)
(***************************************************************************)
\* conn_element_init4(): the thread starts with a copy of the element.
client_thread_create(t, fd) ==
  /\ th' = [th EXCEPT ![t] = [NoThread EXCEPT !.st = "top", !.fd = fd]]
  /\ info' = [info EXCEPT ![t] = [NoInfo EXCEPT !.fd = fd]]
  /\ UNCHANGED <<queue, qerr, quit, ghosts>>

\* The first half of client_thread_kill(); the second waits for the thread.
pthread_cancel(t) ==
  /\ th' = IF Alive(t) THEN [th EXCEPT ![t].canceled = TRUE] ELSE th
  /\ UNCHANGED <<shared, quit, owed>>

\* conn_element_set_connection_status(), of a connection that is restored.
set_connection_status(t, fd) ==
  /\ info' = [info EXCEPT ![t].status = 0, ![t].fd = fd]
  /\ UNCHANGED <<th, queue, qerr, quit, ghosts>>

queue_hard_limit(n) == HardLimit > 0 /\ n >= HardLimit

\* nbspqt_snd() on the queue of a thread.
connqueue_snd(t, p) ==
  /\ UNCHANGED <<th, info, quit, last>>
  /\ \/ /\ queue_hard_limit(Len(queue[t]))
        /\ UNCHANGED <<queue, qerr, owed>>
     \/ /\ ~queue_hard_limit(Len(queue[t]))
        /\ queue' = [queue EXCEPT ![t] = Append(@, p)]
        /\ owed' = [owed EXCEPT ![t] = Append(@, p)]
        /\ qerr' = [qerr EXCEPT ![t] = FALSE]
     \/ /\ ~queue_hard_limit(Len(queue[t])) /\ "db" \in Faults
        /\ qerr' = [qerr EXCEPT ![t] = TRUE]
        /\ UNCHANGED <<queue, owed>>

\* conn_element_release() frees the queue and the threadinfo; the connection is
\* closed separately.
Freed(t) ==
  /\ info' = [info EXCEPT ![t] = NoInfo]
  /\ queue' = [queue EXCEPT ![t] = <<>>]
  /\ qerr' = [qerr EXCEPT ![t] = FALSE]
  /\ owed' = [owed EXCEPT ![t] = <<>>]
  /\ UNCHANGED <<th, quit>>

-----------------------------------------------------------------------------
(***************************************************************************)
(* The thread.                                                             *)
(***************************************************************************)
\* cleanup(), on return and on cancellation: the queue's mutex is released,
\* the finished flag set and the private copy freed.
cleanup(t) ==
  /\ th' = [th EXCEPT ![t] = [NoThread EXCEPT !.st = "ended"]]
  /\ info' = [info EXCEPT ![t].finished = TRUE]
  /\ UNCHANGED <<queue, qerr, quit, ghosts>>

\* The loop ends on one of its flags.
client_thread_main(t) ==
  /\ th[t].st = "top" /\ (quit \/ th[t].f_exit)
  /\ cleanup(t)

\* It goes on, with a look at the error flag of the queue: the thread ends after
\* this turn.  pthread_testcancel() comes first.
periodic(t) ==
  /\ th[t].st = "top" /\ ~quit /\ ~th[t].f_exit /\ ~th[t].canceled
  /\ th' = [th EXCEPT ![t].st = "rcv", ![t].f_exit = qerr[t]]
  /\ UNCHANGED <<shared, quit, ghosts>>

\* loop() receives a product, or the database fails.  Emptying a queue in memory
\* also truncates it; when that fails the product is gone.
connqueue_rcv(t) ==
  /\ th[t].st = "rcv" /\ queue[t] # <<>>
  /\ UNCHANGED <<info, qerr, quit, last>>
  /\ \/ /\ th' = [th EXCEPT ![t].st = "send", ![t].data = Head(queue[t])]
        /\ queue' = [queue EXCEPT ![t] = Tail(@)]
        /\ UNCHANGED owed
     \/ /\ "db" \in Faults
        /\ th' = [th EXCEPT ![t].st = "top"]
        /\ UNCHANGED <<queue, owed>>
     \/ /\ "db" \in Faults /\ Len(queue[t]) = 1
        /\ th' = [th EXCEPT ![t].st = "top"]
        /\ queue' = [queue EXCEPT ![t] = <<>>]
        /\ owed' = [owed EXCEPT ![t] = <<>>]

\* The wait on an empty queue times out.  Unless a flag is up, the thread comes
\* straight back to it.
NoData(t) ==
  /\ th[t].st = "rcv" /\ queue[t] = <<>> /\ ~th[t].canceled
  /\ quit \/ th[t].f_exit \/ qerr[t]
  /\ th' = [th EXCEPT ![t].st = "top"]
  /\ UNCHANGED <<shared, quit, ghosts>>

Wrote(t, whole) ==
  last' = [last EXCEPT ![th[t].fd] = [data |-> th[t].data, whole |-> whole]]

\* A client is sent what it is owed in order: anything else stays owed.
Paid(s, p) == IF s # <<>> /\ Head(s) = p THEN Tail(s) ELSE s

\* Back to the head of the loop, from a send that ended well or not.
Return(t, failed) ==
  [th[t] EXCEPT !.st = "top", !.data = None, !.count = 0,
                !.f_exit = @ \/ failed]

\* send_client1() writes the product.
Sent(t) ==
  /\ th[t].st = "send"
  /\ Wrote(t, TRUE)
  /\ owed' = [owed EXCEPT ![t] = Paid(@, th[t].data)]
  /\ th' = [th EXCEPT ![t] = Return(t, FALSE)]
  /\ UNCHANGED <<shared, quit>>

\* The file of the product cannot be opened or read.
NoFile(t) ==
  /\ th[t].st = "send" /\ "file" \in Faults
  /\ th' = [th EXCEPT ![t] = Return(t, TRUE)]
  /\ UNCHANGED <<shared, quit, ghosts>>

\* Mutant of WriteFails: a short write is taken as a good one.
WriteFails_short(t) ==
  /\ th[t].st = "send"
  /\ Wrote(t, FALSE)
  /\ owed' = [owed EXCEPT ![t] = Paid(@, th[t].data)]
  /\ th' = [th EXCEPT ![t] = Return(t, FALSE)]
  /\ UNCHANGED <<shared, quit>>

\* Mutant of WriteFails: the private copy keeps the descriptor.
WriteFails_keep_fd(t) ==
  /\ th[t].st = "send"
  /\ UNCHANGED last
  /\ info' = [info EXCEPT ![t].status = 1, ![t].fd = None]
  /\ th' = [th EXCEPT ![t].st = "wait"]
  /\ UNCHANGED <<queue, qerr, quit, owed>>

\* A write fails or times out, with nothing or a part of the product written.
\* The server thread is to close the connection; the thread waits for another.
WriteFails(t) ==
  /\ th[t].st = "send"
  /\ Wrote(t, FALSE) \/ UNCHANGED last
  /\ info' = [info EXCEPT ![t].status = 1, ![t].fd = None]
  /\ th' = [th EXCEPT ![t] =
              IF @.count = Retry THEN [Return(t, TRUE) EXCEPT !.fd = None]
              ELSE [@ EXCEPT !.st = "wait", !.fd = None]]
  /\ UNCHANGED <<queue, qerr, quit, owed>>

\* Mutant of wait_client_reconnection: the product whose write failed is not
\* sent again.
wait_client_reconnection_next(t) ==
  /\ th[t].st = "wait" /\ ~th[t].canceled /\ info[t].status = 0
  /\ th' = [th EXCEPT ![t] = [Return(t, FALSE) EXCEPT !.fd = info[t].fd]]
  /\ UNCHANGED <<shared, quit, ghosts>>

\* Mutant of wait_client_reconnection: the retries are not counted out.
wait_client_reconnection_forever(t) ==
  /\ th[t].st = "wait" /\ ~th[t].canceled
  /\ th' = [th EXCEPT ![t] = IF info[t].status = 0
                              THEN [@ EXCEPT !.st = "send", !.fd = info[t].fd]
                              ELSE [@ EXCEPT !.count = @ + 1]]
  /\ UNCHANGED <<shared, quit, ghosts>>

\* The thread sleeps and looks for a restored connection; then send_client()
\* goes on with it, waits again or gives up.
wait_client_reconnection(t) ==
  /\ th[t].st = "wait" /\ ~th[t].canceled
  /\ th' = [th EXCEPT ![t] =
       LET stop == quit \/ th[t].f_exit IN
       IF info[t].status = 0
       THEN [(IF stop THEN Return(t, FALSE) ELSE [th[t] EXCEPT !.st = "send"])
               EXCEPT !.fd = info[t].fd]
       ELSE IF stop \/ th[t].count + 1 = Retry THEN Return(t, TRUE)
       ELSE [th[t] EXCEPT !.count = @ + 1]]
  /\ UNCHANGED <<shared, quit, ghosts>>

\* Every state of a thread has a cancellation point; the wait on the queue and
\* sleep() do not let a canceled thread past.
Canceled(t) == Alive(t) /\ th[t].canceled /\ cleanup(t)

ThreadStep(t) ==
  \/ client_thread_main(t) \/ periodic(t) \/ connqueue_rcv(t) \/ NoData(t)
  \/ Sent(t) \/ NoFile(t) \/ WriteFails(t)
  \/ wait_client_reconnection(t) \/ Canceled(t)

-----------------------------------------------------------------------------
ThreadsTypeOK ==
  /\ th \in [Conns -> Thread]
  /\ info \in [Conns -> ThreadInfo]
  /\ queue \in [Conns -> Seq(Products)]
  /\ qerr \in [Conns -> BOOLEAN]
  /\ quit \in BOOLEAN
  /\ last \in [Conns -> Piece]
  /\ owed \in [Conns -> Seq(Products)]
=============================================================================
