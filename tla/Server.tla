------------------------------- MODULE Server -------------------------------
(***************************************************************************)
(* The network server: the server thread of src/serverm.c with the         *)
(* connection table (src/libconnth/conn.c), its poll loop                  *)
(* (src/libconnth/poll.c) and the protocol of each client (src/appdata.c), *)
(* together with the client threads and the clients.                       *)
(*                                                                         *)
(* Only the server thread uses the table.  It walks it element by element, *)
(* and between two elements the client threads and the clients may do      *)
(* anything.  The listening element is always the first one, never moves   *)
(* and is left out of the table here.  A file descriptor is named by the   *)
(* connection it was opened for.                                           *)
(***************************************************************************)
EXTENDS ClientThreads

CONSTANTS MaxIps,       \* the number of clients
          MaxClients,   \* ct->nclientsmax
          Messages      \* what a client may ask for, a protocol that is
                        \* "served" or "unserved"

ASSUME ServerAssumption ==
  /\ MaxClients \in Nat /\ MaxIps \in Nat \ {0}
  /\ Messages \subseteq {"served", "unserved"}

\* The addresses of the clients, in the order in which they first connect.
Ips == 1 .. MaxIps

VARIABLES conn,     \* the client's end of each connection
          pending,  \* the connections to be accepted
          open,     \* the connections with an open descriptor
          table,    \* ct->pfd and ct->ce
          srv,      \* where the server thread is
          next      \* the next product of the server queue

serverVars == <<conn, pending, open, table, srv, next>>
vars == <<threadVars, serverVars>>

\* A client says at most once which protocol it wants.
Conn == [ip : Ips, st : {"new", "up", "closed"}, msg : Messages \cup {"none"},
         said : BOOLEAN]

\* A connection before it is made and after its descriptor is closed.
NoConn(st) == [ip |-> 1, st |-> st, msg |-> "none",
               said |-> FALSE]

\* id names the thread and the queue of the element, fd is pfd->fd.
Element == [id : Conns, ip : Ips, fd : Conns \cup {None},
            identified : BOOLEAN, revents : {"none", "in", "hup"}]

Stages == {"loop", "queue", "finished", "unidentified", "dirty", "spawn", "poll",
           "accept", "admit", "events", "send", "join", "destroy",
           "destroy_join", "done"}

\* pc: the stage; i: the element it is at; k: the element being deleted; ret:
\* the stage after that; c: the connection accepted; data: the product that is
\* distributed.
Srv == [pc : Stages, i : Nat, k : Nat, ret : Stages, c : Conns \cup {None},
        data : Products \cup {None}]

At(pc) == [pc |-> pc, i |-> 1, k |-> 0, ret |-> "loop", c |-> None,
           data |-> None]

Init ==
  /\ ThreadsInit
  /\ conn = [c \in Conns |-> NoConn("new")]
  /\ pending = <<>> /\ open = {} /\ table = <<>>
  /\ srv = At("loop") /\ next = 1

f_thread_created(e) == th[e.id].st # "none"
isnetclient_running(e) == f_thread_created(e) /\ ~info[e.id].finished
isnetclient_stoped(e) == f_thread_created(e) /\ info[e.id].finished

-----------------------------------------------------------------------------
(***************************************************************************)
(* The walk over the table.                                                *)
(***************************************************************************)
Scanning(stage) == srv.pc = stage /\ srv.i <= Len(table)

This == table[srv.i]

\* The stage that follows a loop over the table.
After == [finished |-> "unidentified", dirty |-> "spawn", events |-> "queue",
          send |-> "loop"]

NextElement ==
  srv' = IF srv.i < Len(table) THEN [srv EXCEPT !.i = @ + 1] ELSE At(After[srv.pc])

Skip == NextElement /\ UNCHANGED <<threadVars, conn, pending, open, table, next>>

\* A loop that finds no element, or has none left after a deletion.
EndScan ==
  /\ srv.pc \in DOMAIN After /\ srv.i > Len(table)
  /\ srv' = At(After[srv.pc])
  /\ UNCHANGED <<threadVars, conn, pending, open, table, next>>

\* Where a loop that starts at element i and looks only at what the server
\* thread alone changes finds the next one to act on.
First(i, P(_)) ==
  {j \in i .. Len(table) : P(table[j]) /\ \A k \in i .. (j - 1) : ~P(table[k])}

Close(fd) ==
  /\ open' = open \ {fd}
  /\ conn' = IF fd = None THEN conn ELSE [conn EXCEPT ![fd] = NoConn("closed")]
  /\ last' = IF fd = None THEN last ELSE [last EXCEPT ![fd] = Nothing]

\* poll_del_connection() of element k, which first stops its thread.  A loop
\* that does it at i goes on with i + 1, as the C loop does.
poll_del_connection(k, ret, i) ==
  /\ pthread_cancel(table[k].id)
  /\ srv' = [srv EXCEPT !.pc = "join", !.k = k, !.ret = ret, !.i = i]
  /\ UNCHANGED last

\* The memmove() of the elements above k.
RemoveAt(s, k) == SubSeq(s, 1, k - 1) \o SubSeq(s, k + 1, Len(s))

\* Mutant of conn_table_del_element: the thread is not joined.
conn_table_del_element_no_join ==
  /\ srv.pc = "join"
  /\ Freed(table[srv.k].id)
  /\ Close(table[srv.k].fd)
  /\ table' = RemoveAt(table, srv.k)
  /\ srv' = [srv EXCEPT !.pc = srv.ret, !.k = 0, !.ret = "loop"]
  /\ UNCHANGED <<pending, next>>

\* The rest of it, once pthread_join() returns: the element is released, the
\* connection closed, and the elements above move down.
conn_table_del_element ==
  /\ srv.pc = "join" /\ ~Alive(table[srv.k].id)
  /\ Freed(table[srv.k].id)
  /\ Close(table[srv.k].fd)
  /\ table' = RemoveAt(table, srv.k)
  /\ srv' = [srv EXCEPT !.pc = srv.ret, !.k = 0, !.ret = "loop"]
  /\ UNCHANGED <<pending, next>>

-----------------------------------------------------------------------------
(***************************************************************************)
(* server_loop() and the passes of process_connections().                  *)
(***************************************************************************)
\* Mutant of StartConnections: the loop does not look at the quit flag.
StartConnections_no_quit ==
  /\ srv.pc \in {"loop", "queue"}
  /\ srv' = At("finished")
  /\ UNCHANGED <<threadVars, conn, pending, open, table, next>>

\* process_connections() is called when its period has passed, at the head of the
\* loop or when no product came since the last pass.
StartConnections ==
  /\ srv.pc \in {"loop", "queue"} /\ ~quit
  /\ srv' = At("finished")
  /\ UNCHANGED <<threadVars, conn, pending, open, table, next>>

\* Mutant of process_finished_connections: the last element is not looked at.
process_finished_connections_but_last ==
  /\ Scanning("finished")
  /\ IF isnetclient_stoped(This) /\ srv.i < Len(table)
     THEN /\ poll_del_connection(srv.i, "finished", srv.i + 1)
          /\ UNCHANGED <<conn, pending, open, table, next>>
     ELSE Skip

process_finished_connections ==
  /\ Scanning("finished")
  /\ IF isnetclient_stoped(This)
     THEN /\ poll_del_connection(srv.i, "finished", srv.i + 1)
          /\ UNCHANGED <<conn, pending, open, table, next>>
     ELSE Skip

unidentified(e) == ~e.identified

\* The clients that did not say their protocol in time are taken for emwin
\* clients.  The first one for which that fails is deleted, after those before it
\* were identified.
process_unidentified_connections ==
  /\ srv.pc = "unidentified"
  /\ UNCHANGED <<conn, pending, open, next>>
  /\ \E late \in SUBSET {i \in srv.i .. Len(table) : unidentified(table[i])} :
       /\ table' = [i \in 1..Len(table) |->
                      [table[i] EXCEPT !.identified = @ \/ i \in late]]
       /\ \/ srv' = At("dirty") /\ UNCHANGED threadVars
          \/ /\ "memory" \in Faults
             /\ \E i \in srv.i .. Len(table) :
                  /\ unidentified(table[i]) /\ \A j \in late : j < i
                  /\ poll_del_connection(i, "unidentified", i + 1)

\* Mutant of process_dirty_connections: the descriptor is forgotten, not closed.
process_dirty_connections_no_close ==
  /\ Scanning("dirty")
  /\ IF isnetclient_running(This) /\ info[This.id].status # 0 /\ This.fd # None
     THEN /\ table' = [table EXCEPT ![srv.i].fd = None]
          /\ NextElement
          /\ UNCHANGED <<threadVars, conn, pending, open, next>>
     ELSE Skip

\* The connection of a client whose thread could not write to it is closed.
process_dirty_connections ==
  /\ Scanning("dirty")
  /\ IF isnetclient_running(This) /\ info[This.id].status # 0 /\ This.fd # None
     THEN /\ Close(This.fd)
          /\ table' = [table EXCEPT ![srv.i].fd = None]
          /\ NextElement
          /\ UNCHANGED <<th, shared, quit, owed, pending, next>>
     ELSE Skip

NeedsThread(e) == e.identified /\ ~f_thread_created(e)

\* allow_filter_init() and conn_element_init4(), which may fail before it comes to
\* creating the thread.
spawn_client_threads ==
  /\ srv.pc = "spawn"
  /\ \E i \in First(srv.i, NeedsThread) :
       \/ /\ client_thread_create(table[i].id, table[i].fd)
          /\ srv' = [srv EXCEPT !.i = i + 1]
       \/ "queue" \in Faults /\ poll_del_connection(i, "spawn", i + 1)
  /\ UNCHANGED <<conn, pending, open, table, next>>

-----------------------------------------------------------------------------
(***************************************************************************)
(* poll_loop_nowait().                                                     *)
(***************************************************************************)
\* What poll() may report of an element; it ignores a descriptor of -1.  The end of
\* a connection is something to read, or a hangup if it was reset.
revents(e) ==
  IF e.fd = None THEN {"none"}
  ELSE IF conn[e.fd].st = "closed" THEN {"in", "hup"}
  ELSE IF conn[e.fd].msg # "none" THEN {"in"}
  ELSE {"none"}

\* When no thread is left to spawn.
poll ==
  /\ srv.pc = "spawn" /\ First(srv.i, NeedsThread) = {}
  /\ \E r \in [1..Len(table) -> {"none", "in", "hup"}] :
       /\ \A i \in 1..Len(table) : r[i] \in revents(table[i])
       /\ table' = [i \in 1..Len(table) |-> [table[i] EXCEPT !.revents = r[i]]]
  /\ srv' = At(IF pending # <<>> THEN "accept" ELSE "events")
  /\ UNCHANGED <<threadVars, conn, pending, open, next>>

\* poll() fails, or accept() with an error that leaves the connection where it is:
\* the pass ends, and the next one finds the same connection to be accepted.
PassFails ==
  /\ "socket" \in Faults
  /\ \/ srv.pc = "spawn" /\ First(srv.i, NeedsThread) = {}
     \/ srv.pc = "accept"
  /\ srv' = At("queue")
  /\ UNCHANGED <<threadVars, conn, pending, open, table, next>>

Accepting == srv.pc = "accept" /\ pending' = Tail(pending)

\* The client went away before accept(), or its descriptor cannot be set up or its
\* address not be had; the pass ends.
AcceptAborted ==
  /\ Accepting /\ (conn[Head(pending)].st = "closed" \/ "socket" \in Faults)
  /\ conn' = [conn EXCEPT ![Head(pending)] = NoConn("closed")]
  /\ srv' = At("queue")
  /\ UNCHANGED <<threadVars, open, table, next>>

\* conn_table_find_element_byip(): at most one element, see OneElementEach.
Found(i) == table[i].ip = conn[Head(pending)].ip

\* Mutant of NewClient: the table is not searched.
NewClient_any ==
  /\ Accepting
  /\ open' = open \cup {Head(pending)}
  /\ srv' = [At("admit") EXCEPT !.c = Head(pending)]
  /\ UNCHANGED <<threadVars, conn, table, next>>

NewClient ==
  /\ Accepting /\ ~ \E i \in 1..Len(table) : Found(i)
  /\ open' = open \cup {Head(pending)}
  /\ srv' = [At("admit") EXCEPT !.c = Head(pending)]
  /\ UNCHANGED <<threadVars, conn, table, next>>

\* The client has an element whose thread waits for a connection.
poll_restore_connection ==
  /\ Accepting
  /\ \E i \in 1..Len(table) :
       /\ Found(i) /\ f_thread_created(table[i]) /\ info[table[i].id].status = 1
       /\ set_connection_status(table[i].id, Head(pending))
       /\ table' = [table EXCEPT ![i].fd = Head(pending)]
  /\ open' = open \cup {Head(pending)}
  /\ srv' = At("events")
  /\ UNCHANGED <<conn, next>>

\* The client has an element with a valid connection, which is deleted first.
ReplaceClient ==
  /\ Accepting
  /\ \E i \in 1..Len(table) :
       /\ Found(i)
       /\ f_thread_created(table[i]) => info[table[i].id].status = 0
       /\ pthread_cancel(table[i].id)
       /\ srv' = [At("join") EXCEPT !.k = i, !.ret = "admit", !.c = Head(pending)]
  /\ open' = open \cup {Head(pending)}
  /\ UNCHANGED <<last, conn, table, next>>

\* The client is not allowed, the table is full or cannot grow; the pass ends.
Refused ==
  /\ srv.pc = "admit"
  /\ Close(srv.c)
  /\ srv' = At("queue")
  /\ UNCHANGED <<th, shared, quit, owed, pending, table, next>>

conn_table_add_element ==
  /\ srv.pc = "admit" /\ Len(table) # MaxClients
  /\ table' = Append(table, [id |-> srv.c, ip |-> conn[srv.c].ip, fd |-> srv.c,
                             identified |-> FALSE, revents |-> "none"])
  /\ srv' = At("events")
  /\ UNCHANGED <<threadVars, conn, pending, open, next>>

NoEvent == Scanning("events") /\ This.revents = "none" /\ Skip

\* poll_client_hangup(): poll() said so, or there is nothing to read.
poll_client_hangup ==
  /\ Scanning("events")
  /\ \/ This.revents = "hup"
     \/ This.revents = "in" /\ conn[This.fd].msg = "none"
  /\ poll_del_connection(srv.i, "events", srv.i + 1)
  /\ UNCHANGED <<conn, pending, open, table, next>>

\* handle_client() with ident_client_protocol() and match_client_protocol().
handle_client ==
  /\ Scanning("events") /\ This.revents = "in" /\ conn[This.fd].msg # "none"
  /\ conn' = [conn EXCEPT ![This.fd].msg = "none"]
  /\ UNCHANGED <<pending, open, next>>
  /\ \/ /\ This.identified \/ conn[This.fd].msg = "served"
        /\ table' = [table EXCEPT ![srv.i].identified = TRUE,
                                   ![srv.i].revents = "none"]
        /\ NextElement
        /\ UNCHANGED threadVars
     \/ /\ ~This.identified
        /\ conn[This.fd].msg = "unserved" \/ "memory" \in Faults
        /\ poll_del_connection(srv.i, "events", srv.i + 1)
        /\ UNCHANGED table

-----------------------------------------------------------------------------
(***************************************************************************)
(* process_server_queue() and server_send_client_queues().                 *)
(***************************************************************************)
\* A product comes out of the server queue before its wait times out.  It follows
\* each pass without another look at the quit flag.
process_server_queue ==
  /\ srv.pc = "queue" \/ (srv.pc = "loop" /\ ~quit)
  /\ next <= MaxProducts
  /\ srv' = [At("send") EXCEPT !.data = next]
  /\ next' = next + 1
  /\ UNCHANGED <<threadVars, conn, pending, open, table>>

\* An element is passed over when its thread does not run, and when the
\* netfilter or the emwin filter rejects the product.
server_send_client_queues ==
  /\ Scanning("send")
  /\ \/ Skip
     \/ /\ isnetclient_running(This)
        /\ connqueue_snd(This.id, srv.data)
        /\ NextElement
        /\ UNCHANGED <<conn, pending, open, table, next>>

-----------------------------------------------------------------------------
(***************************************************************************)
(* close_server(): conn_table_destroy() closes each connection and then    *)
(* stops its thread.                                                       *)
(***************************************************************************)
server_main_ends ==
  /\ srv.pc \in {"loop", "queue"} /\ quit
  /\ srv' = At("destroy")
  /\ UNCHANGED <<threadVars, conn, pending, open, table, next>>

conn_table_destroy ==
  /\ Scanning("destroy")
  /\ Close(This.fd)
  /\ pthread_cancel(This.id)
  /\ srv' = [srv EXCEPT !.pc = "destroy_join"]
  /\ UNCHANGED <<pending, table, next>>

Destroyed ==
  /\ srv.pc = "destroy_join" /\ ~Alive(This.id)
  /\ Freed(This.id)
  /\ srv' = [srv EXCEPT !.pc = "destroy", !.i = @ + 1]
  /\ UNCHANGED <<last, conn, pending, open, table, next>>

close_server ==
  /\ srv.pc = "destroy" /\ srv.i > Len(table)
  /\ table' = <<>>
  /\ srv' = At("done")
  /\ UNCHANGED <<threadVars, conn, pending, open, next>>

-----------------------------------------------------------------------------
(***************************************************************************)
(* The clients, and the signal that ends the daemon.                       *)
(***************************************************************************)
Connect(c, ip) ==
  /\ conn[c].st = "new" /\ \A d \in 1..(c - 1) : conn[d].st # "new"
  /\ ip <= c /\ ~quit
  /\ conn' = [conn EXCEPT ![c].st = "up", ![c].ip = ip]
  /\ pending' = Append(pending, c)
  /\ UNCHANGED <<threadVars, open, table, srv, next>>

\* A client says something once on a connection, its protocol or not.
Say(c, m) ==
  /\ conn[c].st = "up" /\ c \in open /\ ~conn[c].said /\ ~quit
  /\ conn' = [conn EXCEPT ![c].msg = m, ![c].said = TRUE]
  /\ UNCHANGED <<threadVars, pending, open, table, srv, next>>

\* A connection that is reset also loses what was not yet read.
Hangup(c) ==
  /\ conn[c].st = "up" /\ ~quit
  /\ \E m \in {conn[c].msg, "none"} :
       conn' = [conn EXCEPT ![c].st = "closed", ![c].msg = m]
  /\ UNCHANGED <<threadVars, pending, open, table, srv, next>>

set_quit_flag ==
  /\ ~quit /\ quit' = TRUE
  /\ UNCHANGED <<th, shared, ghosts, serverVars>>

Terminated == srv.pc = "done" /\ UNCHANGED vars

process_connections ==
  \/ process_finished_connections \/ process_unidentified_connections
  \/ process_dirty_connections \/ spawn_client_threads
  \/ poll \/ PassFails \/ AcceptAborted \/ NewClient \/ poll_restore_connection
  \/ ReplaceClient \/ Refused \/ conn_table_add_element
  \/ NoEvent \/ poll_client_hangup \/ handle_client

ServerStep ==
  \/ StartConnections \/ EndScan \/ conn_table_del_element
  \/ process_connections
  \/ process_server_queue \/ server_send_client_queues
  \/ server_main_ends \/ conn_table_destroy \/ Destroyed \/ close_server

ThreadRuns(t) == ThreadStep(t) /\ UNCHANGED serverVars

Next ==
  \/ ServerStep
  \/ \E t \in Conns : ThreadRuns(t)
  \/ \E c \in Conns : Hangup(c) \/ \E ip \in Ips : Connect(c, ip)
  \/ \E c \in Conns, m \in Messages : Say(c, m)
  \/ set_quit_flag \/ Terminated

\* Each thread goes on; the wait of the server thread on its queue times out.
Fairness ==
  /\ WF_vars(ServerStep)
  /\ \A t \in Conns : WF_vars(ThreadRuns(t))

Spec == Init /\ [][Next]_vars /\ Fairness

-----------------------------------------------------------------------------
TypeOK ==
  /\ ThreadsTypeOK
  /\ conn \in [Conns -> Conn]
  /\ pending \in Seq(Conns)
  /\ open \subseteq Conns
  /\ table \in Seq(Element)
  /\ srv \in Srv
  /\ next \in 1 .. MaxProducts + 1

\* The state that a running thread reaches through its private copy (its
\* queue, its threadinfo) is not freed: its element is still in the table,
\* whatever deletes elements and however the others move.
NotFreedInUse ==
  \A t \in Conns : Alive(t) => \E i \in 1..Len(table) : table[i].id = t

\* The descriptor a thread writes to is open and is a connection of its own
\* client, although the server thread closes and replaces connections.  (At
\* the end conn_table_destroy() closes the connections of running threads.)
WritesOwnConnection ==
  srv.pc \notin {"destroy", "destroy_join"} =>
    \A t \in Conns : Alive(t) /\ th[t].fd # None =>
      /\ th[t].fd \in open
      /\ \A i \in 1..Len(table) :
           table[i].id = t => table[i].ip = conn[th[t].fd].ip

\* No client has two elements, and there are no more than are allowed.
OneElementEach ==
  /\ Len(table) <= MaxClients
  /\ \A i, j \in 1..Len(table) : i # j => table[i].ip # table[j].ip

\* What a client reads on a connection are products in order, each once, and
\* nothing after one that was cut short.
StreamIntact ==
  [][\A c \in Conns : last'[c] \notin {last[c], Nothing} =>
       last[c].whole /\ last[c].data < last'[c].data]_vars

\* As long as a thread runs, also across lost and restored connections, every
\* product queued for its client is sent, being sent or still queued (but for
\* the one that is lost when its queue cannot be truncated).
NothingLost ==
  \A t \in Conns : Alive(t) /\ ~th[t].f_exit /\ ~quit =>
    owed[t] = (IF th[t].data = None THEN <<>> ELSE <<th[t].data>>) \o queue[t]

\* A connection has been accepted for which there is no element yet.
Admitting == srv.pc = "admit" \/ (srv.pc = "join" /\ srv.ret = "admit")

\* The open descriptors that are neither in the table nor being put there.
Lost ==
  {c \in open : /\ \A i \in 1..Len(table) : table[i].fd # c
                /\ Admitting => srv.c # c}

\* No descriptor is lost: poll.c says of a connection it restores that the old
\* one is closed.
NoDescriptorLost == Lost = {}

\* No step but the restoring of a connection loses a descriptor, whatever is
\* closed, deleted, refused or moved in the table meanwhile and at the end; and
\* that one loses none but the descriptor it overwrites, of an element whose
\* thread has given it up.
LostOnlyByRestore ==
  [][\A c \in Lost' \ Lost :
       \E i \in 1..Len(table) :
         /\ table[i].fd = c /\ info[table[i].id].status = 1
         /\ pending # <<>> /\ table' = [table EXCEPT ![i].fd = Head(pending)]]_vars

\* The element of a thread that finished, and one whose client hung up.
Finished(c) == \E i \in 1..Len(table) : table[i].id = c /\ info[c].finished
HungUp(c) == \E i \in 1..Len(table) : table[i].fd = c /\ conn[c].st = "closed"

\* Not all passes end before the clients are looked at, as one does when poll() or
\* accept() fails or a client is refused.
ClientsLookedAt == []<>(srv.pc \in {"events", "destroy", "done"})

\* The elements of finished threads leave the table, although a deletion makes the
\* walk over it skip an element, and whatever becomes of accept(): again and again
\* there is none.  The same goes for the elements of clients that hung up, if the
\* passes get as far as looking at them.
DeadClientsRemoved ==
  /\ []<>(\A c \in Conns : ~Finished(c))
  /\ ClientsLookedAt => []<>(\A c \in Conns : ~HungUp(c))

\* When the daemon quits, the server thread joins all client threads and ends.
QuitCompletes == quit ~> (srv.pc = "done")
=============================================================================
