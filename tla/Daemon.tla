------------------------------- MODULE Daemon -------------------------------
(***************************************************************************)
(* The life of the daemon: start-up and shut-down in the main thread       *)
(* (src/main.c, src/init.c), its periodic tasks (src/per.c), the signal    *)
(* thread (src/signal.c) and the threads that they start and wait for.     *)
(* The filter thread is that of Filters.  Of the others, the processor,    *)
(* the server and the readers, only what the start and the end of the      *)
(* daemon depend on is here.                                               *)
(***************************************************************************)
EXTENDS Filters

CONSTANTS Readers,  \* the noaaport reader threads
          Slaves,   \* the slave threads
          MaxHups   \* bound: hangup signals

Others == {"processor", "server"} \cup Readers \cup Slaves
Threads == Others \cup {"filter"}

ASSUME DaemonAssumption ==
  /\ {"processor", "filter", "server"} \cap (Readers \cup Slaves) = {}
  /\ Readers \cap Slaves = {}
  /\ MaxHups \in Nat

VARIABLES enabled,    \* the threads that the configuration asks for
          mpc, m,     \* what main() is doing, and the step of it
          thread,     \* the state of the other threads
          opened,     \* what is open or initialised
          reloading,  \* the server thread opens its filters again
          f_hup,      \* the hangup flag
          hups,       \* ghost: hangup signals so far
          owed        \* ghost: the threads that have to reload because of one

daemonVars == <<enabled, mpc, m, thread, opened, reloading, f_hup, hups, owed>>
vars == <<filterVars, daemonVars>>

\* main(), in order.  In a step of Threads a thread is spawned, in the others
\* something is opened.
StartSteps == <<"configure", "signals", "lock", "qstate", "feeds", "mspool", "queues",
                "processor", "filter", "server", "httpd", "readers", "slaves">>
Resources == {"lock", "qstate", "feeds", "mspool", "queues", "httpd"}

\* What the threads work with: the databases, the spools in memory, the sockets
\* and the slave table; the pid file says that some instance is working.
Uses(t) ==
  {"lock", "queues"} \cup
    CASE t = "processor"           -> {"mspool", "qstate"}
      [] t \in {"filter", "server"} -> {"mspool"}
      [] t \in Readers \cup Slaves  -> {"feeds"}

Live(t) == IF t = "filter" THEN fpc \notin {"none", "done"}
           ELSE thread[t] \notin {"none", "done"}

-----------------------------------------------------------------------------
(***************************************************************************)
(* main(): start-up.                                                       *)
(***************************************************************************)
\* The first error skips what is left, but what failed may be half open.
StartFails ==
  /\ mpc = "start" /\ m <= Len(StartSteps)
  /\ mpc' = "loop" /\ f_quit' = TRUE
  /\ \/ UNCHANGED opened
     \/ StartSteps[m] \in {"qstate", "feeds", "queues"} /\ opened' = opened \cup {StartSteps[m]}
  /\ UNCHANGED <<enabled, m, thread, reloading, f_hup, hups, owed>>
  /\ UNCHANGED <<list, handles, fpc, i, scan, dir, changed, reload, locked>>

\* With [-C] the configuration is printed and main() returns.
PrintsConfiguration ==
  /\ mpc = "start" /\ m = 1
  /\ mpc' = "cleanup" /\ m' = 1
  /\ UNCHANGED <<filterVars, enabled, thread, opened, reloading, f_hup, hups, owed>>

Feeds(step) == CASE step = "readers" -> Readers
                 [] step = "slaves"  -> Slaves
                 [] OTHER            -> {}

\* spawn_readers() and spawn_slave_threads() start a thread at a time.
SpawnFeed ==
  /\ mpc = "start" /\ m <= Len(StartSteps)
  /\ \E t \in Feeds(StartSteps[m]) \cap enabled :
       thread[t] = "none" /\ thread' = [thread EXCEPT ![t] = "running"]
  /\ UNCHANGED <<filterVars, enabled, mpc, m, opened, reloading, f_hup, hups, owed>>

\* A step that is done, or that the configuration leaves out.
StartStep ==
  /\ mpc = "start" /\ m <= Len(StartSteps)
  /\ LET step == StartSteps[m]
     IN  /\ \A t \in Feeds(step) \cap enabled : thread[t] # "none"
         /\ opened' = IF step \in Resources THEN opened \cup {step} ELSE opened
         /\ fpc' = IF step = "filter" /\ step \in enabled THEN "start" ELSE fpc
         /\ thread' = IF step \in {"processor", "server"} \cap enabled
                      THEN [thread EXCEPT ![step] = "running"] ELSE thread
  /\ m' = m + 1
  /\ UNCHANGED <<enabled, mpc, reloading, f_hup, hups, owed>>
  /\ UNCHANGED <<list, handles, i, scan, dir, changed, f_quit, reload, locked>>

Started ==
  /\ mpc = "start" /\ m > Len(StartSteps)
  /\ mpc' = "loop"
  /\ UNCHANGED <<filterVars, enabled, m, thread, opened, reloading, f_hup, hups, owed>>

(***************************************************************************)
(* The main loop, and the end of periodic(): the hangup flag becomes the   *)
(* reload flags of the filter and of the server thread, each under a mutex *)
(* of its own.                                                             *)
(***************************************************************************)
get_hup_flag ==
  /\ mpc = "loop"
  /\ IF f_quit THEN mpc' = "cleanup" /\ m' = 1 /\ UNCHANGED f_hup
     ELSE f_hup' = FALSE /\ mpc' = (IF f_hup THEN "set_filter" ELSE "loop") /\ UNCHANGED m
  /\ UNCHANGED <<filterVars, enabled, thread, opened, reloading, hups, owed>>

set_reload_filters_flag ==
  /\ mpc = "set_filter"
  /\ mpc' = "set_server" /\ locked' = "filter" /\ reload' = [reload EXCEPT !["filter"] = TRUE]
  /\ UNCHANGED <<enabled, m, thread, opened, reloading, f_hup, hups, owed>>
  /\ UNCHANGED <<list, handles, fpc, i, scan, dir, changed, f_quit>>

set_reload_server_filters_flag ==
  /\ mpc = "set_server"
  /\ mpc' = "unlock" /\ locked' = "server" /\ reload' = [reload EXCEPT !["server"] = TRUE]
  /\ UNCHANGED <<enabled, m, thread, opened, reloading, f_hup, hups, owed>>
  /\ UNCHANGED <<list, handles, fpc, i, scan, dir, changed, f_quit>>

pthread_mutex_unlock ==
  /\ mpc = "unlock"
  /\ mpc' = "loop" /\ locked' = "none"
  /\ UNCHANGED <<enabled, m, thread, opened, reloading, f_hup, hups, owed>>
  /\ UNCHANGED <<list, handles, fpc, i, scan, dir, changed, f_quit, reload>>

(***************************************************************************)
(* cleanup(), in order.                                                    *)
(***************************************************************************)
\* Mutant of CleanupSteps: the queues are closed before the processor is
\* waited for.
CleanupStepsEarly == <<"httpd", "cancel", "readers", "filter", "slaves", "server", "close_feeds",
                       "close_queues", "processor", "close_mspool", "files">>

CleanupSteps == <<"httpd", "cancel", "readers", "filter", "slaves", "server", "processor",
                  "close_feeds", "close_queues", "close_mspool", "files">>

At(step) == mpc = "cleanup" /\ CleanupSteps[m] = step

NextStep == m' = m + 1 /\ UNCHANGED mpc

\* Mutant of kill_reader_threads: the threads are waited for, not cancelled.
kill_reader_threads_wait ==
  /\ At("cancel") /\ NextStep
  /\ UNCHANGED <<filterVars, enabled, thread, opened, reloading, f_hup, hups, owed>>

\* All readers are cancelled and then all are joined.
kill_reader_threads ==
  /\ At("cancel") /\ NextStep
  /\ thread' = [t \in Others |-> IF t \in Readers /\ thread[t] = "running"
                                 THEN "cancelled" ELSE thread[t]]
  /\ UNCHANGED <<filterVars, enabled, opened, reloading, f_hup, hups, owed>>

\* A slave is cancelled and joined, then the next one is.
slavenet_kill_thread ==
  /\ At("slaves")
  /\ \A t \in Slaves : thread[t] # "cancelled"
  /\ \E t \in Slaves : /\ thread[t] = "running"
                       /\ thread' = [thread EXCEPT ![t] = "cancelled"]
  /\ UNCHANGED <<filterVars, enabled, mpc, m, opened, reloading, f_hup, hups, owed>>

\* pthread_join()
Join ==
  /\ \E step \in {"readers", "filter", "slaves", "server", "processor"} :
       /\ At(step) /\ NextStep
       /\ \A t \in Feeds(step) \cup ({step} \cap Threads) : ~Live(t)
  /\ UNCHANGED <<filterVars, enabled, thread, opened, reloading, f_hup, hups, owed>>

\* Mutant of Closes: the fifo of the queue state is left behind.
ClosesNoFifo(step) ==
  CASE step = "httpd"        -> {"httpd"}
    [] step = "close_feeds"  -> {"feeds"}
    [] step = "close_queues" -> {"queues"}
    [] step = "close_mspool" -> {"mspool"}
    [] step = "files"        -> {"lock"}

Closes(step) ==
  CASE step = "httpd"        -> {"httpd"}
    [] step = "close_feeds"  -> {"feeds"}
    [] step = "close_queues" -> {"queues"}
    [] step = "close_mspool" -> {"mspool"}
    [] step = "files"        -> {"qstate", "lock"}

\* close_feeds(), close_queues(), close_mspool(), cleanup_files(), and the
\* end of the web server.
Close ==
  /\ \E step \in {"httpd", "close_feeds", "close_queues", "close_mspool", "files"} :
       /\ At(step)
       /\ opened' = opened \ Closes(step)
       /\ IF step = "files" THEN mpc' = "exited" /\ UNCHANGED m ELSE NextStep
  /\ UNCHANGED <<filterVars, enabled, thread, reloading, f_hup, hups, owed>>

Main ==
  \/ StartFails \/ PrintsConfiguration \/ SpawnFeed \/ StartStep \/ Started
  \/ get_hup_flag \/ set_reload_filters_flag \/ set_reload_server_filters_flag
  \/ pthread_mutex_unlock
  \/ kill_reader_threads \/ slavenet_kill_thread \/ Join \/ Close

-----------------------------------------------------------------------------
(***************************************************************************)
(* The signal thread is not joined; it ends when it sees the quit flag.    *)
(***************************************************************************)
signal_handler ==
  /\ ~f_quit /\ mpc # "exited" /\ (mpc = "start" => m > 2)
  /\ \/ f_quit' = TRUE /\ UNCHANGED <<f_hup, hups, owed>>
     \/ /\ hups < MaxHups
        /\ f_hup' = TRUE /\ hups' = hups + 1 /\ UNCHANGED f_quit
        /\ owed' = owed \cup {t \in {"filter", "server"} : Live(t)}
  /\ UNCHANGED <<enabled, mpc, m, thread, opened, reloading>>
  /\ UNCHANGED <<list, handles, fpc, i, scan, dir, changed, reload, locked>>

\* A thread that cannot open what it needs, or a panic of the database.
set_quit_flag ==
  /\ ~f_quit
  /\ \E t \in Threads : Live(t)
  /\ f_quit' = TRUE
  /\ UNCHANGED <<daemonVars, list, handles, fpc, i, scan, dir, changed, reload, locked>>

\* The loop of a thread sees the quit flag.
Finish(t) ==
  /\ thread[t] = "running" /\ f_quit
  /\ t = "server" => ~reloading
  /\ thread' = [thread EXCEPT ![t] = "done"]
  /\ UNCHANGED <<filterVars, enabled, mpc, m, opened, reloading, f_hup, hups, owed>>

\* The request is honoured outside of sbnframeproc() and the like.
Cancelled(t) ==
  /\ thread[t] = "cancelled"
  /\ thread' = [thread EXCEPT ![t] = "done"]
  /\ UNCHANGED <<filterVars, enabled, mpc, m, opened, reloading, f_hup, hups, owed>>

\* server_loop(): the flag is looked at with pthread_mutex_trylock().
get_reload_server_filters_flag ==
  /\ thread["server"] = "running" /\ ~reloading /\ locked # "server"
  /\ reload["server"]
  /\ reload' = [reload EXCEPT !["server"] = FALSE]
  /\ reloading' = TRUE
  /\ owed' = owed \ {"server"}
  /\ UNCHANGED <<enabled, mpc, m, thread, opened, f_hup, hups>>
  /\ UNCHANGED <<list, handles, fpc, i, scan, dir, changed, f_quit, locked>>

\* The server tries until it can open its filters, whatever the quit flag.
open_server_filters ==
  /\ reloading /\ reloading' = FALSE
  /\ UNCHANGED <<filterVars, enabled, mpc, m, thread, opened, f_hup, hups, owed>>

\* The step of the filter thread that sees its flag begins the reload.
Filter ==
  /\ FilterThread
  /\ owed' = IF fpc = "reload?" /\ fpc' = "delete" THEN owed \ {"filter"} ELSE owed
  /\ UNCHANGED <<enabled, mpc, m, thread, opened, reloading, f_hup, hups>>

Environment == \E x \in DevNames : ChangeDir(x) /\ UNCHANGED daemonVars

Init ==
  /\ FiltersInit
  /\ enabled \in SUBSET Threads
  /\ mpc = "start" /\ m = 1
  /\ thread = [t \in Others |-> "none"]
  /\ opened = {} /\ reloading = FALSE
  /\ f_hup = FALSE /\ hups = 0 /\ owed = {}

Exited == mpc = "exited" /\ UNCHANGED vars

Next ==
  \/ Main \/ signal_handler \/ set_quit_flag
  \/ \E t \in Others : Finish(t) \/ Cancelled(t)
  \/ get_reload_server_filters_flag \/ open_server_filters
  \/ Filter \/ Environment \/ Exited

(***************************************************************************)
(* The threads go on, the filters that are told to quit do, and a reader   *)
(* that is cancelled reaches a cancellation point.  Without that it may    *)
(* wait for a frame, and nothing says that the filters of the server can   *)
(* ever be opened.                                                         *)
(***************************************************************************)
Fairness ==
  /\ WF_vars(Main) /\ WF_vars(Filter)
  /\ WF_vars(get_reload_server_filters_flag)
  /\ WF_vars(Finish("processor")) /\ WF_vars(Finish("server"))
  /\ \A t \in Readers \cup Slaves : WF_vars(Cancelled(t))

Spec == Init /\ [][Next]_vars /\ Fairness

-----------------------------------------------------------------------------
\* The values the variables range over.
TypeOK ==
  /\ FiltersTypeOK
  /\ enabled \subseteq Threads
  /\ mpc \in {"start", "loop", "set_filter", "set_server", "unlock", "cleanup", "exited"}
  /\ m \in 1 .. Len(StartSteps) + 1
  /\ thread \in [Others -> {"none", "running", "cancelled", "done"}]
  /\ opened \subseteq Resources
  /\ reloading \in BOOLEAN /\ f_hup \in BOOLEAN
  /\ hups \in Nat /\ owed \subseteq {"filter", "server"}

(***************************************************************************)
(* No thread runs before what it uses is open or after it is closed,       *)
(* whatever fails while the daemon starts and whenever it is stopped: the  *)
(* databases, the memory spools and the slave table outlive the threads,   *)
(* and the pid file keeps other instances out until the last one is gone.  *)
(***************************************************************************)
ResourcesOutliveThreads ==
  \A t \in Threads : Live(t) => Uses(t) \subseteq opened

(***************************************************************************)
(* A daemon that ends has closed all it had opened, the filters included,  *)
(* also when it ends because a part of it could not be started.            *)
(***************************************************************************)
NothingLeft ==
  mpc = "exited" => opened = {} /\ handles = 0 /\ \A t \in Threads : ~Live(t)

\* The server thread does not try for ever to open its filters, the directory of
\* the filters does not change for ever while it is read, and the queue of the
\* filter thread can be read at last.
ServerFiltersOpen == []<>~reloading
DirSettles == <>[][UNCHANGED dir]_vars
QueueReadable == <>[][fpc = "queue" => fpc' # "loop"]_vars

(***************************************************************************)
(* A hangup signal makes the filter and the server thread reload their     *)
(* filters, unless the daemon quits: the request goes from the signal      *)
(* thread to the main one and from there to them, and is not lost on the   *)
(* way even if another reload is going on.  The filter thread looks at its *)
(* flag only after it could read its queue.                                *)
(***************************************************************************)
HupReloads ==
  /\ (DirSettles /\ QueueReadable) => ("filter" \in owed ~> "filter" \notin owed \/ f_quit)
  /\ ServerFiltersOpen => ("server" \in owed ~> "server" \notin owed \/ f_quit)

(***************************************************************************)
(* Once the quit flag is set the daemon comes to its end, though readers   *)
(* may be waiting for a frame that never comes: the threads are waited for *)
(* in an order in which each of them can finish.                           *)
(***************************************************************************)
Stops == (ServerFiltersOpen /\ DirSettles) => (f_quit ~> mpc = "exited")
=============================================================================
