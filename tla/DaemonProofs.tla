---------------------------- MODULE DaemonProofs ----------------------------
(***************************************************************************)
(* Proofs about Daemon for any set of readers, slaves and filters and any  *)
(* configuration: the threads end before what they use is closed, nothing  *)
(* is left open, and the list of the filters is in order.                  *)
(***************************************************************************)
EXTENDS Daemon, FiltersProofs

\* A leaf is for Zenon unless it names SMT, and may take a minute.
USE ZenonT(60), SMTT(60)

Needed == {"lock", "qstate", "feeds", "mspool", "queues"}

NoneLive == \A t \in Threads : ~Live(t)

\* The types of the variables that Daemon adds to Filters.
DaemonTypeOK ==
  /\ enabled \subseteq Threads
  /\ mpc \in {"start", "loop", "set_filter", "set_server", "unlock", "cleanup", "exited"}
  /\ m \in 1 .. 14
  /\ thread \in [Others -> {"none", "running", "cancelled", "done"}]
  /\ opened \subseteq Resources
  /\ reloading \in BOOLEAN /\ f_hup \in BOOLEAN
  /\ hups \in Nat /\ owed \subseteq {"filter", "server"}

\* As far as main() has come, what it has opened, waited for and closed.
Phase ==
  /\ mpc = "start" =>
       /\ m <= 7 => NoneLive
       /\ m <= 9 => fpc = "none"
       /\ m > 3 => "lock" \in opened
       /\ m > 4 => "qstate" \in opened
       /\ m > 5 => "feeds" \in opened
       /\ m > 6 => "mspool" \in opened
       /\ m > 7 => "queues" \in opened
  /\ mpc = "cleanup" =>
       /\ m <= 11
       /\ m > 1 => "httpd" \notin opened
       /\ m > 3 => \A t \in Readers : ~Live(t)
       /\ m > 4 => ~Live("filter")
       /\ m > 5 => \A t \in Slaves : ~Live(t)
       /\ m > 6 => ~Live("server")
       /\ m > 7 => ~Live("processor")
       /\ m > 8 => "feeds" \notin opened
       /\ m > 9 => "queues" \notin opened
       /\ m > 10 => "mspool" \notin opened
  /\ mpc = "exited" => opened = {} /\ NoneLive

LiveNeeded == NoneLive \/ Needed \subseteq opened

DaemonInv == FiltersInv /\ DaemonTypeOK /\ Phase /\ LiveNeeded

-----------------------------------------------------------------------------
\* The steps of main().
LEMMA Steps ==
  /\ Len(StartSteps) = 13
  /\ StartSteps[1] = "configure" /\ StartSteps[2] = "signals" /\ StartSteps[3] = "lock"
  /\ StartSteps[4] = "qstate" /\ StartSteps[5] = "feeds" /\ StartSteps[6] = "mspool"
  /\ StartSteps[7] = "queues" /\ StartSteps[8] = "processor" /\ StartSteps[9] = "filter"
  /\ StartSteps[10] = "server" /\ StartSteps[11] = "httpd" /\ StartSteps[12] = "readers"
  /\ StartSteps[13] = "slaves"
  /\ CleanupSteps[1] = "httpd" /\ CleanupSteps[2] = "cancel" /\ CleanupSteps[3] = "readers"
  /\ CleanupSteps[4] = "filter" /\ CleanupSteps[5] = "slaves" /\ CleanupSteps[6] = "server"
  /\ CleanupSteps[7] = "processor" /\ CleanupSteps[8] = "close_feeds"
  /\ CleanupSteps[9] = "close_queues" /\ CleanupSteps[10] = "close_mspool"
  /\ CleanupSteps[11] = "files"
BY DEF StartSteps, CleanupSteps

\* Every thread is a thread of Others or the filter thread, and not both.
LEMMA ThreadNames ==
  /\ "filter" \notin Others /\ Threads = Others \cup {"filter"}
  /\ "processor" \in Others /\ "server" \in Others /\ Readers \subseteq Others
  /\ Slaves \subseteq Others
  /\ \A t \in Threads : \/ t \in Readers \/ t \in Slaves
                        \/ t = "filter" \/ t = "server" \/ t = "processor"
BY DaemonAssumption DEF Others, Threads

\* What a thread uses is opened before any thread starts.
LEMMA UsesNeeded ==
  \A t \in Threads : Uses(t) \subseteq Needed
BY ThreadNames, DaemonAssumption DEF Uses, Needed

\* The invariant implies the properties.
LEMMA DaemonInvImplies ==
  DaemonInv => /\ TypeOK /\ ListExact /\ HandlesListed /\ NoStalePipes
               /\ ResourcesOutliveThreads /\ NothingLeft
<1> SUFFICES ASSUME DaemonInv
             PROVE  /\ TypeOK /\ ListExact /\ HandlesListed /\ NoStalePipes
                    /\ ResourcesOutliveThreads /\ NothingLeft
  OBVIOUS
<1>1. ListExact /\ HandlesListed /\ NoStalePipes
  BY FiltersInvImplies DEF DaemonInv
<1>2. TypeOK
  BY SMTT(60), Steps DEF DaemonInv, DaemonTypeOK, TypeOK, FiltersInv
<1>3. ResourcesOutliveThreads
  BY UsesNeeded DEF DaemonInv, LiveNeeded, NoneLive, ResourcesOutliveThreads
<1>4. NothingLeft
  <2> SUFFICES ASSUME mpc = "exited" PROVE opened = {} /\ handles = 0 /\ NoneLive
    BY DEF NothingLeft, NoneLive
  <2>1. opened = {} /\ NoneLive
    BY DEF DaemonInv, Phase
  <2>2. fpc \in {"none", "done"}
    BY <2>1, ThreadNames DEF NoneLive, Live
  <2> QED
    BY <2>1, <2>2, NothingOpen DEF DaemonInv
<1> QED
  BY <1>1, <1>2, <1>3, <1>4

\* Nothing is open and no thread runs at the start.
LEMMA DaemonInitInv ==
  Init => DaemonInv
<1> SUFFICES ASSUME Init PROVE DaemonInv
  OBVIOUS
<1>1. FiltersInv
  BY FiltersInitInv DEF Init
<1>2. DaemonTypeOK
  <2>1. thread \in [Others -> {"none", "running", "cancelled", "done"}]
    BY DEF Init
  <2>2. enabled \subseteq Threads /\ opened \subseteq Resources /\ owed \subseteq {"filter", "server"}
    BY DEF Init
  <2>3. m \in 1 .. 14 /\ hups \in Nat /\ mpc = "start"
    BY SMTT(60) DEF Init
  <2> QED
    BY ZenonT(60), <2>1, <2>2, <2>3 DEF Init, DaemonTypeOK
<1>3. NoneLive
  BY ThreadNames DEF Init, FiltersInit, NoneLive, Live
<1>4. Phase /\ LiveNeeded
  BY SMTT(60), <1>3 DEF Init, FiltersInit, Phase, LiveNeeded
<1> QED
  BY <1>1, <1>2, <1>4 DEF DaemonInv

-----------------------------------------------------------------------------
\* A step of main() while it starts.
LEMMA StartInv ==
  ASSUME DaemonInv, StartFails \/ PrintsConfiguration \/ SpawnFeed \/ StartStep \/ Started
  PROVE  DaemonInv'
<1> USE DEF DaemonInv
<1>1. FiltersTypeOK
  BY DEF FiltersInv
<1>2. FiltersInv'
  <2>1. UNCHANGED <<list, handles, i, scan, dir, changed, reload, locked>>
    BY DEF StartFails, PrintsConfiguration, SpawnFeed, StartStep, Started, filterVars
  <2>2. fpc' = fpc \/ (fpc = "none" /\ fpc' = "start")
    <3>1. CASE StartStep
      <4>1. StartSteps[m] = "filter" => fpc = "none"
        BY SMTT(60), <3>1, Steps DEF StartStep, Phase, DaemonTypeOK
      <4> QED
        BY <3>1, <4>1 DEF StartStep
    <3> QED
      BY <3>1 DEF StartFails, PrintsConfiguration, SpawnFeed, Started, filterVars
  <2>3. f_quit' \in BOOLEAN /\ (f_quit => f_quit')
    BY ZenonT(60), <1>1
    DEF StartFails, PrintsConfiguration, SpawnFeed, StartStep, Started, filterVars,
         FiltersTypeOK
  <2>4. reload' \in [{"filter", "server"} -> BOOLEAN] /\ locked' \in {"none", "filter", "server"}
    BY <1>1, <2>1 DEF FiltersTypeOK
  <2> QED
    BY <2>1, <2>2, <2>3, <2>4, FiltersOthers
<1>3. CASE StartFails
  <2>1. UNCHANGED <<thread, fpc>> /\ opened \subseteq opened' /\ mpc' = "loop"
    BY <1>3 DEF StartFails
  <2>2. DaemonTypeOK'
    BY ZenonT(60), <1>3 DEF StartFails, DaemonTypeOK, Resources
  <2>3. LiveNeeded' /\ Phase'
    BY <2>1 DEF LiveNeeded, NoneLive, Live, Phase
  <2> QED
    BY <1>2, <2>2, <2>3
<1>4. CASE PrintsConfiguration
  <2>1. UNCHANGED <<thread, fpc, opened>> /\ mpc' = "cleanup" /\ m' = 1
    BY <1>4 DEF PrintsConfiguration, filterVars
  <2>2. DaemonTypeOK'
    BY <1>4 DEF PrintsConfiguration, DaemonTypeOK
  <2>3. LiveNeeded' /\ Phase'
    BY SMTT(60), <2>1 DEF LiveNeeded, NoneLive, Live, Phase
  <2> QED
    BY <1>2, <2>2, <2>3
<1>5. CASE SpawnFeed
  <2>1. m \in {12, 13}
    BY SMTT(60), <1>5, Steps DEF SpawnFeed, Feeds, DaemonTypeOK
  <2>2. UNCHANGED <<fpc, opened, mpc, m>> /\ mpc = "start"
    BY <1>5 DEF SpawnFeed, filterVars
  <2>3. PICK t \in Feeds(StartSteps[m]) : thread' = [thread EXCEPT ![t] = "running"]
    BY ZenonT(60), <1>5 DEF SpawnFeed
  <2>4. DaemonTypeOK'
    BY ZenonT(60), <1>5, <2>3 DEF SpawnFeed, DaemonTypeOK
  <2>5. Needed \subseteq opened
    BY SMTT(60), <2>1, <2>2 DEF Phase, Needed
  <2>6. LiveNeeded' /\ Phase'
    BY SMTT(60), <2>1, <2>2, <2>5 DEF LiveNeeded, Phase
  <2> QED
    BY <1>2, <2>4, <2>6
<1>6. CASE StartStep
  <2>1. m \in 1 .. 13 /\ m' = m + 1 /\ mpc = "start" /\ mpc' = "start"
    BY SMTT(60), <1>6, Steps DEF StartStep, DaemonTypeOK
  <2>2. opened \subseteq opened' /\ opened' \subseteq Resources
    BY <1>6 DEF StartStep, DaemonTypeOK
  <2>3. StartSteps[m] \in Resources => StartSteps[m] \in opened'
    BY <1>6 DEF StartStep
  <2>4. thread' \in [Others -> {"none", "running", "cancelled", "done"}]
    BY <1>6, ThreadNames DEF StartStep, DaemonTypeOK
  <2>5. DaemonTypeOK'
    <3>1. m' \in 1 .. 14
      BY SMTT(60), <2>1
    <3> QED
      BY <1>6, <2>1, <2>2, <2>4, <3>1 DEF StartStep, DaemonTypeOK
  <2>6. m <= 7 => UNCHANGED thread
    BY SMTT(60), <1>6, <2>1, Steps DEF StartStep
  <2>7. m <= 8 => UNCHANGED fpc
    BY SMTT(60), <1>6, <2>1, Steps DEF StartStep
  <2>8. m <= 7 => NoneLive'
    BY SMTT(60), <2>1, <2>6, <2>7 DEF Phase, NoneLive, Live
  <2>9. /\ m' > 3 => "lock" \in opened'
        /\ m' > 4 => "qstate" \in opened'
        /\ m' > 5 => "feeds" \in opened'
        /\ m' > 6 => "mspool" \in opened'
        /\ m' > 7 => "queues" \in opened'
    BY SMTT(60), <2>1, <2>2, <2>3, Steps DEF Phase, Resources
  <2>10. m' <= 9 => fpc' = "none"
    BY SMTT(60), <2>1, <2>7 DEF Phase
  <2>11. Phase'
    BY SMTT(60), <2>1, <2>8, <2>9, <2>10 DEF Phase
  <2>12. LiveNeeded'
    BY SMTT(60), <2>1, <2>8, <2>9 DEF LiveNeeded, Needed
  <2> QED
    BY <1>2, <2>5, <2>11, <2>12
<1>7. CASE Started
  <2>1. UNCHANGED <<thread, fpc, opened>> /\ mpc' = "loop"
    BY <1>7 DEF Started, filterVars
  <2>2. DaemonTypeOK'
    BY <1>7 DEF Started, DaemonTypeOK
  <2>3. LiveNeeded' /\ Phase'
    BY <2>1 DEF LiveNeeded, NoneLive, Live, Phase
  <2> QED
    BY <1>2, <2>2, <2>3
<1> QED
  BY <1>3, <1>4, <1>5, <1>6, <1>7

-----------------------------------------------------------------------------
\* Threads may end whatever main() is doing.
LEMMA Quieter ==
  ASSUME Phase, LiveNeeded, UNCHANGED <<mpc, m, opened>>,
         \A t \in Threads : Live(t)' => Live(t),
         fpc = "none" => fpc' = "none"
  PROVE  Phase' /\ LiveNeeded'
<1>1. NoneLive => NoneLive'
  BY DEF NoneLive
<1>2. LiveNeeded'
  BY <1>1 DEF LiveNeeded
<1>3. /\ (\A t \in Readers : ~Live(t)) => \A t \in Readers : ~Live(t)'
      /\ (\A t \in Slaves : ~Live(t)) => \A t \in Slaves : ~Live(t)'
      /\ ~Live("filter") => ~Live("filter")'
      /\ ~Live("server") => ~Live("server")'
      /\ ~Live("processor") => ~Live("processor")'
  BY ThreadNames
<1>4. Phase'
  BY SMTT(60), <1>1, <1>3 DEF Phase
<1> QED
  BY <1>2, <1>4

\* A step that changes no thread, nothing that is open and, of what Filters
\* knows, only the flags.
LEMMA FlagsInv ==
  ASSUME DaemonInv, UNCHANGED <<list, handles, fpc, i, scan, dir, changed>>,
         f_quit' \in BOOLEAN, f_quit => f_quit',
         reload' \in [{"filter", "server"} -> BOOLEAN], locked' \in {"none", "filter", "server"}
  PROVE  FiltersInv'
BY FiltersOthers DEF DaemonInv

\* The main loop.
LEMMA LoopInv ==
  ASSUME DaemonInv,
         \/ get_hup_flag \/ set_reload_filters_flag \/ set_reload_server_filters_flag
         \/ pthread_mutex_unlock
  PROVE  DaemonInv'
<1>1. FiltersTypeOK
  BY DEF DaemonInv, FiltersInv
<1>2. /\ UNCHANGED <<list, handles, fpc, i, scan, dir, changed, f_quit, thread, opened>>
      /\ mpc \in {"loop", "set_filter", "set_server", "unlock"}
      /\ \/ mpc' \in {"loop", "set_filter", "set_server", "unlock"}
         \/ mpc' = "cleanup" /\ m' = 1
  BY DEF get_hup_flag, set_reload_filters_flag, set_reload_server_filters_flag,
       pthread_mutex_unlock, filterVars
<1>3. reload' \in [{"filter", "server"} -> BOOLEAN] /\ locked' \in {"none", "filter", "server"}
  BY ZenonT(60), <1>1
  DEF get_hup_flag, set_reload_filters_flag, set_reload_server_filters_flag,
       pthread_mutex_unlock, filterVars, FiltersTypeOK
<1>4. f_quit' \in BOOLEAN /\ (f_quit => f_quit')
  BY <1>1, <1>2 DEF FiltersTypeOK
<1>5. FiltersInv'
  BY <1>2, <1>3, <1>4, FlagsInv
<1>6. DaemonTypeOK'
  <2>1. m' \in 1 .. 14
    <3>1. m' = m \/ m' = 1
      BY DEF get_hup_flag, set_reload_filters_flag, set_reload_server_filters_flag,
           pthread_mutex_unlock
    <3> QED
      BY SMTT(60), <3>1 DEF DaemonInv, DaemonTypeOK
  <2>2. UNCHANGED <<enabled, thread, opened, reloading, hups, owed>>
    BY DEF get_hup_flag, set_reload_filters_flag, set_reload_server_filters_flag,
         pthread_mutex_unlock
  <2>3. f_hup' \in BOOLEAN
    <3>1. f_hup' = f_hup \/ f_hup' = FALSE
      BY DEF get_hup_flag, set_reload_filters_flag, set_reload_server_filters_flag,
           pthread_mutex_unlock
    <3> QED
      BY ZenonT(60), <3>1 DEF DaemonInv, DaemonTypeOK
  <2> QED
    BY <1>2, <2>1, <2>2, <2>3 DEF DaemonInv, DaemonTypeOK
<1>7. LiveNeeded' /\ Phase'
  BY SMTT(60), <1>2 DEF DaemonInv, LiveNeeded, NoneLive, Live, Phase
<1> QED
  BY <1>5, <1>6, <1>7 DEF DaemonInv

\* A step that leaves the filter thread and the configuration alone.
LEMMA FilterSame ==
  ASSUME DaemonInv, UNCHANGED filterVars
  PROVE  FiltersInv'
<1>1. UNCHANGED <<list, handles, fpc, i, scan, dir, changed, f_quit, reload, locked>>
  BY DEF filterVars
<1>2. /\ f_quit' \in BOOLEAN /\ (f_quit => f_quit')
      /\ reload' \in [{"filter", "server"} -> BOOLEAN] /\ locked' \in {"none", "filter", "server"}
  BY <1>1 DEF DaemonInv, FiltersInv, FiltersTypeOK
<1> QED
  BY <1>1, <1>2, FlagsInv

\* The other threads, and the signals.
LEMMA ThreadsInv ==
  ASSUME DaemonInv,
         \/ signal_handler \/ set_quit_flag
         \/ \E t \in Others : Finish(t) \/ Cancelled(t)
         \/ get_reload_server_filters_flag \/ open_server_filters
  PROVE  DaemonInv'
<1>1. FiltersTypeOK /\ DaemonTypeOK
  BY DEF DaemonInv, FiltersInv
<1>2. UNCHANGED <<list, handles, fpc, i, scan, dir, changed, enabled, mpc, m, opened>>
  BY DEF signal_handler, set_quit_flag, Finish, Cancelled, get_reload_server_filters_flag,
       open_server_filters, filterVars, daemonVars
<1>3. /\ f_quit' \in BOOLEAN /\ (f_quit => f_quit')
      /\ reload' \in [{"filter", "server"} -> BOOLEAN] /\ locked' \in {"none", "filter", "server"}
  BY ZenonT(60), <1>1
  DEF signal_handler, set_quit_flag, Finish, Cancelled, get_reload_server_filters_flag,
       open_server_filters, filterVars, daemonVars, FiltersTypeOK
<1>4. FiltersInv'
  BY <1>2, <1>3, FlagsInv
<1>5. \/ UNCHANGED thread
      \/ \E t \in Others : thread[t] \notin {"none", "done"} /\ thread' = [thread EXCEPT ![t] = "done"]
  BY DEF signal_handler, set_quit_flag, Finish, Cancelled, get_reload_server_filters_flag,
       open_server_filters, daemonVars
<1>6. thread' \in [Others -> {"none", "running", "cancelled", "done"}]
  BY <1>1, <1>5 DEF DaemonTypeOK
<1>7. DaemonTypeOK'
  <2>1. reloading' \in BOOLEAN /\ f_hup' \in BOOLEAN /\ owed' \subseteq {"filter", "server"}
    BY ZenonT(60), <1>1
    DEF signal_handler, set_quit_flag, Finish, Cancelled, get_reload_server_filters_flag,
       open_server_filters, daemonVars, DaemonTypeOK
  <2>2. hups' \in Nat
    BY SMTT(60), <1>1 DEF signal_handler, set_quit_flag, Finish, Cancelled, get_reload_server_filters_flag,
       open_server_filters, daemonVars, DaemonTypeOK
  <2> QED
    BY <1>1, <1>2, <1>6, <2>1, <2>2 DEF DaemonTypeOK
<1>8. \A t \in Threads : Live(t)' => Live(t)
  BY <1>1, <1>2, <1>5, ThreadNames DEF Live, DaemonTypeOK
<1>9. Phase' /\ LiveNeeded'
  BY <1>2, <1>8, Quieter DEF DaemonInv
<1> QED
  BY <1>4, <1>7, <1>9 DEF DaemonInv

\* The filter thread and the directory.
LEMMA FilterInv ==
  ASSUME DaemonInv, Filter \/ Environment
  PROVE  DaemonInv'
<1>1. UNCHANGED <<enabled, mpc, m, thread, opened, reloading, f_hup, hups>>
  BY DEF Filter, Environment, daemonVars
<1>2. owed' \subseteq owed
  BY DEF Filter, Environment, daemonVars
<1>3. FiltersInv'
  BY FilterThreadInv, ChangeDirInv DEF DaemonInv, Filter, Environment
<1>4. DaemonTypeOK'
  BY <1>1, <1>2 DEF DaemonInv, DaemonTypeOK
<1>5. fpc' = fpc \/ fpc \notin {"none", "done"}
  <2>1. CASE Filter
    BY <2>1, FilterThreadSteps DEF Filter, DaemonInv
  <2>2. CASE Environment
    BY <2>2 DEF Environment, ChangeDir
  <2> QED
    BY <2>1, <2>2
<1>6. \A t \in Threads : Live(t)' => Live(t)
  BY <1>1, <1>5, ThreadNames DEF Live
<1>7. Phase' /\ LiveNeeded'
  BY <1>1, <1>5, <1>6, Quieter DEF DaemonInv
<1> QED
  BY <1>3, <1>4, <1>7 DEF DaemonInv

\* cleanup()
LEMMA CleanupInv ==
  ASSUME DaemonInv, kill_reader_threads \/ slavenet_kill_thread \/ Join \/ Close
  PROVE  DaemonInv'
<1>1. DaemonTypeOK /\ Phase /\ LiveNeeded
  BY DEF DaemonInv
<1>2. UNCHANGED <<filterVars, enabled, reloading, f_hup, hups, owed>> /\ mpc = "cleanup"
  BY DEF kill_reader_threads, slavenet_kill_thread, Join, Close, At
<1>3. FiltersInv'
  BY <1>2, FilterSame
<1>4. UNCHANGED fpc
  BY <1>2 DEF filterVars
<1>5. m \in 1 .. 11
  BY SMTT(60), <1>1, <1>2 DEF Phase, DaemonTypeOK
<1>6. CASE kill_reader_threads
  <2>1. m = 2 /\ m' = 3 /\ mpc' = "cleanup" /\ UNCHANGED opened
    BY SMTT(60), <1>5, <1>6, Steps DEF kill_reader_threads, At, NextStep
  <2>2. DaemonTypeOK'
    <3>1. thread' \in [Others -> {"none", "running", "cancelled", "done"}]
      BY <1>1, <1>6 DEF kill_reader_threads, DaemonTypeOK
    <3> QED
      BY SMTT(60), <1>1, <1>2, <2>1, <3>1 DEF DaemonTypeOK
  <2>3. \A t \in Threads : Live(t)' => Live(t)
    BY <1>1, <1>4, <1>6, ThreadNames DEF kill_reader_threads, Live, DaemonTypeOK
  <2>4. Phase'
    BY SMTT(60), <1>1, <1>2, <2>1 DEF Phase
  <2>5. LiveNeeded'
    BY <1>1, <2>1, <2>3 DEF LiveNeeded, NoneLive
  <2> QED
    BY <1>3, <2>2, <2>4, <2>5 DEF DaemonInv
<1>7. CASE slavenet_kill_thread
  <2>1. UNCHANGED <<mpc, m, opened>>
    BY <1>7 DEF slavenet_kill_thread
  <2>2. PICK t \in Slaves : thread[t] = "running" /\ thread' = [thread EXCEPT ![t] = "cancelled"]
    BY ZenonT(60), <1>7 DEF slavenet_kill_thread
  <2>3. DaemonTypeOK'
    BY <1>1, <1>2, <2>1, <2>2, ThreadNames DEF DaemonTypeOK
  <2>4. \A u \in Threads : Live(u)' => Live(u)
    BY <1>1, <1>4, <2>2, ThreadNames DEF Live, DaemonTypeOK
  <2> QED
    BY <1>1, <1>3, <1>4, <2>1, <2>3, <2>4, Quieter DEF DaemonInv
<1>8. CASE Join
  <2>1. PICK step \in {"readers", "filter", "slaves", "server", "processor"} :
          /\ At(step) /\ NextStep
          /\ \A t \in Feeds(step) \cup ({step} \cap Threads) : ~Live(t)
    BY <1>8 DEF Join
  <2>2. m \in 3 .. 7 /\ m' = m + 1 /\ mpc' = "cleanup" /\ UNCHANGED <<opened, thread>>
    BY SMTT(60), <1>5, <1>8, <2>1, Steps DEF Join, At, NextStep
  <2>3. DaemonTypeOK'
    BY SMTT(60), <1>1, <1>2, <2>2 DEF DaemonTypeOK
  <2>4. \A t \in Threads : Live(t)' <=> Live(t)
    BY <1>4, <2>2 DEF Live
  <2>5. /\ m = 3 => \A t \in Readers : ~Live(t)
        /\ m = 4 => ~Live("filter")
        /\ m = 5 => \A t \in Slaves : ~Live(t)
        /\ m = 6 => ~Live("server")
        /\ m = 7 => ~Live("processor")
    BY <2>1, Steps, ThreadNames DEF At, Feeds
  <2>6. /\ m' > 3 => \A t \in Readers : ~Live(t)
        /\ m' > 4 => ~Live("filter")
        /\ m' > 5 => \A t \in Slaves : ~Live(t)
        /\ m' > 6 => ~Live("server")
        /\ m' > 7 => ~Live("processor")
    BY SMTT(60), <1>1, <1>2, <2>2, <2>5 DEF Phase
  <2>7. /\ m' > 3 => \A t \in Readers : ~Live(t)'
        /\ m' > 4 => ~Live("filter")'
        /\ m' > 5 => \A t \in Slaves : ~Live(t)'
        /\ m' > 6 => ~Live("server")'
        /\ m' > 7 => ~Live("processor")'
    BY <2>4, <2>6, ThreadNames
  <2>8. Phase'
    BY SMTT(60), <1>1, <1>2, <2>2, <2>7 DEF Phase
  <2>9. LiveNeeded'
    BY <1>1, <2>2, <2>4 DEF LiveNeeded, NoneLive
  <2> QED
    BY <1>3, <2>3, <2>8, <2>9 DEF DaemonInv
<1>9. CASE Close
  <2>1. PICK step \in {"httpd", "close_feeds", "close_queues", "close_mspool", "files"} :
          /\ At(step)
          /\ opened' = opened \ Closes(step)
          /\ IF step = "files" THEN mpc' = "exited" /\ UNCHANGED m ELSE NextStep
    BY <1>9 DEF Close
  <2>2. UNCHANGED thread /\ opened' \subseteq opened
    BY <1>9, <2>1 DEF Close
  <2>3. \A t \in Threads : Live(t)' <=> Live(t)
    BY <1>4, <2>2 DEF Live
  <2>4. CASE step = "httpd"
    <3>1. m = 1 /\ m' = 2 /\ mpc' = "cleanup" /\ opened' = opened \ {"httpd"}
      BY SMTT(60), <1>5, <2>1, <2>4, Steps DEF At, NextStep, Closes
    <3>2. DaemonTypeOK'
      BY SMTT(60), <1>1, <1>2, <2>2, <3>1 DEF DaemonTypeOK
    <3>3. Phase'
      BY SMTT(60), <3>1 DEF Phase
    <3>4. LiveNeeded'
      BY <1>1, <2>3, <3>1 DEF LiveNeeded, NoneLive, Needed
    <3> QED
      BY <1>3, <3>2, <3>3, <3>4 DEF DaemonInv
  <2>5. CASE step # "httpd"
    <3>1. m \in 8 .. 11
      BY SMTT(60), <1>5, <2>1, <2>5, Steps DEF At
    <3>2. NoneLive
      BY SMTT(60), <1>1, <1>2, <3>1, ThreadNames DEF Phase, NoneLive
    <3>3. NoneLive'
      BY <2>3, <3>2 DEF NoneLive
    <3>4. LiveNeeded'
      BY <3>3 DEF LiveNeeded
    <3>5. /\ m = 8 => step = "close_feeds" /\ Closes(step) = {"feeds"}
          /\ m = 9 => step = "close_queues" /\ Closes(step) = {"queues"}
          /\ m = 10 => step = "close_mspool" /\ Closes(step) = {"mspool"}
          /\ m = 11 => step = "files" /\ Closes(step) = {"qstate", "lock"}
      BY <2>1, <2>5, Steps DEF At, Closes
    <3>6. CASE m = 11
      <4>1. mpc' = "exited" /\ m' = 11 /\ opened' = opened \ {"qstate", "lock"}
        BY <2>1, <3>5, <3>6
      <4>2. opened' = {}
        BY SMTT(60), <1>1, <1>2, <3>6, <4>1 DEF Phase, DaemonTypeOK, Resources
      <4>3. DaemonTypeOK'
        BY SMTT(60), <1>1, <1>2, <2>2, <4>1 DEF DaemonTypeOK
      <4>4. Phase'
        BY <3>3, <4>1, <4>2 DEF Phase
      <4> QED
        BY <1>3, <3>4, <4>3, <4>4 DEF DaemonInv
    <3>7. CASE m \in 8 .. 10
      <4>1. mpc' = "cleanup" /\ m' = m + 1
        BY SMTT(60), <1>2, <2>1, <3>5, <3>7 DEF NextStep
      <4>2. /\ "httpd" \notin opened'
            /\ m' > 8 => "feeds" \notin opened'
            /\ m' > 9 => "queues" \notin opened'
            /\ m' > 10 => "mspool" \notin opened'
        BY SMTT(60), <1>1, <1>2, <2>1, <2>2, <3>5, <3>7, <4>1 DEF Phase
      <4>3. DaemonTypeOK'
        BY SMTT(60), <1>1, <1>2, <2>2, <3>7, <4>1 DEF DaemonTypeOK
      <4>4. /\ \A t \in Readers : ~Live(t)'
            /\ \A t \in Slaves : ~Live(t)'
            /\ ~Live("filter")' /\ ~Live("server")' /\ ~Live("processor")'
        BY <3>3, ThreadNames DEF NoneLive
      <4>5. m' <= 11
        BY SMTT(60), <3>7, <4>1
      <4>6. Phase'
        BY <4>1, <4>2, <4>4, <4>5 DEF Phase
      <4> QED
        BY <1>3, <3>4, <4>3, <4>6 DEF DaemonInv
    <3> QED
      BY SMTT(60), <3>1, <3>6, <3>7
  <2> QED
    BY <2>4, <2>5
<1> QED
  BY <1>6, <1>7, <1>8, <1>9

\* Every step keeps the invariant.
LEMMA DaemonStepInv ==
  DaemonInv /\ [Next]_vars => DaemonInv'
<1> SUFFICES ASSUME DaemonInv, [Next]_vars PROVE DaemonInv'
  OBVIOUS
<1>1. CASE Main
  BY <1>1, StartInv, LoopInv, CleanupInv DEF Main
<1>2. CASE \/ signal_handler \/ set_quit_flag
           \/ \E t \in Others : Finish(t) \/ Cancelled(t)
           \/ get_reload_server_filters_flag \/ open_server_filters
  BY <1>2, ThreadsInv
<1>3. CASE Filter \/ Environment
  BY <1>3, FilterInv
<1>4. CASE UNCHANGED vars
  <2>1. UNCHANGED <<filterVars, enabled, mpc, m, thread, opened, reloading, f_hup, hups, owed, fpc>>
    BY <1>4 DEF vars, filterVars, daemonVars
  <2>2. FiltersInv'
    BY <2>1, FilterSame
  <2>3. DaemonTypeOK'
    BY <2>1 DEF DaemonInv, DaemonTypeOK
  <2>4. \A t \in Threads : Live(t)' => Live(t)
    BY <2>1 DEF Live
  <2> QED
    BY <2>1, <2>2, <2>3, <2>4, Quieter DEF DaemonInv
<1> QED
  BY <1>1, <1>2, <1>3, <1>4 DEF Next, Exited

\* The invariant holds in every reachable state.
LEMMA DaemonAlways ==
  Spec => []DaemonInv
BY DaemonInitInv, DaemonStepInv, PTL DEF Spec

-----------------------------------------------------------------------------
\* The count of the filter list is that of its entries, with no filter listed
\* twice, however filters.c adds to, reopens and empties the list.
THEOREM FilterListExact ==
  Spec => []ListExact
BY DaemonAlways, DaemonInvImplies, PTL

\* Every open fifo or pipe of the filter thread is in its list: opening and
\* closing filters leaks no handle.
THEOREM FilterHandlesListed ==
  Spec => []HandlesListed
BY DaemonAlways, DaemonInvImplies, PTL

\* reload_filters(): a script that is listed is in the directory, unless it
\* changed after the directory was read last.
THEOREM FilterNoStalePipes ==
  Spec => []NoStalePipes
BY DaemonAlways, DaemonInvImplies, PTL

\* main() and cleanup(): no thread works with what is not open yet or is
\* already closed, for every set of readers and slaves, every configuration,
\* every failure of the start and every moment of the end.
THEOREM DaemonResourcesOutliveThreads ==
  Spec => []ResourcesOutliveThreads
BY DaemonAlways, DaemonInvImplies, PTL

\* cleanup(): a daemon that has ended has closed all it opened, also after a
\* start that failed half way.
THEOREM DaemonNothingLeft ==
  Spec => []NothingLeft
BY DaemonAlways, DaemonInvImplies, PTL

\* The types of the daemon and of its filter thread.
THEOREM DaemonTypesHold ==
  Spec => []TypeOK
<1>1. DaemonInv => TypeOK
  <2> SUFFICES ASSUME DaemonInv PROVE TypeOK
    OBVIOUS
  <2>1. Len(StartSteps) + 1 = 14
    BY SMTT(60), Steps
  <2> QED
    BY ZenonT(60), <2>1 DEF DaemonInv, FiltersInv, DaemonTypeOK, TypeOK
<1> QED
  BY <1>1, DaemonAlways, PTL
=============================================================================
