------------------------------ MODULE Filters ------------------------------
(***************************************************************************)
(* The filter thread (src/filters.c, src/pfilter.c): the list of filters,  *)
(* fifos and pipes to scripts, each product sent to all of them, and the   *)
(* list read again from the configuration and from a directory when the    *)
(* main thread asks for it.                                                *)
(*                                                                         *)
(* The list is private to the thread.  The directory is not: scripts and   *)
(* fifos come, go and are replaced while it is read, and the other ends of *)
(* the fifos and pipes open and close as they like.  A loop over the list  *)
(* is a step for each entry.                                               *)
(***************************************************************************)
EXTENDS Integers, FiniteSets, Sequences

CONSTANTS SysFilters,  \* g.sysfilterlist: the commands, in order
          DevNames,    \* the names that g.filterdevdir may have
          NULL

SysNames == {SysFilters[k] : k \in 1 .. Len(SysFilters)}
Names == SysNames \cup DevNames

ASSUME FiltersAssumption ==
  /\ SysFilters \in Seq(SysNames)
  /\ NULL \notin Names

INITIAL_SIZE == 1
GROW_FACTOR == 2

VARIABLES n, nmax, filters,  \* gflist
          handles,           \* ghost: descriptors and pipes the thread has open
          fpc, i,            \* where the thread is, and at which entry
          status,            \* of e_get_filters()
          reopen,            \* reloading, not starting up
          todo, cur,         \* names of the directory still to be read; the one being examined
          dir,               \* the directory: which kind of filter has a name
          changed,           \* ghost: names that changed since it was last read
          f_quit,            \* the quit flag
          reload,            \* the flags of set_reload_..._flag(), by thread
          locked             \* the mutex of these flags that is held

list == <<n, nmax, filters>>
scan == <<status, reopen, todo, cur>>
filterVars == <<list, handles, fpc, i, scan, dir, changed, f_quit, reload, locked>>

\* fd is not -1; pfp is not NULL.
Entry == [fname : Names \cup {NULL}, type : {"NONE", "FIFO", "PIPE"},
          fd : BOOLEAN, pfp : BOOLEAN]
EmptyEntry == [fname |-> NULL, type |-> "NONE", fd |-> FALSE, pfp |-> FALSE]
NoEntries == [j \in {} |-> EmptyEntry]  \* gflist.filters is NULL

Slots == 0 .. nmax - 1
Opened(e) == e.fd \/ e.pfp

\* What delete_filter_entry() and the close functions give back.
Held(e) == (IF e.fd THEN 1 ELSE 0) + (IF e.pfp THEN 1 ELSE 0)

Goto(pc, j) == fpc' = pc /\ i' = j

-----------------------------------------------------------------------------
(***************************************************************************)
(* The list.                                                               *)
(***************************************************************************)
\* Mutant of grow_list: nmax is not multiplied.
grow_list_same == filters

grow_list == [j \in 0 .. GROW_FACTOR * nmax - 1 |->
                IF j < nmax THEN filters[j] ELSE EmptyEntry]

find_entry(name) == {j \in Slots : filters[j].fname = name}

find_empty_entry == CHOOSE j \in Slots :
                      /\ filters[j].fname = NULL
                      /\ \A k \in 0 .. j - 1 : filters[k].fname # NULL

\* The entry in its slot.  The list may have grown even if there is no memory
\* for the name.
Added(name, type) ==
  LET full  == n = nmax
      grown == IF full THEN grow_list ELSE filters
      slot  == IF full THEN n ELSE find_empty_entry
  IN  \/ full /\ status' = -1 /\ UNCHANGED list
      \/ /\ nmax' = IF full THEN GROW_FACTOR * nmax ELSE nmax
         /\ \/ filters' = grown /\ n' = n /\ status' = -1
            \/ /\ filters' = [grown EXCEPT ![slot] = [fname |-> name, type |-> type,
                                                    fd |-> @.fd, pfp |-> @.pfp]]
               /\ n' = n + 1 /\ status' = 0

\* Mutant of add_filter_entry: no look for the name in the list.
add_filter_entry_twice(name, type) == Added(name, type)

add_filter_entry(name, type) ==
  IF find_entry(name) # {} THEN status' = 0 /\ UNCHANGED list ELSE Added(name, type)

\* The filter is told to quit, and pclose() waits until it does.
delete_filter_entry(j) ==
  /\ filters' = [filters EXCEPT ![j] = EmptyEntry]
  /\ n' = n - 1
  /\ handles' = handles - Held(filters[j])
  /\ UNCHANGED nmax

\* What open() and popen() may return.  A fifo is opened for writing without
\* waiting for a reader; a script or some other file that has taken the place of
\* a fifo opens too.
OpenResults(e) ==
  CASE e.type = "PIPE" -> {0, -1}
    [] e.type = "FIFO" -> {0, -1} \cup (IF dir[e.fname] = "script" THEN {} ELSE {1})

\* The entry after open_fifo_filter() or open_pipe_filter().
OpenedEntry(e) == [e EXCEPT !.fd = (e.type = "FIFO"), !.pfp = (e.type = "PIPE")]
ClosedEntry(e) == [e EXCEPT !.fd = FALSE, !.pfp = FALSE]

-----------------------------------------------------------------------------
(***************************************************************************)
(* filter_main()                                                           *)
(***************************************************************************)
open_filter_server ==
  /\ fpc = "start"
  /\ \/ f_quit' = TRUE /\ Goto("loop", 0) /\ UNCHANGED <<list, status, reopen>>
     \/ /\ n' = 0 /\ nmax' = INITIAL_SIZE
        /\ filters' = [j \in 0 .. INITIAL_SIZE - 1 |-> EmptyEntry]
        /\ Goto("sys", 1) /\ status' = 0 /\ reopen' = FALSE /\ UNCHANGED f_quit
  /\ UNCHANGED <<handles, todo, cur, dir, changed, reload, locked>>

\* get_sys_filters(), one command of the list.
get_sys_filters ==
  /\ fpc = "sys"
  /\ IF i <= Len(SysFilters) /\ status = 0
     THEN add_filter_entry(SysFilters[i], "PIPE") /\ Goto("sys", i + 1)
     ELSE /\ Goto(IF status = 0 THEN "dev" ELSE "open", 0)
          /\ UNCHANGED <<list, status>>
  /\ UNCHANGED <<handles, reopen, todo, cur, dir, changed, f_quit, reload, locked>>

\* get_dev_filters(): opendir().  A directory that does not exist is skipped,
\* like an empty one.
get_dev_filters ==
  /\ fpc = "dev"
  /\ \/ status' = -1 /\ Goto("open", 0) /\ UNCHANGED <<todo, changed>>
     \/ /\ Goto("read", 0) /\ UNCHANGED status
        /\ todo' = {x \in DevNames : dir[x] # "none"} /\ changed' = {}
  /\ UNCHANGED <<list, handles, reopen, cur, dir, f_quit, reload, locked>>

\* readdir() and closedir().
get_dev_filters_read ==
  /\ fpc = "read"
  /\ IF todo = {} THEN Goto("open", 0) /\ UNCHANGED <<todo, cur>>
     ELSE \E x \in todo : cur' = x /\ todo' = todo \ {x} /\ Goto("stat", 0)
  /\ UNCHANGED <<list, handles, status, reopen, dir, changed, f_quit, reload, locked>>

\* A name that is gone by now, or of some other file.
process_dir_entry ==
  /\ fpc = "stat"
  /\ \/ status' = -1 /\ UNCHANGED list
     \/ dir[cur] = "none" /\ UNCHANGED <<status, list>>
     \/ dir[cur] = "fifo" /\ add_filter_entry(cur, "FIFO")
     \/ dir[cur] = "script" /\ add_filter_entry(cur, "PIPE")
  /\ Goto(IF status' = 0 THEN "read" ELSE "open", 0)
  /\ cur' = NULL /\ todo' = IF status' = 0 THEN todo ELSE {}
  /\ UNCHANGED <<handles, reopen, dir, changed, f_quit, reload, locked>>

\* Mutant of reopen_one_filter: without looking whether it is open.
reopen_one_filter_always(e) == e.fname # NULL

\* open_one_filter() opens all filters; when reloading, reopen_one_filter()
\* opens the closed ones.
reopen_one_filter(e) == e.fname # NULL /\ ~(reopen /\ Opened(e))

\* open_filters1(): a filter that cannot be opened is removed.
open_filters1 ==
  /\ fpc = "open"
  /\ IF i = nmax \/ (i = 0 /\ n = 0)
     THEN /\ Goto("loop", 0) /\ UNCHANGED <<list, handles>>
          /\ f_quit' = (f_quit \/ (~reopen /\ status # 0))
          /\ status' = 0 /\ reopen' = FALSE
     ELSE /\ Goto("open", i + 1) /\ UNCHANGED <<f_quit, status, reopen>>
          /\ IF ~reopen_one_filter(filters[i]) THEN UNCHANGED <<list, handles>>
             ELSE \E r \in OpenResults(filters[i]) :
                    IF r = 0 THEN /\ filters' = [filters EXCEPT ![i] = OpenedEntry(@)]
                                  /\ handles' = handles + 1 /\ UNCHANGED <<n, nmax>>
                    ELSE delete_filter_entry(i)
  /\ UNCHANGED <<todo, cur, dir, changed, reload, locked>>

filter_loop ==
  /\ fpc = "loop"
  /\ Goto(IF f_quit THEN "kill" ELSE "queue", 0)
  /\ UNCHANGED <<list, handles, scan, dir, changed, f_quit, reload, locked>>

\* There is a product, or the wait for one timed out; after an error the reload
\* flag is not looked at.
process_filter_queue ==
  /\ fpc = "queue"
  /\ \/ Goto("reload?", 0)
     \/ n # 0 /\ Goto("send", 0)
     \/ Goto("loop", 0)
  /\ UNCHANGED <<list, handles, scan, dir, changed, f_quit, reload, locked>>

\* sendto_fifo_filter() and sendto_pipe_filter(), the filter being open: it stays
\* open, or is closed after an error or a short write.
Sent(e, sent) == IF sent THEN OpenedEntry(e) ELSE ClosedEntry(e)

\* sendto_filters(), one filter: it is opened first if it is closed.
sendto_one_filter ==
  /\ fpc = "send"
  /\ IF i = nmax THEN Goto("reload?", 0) /\ UNCHANGED <<list, handles>>
     ELSE /\ Goto("send", i + 1) /\ UNCHANGED <<n, nmax>>
          /\ LET e == filters[i]
             IN  IF e.fname = NULL THEN UNCHANGED <<filters, handles>>
                 ELSE \/ /\ ~Opened(e) /\ OpenResults(e) \ {0} # {}
                         /\ UNCHANGED <<filters, handles>>
                      \/ /\ Opened(e) \/ 0 \in OpenResults(e)
                         /\ \E sent \in BOOLEAN :
                              LET after == Sent(e, sent)
                              IN  /\ filters' = [filters EXCEPT ![i] = after]
                                  /\ handles' = handles + Held(after) - Held(e)
  /\ UNCHANGED <<scan, dir, changed, f_quit, reload, locked>>

\* Mutant of get_reload_filters_flag: the flag is cleared without the mutex.
get_reload_filters_flag_nolock ==
  /\ fpc = "reload?"
  /\ reload' = [reload EXCEPT !["filter"] = FALSE]
  /\ Goto(IF reload["filter"] /\ locked # "filter" THEN "delete" ELSE "loop", 0)
  /\ UNCHANGED <<list, handles, scan, dir, changed, f_quit, locked>>

\* pthread_mutex_trylock(): when it fails the flag is left for the next time.
get_reload_filters_flag ==
  /\ fpc = "reload?"
  /\ IF locked = "filter" THEN Goto("loop", 0) /\ UNCHANGED reload
     ELSE /\ reload' = [reload EXCEPT !["filter"] = FALSE]
          /\ Goto(IF reload["filter"] THEN "delete" ELSE "loop", 0)
  /\ UNCHANGED <<list, handles, scan, dir, changed, f_quit, locked>>

\* Mutant of e_reload_filters: the pipes are kept.
e_reload_filters_keep ==
  /\ fpc = "delete"
  /\ Goto("sys", 1) /\ status' = 0 /\ reopen' = TRUE
  /\ UNCHANGED <<list, handles, todo, cur, dir, changed, f_quit, reload, locked>>

\* The pipes are deleted, then the filters are read and opened again.
e_reload_filters ==
  /\ fpc = "delete"
  /\ IF i = nmax
     THEN Goto("sys", 1) /\ status' = 0 /\ reopen' = TRUE /\ UNCHANGED <<list, handles>>
     ELSE /\ Goto("delete", i + 1) /\ UNCHANGED <<status, reopen>>
          /\ IF filters[i].type = "PIPE" THEN delete_filter_entry(i)
             ELSE UNCHANGED <<list, handles>>
  /\ UNCHANGED <<todo, cur, dir, changed, f_quit, reload, locked>>

\* close_filter_server(), from the cleanup handler of the thread.
kill_filter_list ==
  /\ fpc = "kill"
  /\ IF i = nmax
     THEN Goto("done", 0) /\ n' = 0 /\ nmax' = 0 /\ filters' = NoEntries /\ UNCHANGED handles
     ELSE Goto("kill", i + 1) /\ delete_filter_entry(i)
  /\ UNCHANGED <<scan, dir, changed, f_quit, reload, locked>>

FilterThread ==
  \/ open_filter_server \/ get_sys_filters \/ get_dev_filters \/ get_dev_filters_read
  \/ process_dir_entry \/ open_filters1 \/ filter_loop \/ process_filter_queue
  \/ sendto_one_filter \/ get_reload_filters_flag \/ e_reload_filters \/ kill_filter_list

(***************************************************************************)
(* Someone changes the directory, while the thread looks at it.  While it  *)
(* is being read, a new name may be returned or not, and so may one that   *)
(* was removed.                                                            *)
(***************************************************************************)
Kinds == {"none", "fifo", "script"}

ChangeDir(x) ==
  /\ fpc \notin {"none", "kill", "done"}
  /\ \E kind \in Kinds \ {dir[x]} : dir' = [dir EXCEPT ![x] = kind]
  /\ changed' = changed \cup {x}
  /\ \/ UNCHANGED todo
     \/ fpc \in {"read", "stat"} /\ todo' \in {todo \cup {x}, todo \ {x}}
  /\ UNCHANGED <<list, handles, fpc, i, status, reopen, cur, f_quit, reload, locked>>

FiltersInit ==
  /\ n = 0 /\ nmax = 0 /\ filters = NoEntries /\ handles = 0
  /\ fpc = "none" /\ i = 0 /\ status = 0 /\ reopen = FALSE
  /\ todo = {} /\ cur = NULL
  /\ dir \in [DevNames -> Kinds] /\ changed = {}
  /\ f_quit = FALSE
  /\ reload = [t \in {"filter", "server"} |-> FALSE] /\ locked = "none"

-----------------------------------------------------------------------------
FilterPcs == {"none", "start", "sys", "dev", "read", "stat", "open", "loop", "queue",
              "send", "reload?", "delete", "kill", "done"}

FiltersTypeOK ==
  /\ nmax \in Nat /\ n \in -nmax .. nmax
  /\ filters \in [Slots -> Entry]
  /\ handles \in Nat
  /\ fpc \in FilterPcs /\ i \in Nat /\ status \in {0, -1} /\ reopen \in BOOLEAN
  /\ todo \subseteq DevNames /\ cur \in DevNames \cup {NULL}
  /\ dir \in [DevNames -> Kinds] /\ changed \subseteq DevNames
  /\ f_quit \in BOOLEAN
  /\ reload \in [{"filter", "server"} -> BOOLEAN]
  /\ locked \in {"none", "filter", "server"}

(***************************************************************************)
(* Until it is destroyed, the count of the list is that of its entries,    *)
(* no filter is listed twice, and what is open belongs to an entry of its  *)
(* kind.  add_filter_entry() relies on the count to find a free slot: were *)
(* it too low the slot would not exist, were it too high the list would    *)
(* grow for nothing and the entry be put in the wrong place.               *)
(***************************************************************************)
ListExact ==
  fpc # "kill" =>
    /\ n = Cardinality({j \in Slots : filters[j].fname # NULL})
    /\ \A j, k \in Slots : filters[j].fname = filters[k].fname /\ filters[j].fname # NULL
                             => j = k
    /\ \A j \in Slots : /\ filters[j].fname = NULL => filters[j] = EmptyEntry
                        /\ filters[j].fd => filters[j].type = "FIFO"
                        /\ filters[j].pfp => filters[j].type = "PIPE"

(***************************************************************************)
(* Through all failures to open and to write, the removals, the reloads    *)
(* and the growth of the list, the thread loses no descriptor or pipe:     *)
(* those that are open are the ones in the list.                           *)
(***************************************************************************)
HandlesListed ==
  handles = Cardinality({j \in Slots : filters[j].fd})
            + Cardinality({j \in Slots : filters[j].pfp})

(***************************************************************************)
(* A reload forgets the scripts that were removed or replaced: one that is *)
(* listed is in the directory, unless it has changed since the directory   *)
(* was last read.                                                          *)
(***************************************************************************)
NoStalePipes ==
  \A j \in Slots :
    (filters[j].type = "PIPE" /\ filters[j].fname \notin SysNames \cup changed)
      => dir[filters[j].fname] = "script"
=============================================================================
