# A TLA+ verification project for nbsp

nbsp is a daemon that receives the NOAAPort satellite broadcast, assembles the
frames into products, spools the products and distributes them to local filters
and to network clients. This directory holds TLA+ models of its parts, the TLC
runs that check them on small instances, and TLAPS proofs about them.

## The system

The daemon is `src/src` of the repository, a multi-threaded C program.

| part | source | what it does |
|---|---|---|
| readers | `reader.c`, `npcast.c`, `slave*.c`, `slavenbs/`, `slavefp/`, `slavein/` | one thread per NOAAPort channel, or one per master server in a slave; each gets frames or whole products |
| frame processor | `framep.c`, `sbn.c`, `pctl.c`, `mfile.c` | unpacks a frame and adds it to the product being assembled on the channel (the active pce) |
| processor queue | `pctldb.c`, `pctlmfdb.c` | persistent queue of product control elements (a Berkeley DB queue) and their memory files (a btree keyed by the time of queueing) |
| processor | `nbsp.c`, `rtxdb.c`, `ertxdb.c`, `spooldb.c`, `espooldb.c`, `nbspmspoolbdb.c`, `libspoolbdb/` | one thread; recognises retransmissions, spools the product, removes the oldest spooled file, hands the product to the filter and server queues |
| filter and server queues | `libqdb/qdb.c`, `nbspq.c`, `qstate.c`, `packfp.c` | bounded queues between the processor and the two consumers |
| filters | `filters.c`, `pfilter.c`, `sfilter.c` | one thread, pipes and scripts that are fed each product |
| network server | `serverm.c`, `serverc.c`, `serverf.c`, `libconnth/`, `nbs1s.c`, `access.c` | one thread that accepts clients and copies each product to a queue per client, one thread per client that sends |
| control | `main.c`, `init.c`, `signal.c`, `per.c`, `stats.c`, `load.c` | start-up and shutdown, the signal thread, periodic tasks, statistics |
| configuration and utilities | `conf.c.in`, `err.c`, `file.c`, `ure.c`, ... | reading the configuration, logging, regular expressions |

Everything outside `src/src` (the Tcl filters, the decoders, the web server, the
command line tools) is separate programs.

How they interact: a reader thread calls `sbnframeproc()` for each frame. When a
product ends, complete or not, its control element (pce) goes to the processor
queue under the mutex of that queue. The processor thread takes it, decides
whether it is wanted, writes the file, and puts the name of the file in the
filter and server queues, each with a mutex of its own. The filter thread and the
server thread take names from those and open the files. The main thread sleeps
and sets flags that the other threads look at in their loops.

## Modules

| module | models | state and actions |
|---|---|---|
| `FrameProcessor` | `framep.c`, the active pce of `pctl.c`, the outcome of `sbn.c` | per channel: the active pce, the counters, the elements on their way to the queue. One action per outcome of `sbnframeproc()`, and one for each send |
| `SlaveNbs` | `slave_net.c`, `slavenbs/`, `nbs1r.c`, the calls of `reader.c` | extends `FrameProcessor` with slave readers: per channel, the connection to the master and the last packet on it |
| `ReaderProofs` | | the theorems about the frame processor, and about both kinds of readers |
| `ProductQueue` | what the processor queue promises | a first-in first-out queue of whole products, from which some may be lost |
| `Pctldb` | `pctldb.c`, `pctlmfdb.c` | the two databases, the counters beside them, the clock, and where the processor is in its wait |
| `PctldbProofs` | | the theorems about it, and that it implements `ProductQueue` |
| `Processor` | `nbsp.c`, `rtxdb.c`, `ertxdb.c`, `spooldb.c`, the hard limit of `libqdb` | the two databases of received products, the spool directory, the array of slots and its saved copy, the two queues and their consumers |
| `ProcessorProofs` | | the theorems about it |
| `Mspool` | `nbspmspoolbdb.c`, `libspoolbdb/`, its callers in `nbs1s.c` and `serverc.c` | the ring of databases in memory, the slots that products are read through, and where each reader is |
| `MspoolProofs` | | the theorems about it |
| `ClientThreads` | `serverc.c`, `libconnth/cq.c`, the rules of `libqdb/qdb.c`, the `thread_info_st` of `libconnth/ce.c` | per client thread: where it is, its private copy of the connection element, what it shares with the server thread, its queue |
| `Server` | `serverm.c`, `libconnth/conn.c`, `libconnth/poll.c`, `appdata.c` | extends `ClientThreads` with the server thread: the connection table, the place in the walk over it, the open descriptors, the clients |
| `ServerProofs` | | the theorems about the table, its elements and its threads |
| `StreamProofs` | | the theorems about what the clients are sent; extends `ServerProofs` |
| `Filters` | `filters.c`, `pfilter.c` | the list of filters and its entries, where the filter thread is, the directory of filters, the flags it looks at |
| `FiltersProofs` | | the inductive invariant of the filter thread, for `DaemonProofs` |
| `Daemon` | `main.c`, `init.c`, `signal.c`, `per.c`, `reader.c` and the kill and spawn functions of every thread | extends `Filters` with the main thread, the signal thread, the state of each other thread and what is open |
| `DaemonProofs` | | the theorems about both |

`MCFrameProcessor`, `MCReaders`, `MCPctldb`, `MCProcessor`, `MCMspool`, `MCServer`
and `MCDaemon` give the constants their values for TLC. A definition whose comment starts with "Mutant of" is a deliberately
wrong form of the one named there; nothing uses it. It records the mistake that
the property named in `PROJECT.json` would catch.

### FrameProcessor

Any frame may follow any other, so loss, duplication, reordering and corruption
over UDP are all in the choice of the next frame. A frame is what
`sbn_unpack_frame()` leaves: its return value, the product, block and number of
fragments it carries, the transfer flags, and what the product header parses to.
One call of `sbnframeproc()` threads a record through the C functions of the same
names; the elements it hands over wait in `outbox`, because that is where other
threads interleave. Fields of a pce that `create_pce()` leaves uninitialised
start with any value of `Garbage`. The sequence counter of the sbn frame header
is unbounded here; it wraps in the code, which only affects the count of jumps.

### SlaveNbs

A slave reader puts products together in a channel of pctl of its own, with the
functions of `pctl.c` that `FrameProcessor` models, so it extends that module and
`slavenbsproc()` threads the same record. The packets of a connection follow each
other in order, but the master may leave a product unfinished, and a new connection
may begin with any packet. What `split_fbasename()`, the regular expression
and the look at the spool decide about a product is a choice of `Fates`. `causes` is a
ghost that counts what can cost a product. Which channels belong to slaves is
part of the initial state.

### Pctldb

A send holds the mutex from beginning to end and is one step. A receive is one
step for each time it holds the mutex: `Wait` releases it inside
`pthread_cond_timedwait()`, and `Timeout` (or a spurious wakeup) and the signal
of a send both end the wait without yet holding the mutex, which is where a lost
wakeup would hide. The
key of a memory file is the time of queueing, moved forward when the clock has
not advanced. `Restart` closes the files and counts their contents as
`pctldb_open()` does, with any of `HardLimits` as the new limit. What is stored
(`Stored`) is the cardinality of the set of bytes in the memory files.

### Processor

The databases of received products and the array of slots are private to the
thread, so what it does to them between two changes of the spool or a queue is
one step. The actions are the exits of `process_pctl_element()` (`Incomplete`,
`Received`, `NotWanted`) and the path to the end: `pce_spool_product`, `Insert`,
and one `e_export_product` for each queue. `next` is the element at the head of
the processor queue, which arrives in order (this is what `Pctldb` shows). The
number of a product stands for its file: file names end in it. `Restart` is an
orderly stop, which writes the array, and a start with any number of slots
that `spooldb_read()` accepts. `Crash` loses what is in memory, brings back the
array last written, and may bring back elements that were consumed or lose what
was queued; a Berkeley DB file is taken as it was written last, whole.

### Mspool

Each call on the ring holds the mutex of the ring and is one step;
`_nbsp_mspoolbdb_insert()` makes up to three of them, with what it does on ENOMEM
between. Opening and closing a slot hold the mutex of the slots; the wait for a slot
gives it up. A product that was inserted is named by its place in `hist`, so a later
one with the same key is told apart from it. `trouble` is a ghost that records
which of `Faults` have happened: a put or a truncation that fails, lack of memory, a
client that is canceled while it waits for a slot or has one open, a signal that
was wasted. Sizes are sums of `uint32_t` (`Wrap`). How much a database holds, or came
after a product (`Stored`, `Since`), is the cardinality of a set of blocks, which the proofs
can count with.

### ClientThreads and Server

The server thread alone changes the table. It walks it several times in one pass
(finished threads, unidentified clients, bad connections, threads to start, what
`poll()` reported), and between any two elements the client threads and the
clients may do anything; a walk that looks only at what no one else changes is
taken to the next element it acts on. Deleting an element is two steps, around
the join of its thread, and the walk then goes on with the next index as the C
loops do, so that it passes over the element that moved down. `revents` is what
`poll()` may say of a connection (a client that closed it may show as input or as a
hangup); the answer is kept also when the connection is replaced before it is looked at.
A pass ends early when `poll()` or `accept()` fails (`PassFails`, which leaves the new
connection where it was), when the new client has gone (`AcceptAborted`) or is
refused (`Refused`).

A client thread is named by the connection its client first made, and so is a
descriptor. A send is whole, fails with part of the product written, or fails with
nothing written; then the thread waits `Retry` times for the server thread to
restore the connection. A canceled thread ends at any of its cancellation points.
Which protocol a client speaks matters only in whether it is served; the filters
that decide which product goes to which client are a choice for each. `last` and
`owed` are ghosts: the last thing written on each connection, and what was queued
for a thread and not yet written whole, in order; what a send writes out of order
stays owed (`Paid`).

### Filters and Daemon

The list of filters belongs to the filter thread, but the directory does not: each
entry of a loop over the list or the directory is a step, and `ChangeDir` may put a
fifo or a script in the place of any other file between two of them. Opening, writing to and closing
a filter may fail each time. `handles` is a ghost that counts open files.

`StartSteps` and `CleanupSteps` are the calls of `main()` and `cleanup()` in order.
Each step of the start may fail, some of them half done, and the rest is skipped.
The processor, the server and the readers are reduced to running, canceled
and done: what they do meanwhile is in the other modules. A thread sees the quit
flag at the top of its loop (`Finish`); a reader or slave that waits for data may never do, and ends
by cancellation. A hangup signal goes through three flags: `f_hup`, then `reload` of the
filter and of the server thread, whose mutex is held for a step so that
`pthread_mutex_trylock()` can fail. `owed` is a ghost: the threads that have not reloaded since a signal.

## Runs

| run | result | shows |
|---|---|---|
| `frames` | passes | for a noaaport and for a slave reader: elements handed over are intact, every product is accounted for, and what a slave misses has a cause |
| `frames_lost_end` | violation | the END frame of another product closes the active pce without a trace |
| `pctldb` | passes | own memory files, counters that cover what is stored, both hard limits, refinement of `ProductQueue`, and a queued product is received |
| `pctldb_clock_back` | violation | a clock that is set back lets two products share a key, once the last stamp has moved on or a restart has forgotten it |
| `retransmissions` | passes | a retransmission is ignored only if its contents were spooled, and is not spooled again while the original is on record |
| `spool` | passes | no file is deleted before its turn, and no more files than slots but for those a fault left behind |
| `queue_files` | violation | a stalled consumer is left with names of deleted files |
| `mspool` | passes | a slot is of one reader at a time and comes back, no reader waits beside an idle slot, the newest version of a key is the one that is found, products are kept as long as the ring allows |
| `server` | passes | nothing a client thread uses is freed, closed or given to another under it; one element per client; no descriptor is lost but by the restoring of a connection; finished threads leave the table though `poll()` and `accept()` fail, and clients that hung up do if the passes get to them; the server ends when the daemon quits |
| `reconnect` | passes | a thread whose connection is lost and restored loses no product, and no connection carries anything after a product cut short |
| `server_restore` | violation | a descriptor is lost when a connection is restored before it was closed |
| `daemon` | passes | the filter list is exact, handles are not lost, a reload forgets scripts that are gone, threads end before what they use, nothing is left at the end, hangups are not lost, the daemon ends |

The violations are places where the code does other than a comment of the
repository says; each is a finding in `PROJECT.json` with the line it quotes.

Bounds. `frames` has one channel, of a noaaport or of a slave reader (the channels
share nothing but the queue), and six frames or packets: two products of one or two
blocks and the malformed frames of `Odd`, enough for a product to be interrupted by
another, resumed, and ended by a third; or products of one to three packets, two of
them with the same number, with up to three lost connections or other causes.
`pctldb` has four products with sizes 0 to 3, limits that are reached, and a clock
with two seconds of two readings each, so that readings repeat within a second
and pass to the next. `retransmissions` has a chain of two retransmissions, so that
a record made by an ignored one is itself looked up, any number of truncations,
and one stop. `spool` has four products for one or two slots, so that the array
wraps, and two stops, so that an old array comes back after an orderly one. A
queue is no longer than its hard limit. `server` has two clients with a connection
each, or one that connects twice, and one product, so that an element moves while
the table is walked and a thread fails while it is removed; `poll()` and `accept()`
may fail in any pass. `reconnect` has one
client with two connections and two products, a table of one and a queue of one,
so that both are full, and all of `Faults`. A client says something at most once
on a connection. `mspool` has three databases, so that the oldest is neither the
current nor the next one, a product that fills a database and one that fits in
none, two clients and the filter thread for one slot, five insertions or openings,
and one kind of trouble in a behaviour. `daemon` has one command and one name in the
directory, so that the list of one entry grows and is full, two hangups, so that one comes while the other
is served, one reader and one slave, and two configurations: all threads
but the filter thread, or that thread alone. The two sides share only the flags and
the order of the joins, in which a thread that was not started is passed over.

Berkeley DB works until a step `DbFail`; from then on each call may fail. So the
safety properties are checked with any call failing, and those that need the
database (`EventuallyReceived`, `NotSpooledTwice`) are stated for as long as it
works.

Deadlock is checked except in `frames`, where the input may fall silent, and in
`mspool`, where a canceled client may leave the mutex locked and the work is
bounded. The daemon that has exited stutters (`Exited`).

Fairness is assumed in `Pctldb`, `Mspool`, `Server` and `Daemon`. In `Pctldb` it is weak fairness of the steps of the processor
thread and of the end of its wait. The thread does nothing but call
`pctldb_rcv_pce()` in a loop until the daemon quits, its wait has a timeout
(`pctl_read_timeout_ms`), and a send does not hold the mutex for ever. Nothing is
assumed of the readers or the clock. In `Server` it is weak fairness of the server
thread and of each client thread: each is a loop whose every wait (`poll()` with no
timeout, the receive from a queue, `sleep()`, a timed write) ends by itself or is
a cancellation point. Nothing is assumed of the clients, and `poll()` and `accept()` may
fail every time, which ends the pass before it looks at hangups. So the second half
of `DeadClientsRemoved` has the premise `ClientsLookedAt`, that not every pass from
some time on ends that way; without it TLC finds the loop. A client that is refused
in every pass would do the same: the premise covers it, but two connections are
too few to show it. In `Mspool` it is weak
fairness of a reader that was woken and of one that has a slot open. In `Daemon` it
is weak fairness of the main thread, of the filter thread and of the end of the
processor and the server once the quit flag is set, and of a reader that was canceled: all of
these are loops with timed waits, or wait at a cancellation point. It takes for granted that a script
that is told to quit does so, for which `pclose()` waits. Three things the code does
not guarantee are premises of `HupReloads` and `Stops`: that the server does not try
for ever to open its filters (`ServerFiltersOpen`; that loop does not look at the
quit flag), that the directory does not change for ever while it is read
(`DirSettles`), and, for the filter thread's half of `HupReloads` alone, that its
queue can be read (`QueueReadable`; after an error `filter_loop()` does not look at
the reload flag).

## Proofs

`ReaderProofs` proves for any channels, frames, garbage and number of
frames received:

- `TypeCorrect`: `TypeOK`;
- `ElementsIntact`: `HandedOverIntact`;
- `ProductsConserved`: `ProductsAccounted`, provided that no frame carries
  sequence number 0, which is the mark of a closed pce.

`HandedOverIntact` is about elements on their way out and is not inductive: it
needs to know what the active pce holds. `IInv` says that the active pce of a
channel, if it holds a product, has received as many fragments as it has saved
blocks, that these are the first ones of its product in order, and that it is
not yet flagged complete; and that all that is on its way out is `Assembled`. Each C function has a lemma that it keeps
the record that is threaded through it good, and the proof for a frame follows
the stages of `sbnframeproc()`. `AccountInv` adds that a closed pce has an empty memory
file, and that the products started, less those counted or dropped, are one when a
product is active and none otherwise; each function has a second lemma about that balance.

It proves the same for any mix of noaaport and slave
readers (`ReadersTypesHold`, `ReadersElementsIntact`, `ReadersProductsConserved`), and
`SlaveMissesExplained`: `MissesExplained`, all with no product numbered 0. The last needs an invariant about where a
reader and its connection stand to each other: a product that is active in the
channel either agrees with the last packet of the connection, or a cause has been
counted for it that no miss has used up.

`PctldbProofs` proves for any products, sizes, limits and clock readings, with any
call of Berkeley DB failing:

- `OwnMemfiles`: `OwnMemfile`, provided that the clock is not set back
  (`~ClockMayStepBack`; the run `pctldb_clock_back` shows that it is needed). `KeyInv` adds
  that a key in use in either database is not after the last one given out or, once a
  restart has reset `last_tsqueue`, that the clock has passed it;
- `QueueImplemented`: `ImplementsQueue`, from the same invariant and assumption: each
  step appends a product to the queue of `ProductQueue`, takes or loses the first one, or changes
  nothing of it;
- `LimitKept`: `HardLimitHolds`, provided that each start has the same limit: the code
  compares the number of elements with the limit for equality only;
- `CountersKept`: `CountersCover`, and `QueueTypesHold`: `TypeOK`, for any clock, also one that is
  set back. `CountInv` adds that the set of stored bytes is finite; a memory file that
  replaces another, or is deleted, changes that set by no more than the counter.

`ProcessorProofs` proves for any products, slots, queues (`QueuesAssumption`: at least
one, with a name of its own), restarts, crashes and faults:

- `NoneLostToRtxdb`: `IgnoredOnlyIfSpooled`, and `NoneSpooledTwice`: `NotSpooledTwice`.
  `RtxInv` says that a record in either database is of contents that were spooled, and
  that what was recorded since the last truncation but one is found while the databases work;
- `SpoolKeptBounded`: `SpoolBounded`. `Tracked` says that each file that no fault left
  behind is the key of a slot, or about to be; a set of keys is no larger than the array;
- `RecentFilesSafe`: `RecentFilesKept`, provided that no product number is sent twice.
  `KeepInv` says of the array in memory and of the saved one that a key comes to its
  turn no sooner than it is due (`Guarded`), that keys that are still to come are
  in neither, and that a saved array has no more slots than the one in memory;
- `ProcessorTypesHold`: `TypeOK`, in five groups of variables with a lemma each.

`ServerProofs` proves for any clients, connections, size of the table and faults:

- `NeverFreedInUse`: `NotFreedInUse`; `WritesGoHome`: `WritesOwnConnection`; and
  `ElementsUnique`: `OneElementEach`;
- `DescriptorsKept`: the action property `LostOnlyByRestore`.

None of the first three is inductive alone. `Links` ties each element to its connection and its thread:
until the server closes, the descriptor of an element is open and of its client; a
thread that runs has the descriptor of its element or none (`Linked`); no two
elements share a client, a thread or a descriptor (`Unlike`); a connection that waits
to be accepted is in no element (`Unseen`), nor is the one just accepted, whose client
has no element but the one being deleted (`Newcomer`); and while the server closes,
the threads before the place it has reached have ended.
Most actions change nothing of this (`Idle`); the others, which accept, restore, replace, close and
delete, have a lemma each. `DescriptorsKept` needs besides that what
`conn_table_destroy()` has walked over has no open connection (`Shut`), since the table
is freed at the end with whatever it holds. It bounds the finding of
`server_restore`: the overwritten descriptor in `poll_restore_connection()` is the
only way in which one is lost.

`StreamProofs` adds, for any products too:

- `StreamsStayIntact`: the action property `StreamIntact`; `NothingIsLost`: `NothingLost`; and
  `ServerTypesHold`: `TypeOK`.

`Stream` is the invariant. What is on the connection of a thread, in its hands and in its queue is in
order, and what is on the connection is whole (`Flow`); all of it came before the next
product, and before the one that the server thread is distributing where it has
still to go (`Below`, `Sending`). A restored connection begins a new stream, so it must be known
that nothing is on a connection until a thread has taken it (`Unwritten`), through
its wait in the backlog, its acceptance and its place in the table. `Holds` says in which states a
thread has a product; with `Owes`, which is `NothingLost` of one thread, it follows
each product from the queue to the connection. Every action of a thread is first shown to be one of nine kinds (`Does`), and
only these are then carried through the invariant.

`MspoolProofs` proves for any number of databases, slots, clients and products:

- `TypeCorrect`: `TypeOK`;
- `SlotsExclusive`: `SlotOwned`, and `SlotsComeBack`: `SlotsReturned`, from an
  invariant that pairs each slot that is taken with the one thread that has it;
- `WakeupsSuffice`: `NoIdleWaiter`; the slots that are empty are counted against the threads that were
  woken, through the cardinality of the two sets;
- `NewestRead`: `NewestFirst`, from the fact that the ring read backwards
  from the current database is ordered by age;
- `CacheNotExceeded`: `FitsCache`. `Filed` says that what is in a database was inserted under
  its key, and that no product and no size exceeds `Maxsize`, so that the sum of
  `spoolbdbv_write2()` does not wrap (`SizeAssumption`); `Fitting` that the current
  database holds no more than `size`, which may be more because replacing a
  product is not subtracted;
- `ProductsRetained`: `Retained`. `RetainInv` says that the newest product of a key is in some
  database, and that as many databases as lie between it and the current one were filled
  after it, each to within one product of `Maxsize`, besides the `size` of the
  current one (`KeptIn`); when the ring comes around to its database, `Ndb - 1` were, which is
  the premise of `Retained` (`Old`).

`DaemonProofs` proves for any commands, directory, readers, slaves and
configuration:

- `FilterListExact`, `FilterHandlesListed`, `FilterNoStalePipes`: `ListExact`,
  `HandlesListed` and `NoStalePipes`. `FiltersInv`, in `FiltersProofs`, says that each entry is empty
  or holds a name, with at most the handle of its type, that no name is listed
  twice, that `n` and `handles` are the numbers of entries in use and of handles in them (set
  cardinalities, which a step changes in one slot at a time), and where in a loop the thread is;
- `DaemonResourcesOutliveThreads`: `ResourcesOutliveThreads`, and
  `DaemonNothingLeft`: `NothingLeft`. `Phase` says what is open and which threads have ended
  by the step that `main()` has reached; `LiveNeeded` that no thread lives while one of the
  five shared resources is missing;
- `DaemonTypesHold`: `TypeOK`.

Every safety property and the action properties that a passing run checks are thus also
theorems. The assumptions named above are the same that the runs
make: the clock in `OwnMemfiles` and `QueueImplemented`, one limit in `LimitKept`, the
numbers of products in `RecentFilesSafe`, in `ProductsConserved` and with slave readers. Only model-checked is liveness (`EventuallyReceived`,
`WaitersServed`, `HupReloads`, `Stops` and those of `Server`), which is out of the prover's reach.

## Not modelled

The parsing of frames and headers byte by byte, names of files, the Tcl
configuration, logging and the statistics files are data or pure input and output.
Of the server, the emwin filter, what the netfilter decides, local clients and
errors of a mutex are left out. The nbs2 and the input fifo readers of a slave keep
no state: they put the name of a file that already is in the spool in the queues. Of
`periodic()` only the hangup flag is modelled; the other tasks write statistics or
set a flag that makes a thread write them. SIGALRM and SIGABRT are left
out, and so is a second instance of the daemon; SIGABRT, outside debug mode, runs
`cleanup()` in the signal thread without setting the quit flag, so that its joins may
wait for threads that go on. A client thread that cannot be created is left out
too: `conn_element_init4()` closes the queue of the element, whose pointer stays, and
the deletion of the element closes it again, which is undefined. The environment files of Berkeley
DB, and what it does in them after a crash, are taken to work as documented.

The frame processor, the processor queue and the processor are not composed in one
module: the queue is what they share, `Pctldb` shows that it is a
`ProductQueue`, and each of the others is modelled against that promise.

Everything outside `src/src` is other programs.
