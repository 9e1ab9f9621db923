----------------------------- MODULE Processor ------------------------------
(***************************************************************************)
(* The processor thread of src/nbsp.c with what it keeps: the db of        *)
(* received products (src/rtxdb.c, src/ertxdb.c), the spool directory and  *)
(* its bookkeeping array (src/spooldb.c), and the filter and server queues *)
(* it fills, with the threads that take products from those queues.        *)
(*                                                                         *)
(* The db of received products and the array are private to the thread;    *)
(* the files and the queues are shared with the consumers, so the thread   *)
(* stops between two changes of them.  The name of a spool file ends with  *)
(* the sequence number of its product, which stands for the file here.     *)
(***************************************************************************)
EXTENDS Integers, Sequences, FiniteSets

CONSTANTS Arrivals,     \* the pce's the readers send, in order
          Content,      \* the contents of the product with a given number
          SlotsSet,     \* the values of spooldb_slots, 0 = no bookkeeping
          Queues,       \* the queues in the order e_export_product() uses them
          HardLimit,    \* queue_maxsize_hard, 0 = none
          RtxEnabled,   \* g.rtxdb_slots # 0
          DefaultProcess,  \* g.rtxdb_default_process # 0
          DbMayFail,    \* whether Berkeley DB calls may start to fail
          DeleteOutcomes,  \* the outcomes of deleting a file, TRUE = done
          SaveOutcomes, \* what saving a product in the spool may end in
          MayCrash,     \* whether the process may be killed
          MaxStops      \* bound: restarts of the daemon

Seqs == DOMAIN Content

Element == [seq : Seqs, orig : Seqs \cup {0}, f_complete : {0, 1},
            rtxdb_flag : {0, 1}]

\* An unused slot of the array, and no product in a thread's hands.
None == 0

ASSUME ElementsAssumption ==
  /\ Arrivals \subseteq Seq(Element)
  /\ Seqs \subseteq Nat \ {0}
  /\ \A a \in Arrivals : \A i \in 1..Len(a) :
       a[i].orig # 0 => Content[a[i].orig] = Content[a[i].seq]
ASSUME LimitsAssumption ==
  /\ SlotsSet \subseteq Nat /\ (0 \in SlotsSet => SlotsSet = {0})
  /\ HardLimit \in Nat /\ MaxStops \in Nat
  /\ DbMayFail \in BOOLEAN /\ DeleteOutcomes \subseteq BOOLEAN
  /\ SaveOutcomes \subseteq {"saved", "failed", "partial"}
  /\ RtxEnabled \in BOOLEAN /\ DefaultProcess \in BOOLEAN /\ MayCrash \in BOOLEAN
ASSUME QueuesAssumption ==
  /\ Len(Queues) \in Nat \ {0}
  /\ \A i \in 1..Len(Queues) : Queues[i] \notin {"loop", "rcv", "insert"}

VARIABLES todo,      \* the elements still to come out of the processor queue
          taken,     \* those that came out since the queue's file was synced
          at,        \* where the thread is in its loop
          pce,       \* the element in its hands
          rtx_c,     \* the current db of received products, seq to fstatus
          rtx_o,     \* the old one
          dbfails,   \* whether Berkeley DB calls may fail by now
          rtx_flag,  \* grtxdb_truncate_flag, set by the main thread
          spool,     \* the files in the spool directory
          numslots,  \* spooldb->numslots
          keys,      \* spooldb->keys
          slot,      \* spooldb->slot
          saved,     \* the spooldb file, as last written
          queue,     \* the filter and server queues
          reading,   \* the product in the hands of each consumer
          stops,     \* restarts so far
          orphans,   \* ghost: the files a fault has left without a slot
          spooled,   \* ghost: the contents that were ever spooled
          ignored,   \* ghost: the retransmissions that were not processed
          left,      \* ghost: for each product entered in the array, the
                     \* insertions left until its file is to be deleted
          kept       \* ghost: the numbers recorded ok, with the truncations
                     \* since

input == <<todo, taken>>
db == <<rtx_c, rtx_o, kept>>
flags == <<dbfails, rtx_flag, stops>>
disk == <<spool, orphans, saved>>
array == <<numslots, keys, slot, left>>
consumers == <<queue, reading>>
ghosts == <<spooled, ignored>>
vars == <<input, at, pce, db, flags, disk, array, consumers, ghosts>>

\* The outcomes of a Berkeley DB call, TRUE = done.
DbOutcomes == IF dbfails THEN BOOLEAN ELSE {TRUE}

NoKeys(slots) == [i \in 0 .. slots - 1 |-> None]

-----------------------------------------------------------------------------
(***************************************************************************)
(* The db of received products: two btrees, the current and the old one.   *)
(***************************************************************************)
Put(f, k, v) == [x \in DOMAIN f \cup {k} |-> IF x = k THEN v ELSE f[x]]

\* e_nbsp_rtxdb_put_ok() and e_nbsp_rtxdb_put_fail().
nbsp_rtxdb_put(seq, fstatus) ==
  /\ rtx_o' = rtx_o
  /\ \E done \in DbOutcomes :
       IF RtxEnabled /\ done
       THEN /\ rtx_c' = Put(rtx_c, seq, fstatus)
            /\ kept' = IF fstatus = 0 THEN Put(kept, seq, 0)
                       ELSE [s \in DOMAIN kept \ {seq} |-> kept[s]]
       ELSE UNCHANGED <<rtx_c, kept>>

\* Mutant of nbsp_rtxdb_get: only the current db is searched, and what is
\* not there is taken as received.
nbsp_rtxdb_get_default(seq, c, o) ==
  IF c /\ seq \in DOMAIN rtx_c THEN rtx_c[seq] ELSE 0

\* Mutant of nbsp_rtxdb_get: only the current db is searched.
nbsp_rtxdb_get_current(seq, c, o) ==
  IF c /\ seq \in DOMAIN rtx_c THEN rtx_c[seq] ELSE -1

\* The old db is read when the current one fails; c and o say which of the
\* two reads work.
nbsp_rtxdb_get(seq, c, o) ==
  IF c /\ seq \in DOMAIN rtx_c THEN rtx_c[seq]
  ELSE IF o /\ seq \in DOMAIN rtx_o THEN rtx_o[seq]
  ELSE -1

\* The possible answers.
e_nbsp_rtxdb_get_fstatus(seq) ==
  IF RtxEnabled THEN {nbsp_rtxdb_get(seq, c, o) : c, o \in DbOutcomes} ELSE {-2}

\* The old db becomes the current one, which is truncated.
nbsp_rtxdb_truncate(done) ==
  /\ rtx_o' = rtx_c
  /\ rtx_c' = IF done THEN <<>> ELSE rtx_o

\* set_rtxdb_truncate_flag(), from the main thread's periodic tasks.
set_rtxdb_truncate_flag ==
  /\ ~rtx_flag
  /\ rtx_flag' = TRUE
  /\ UNCHANGED <<input, at, pce, db, dbfails, stops, disk, array, consumers,
                 ghosts>>

\* The flag is taken unless the main thread holds its mutex just then.
nbsp_periodic ==
  /\ at = "loop"
  /\ at' = "rcv"
  /\ \/ /\ rtx_flag /\ rtx_flag' = FALSE
        /\ IF RtxEnabled
           THEN /\ \E done \in DbOutcomes : nbsp_rtxdb_truncate(done)
                /\ kept' = [s \in {x \in DOMAIN kept : kept[x] = 0} |-> 1]
           ELSE UNCHANGED db
     \/ UNCHANGED <<rtx_flag, db>>
  /\ UNCHANGED <<input, pce, dbfails, stops, disk, array, consumers, ghosts>>

-----------------------------------------------------------------------------
(***************************************************************************)
(* process_pctl_element(): the paths that end before the product is saved. *)
(***************************************************************************)
\* The next element of the processor queue.
next == Head(todo)

eopen_pctl_outputpce ==
  /\ at = "rcv"
  /\ todo # <<>>
  /\ todo' = Tail(todo) /\ taken' = Append(taken, next)

\* Nothing in the queue, or an error reading it.
NoElement ==
  /\ at = "rcv"
  /\ at' = "loop"
  /\ UNCHANGED <<input, pce, db, flags, disk, array, consumers, ghosts>>

Incomplete ==
  /\ eopen_pctl_outputpce
  /\ next.f_complete = 0
  /\ IF next.rtxdb_flag = 1 THEN nbsp_rtxdb_put(next.seq, 1) ELSE UNCHANGED db
  /\ at' = "loop"
  /\ UNCHANGED <<pce, flags, disk, array, consumers, ghosts>>

\* The status of the original of a retransmission.
orig_prod_status ==
  IF next.rtxdb_flag = 1 THEN e_nbsp_rtxdb_get_fstatus(next.orig) ELSE {-1}

\* The original was received: recorded for a retransmission of this one.
Received ==
  /\ eopen_pctl_outputpce
  /\ next.f_complete = 1 /\ next.orig # 0
  /\ 0 \in orig_prod_status
  /\ IF next.rtxdb_flag = 1 THEN nbsp_rtxdb_put(next.seq, 0) ELSE UNCHANGED db
  /\ ignored' = ignored \cup {next.seq}
  /\ at' = "loop"
  /\ UNCHANGED <<pce, flags, disk, array, consumers, spooled>>

\* The db is not enabled and retransmissions are not wanted.
NotWanted ==
  /\ eopen_pctl_outputpce
  /\ next.f_complete = 1 /\ next.orig # 0
  /\ -2 \in orig_prod_status /\ ~DefaultProcess
  /\ at' = "loop"
  /\ UNCHANGED <<pce, db, flags, disk, array, consumers, ghosts>>

Wanted ==
  \/ next.orig = 0
  \/ \E s \in orig_prod_status : s \in {1, -1} \/ (s = -2 /\ DefaultProcess)

(***************************************************************************)
(* pce_spool_product(): the file is written.  One that could not be        *)
(* written to the end is left as it is, and the product goes no further.   *)
(***************************************************************************)
pce_spool_product ==
  /\ eopen_pctl_outputpce
  /\ next.f_complete = 1 /\ Wanted
  /\ \E outcome \in SaveOutcomes :
       /\ spool' = IF outcome = "failed" THEN spool ELSE spool \cup {next.seq}
       /\ orphans' = IF outcome = "partial" THEN orphans \cup {next.seq}
                     ELSE orphans
       /\ IF outcome = "saved"
          THEN /\ spooled' = spooled \cup {Content[next.seq]}
               /\ at' = "insert" /\ pce' = next
          ELSE UNCHANGED <<spooled, pce>> /\ at' = "loop"
  /\ UNCHANGED <<db, flags, saved, array, consumers, ignored>>

\* Mutant of spooldb_insert: the last slot is passed over.
spooldb_insert_past(key) ==
  /\ spool' = spool \ {keys[slot]} /\ orphans' = orphans
  /\ keys' = [keys EXCEPT ![slot] = key]
  /\ slot' = IF slot = numslots THEN 0 ELSE slot + 1

\* The file of the key in the slot is deleted and the key replaced.
spooldb_insert(key) ==
  /\ \E deleted \in DeleteOutcomes :
       /\ spool' = IF deleted THEN spool \ {keys[slot]} ELSE spool
       /\ orphans' = (orphans \cup (spool' \cap {keys[slot]})) \ {key}
  /\ keys' = [keys EXCEPT ![slot] = key]
  /\ slot' = IF slot + 1 = numslots THEN 0 ELSE slot + 1

nbsp_spooldb_insert(key) ==
  /\ IF numslots = 0 THEN UNCHANGED <<spool, orphans, keys, slot>>
     ELSE spooldb_insert(key)
  /\ left' = [k \in DOMAIN left \cup {key} |->
                IF k = key THEN numslots
                ELSE IF left[k] > 0 THEN left[k] - 1 ELSE 0]
  /\ UNCHANGED numslots

\* The saved product is entered in the array and in the db.
Insert ==
  /\ at = "insert"
  /\ nbsp_spooldb_insert(pce.seq)
  /\ IF pce.rtxdb_flag = 1 THEN nbsp_rtxdb_put(pce.seq, 0) ELSE UNCHANGED db
  /\ at' = Queues[1]
  /\ UNCHANGED <<input, pce, flags, saved, consumers, ghosts>>

\* The steps of e_export_product(): the queue after q, or the loop.
AfterQueue(q) == LET i == CHOOSE j \in 1..Len(Queues) : Queues[j] = q
                 IN  IF i = Len(Queues) THEN "loop" ELSE Queues[i + 1]

queue_hard_limit(n) == HardLimit > 0 /\ n >= HardLimit

\* The product is queued, unless the queue is full, the db fails, or the
\* regular expression of the queue does not match.
e_export_product(q) ==
  /\ at = q
  /\ \E queued \in BOOLEAN :
       queue' = IF queued /\ ~queue_hard_limit(Len(queue[q]))
                THEN [queue EXCEPT ![q] = Append(@, pce.seq)] ELSE queue
  /\ at' = AfterQueue(q)
  /\ UNCHANGED <<input, pce, db, flags, disk, array, reading, ghosts>>

QueueNames == {Queues[i] : i \in 1..Len(Queues)}

-----------------------------------------------------------------------------
\* The filter or server thread takes a product, and then opens its file.
nbspqt_rcv(q) ==
  /\ reading[q] = None /\ queue[q] # <<>>
  /\ reading' = [reading EXCEPT ![q] = Head(queue[q])]
  /\ queue' = [queue EXCEPT ![q] = Tail(@)]
  /\ UNCHANGED <<input, at, pce, db, flags, disk, array, ghosts>>

Consume(q) ==
  /\ reading[q] # None
  /\ reading' = [reading EXCEPT ![q] = None]
  /\ UNCHANGED <<input, at, pce, db, flags, disk, array, queue, ghosts>>

\* The cache of Berkeley DB is exhausted, or a file is damaged.
DbFail ==
  /\ DbMayFail /\ ~dbfails
  /\ dbfails' = TRUE
  /\ UNCHANGED <<input, at, pce, db, rtx_flag, stops, disk, array, consumers,
                 ghosts>>

\* What is in memory only: the db of received products, and what the
\* consumers have in their hands.
MemoryLost ==
  /\ rtx_c' = <<>> /\ rtx_o' = <<>> /\ kept' = <<>>
  /\ rtx_flag' = FALSE /\ dbfails' = FALSE
  /\ reading' = [q \in QueueNames |-> None]
  /\ stops' = stops + 1

\* Mutant of spooldb_read: the slot is not restored.
spooldb_read_slot(slots, file) ==
  /\ keys' = [i \in 0 .. slots - 1 |->
                IF i < file.numslots THEN file.keys[i] ELSE None]
  /\ slot' = 0

\* Mutant of spooldb_read: only the slot is restored.
spooldb_read_no_keys(slots, file) ==
  /\ file.numslots <= slots
  /\ keys' = NoKeys(slots)
  /\ slot' = file.slot

\* The array in the file is read into one that is as large or larger; a file
\* with more slots than the configuration has is refused and the daemon quits.
spooldb_read(slots, file) ==
  /\ file.numslots <= slots
  /\ keys' = [i \in 0 .. slots - 1 |->
                IF i < file.numslots THEN file.keys[i] ELSE None]
  /\ slot' = file.slot

\* The daemon is stopped at the end of the thread's loop, which writes the
\* array, and started with a configuration of its own.
Restart ==
  /\ at = "loop" /\ stops < MaxStops
  /\ saved' = [numslots |-> numslots, keys |-> keys, slot |-> slot]
  /\ \E slots \in SlotsSet : numslots' = slots /\ spooldb_read(slots, saved')
  /\ taken' = <<>>
  /\ MemoryLost
  /\ UNCHANGED <<todo, at, pce, spool, orphans, left, queue, ghosts>>

\* The process is killed.  The array is the one last written, or a new one.
\* A queue is what Berkeley DB has put in its file: what came out of the
\* processor queue may come out again, and the other two may be empty.
Crash ==
  /\ MayCrash /\ stops < MaxStops
  /\ spooldb_read(numslots, saved)
  /\ todo' \in {todo, taken \o todo} /\ taken' = <<>>
  /\ queue' \in {queue, [q \in QueueNames |-> <<>>]}
  /\ at' = "loop"
  /\ orphans' = orphans \cup (spool \ {keys'[i] : i \in DOMAIN keys'})
  /\ MemoryLost
  /\ UNCHANGED <<pce, spool, numslots, left, saved, ghosts>>

NoPce == [seq |-> 0, orig |-> 0, f_complete |-> 0, rtxdb_flag |-> 0]

Init ==
  /\ todo \in Arrivals /\ taken = <<>>
  /\ at = "loop"
  /\ pce = NoPce
  /\ rtx_c = <<>> /\ rtx_o = <<>> /\ kept = <<>>
  /\ rtx_flag = FALSE /\ dbfails = FALSE
  /\ spool = {} /\ orphans = {}
  /\ numslots \in SlotsSet
  /\ keys = NoKeys(numslots) /\ slot = 0 /\ left = <<>>
  /\ saved = [numslots |-> numslots, keys |-> keys, slot |-> 0]
  /\ queue = [q \in QueueNames |-> <<>>]
  /\ reading = [q \in QueueNames |-> None]
  /\ stops = 0
  /\ spooled = {} /\ ignored = {}

Next ==
  \/ nbsp_periodic
  \/ NoElement
  \/ Incomplete
  \/ Received
  \/ NotWanted
  \/ pce_spool_product
  \/ Insert
  \/ \E q \in QueueNames : e_export_product(q) \/ nbspqt_rcv(q) \/ Consume(q)
  \/ set_rtxdb_truncate_flag
  \/ DbFail
  \/ Restart
  \/ Crash

Spec == Init /\ [][Next]_vars

-----------------------------------------------------------------------------
\* The values the variables range over.
TypeOK ==
  /\ todo \in Seq(Element) /\ taken \in Seq(Element)
  /\ at \in {"loop", "rcv", "insert"} \cup QueueNames
  /\ pce \in Element \cup {NoPce}
  /\ \A f \in {rtx_c, rtx_o} :
       DOMAIN f \subseteq Seqs /\ \A s \in DOMAIN f : f[s] \in {0, 1}
  /\ DOMAIN kept \subseteq Seqs /\ \A s \in DOMAIN kept : kept[s] \in {0, 1}
  /\ rtx_flag \in BOOLEAN /\ dbfails \in BOOLEAN
  /\ spool \subseteq Seqs /\ orphans \subseteq Seqs
  /\ \A a \in {saved, [numslots |-> numslots, keys |-> keys, slot |-> slot]} :
       /\ a.numslots \in SlotsSet
       /\ a.keys \in [0 .. a.numslots - 1 -> Seqs \cup {None}]
       /\ a.slot = 0 \/ a.slot \in DOMAIN a.keys
  /\ queue \in [QueueNames -> Seq(Seqs)]
  /\ reading \in [QueueNames -> Seqs \cup {None}]
  /\ DOMAIN left \subseteq Seqs /\ \A s \in DOMAIN left : left[s] \in Nat
  /\ spooled \subseteq {Content[s] : s \in Seqs}
  /\ ignored \subseteq Seqs
  /\ stops \in 0..MaxStops

(***************************************************************************)
(* No product is lost to the retransmission logic: process_pctl_element()  *)
(* ignores a retransmission only when its contents have been spooled, by   *)
(* the original or by a retransmission in the chain that leads to it, even *)
(* when saving fails, records are lost or the db is truncated in between.  *)
(***************************************************************************)
IgnoredOnlyIfSpooled == \A s \in ignored : Content[s] \in spooled

(***************************************************************************)
(* What the db is for: while Berkeley DB works, a retransmission of a      *)
(* product that was recorded as received since the last truncation but one *)
(* is not spooled again, whenever the main thread asks for truncations.    *)
(***************************************************************************)
NotSpooledTwice ==
  [][pce_spool_product /\ next.orig # 0 /\ next.rtxdb_flag = 1 /\ ~dbfails
       => next.orig \notin DOMAIN kept]_vars

(***************************************************************************)
(* "In this way the number of files in the spool directory is kept at the  *)
(* specified number" (spooldb.h): when the thread is in its loop there are *)
(* no more files than slots, but for those that a fault left without one   *)
(* (a write that failed half way, a delete that failed, a crash before the *)
(* array was written).                                                     *)
(***************************************************************************)
SpoolBounded == numslots > 0 /\ at \in {"loop", "rcv"} =>
                  Cardinality(spool \ orphans) <= numslots

(***************************************************************************)
(* A product that was entered in the array keeps its file until as many    *)
(* products as there were slots have been entered after it: over restarts, *)
(* with more slots or not, and when a crash brings an old array back and   *)
(* the same product is processed again.  It is how far a consumer may lag. *)
(***************************************************************************)
RecentFilesKept == \A k \in DOMAIN left : left[k] > 0 => k \in spool

(***************************************************************************)
(* defaults.h.in: QUEUE_MAXSIZE_HARD "cannot be larger than SPOOLDB_SLOTS  *)
(* (above), since otherwise these queues would then contain files that     *)
(* have been deleted already from the spool db": with a limit no larger    *)
(* than the number of slots, a queued product has its file.                *)
(***************************************************************************)
QueuedFilesExist ==
  HardLimit > 0 /\ HardLimit <= numslots =>
    \A q \in QueueNames : \A i \in 1..Len(queue[q]) : queue[q][i] \in spool
=============================================================================
