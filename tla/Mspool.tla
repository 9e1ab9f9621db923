------------------------------- MODULE Mspool -------------------------------
(***************************************************************************)
(* The spool in memory of src/nbspmspoolbdb.c: a ring of Berkeley          *)
(* databases (src/libspoolbdb/spoolbdbv.c) that the processor inserts      *)
(* products in, and the slots (src/libspoolbdb/spoolslots.c) that the      *)
(* client threads and the filter thread read them through.                 *)
(*                                                                         *)
(* A product that was inserted is named by its place in hist; its data are *)
(* hist[v].len blocks.  Its key is the sequence number in its file name,   *)
(* which a later product can have again.  Each call on the ring holds the  *)
(* mutex of the ring from beginning to end, and opening and closing a slot *)
(* the mutex of the slots, which the wait for a slot gives up.             *)
(***************************************************************************)
EXTENDS Integers, Sequences, FiniteSets, FiniteSetsExt

CONSTANTS Ndb,         \* spoolbdbv->Ndb
          Maxsize,     \* spoolbdbv->maxsize, of each database
          Word,        \* the values of a uint32_t
          Slots,       \* spoolslots->maxslots
          Keys,
          Arrivals,    \* the products that may arrive, by key and size
          Clients,     \* client threads of the nbs1 protocol
          FilterThread,
          MaxWork,     \* bound: products inserted and slots opened
          MaxTrouble,  \* bound: kinds of trouble in one behaviour
          Faults       \* the troubles that may happen, and "read"

ASSUME MspoolAssumption ==
  /\ Ndb \in Nat \ {0} /\ Slots \in Nat \ {0}
  /\ Maxsize \in Nat /\ Word \in Nat /\ Maxsize < Word
  /\ Arrivals \subseteq [k : Keys, len : 1 .. Word - 1]
  /\ IsFiniteSet(Clients) /\ FilterThread \notin Clients
  /\ MaxWork \in Nat /\ MaxTrouble \in Nat

\* The sum of two sizes that fit does not overflow, which is so for databases of
\* less than 2 GB; nothing in the code limits the configured size to that.
ASSUME SizeAssumption == 2 * Maxsize < Word

Dbs == 1 .. Ndb
SlotIds == 1 .. Slots
Threads == Clients \cup {FilterThread}
Versions == Nat \ {0}

\* No version of a key, no slot (the descriptor -1).
None == 0

VARIABLES db,        \* the version of each key in each database
          wrdb,      \* spoolbdbv->wrdb
          size,      \* spoolbdbv->size
          ins,       \* the call of nbsp_mspoolbdb_insert() in progress
          slot,      \* status and buffer of each slot
          numslots,  \* spoolslots->numslots
          mutex,     \* 1 if spoolslots->mutex stays locked between steps
          th,        \* the readers
          hist,      \* ghost: the products inserted
          trouble,   \* ghost: what has gone wrong
          work       \* what counts against MaxWork

ringVars == <<db, wrdb, size, hist>>
slotVars == <<slot, numslots, mutex, th>>
vars == <<ringVars, ins, slotVars, trouble, work>>

Empty == [k \in Keys |-> None]
NoInsert == [st |-> "idle", k |-> None, len |-> None]
Reader == [st : {"idle", "waiting", "woken", "open", "gone"},
           k : Keys \cup {None}, sd : SlotIds \cup {None},
           v : Versions \cup {None}, nread : Nat]
Returned == [st |-> "idle", k |-> None, sd |-> None, v |-> None, nread |-> 0]

\* spoolbdbv_open() and spoolbuf_slots_create().
Init ==
  /\ db = [d \in Dbs |-> Empty] /\ wrdb = 1 /\ size = 0
  /\ ins = NoInsert
  /\ slot = [i \in SlotIds |-> [status |-> 0, v |-> None, nread |-> 0]]
  /\ numslots = 0 /\ mutex = 0
  /\ th = [t \in Threads |-> Returned]
  /\ hist = <<>> /\ trouble = {} /\ work = 0

-----------------------------------------------------------------------------
\* One more insertion, or opening of a slot.
MoreWork == work < MaxWork /\ work' = work + 1

(***************************************************************************)
(* The ring.                                                               *)
(***************************************************************************)
\* A sum of two uint32_t.
Wrap(n) == IF n < Word THEN n ELSE n - Word

\* Mutant of NextDb: the ring does not close.
NextDb_past(d) == d + 1

NextDb(d) == IF d = Ndb THEN 1 ELSE d + 1

\* Mutant of Fits: only what is already there is compared.
Fits_before(len) == size < Maxsize

Fits(len) == Wrap(size + len) <= Maxsize

MayHappen(kind) ==
  /\ kind \in Faults
  /\ kind \in trouble \/ Cardinality(trouble) < MaxTrouble

\* What a call on the ring returns.
Status == {"ok", "ENOMEM", "error"}
Fails(kind, status) == MayHappen(kind) /\ status \in Status \ {"ok"}

Noted(kind) == trouble' = trouble \cup {kind}

\* Mutant of Base: the size of the database that is left is kept.
Base_kept(len) == size

\* The size before the data are added.
Base(len) == IF Fits(len) THEN size ELSE 0

\* spoolbdbv_write2() with the product of ins: data that do not fit in the
\* current database go to the next one, once that is truncated.
spoolbdbv_write2(status) ==
  LET w == IF Fits(ins.len) THEN wrdb ELSE NextDb(wrdb)
      room == IF Fits(ins.len) THEN db[w] ELSE Empty
  IN
  \/ /\ ins.len > Maxsize /\ status = "ENOMEM"
     /\ UNCHANGED ringVars /\ Noted("ENOMEM")
  \/ /\ ins.len <= Maxsize /\ ~Fits(ins.len) /\ Fails("truncate", status)
     /\ wrdb' = w
     /\ UNCHANGED <<db, size, hist>> /\ Noted("truncate")
  \/ /\ ins.len <= Maxsize /\ Fails("put", status)
     /\ db' = [db EXCEPT ![w] = room] /\ wrdb' = w /\ size' = Base(ins.len)
     /\ UNCHANGED hist /\ Noted("put")
  \/ /\ ins.len <= Maxsize /\ status = "ok"
     /\ db' = [db EXCEPT ![w] = [room EXCEPT ![ins.k] = Len(hist) + 1]]
     /\ wrdb' = w /\ size' = Wrap(Base(ins.len) + ins.len)
     /\ hist' = Append(hist, [k |-> ins.k, len |-> ins.len])
     /\ UNCHANGED trouble

spoolbdbv_truncate_oldest(status) ==
  LET w == NextDb(wrdb) IN
  /\ UNCHANGED hist
  /\ \/ /\ status = "ok"
        /\ db' = [db EXCEPT ![w] = Empty] /\ wrdb' = w /\ size' = 0
        /\ UNCHANGED trouble
     \/ /\ Fails("truncate", status)
        /\ UNCHANGED <<db, wrdb, size>> /\ Noted("truncate")

\* The databases are truncated from the last down to the first that fails.
spoolbdbv_truncate(status) ==
  /\ UNCHANGED hist
  /\ \E first \in 1 .. Ndb + 1 :
       /\ \/ first = 1 /\ status = "ok" /\ UNCHANGED trouble
          \/ first > 1 /\ Fails("truncate", status) /\ Noted("truncate")
       /\ db' = [d \in Dbs |-> IF d >= first THEN Empty ELSE db[d]]
       /\ wrdb' = IF first > Ndb THEN wrdb ELSE first
       /\ size' = IF first > Ndb THEN size ELSE 0

\* How far behind the current database another is, in the order of reading.
Behind(d) == IF d <= wrdb THEN wrdb - d ELSE wrdb - d + Ndb

Holding(k) == {d \in Dbs : db[d][k] # None}

\* Mutant of Nearest: the databases are searched from the oldest.
Nearest_oldest(k) ==
  CHOOSE d \in Holding(k) : \A e \in Holding(k) : Behind(d) >= Behind(e)

Nearest(k) ==
  CHOOSE d \in Holding(k) : \A e \in Holding(k) : Behind(d) <= Behind(e)

\* The version that spoolbdbv_read() finds, None for DB_NOTFOUND.
spoolbdbv_read(k) == IF Holding(k) = {} THEN None ELSE db[Nearest(k)][k]

-----------------------------------------------------------------------------
(***************************************************************************)
(* nbsp_mspoolbdb_insert(), called by the processor thread.  The readers   *)
(* can come in between its calls.                                          *)
(***************************************************************************)
Insert ==
  /\ ins.st = "idle" /\ MoreWork
  /\ \E a \in Arrivals :
       /\ a.len > Maxsize => MayHappen("ENOMEM")
       /\ ins' = [st |-> "insert", k |-> a.k, len |-> a.len]
  /\ UNCHANGED <<ringVars, slotVars, trouble>>

Then(st) == ins' = [ins EXCEPT !.st = st]

mspoolbdb_insert ==
  /\ ins.st \in {"insert", "again", "last"}
  /\ \E status \in Status :
       /\ spoolbdbv_write2(status)
       /\ IF status # "ENOMEM" \/ ins.st = "last" THEN ins' = NoInsert
          ELSE Then(IF ins.st = "insert" THEN "oldest" ELSE "all")
  /\ UNCHANGED <<slotVars, work>>

mspoolbdb_truncate_oldest ==
  /\ ins.st = "oldest"
  /\ \E status \in Status :
       /\ spoolbdbv_truncate_oldest(status)
       /\ CASE status = "ok" -> Then("again")
            [] status = "ENOMEM" -> Then("all")
            [] OTHER -> ins' = NoInsert
  /\ UNCHANGED <<slotVars, work>>

mspoolbdb_truncate ==
  /\ ins.st = "all"
  /\ \E status \in Status :
       /\ spoolbdbv_truncate(status)
       /\ IF status = "ok" THEN Then("last") ELSE ins' = NoInsert
  /\ UNCHANGED <<slotVars, work>>

nbsp_mspoolbdb_insert ==
  \/ Insert \/ mspoolbdb_insert \/ mspoolbdb_truncate_oldest
  \/ mspoolbdb_truncate

-----------------------------------------------------------------------------
(***************************************************************************)
(* The slots.  A reader that waits is "woken" once it has been signalled   *)
(* and until it has the mutex again.                                       *)
(***************************************************************************)
EmptySlots == {i \in SlotIds : slot[i].status = 0}
Waiting == {t \in Threads : th[t].st = "waiting"}
Woken == {t \in Threads : th[t].st = "woken"}

\* Mutant of Fill: the status of the slot is left as it is.
Fill_status(t, k, i) ==
  /\ slot' = [slot EXCEPT ![i] = [@ EXCEPT !.v = spoolbdbv_read(k), !.nread = 0]]
  /\ numslots' = numslots + 1
  /\ th' = [th EXCEPT ![t] = [@ EXCEPT !.st = "open", !.k = k, !.sd = i,
                                       !.v = spoolbdbv_read(k), !.nread = 0]]

\* The data are read into slot i, which is now of the thread.
Fill(t, k, i) ==
  /\ slot' = [slot EXCEPT ![i] = [status |-> 1, v |-> spoolbdbv_read(k),
                                  nread |-> 0]]
  /\ numslots' = numslots + 1
  /\ th' = [th EXCEPT ![t] = [@ EXCEPT !.st = "open", !.k = k, !.sd = i,
                                       !.v = spoolbdbv_read(k), !.nread = 0]]

\* spoolbuf_slots_open_unlocked() takes the first empty slot.  A key that is
\* not found, or an error, leaves the slots as they are and wakes nobody.
spoolbuf_slots_open_unlocked(t, k) ==
  \/ /\ EmptySlots # {} /\ spoolbdbv_read(k) # None
     /\ Fill(t, k, Min(EmptySlots))
     /\ UNCHANGED trouble
  \/ /\ EmptySlots # {} /\ (spoolbdbv_read(k) = None \/ MayHappen("read"))
     /\ th' = [th EXCEPT ![t] = Returned]
     /\ IF th[t].st = "woken" THEN Noted("wasted") ELSE UNCHANGED trouble
     /\ UNCHANGED <<slot, numslots>>

pthread_cond_wait(t, k) ==
  /\ th' = [th EXCEPT ![t] = [@ EXCEPT !.st = "waiting", !.k = k]]
  /\ UNCHANGED <<slot, numslots, trouble>>

\* spoolbuf_slots_open(), from its beginning and from its wait.
spoolbuf_slots_open(t) ==
  /\ mutex = 0
  /\ \/ /\ th[t].st = "idle" /\ MoreWork
        /\ \E v \in DOMAIN hist :
             IF numslots = Slots THEN pthread_cond_wait(t, hist[v].k)
             ELSE spoolbuf_slots_open_unlocked(t, hist[v].k)
     \/ /\ th[t].st = "woken" /\ UNCHANGED work
        /\ IF numslots = Slots THEN pthread_cond_wait(t, th[t].k)
           ELSE spoolbuf_slots_open_unlocked(t, th[t].k)
  /\ UNCHANGED <<ringVars, ins, mutex>>

\* A wait may end without a signal.
Spurious(t) ==
  /\ th[t].st = "waiting"
  /\ th' = [th EXCEPT ![t].st = "woken"]
  /\ UNCHANGED <<ringVars, ins, slot, numslots, mutex, trouble, work>>

\* Mutant of spoolbuf_slots_close: nobody is woken.
spoolbuf_slots_close_silent(t) ==
  /\ mutex = 0
  /\ slot' = [slot EXCEPT ![th[t].sd].status = 0]
  /\ numslots' = numslots - 1
  /\ th' = [th EXCEPT ![t] = Returned]
  /\ UNCHANGED <<ringVars, ins, mutex, trouble, work>>

\* The slot of the thread is empty again and one of those waiting is woken.
spoolbuf_slots_close(t) ==
  /\ mutex = 0
  /\ slot' = [slot EXCEPT ![th[t].sd].status = 0]
  /\ numslots' = numslots - 1
  /\ \/ /\ Waiting = {}
        /\ th' = [th EXCEPT ![t] = Returned]
     \/ \E u \in Waiting :
          th' = [th EXCEPT ![t] = Returned, ![u].st = "woken"]
  /\ UNCHANGED <<ringVars, ins, mutex, trouble, work>>

-----------------------------------------------------------------------------
(***************************************************************************)
(* The readers.                                                            *)
(***************************************************************************)
\* send_nbs1_client() reads a block from its slot and writes it to the client.
build_nbs_packet(t) ==
  /\ t \in Clients /\ th[t].st = "open" /\ th[t].nread < hist[th[t].v].len
  /\ slot' = [slot EXCEPT ![th[t].sd].nread = @ + 1]
  /\ th' = [th EXCEPT ![t].nread = @ + 1]
  /\ UNCHANGED <<ringVars, ins, numslots, mutex, trouble, work>>

\* Mutant of WriteFails: the product is sent again from its beginning.
WriteFails_restart(t) ==
  /\ t \in Clients /\ th[t].st = "open" /\ th[t].nread > 0
  /\ slot' = [slot EXCEPT ![th[t].sd].nread = 0]
  /\ th' = [th EXCEPT ![t].nread = 0]
  /\ UNCHANGED <<ringVars, ins, numslots, mutex, trouble, work>>

\* Mutant of WriteFails: an early return that does not close the slot.
WriteFails_return(t) ==
  /\ t \in Clients /\ th[t].st = "open" /\ th[t].nread > 0
  /\ th' = [th EXCEPT ![t] = Returned]
  /\ UNCHANGED <<ringVars, ins, slot, numslots, mutex, trouble, work>>

\* The client does not take the block.
WriteFails(t) ==
  /\ t \in Clients /\ th[t].st = "open" /\ th[t].nread > 0
  /\ spoolbuf_slots_close(t)

\* The whole product has been sent.
free_nbs_packet_st(t) ==
  /\ t \in Clients /\ th[t].st = "open" /\ th[t].nread = hist[th[t].v].len
  /\ spoolbuf_slots_close(t)

\* The filter thread opens a slot for the size of the data only.
nbsp_mspoolbdb_fpathsize ==
  /\ th[FilterThread].st = "open"
  /\ spoolbuf_slots_close(FilterThread)

\* The server thread cancels a client thread that has a slot or waits for one.
\* cleanup() in src/serverc.c knows nothing of slots: one that is open stays so,
\* and a thread that was waiting has taken the mutex back and keeps it.
pthread_cancel(t) ==
  /\ MayHappen("cancel") /\ t \in Clients
  /\ \/ th[t].st = "open" /\ UNCHANGED mutex
     \/ th[t].st \in {"waiting", "woken"} /\ mutex = 0 /\ mutex' = 1
  /\ th' = [th EXCEPT ![t].st = "gone"] /\ Noted("cancel")
  /\ UNCHANGED <<ringVars, ins, slot, numslots, work>>

Progress(t) ==
  \/ spoolbuf_slots_open(t) \/ build_nbs_packet(t) \/ free_nbs_packet_st(t)
  \/ WriteFails(t)
  \/ t = FilterThread /\ nbsp_mspoolbdb_fpathsize

Next ==
  \/ nbsp_mspoolbdb_insert
  \/ \E t \in Threads : Progress(t) \/ Spurious(t) \/ pthread_cancel(t)

\* The writes of a client end, in its timeout if not before.
Spec == Init /\ [][Next]_vars /\ \A t \in Threads : WF_vars(Progress(t))

-----------------------------------------------------------------------------
TypeOK ==
  /\ db \in [Dbs -> [Keys -> Versions \cup {None}]]
  /\ wrdb \in Dbs /\ size \in 0 .. Word - 1
  /\ ins \in [st : {"idle", "insert", "oldest", "again", "all", "last"},
              k : Keys \cup {None}, len : 0 .. Word - 1]
  /\ slot \in [SlotIds -> [status : {0, 1}, v : Versions \cup {None}, nread : Nat]]
  /\ numslots \in 0 .. Slots
  /\ mutex \in {0, 1}
  /\ th \in [Threads -> Reader]
  /\ hist \in Seq(Arrivals)
  /\ work \in 0 .. MaxWork
  /\ trouble \subseteq {"put", "truncate", "ENOMEM", "wasted", "cancel"}

(***************************************************************************)
(* What a thread reads through the slot it has opened is the one product   *)
(* it opened, from its first block on: no other thread gets the slot while *)
(* it is open, whatever is inserted, truncated, opened and closed          *)
(* meanwhile.  The assertion of spoolbuf_slots_open() that there is an     *)
(* empty slot holds whenever a thread gets past its wait.                  *)
(***************************************************************************)
SlotOwned ==
  /\ numslots < Slots => EmptySlots # {}
  /\ \A t \in Threads : th[t].st = "open" =>
       /\ slot[th[t].sd] = [status |-> 1, v |-> th[t].v, nread |-> th[t].nread]
       /\ \A u \in Threads \ {t} : th[u].st = "open" => th[u].sd # th[t].sd

(***************************************************************************)
(* A slot is taken only by a thread that is going to close it, and the     *)
(* mutex of the slots is free between two steps, as long as no client      *)
(* thread was canceled with a slot or waiting for one.                     *)
(***************************************************************************)
SlotsReturned ==
  "cancel" \notin trouble =>
    /\ mutex = 0
    /\ \A i \in SlotIds :
         slot[i].status = 1 => \E t \in Threads : th[t].st = "open" /\ th[t].sd = i

(***************************************************************************)
(* While a thread waits for a slot, every empty slot has a thread of its   *)
(* own that is on its way to it: the one signal of spoolbuf_slots_close()  *)
(* is enough, as long as no thread that was woken found nothing to read,   *)
(* or was canceled.                                                        *)
(***************************************************************************)
NoIdleWaiter ==
  trouble \cap {"wasted", "cancel"} = {} /\ Waiting # {} =>
    Slots - numslots <= Cardinality(Woken)

\* The versions of a key that are in some database.
Present(k) == {db[d][k] : d \in Holding(k)}

(***************************************************************************)
(* Reading finds the newest of the versions of a key that are in the ring, *)
(* as long as no truncation has failed: the order of the search is the     *)
(* order of age, through all wraps and recoveries from lack of memory.     *)
(***************************************************************************)
NewestFirst ==
  "truncate" \notin trouble =>
    \A k \in Keys : Holding(k) # {} => spoolbdbv_read(k) = Max(Present(k))

\* The blocks of the versions in V of the history h, and how many there are.
Blocks(h, V) == UNION {{v} \X (1 .. h[v].len) : v \in V}
Amount(h, V) == Cardinality(Blocks(h, V))

\* The versions in a database, and their size.
Contents(d) == {db[d][k] : k \in Keys} \ {None}
Stored(d) == Amount(hist, Contents(d))

(***************************************************************************)
(* No database holds more than maxsize, as long as no truncation has       *)
(* failed.                                                                 *)
(***************************************************************************)
FitsCache ==
  "truncate" \notin trouble => \A d \in Dbs : Stored(d) <= Maxsize

\* How much was inserted after version v, and the largest product of that.
Since(v) == Amount(hist, v + 1 .. Len(hist))
LargestSince(v) == Max({hist[u].len : u \in v + 1 .. Len(hist)} \cup {0})

(***************************************************************************)
(* The newest product of a key can be read until Ndb - 1 databases have    *)
(* been filled after it, each to within one product of maxsize: clients    *)
(* and filters have that much time.  This is as long as every product fits *)
(* in a database and no call on a database has failed.                     *)
(***************************************************************************)
Retained ==
  trouble \cap {"put", "truncate", "ENOMEM"} = {} =>
    \A v \in DOMAIN hist :
      \/ \E u \in v + 1 .. Len(hist) : hist[u].k = hist[v].k
      \/ Since(v) > (Ndb - 1) * (Maxsize + 1 - LargestSince(v))
      \/ spoolbdbv_read(hist[v].k) = v

(***************************************************************************)
(* A thread that waits for a slot gets out of the wait once the others     *)
(* stop opening, unless a wakeup was wasted on a thread that found nothing *)
(* to read, or a client thread was canceled with a slot or the mutex.      *)
(***************************************************************************)
WaitersServed ==
  \A t \in Threads :
    th[t].st \in {"waiting", "woken"} ~>
      \/ th[t].st \notin {"waiting", "woken"}
      \/ trouble \cap {"wasted", "cancel"} # {}
=============================================================================
