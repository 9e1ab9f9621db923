------------------------------- MODULE Pctldb -------------------------------
(***************************************************************************)
(* The processor queue of src/pctldb.c and src/pctlmfdb.c.  The control    *)
(* elements are in a Berkeley DB queue; their memory files are in a btree  *)
(* whose key is the time at which the element was queued.  Both files      *)
(* outlive the process; the counters kept beside them do not.              *)
(*                                                                         *)
(* The readers send and the processor receives under one mutex, so a send  *)
(* is one step, and a receive is one step for each time it holds the mutex *)
(* (it is released inside pthread_cond_timedwait()).                       *)
(*                                                                         *)
(* A product stands for its control element and for its memory file.       *)
(***************************************************************************)
EXTENDS Integers, Sequences, Functions, FiniteSets

CONSTANTS Products,     \* the products the readers send, each one once
          Size,         \* the size of the memory file of each
          HardLimits,   \* the values pctlmaxhard may have in a run, 0 = none
          MfHardLimit,  \* pctlmaxmemhard in bytes, 0 = none
          DbMayFail,    \* whether Berkeley DB calls may start to fail
          Times,        \* bound: the readings of the clock, [sec, nsec]
          ClockMayStepBack  \* whether CLOCK_REALTIME may be set back

Time == [sec : Nat, nsec : Nat]

ASSUME SizeAssumption == Size \in [Products -> Nat]
ASSUME LimitsAssumption == HardLimits \subseteq Nat /\ MfHardLimit \in Nat
ASSUME DbAssumption == DbMayFail \in BOOLEAN /\ ClockMayStepBack \in BOOLEAN
ASSUME TimesAssumption == Times \subseteq Time

\* timespec_cmp(): s is before t.
Before(s, t) == s.sec < t.sec \/ (s.sec = t.sec /\ s.nsec < t.nsec)

VARIABLES queue,          \* pctl.db: the elements, each with its tsqueue
          mfdb,           \* pctlmf.db: from tsqueue to the memory file
          n,              \* pctldb->n
          mf_total_size,  \* pctldb->mf_total_size
          last_tsqueue,   \* pctldb->last_tsqueue
          hardlimit,      \* pctldb->hardlimit
          clock,          \* CLOCK_REALTIME
          dbfails,        \* whether Berkeley DB calls may fail by now
          sent,           \* the products the readers are done with
          pc,             \* where the processor is in pctldb_rcv_pce()
          received        \* what it received: element and memory file

vars == <<queue, mfdb, n, mf_total_size, last_tsqueue, hardlimit, clock,
          dbfails, sent, pc, received>>

\* The outcomes of a call, TRUE = done.
DbOutcomes == IF dbfails THEN BOOLEAN ELSE {TRUE}

Zero == [sec |-> 0, nsec |-> 0]

\* The bytes in a memory file db, each with the key of its file, and how many
\* they are.
Bytes(db) == UNION {{k} \X (1 .. Size[db[k]]) : k \in DOMAIN db}
Stored(db) == Cardinality(Bytes(db))

-----------------------------------------------------------------------------
\* Mutant of Tsqueue: an equal reading is let pass.
Tsqueue_strict == IF /\ clock.sec = last_tsqueue.sec
                     /\ clock.nsec < last_tsqueue.nsec
                  THEN [clock EXCEPT !.nsec = last_tsqueue.nsec + 1]
                  ELSE clock

\* Lines 290-307: a reading that does not pass the last one is moved past it,
\* when it is in the same second.
Tsqueue == IF clock.sec = last_tsqueue.sec /\ clock.nsec <= last_tsqueue.nsec
           THEN [clock EXCEPT !.nsec = last_tsqueue.nsec + 1]
           ELSE clock

\* Mutant of pctldb_hard_limit: one element more is let in.
pctldb_hard_limit_late(size) ==
  \/ MfHardLimit > 0 /\ mf_total_size + size > MfHardLimit
  \/ hardlimit > 0 /\ n > hardlimit

pctldb_hard_limit(size) ==
  \/ MfHardLimit > 0 /\ mf_total_size + size > MfHardLimit
  \/ hardlimit > 0 /\ n = hardlimit

pctldb_snd(p, ts) ==
  /\ queue' = Append(queue, [product |-> p, tsqueue |-> ts])
  /\ n' = n + 1

\* An element already stored under the key is replaced.
pctlmfdb_snd(p, ts) ==
  /\ mfdb' = [k \in DOMAIN mfdb \cup {ts} |-> IF k = ts THEN p ELSE mfdb[k]]
  /\ mf_total_size' = mf_total_size + Size[p]

\* The three outcomes of a send: refused (a limit, or the queue put fails),
\* an element without a memory file, and success.
Refused(p) ==
  /\ pctldb_hard_limit(Size[p]) \/ FALSE \in DbOutcomes
  /\ UNCHANGED <<queue, n, mfdb, mf_total_size>>

MemfileLost(p) ==
  /\ ~pctldb_hard_limit(Size[p]) /\ FALSE \in DbOutcomes
  /\ pctldb_snd(p, Tsqueue)
  /\ UNCHANGED <<mfdb, mf_total_size>>

Queued(p) ==
  /\ ~pctldb_hard_limit(Size[p])
  /\ pctldb_snd(p, Tsqueue)
  /\ pctlmfdb_snd(p, Tsqueue)

pctldb_send_pce(p) ==
  /\ p \in Products \ sent
  /\ Refused(p) \/ MemfileLost(p) \/ Queued(p)
  /\ last_tsqueue' = Tsqueue
  /\ sent' = sent \cup {p}
  /\ pc' = IF pc = "waiting" THEN "woken" ELSE pc   \* pthread_cond_signal()
  /\ UNCHANGED <<hardlimit, clock, dbfails, received>>

-----------------------------------------------------------------------------
\* Mutant of pctlmfdb_rcv: the size is taken off though the delete failed.
pctlmfdb_rcv_eager(e, read, deleted) ==
  LET ts    == e.tsqueue
      found == ts \in DOMAIN mfdb
      size  == IF found /\ read THEN Size[mfdb[ts]] ELSE 0
  IN  /\ mfdb' = IF deleted THEN Restrict(mfdb, DOMAIN mfdb \ {ts}) ELSE mfdb
      /\ mf_total_size' = IF mf_total_size > size
                          THEN mf_total_size - size ELSE 0
      /\ received' = IF found /\ read /\ deleted
                     THEN Append(received, [product |-> e.product,
                                            mf |-> mfdb[ts]])
                     ELSE received

\* Mutant of pctlmfdb_rcv: a memory file without data is taken as not found.
pctlmfdb_rcv_nonempty(e, read, deleted) ==
  LET ts    == e.tsqueue
      found == ts \in DOMAIN mfdb
      size  == IF found /\ read THEN Size[mfdb[ts]] ELSE 0
  IN  /\ mfdb' = IF deleted THEN Restrict(mfdb, DOMAIN mfdb \ {ts}) ELSE mfdb
      /\ mf_total_size' = IF ~(found /\ deleted) THEN mf_total_size
                          ELSE IF mf_total_size > size
                          THEN mf_total_size - size ELSE 0
      /\ received' = IF size > 0 /\ deleted
                     THEN Append(received, [product |-> e.product,
                                            mf |-> mfdb[ts]])
                     ELSE received

\* The memory file is deleted even when it could not be read, and then its
\* size is taken to be 0.
pctlmfdb_rcv(e, read, deleted) ==
  LET ts    == e.tsqueue
      found == ts \in DOMAIN mfdb
      size  == IF found /\ read THEN Size[mfdb[ts]] ELSE 0
  IN  /\ mfdb' = IF deleted THEN Restrict(mfdb, DOMAIN mfdb \ {ts}) ELSE mfdb
      /\ mf_total_size' = IF ~(found /\ deleted) THEN mf_total_size
                          ELSE IF mf_total_size > size
                          THEN mf_total_size - size ELSE 0
      /\ received' = IF found /\ read /\ deleted
                     THEN Append(received, [product |-> e.product,
                                            mf |-> mfdb[ts]])
                     ELSE received

\* Mutant of pctldb_rcv: the newest element is taken.
pctldb_rcv_newest(consumed, read, deleted) ==
  IF consumed /\ queue # <<>>
  THEN /\ queue' = SubSeq(queue, 1, Len(queue) - 1)
       /\ n' = n - 1
       /\ pctlmfdb_rcv(queue[Len(queue)], read, deleted)
  ELSE UNCHANGED <<queue, n, mfdb, mf_total_size, received>>

\* DB_CONSUME: the head of the queue.  When it fails nothing has changed.
pctldb_rcv(consumed, read, deleted) ==
  IF consumed /\ queue # <<>>
  THEN /\ queue' = Tail(queue)
       /\ n' = n - 1
       /\ pctlmfdb_rcv(Head(queue), read, deleted)
  ELSE UNCHANGED <<queue, n, mfdb, mf_total_size, received>>

\* The processor has the mutex and there is an element.
Take ==
  /\ pc \in {"out", "woken", "timedout"}
  /\ n # 0
  /\ \E consumed, read, deleted \in DbOutcomes :
       pctldb_rcv(consumed, read, deleted)
  /\ pc' = "out"
  /\ UNCHANGED <<last_tsqueue, hardlimit, clock, dbfails, sent>>

\* It has the mutex and the queue is empty: it waits, or gives up with 1.
Wait ==
  /\ pc \in {"out", "woken"}
  /\ n = 0
  /\ pc' = "waiting"
  /\ UNCHANGED <<queue, mfdb, n, mf_total_size, last_tsqueue, hardlimit,
                 clock, dbfails, sent, received>>

GiveUp ==
  /\ pc = "timedout"
  /\ n = 0
  /\ pc' = "out"
  /\ UNCHANGED <<queue, mfdb, n, mf_total_size, last_tsqueue, hardlimit,
                 clock, dbfails, sent, received>>

\* pthread_cond_timedwait() returns by itself: the timeout, or a spurious
\* wakeup.  The processor still has to get the mutex back.
Timeout ==
  /\ pc = "waiting"
  /\ pc' \in {"timedout", "woken"}
  /\ UNCHANGED <<queue, mfdb, n, mf_total_size, last_tsqueue, hardlimit,
                 clock, dbfails, sent, received>>

Tick ==
  /\ \E t \in Times : /\ Before(clock, t) \/ ClockMayStepBack
                      /\ clock' = t
  /\ UNCHANGED <<queue, mfdb, n, mf_total_size, last_tsqueue, hardlimit,
                 dbfails, sent, pc, received>>

\* The disk or the cache is full, or a file is damaged.
DbFail ==
  /\ DbMayFail /\ ~dbfails
  /\ dbfails' = TRUE
  /\ UNCHANGED <<queue, mfdb, n, mf_total_size, last_tsqueue, hardlimit,
                 clock, sent, pc, received>>

\* Mutant of pctldb_stat: the last record is not counted.
pctldb_stat_short == n' = Len(queue) - 1

pctldb_stat == n' = Len(queue)

pctlmfdb_stat == mf_total_size' = Stored(mfdb)

\* The daemon stops in order and is started again, perhaps with another
\* limit: pctldb_open() counts what is in the files.  By then the clock has
\* passed the stamps, which only run ahead of it by nanoseconds.
Restart ==
  /\ Before(last_tsqueue, clock)
  /\ pctldb_stat
  /\ pctlmfdb_stat
  /\ last_tsqueue' = Zero
  /\ hardlimit' \in HardLimits
  /\ pc' = "out"
  /\ UNCHANGED <<queue, mfdb, clock, dbfails, sent, received>>

Init ==
  /\ queue = <<>>
  /\ mfdb = <<>>
  /\ n = 0
  /\ mf_total_size = 0
  /\ last_tsqueue = Zero
  /\ hardlimit \in HardLimits
  /\ clock \in Times
  /\ dbfails = FALSE
  /\ sent = {}
  /\ pc = "out"
  /\ received = <<>>

Next ==
  \/ \E p \in Products : pctldb_send_pce(p)
  \/ Take
  \/ Wait
  \/ GiveUp
  \/ Timeout
  \/ Tick
  \/ DbFail
  \/ Restart

\* The processor thread runs, and its wait ends at the timeout at the latest.
Fairness == WF_vars(Take) /\ WF_vars(Wait) /\ WF_vars(GiveUp) /\ WF_vars(Timeout)

Spec == Init /\ [][Next]_vars /\ Fairness

-----------------------------------------------------------------------------
\* The values the variables range over.
TypeOK ==
  /\ queue \in Seq([product : Products, tsqueue : Time])
  /\ DOMAIN mfdb \subseteq Time /\ Range(mfdb) \subseteq Products
  /\ n \in Nat /\ mf_total_size \in Nat
  /\ last_tsqueue \in Time /\ clock \in Times /\ dbfails \in BOOLEAN
  /\ hardlimit \in HardLimits
  /\ sent \subseteq Products
  /\ pc \in {"out", "waiting", "woken", "timedout"}
  /\ received \in Seq([product : Products, mf : Products])

(***************************************************************************)
(* The mf of each pce is stored under the timespec of the product          *)
(* (pctlmfdb.c): no two queued elements have the same key, and what is     *)
(* stored under the key of an element is its own memory file.  The manual  *)
(* resolution of equal clock readings and the reset of last_tsqueue at a   *)
(* restart are what could break it.                                        *)
(***************************************************************************)
OwnMemfile ==
  \A i \in 1..Len(queue) :
    /\ \A j \in 1..Len(queue) : queue[i].tsqueue = queue[j].tsqueue => i = j
    /\ queue[i].tsqueue \in DOMAIN mfdb =>
         mfdb[queue[i].tsqueue] = queue[i].product

(***************************************************************************)
(* The counters beside the files: n is the length of the queue, so that a  *)
(* receiver never waits while there is an element, and mf_total_size never *)
(* falls below the bytes in the memory file db, whatever call fails, so    *)
(* that pctldb_hard_limit() does not let the memory grow past its limit.   *)
(***************************************************************************)
CountersCover ==
  /\ n = Len(queue)
  /\ mf_total_size >= Stored(mfdb)
  /\ MfHardLimit > 0 => Stored(mfdb) <= MfHardLimit

(***************************************************************************)
(* pctldb_hard_limit() compares n with the limit for equality only; that   *)
(* bounds the queue as long as the limit stays the same over restarts.     *)
(***************************************************************************)
HardLimitHolds == hardlimit > 0 => Len(queue) <= hardlimit

\* The queue as the readers and the processor see it.
Abstract == INSTANCE ProductQueue WITH
              waiting  <- [i \in 1..Len(queue) |-> queue[i].product],
              received <- [i \in 1..Len(received) |-> received[i].mf]

(***************************************************************************)
(* The two databases, their key and their counters implement the queue of  *)
(* whole products.                                                         *)
(***************************************************************************)
ImplementsQueue == Abstract!Spec

(***************************************************************************)
(* No wakeup is lost: while Berkeley DB works, a queued product is         *)
(* eventually received by the processor, even if the signal of             *)
(* pctldb_send_pce() falls between a timeout and the return of the wait.   *)
(***************************************************************************)
EventuallyReceived ==
  [](~dbfails) => \A p \in Products :
                    (\E i \in 1..Len(queue) : queue[i].product = p)
                      ~> (\E i \in 1..Len(received) : received[i].product = p)
=============================================================================
