---------------------------- MODULE MspoolProofs ----------------------------
(***************************************************************************)
(* Proofs about Mspool for any number of databases, slots and threads: its *)
(* types, SlotOwned, SlotsReturned and NoIdleWaiter (the slots), and       *)
(* NewestFirst, FitsCache and Retained (the ring).                         *)
(***************************************************************************)
EXTENDS Mspool, TLAPS, FiniteSetTheorems, WellFoundedInduction, NaturalsInduction

\* A leaf is for Zenon unless it names SMT, and may take a minute.
USE ZenonT(60), SMTT(60)

\* Appending to a sequence keeps its elements.
LEMMA AppendKeeps ==
  ASSUME NEW A, NEW q \in Seq(A), NEW a \in A, NEW j \in 1 .. Len(q)
  PROVE  Append(q, a)[j] = q[j] /\ q[j] \in A
  BY SMTT(60)

\* What is appended comes last.
LEMMA AppendLast ==
  ASSUME NEW A, NEW q \in Seq(A), NEW a \in A
  PROVE  /\ Len(q) \in Nat /\ Len(Append(q, a)) = Len(q) + 1
         /\ Append(q, a)[Len(q) + 1] = a
  BY SMTT(60)

\* A nonempty set of natural numbers has a least element.
LEMMA LeastNat ==
  ASSUME NEW S \in SUBSET Nat, S # {}
  PROVE  \E n \in S : \A m \in S : n <= m
<1>1. PICK n \in S : \A m \in S : ~ (<<m, n>> \in OpToRel(<, Nat))
  BY ZenonT(60), NatLessThanWellFounded, WFMin, S # {}
<1>2. ASSUME NEW m \in S, m < n PROVE FALSE
  <2>1. <<m, n>> \in {ss \in Nat \X Nat : ss[1] < ss[2]}
    BY <1>2
  <2>2. <<m, n>> \in OpToRel(<, Nat)
    BY <2>1 DEF OpToRel
  <2> QED
    BY ZenonT(60), <1>1, <2>2
<1> QED
  BY SMTT(60), <1>2

\* The first empty slot is one of the empty slots.
LEMMA MinEmpty ==
  ASSUME NEW S \in SUBSET SlotIds, S # {}
  PROVE  Min(S) \in S
<1>1. S \in SUBSET Nat
  BY SMTT(60), MspoolAssumption DEF SlotIds
<1> QED
  BY ZenonT(60), <1>1, LeastNat DEF Min

\* The distance between databases in the order of reading is a natural number
\* and tells them apart.
LEMMA BehindNat ==
  ASSUME wrdb \in Dbs
  PROVE  /\ \A d \in Dbs : Behind(d) \in 0 .. Ndb - 1
         /\ \A d, e \in Dbs : Behind(d) = Behind(e) => d = e
BY SMTT(60), MspoolAssumption DEF Behind, Dbs

\* The search of spoolbdbv_read() ends at a database that has the key, and at
\* none before it.
LEMMA NearestHolds ==
  ASSUME wrdb \in Dbs, NEW k \in Keys, Holding(k) # {}
  PROVE  /\ Nearest(k) \in Holding(k)
         /\ \A e \in Holding(k) : Behind(Nearest(k)) <= Behind(e)
<1> DEFINE B == {Behind(d) : d \in Holding(k)}
<1>1. B \in SUBSET Nat /\ B # {}
  BY SMTT(60), BehindNat DEF Holding
<1>2. PICK n \in B : \A m \in B : n <= m
  BY ZenonT(60), <1>1, LeastNat
<1>3. PICK d \in Holding(k) : n = Behind(d)
  BY <1>2
<1>4. \A e \in Holding(k) : Behind(d) <= Behind(e)
  BY <1>2, <1>3
<1> QED
  BY <1>3, <1>4 DEF Nearest

\* What is read is a version of the key.
LEMMA ReadType ==
  ASSUME TypeOK, NEW k \in Keys
  PROVE  /\ spoolbdbv_read(k) \in Versions \cup {None}
         /\ spoolbdbv_read(k) # None <=> Holding(k) # {}
<1>1. CASE Holding(k) = {}
  BY <1>1 DEF spoolbdbv_read
<1>2. CASE Holding(k) # {}
  <2>1. Nearest(k) \in Dbs /\ db[Nearest(k)][k] # None
    BY <1>2, NearestHolds DEF TypeOK, Holding
  <2> QED
    BY SMTT(60), <1>2, <2>1 DEF spoolbdbv_read, TypeOK
<1> QED
  BY <1>1, <1>2

-----------------------------------------------------------------------------
(***************************************************************************)
(* Types.                                                                  *)
(***************************************************************************)
\* An insertion in progress is of a product that arrived.
InsOK == ins.st # "idle" => [k |-> ins.k, len |-> ins.len] \in Arrivals

\* A thread waits for the product of some key.
WaitOK == \A t \in Threads : th[t].st \in {"waiting", "woken"} => th[t].k \in Keys

\* The slot of a thread that has one.
OpenOK == \A t \in Threads : th[t].st = "open" => th[t].sd \in SlotIds

Taken == {i \in SlotIds : slot[i].status = 1}

\* numslots counts the slots that are taken.
Counted == numslots = Cardinality(Taken)

Types == TypeOK /\ InsOK /\ WaitOK /\ OpenOK

\* The number of slots taken is at most maxslots, and less when one is empty.
LEMMA TakenBound ==
  ASSUME TypeOK, Counted
  PROVE  /\ IsFiniteSet(Taken)
         /\ numslots < Slots <=> EmptySlots # {}
<1>1. IsFiniteSet(SlotIds) /\ Cardinality(SlotIds) = Slots
  BY SMTT(60), FS_Interval, MspoolAssumption DEF SlotIds
<1>2. Taken \in SUBSET SlotIds
  BY DEF Taken
<1>3. /\ IsFiniteSet(Taken) /\ Cardinality(Taken) <= Slots
      /\ Slots = Cardinality(Taken) => SlotIds = Taken
  BY <1>1, <1>2, FS_Subset
<1>4. EmptySlots # {} <=> Taken # SlotIds
  BY SMTT(60) DEF EmptySlots, Taken, TypeOK
<1>5. Taken = SlotIds => numslots = Slots
  BY <1>1 DEF Counted
<1>6. numslots \in Nat /\ Slots \in Nat
  BY SMTT(60), MspoolAssumption DEF TypeOK
<1> QED
  BY SMTT(60), <1>3, <1>4, <1>5, <1>6 DEF Counted

\* Each open slot is of one thread and holds what that thread opened.
Owned ==
  \A t \in Threads : th[t].st = "open" =>
    /\ slot[th[t].sd] = [status |-> 1, v |-> th[t].v, nread |-> th[t].nread]
    /\ \A u \in Threads \ {t} : th[u].st = "open" => th[u].sd # th[t].sd

SlotInv == Types /\ Counted /\ Owned

\* What the calls on the ring return keeps its types.
LEMMA WriteTypes ==
  ASSUME Types, ins.st # "idle", NEW status \in Status, spoolbdbv_write2(status)
  PROVE  /\ db' \in [Dbs -> [Keys -> Versions \cup {None}]]
         /\ wrdb' \in Dbs /\ size' \in 0 .. Word - 1
         /\ hist' \in Seq(Arrivals)
         /\ trouble' \subseteq {"put", "truncate", "ENOMEM", "wasted", "cancel"}
<1> DEFINE w == IF Fits(ins.len) THEN wrdb ELSE NextDb(wrdb)
           room == IF Fits(ins.len) THEN db[w] ELSE Empty
<1>1. /\ ins.k \in Keys /\ ins.len \in 1 .. Word - 1
      /\ [k |-> ins.k, len |-> ins.len] \in Arrivals
  BY MspoolAssumption DEF Types, InsOK
<1>2. w \in Dbs
  BY SMTT(60), MspoolAssumption DEF Types, TypeOK, NextDb, Dbs
<1>3. room \in [Keys -> Versions \cup {None}]
  BY <1>2 DEF Types, TypeOK, Empty
<1>4. Base(ins.len) \in 0 .. Word - 1
  BY SMTT(60), MspoolAssumption DEF Base, Types, TypeOK
<1>5. Wrap(Base(ins.len) + ins.len) \in 0 .. Word - 1
  BY SMTT(60), <1>1, <1>4, MspoolAssumption DEF Wrap
<1>6. /\ hist \in Seq(Arrivals) /\ Len(hist) + 1 \in Versions
      /\ Append(hist, [k |-> ins.k, len |-> ins.len]) \in Seq(Arrivals)
  BY SMTT(60), <1>1 DEF Types, TypeOK, Versions
<1>7. CASE ins.len > Maxsize /\ UNCHANGED ringVars /\ Noted("ENOMEM")
  BY <1>7 DEF ringVars, Noted, Types, TypeOK
<1>8. CASE wrdb' = w /\ UNCHANGED <<db, size, hist>> /\ Noted("truncate")
  BY <1>2, <1>8 DEF Noted, Types, TypeOK
<1>9. CASE /\ db' = [db EXCEPT ![w] = room] /\ wrdb' = w /\ size' = Base(ins.len)
           /\ UNCHANGED hist /\ Noted("put")
  BY <1>2, <1>3, <1>4, <1>9 DEF Noted, Types, TypeOK
<1>10. CASE /\ db' = [db EXCEPT ![w] = [room EXCEPT ![ins.k] = Len(hist) + 1]]
            /\ wrdb' = w /\ size' = Wrap(Base(ins.len) + ins.len)
            /\ hist' = Append(hist, [k |-> ins.k, len |-> ins.len])
            /\ UNCHANGED trouble
  BY <1>1, <1>2, <1>3, <1>5, <1>6, <1>10 DEF Types, TypeOK
<1> QED
  BY <1>7, <1>8, <1>9, <1>10 DEF spoolbdbv_write2

\* Truncating keeps the types.
LEMMA TruncateTypes ==
  ASSUME Types, NEW status \in Status,
         spoolbdbv_truncate_oldest(status) \/ spoolbdbv_truncate(status)
  PROVE  /\ db' \in [Dbs -> [Keys -> Versions \cup {None}]]
         /\ wrdb' \in Dbs /\ size' \in 0 .. Word - 1
         /\ hist' = hist
         /\ trouble' \subseteq {"put", "truncate", "ENOMEM", "wasted", "cancel"}
<1>1. Empty \in [Keys -> Versions \cup {None}]
  BY DEF Empty
<1>2. CASE spoolbdbv_truncate_oldest(status)
  <2>1. NextDb(wrdb) \in Dbs
    BY SMTT(60), MspoolAssumption DEF Types, TypeOK, NextDb, Dbs
  <2>2. CASE /\ db' = [db EXCEPT ![NextDb(wrdb)] = Empty]
             /\ wrdb' = NextDb(wrdb) /\ size' = 0 /\ UNCHANGED <<hist, trouble>>
    BY SMTT(60), <1>1, <2>1, <2>2, MspoolAssumption DEF Types, TypeOK
  <2>3. CASE UNCHANGED <<db, wrdb, size, hist>> /\ Noted("truncate")
    BY <2>3 DEF Noted, Types, TypeOK
  <2> QED
    BY <1>2, <2>2, <2>3 DEF spoolbdbv_truncate_oldest
<1>3. CASE spoolbdbv_truncate(status)
  <2>1. PICK first \in 1 .. Ndb + 1 :
          /\ UNCHANGED trouble \/ Noted("truncate")
          /\ db' = [d \in Dbs |-> IF d >= first THEN Empty ELSE db[d]]
          /\ wrdb' = IF first > Ndb THEN wrdb ELSE first
          /\ size' = IF first > Ndb THEN size ELSE 0
    BY <1>3 DEF spoolbdbv_truncate
  <2>2. hist' = hist
    BY <1>3 DEF spoolbdbv_truncate
  <2>3. wrdb' \in Dbs /\ size' \in 0 .. Word - 1
    BY SMTT(60), <2>1, MspoolAssumption DEF Types, TypeOK, Dbs
  <2> QED
    BY ZenonT(60), <1>1, <2>1, <2>2, <2>3 DEF Noted, Types, TypeOK
<1> QED
  BY <1>2, <1>3

\* An insertion leaves the slots alone and keeps the types.
LEMMA InsertTypes ==
  ASSUME Types, nbsp_mspoolbdb_insert
  PROVE  Types' /\ UNCHANGED slotVars
<1>1. CASE Insert
  <2>1. PICK a \in Arrivals : ins' = [st |-> "insert", k |-> a.k, len |-> a.len]
    BY <1>1 DEF Insert
  <2>2. a = [k |-> a.k, len |-> a.len] /\ a.k \in Keys /\ a.len \in 1 .. Word - 1
    BY MspoolAssumption
  <2>3. /\ work' \in 0 .. MaxWork /\ UNCHANGED <<ringVars, slotVars, trouble>>
    BY SMTT(60), <1>1, MspoolAssumption DEF Insert, MoreWork, Types, TypeOK
  <2> QED
    BY SMTT(60), <2>1, <2>2, <2>3, MspoolAssumption
    DEF Types, TypeOK, InsOK, WaitOK, OpenOK, ringVars, slotVars
<1>2. ASSUME NEW st \in {"oldest", "again", "all", "last"}, ins.st # "idle",
             Then(st) \/ ins' = NoInsert
      PROVE  InsOK' /\ ins' \in [st : {"idle", "insert", "oldest", "again", "all", "last"},
                                 k : Keys \cup {None}, len : 0 .. Word - 1]
  <2>1. CASE ins' = NoInsert
    BY SMTT(60), <2>1, MspoolAssumption DEF NoInsert, InsOK, None
  <2>2. CASE ins' = [ins EXCEPT !.st = st]
    <3>1. ins'.k = ins.k /\ ins'.len = ins.len
      BY <2>2 DEF Types, TypeOK
    <3> QED
      BY <1>2, <2>2, <3>1 DEF InsOK, Types, TypeOK
  <2> QED
    BY <1>2, <2>1, <2>2 DEF Then
<1>3. CASE mspoolbdb_insert
  <2>1. PICK status \in Status : 
          /\ spoolbdbv_write2(status)
          /\ ins' = NoInsert \/ Then("oldest") \/ Then("all")
    BY <1>3 DEF mspoolbdb_insert
  <2>2. ins.st # "idle" /\ UNCHANGED <<slotVars, work>>
    BY <1>3 DEF mspoolbdb_insert
  <2> QED
    BY <1>2, <2>1, <2>2, WriteTypes DEF Types, TypeOK, WaitOK, OpenOK, slotVars
<1>4. CASE mspoolbdb_truncate_oldest
  <2>1. PICK status \in Status : 
          /\ spoolbdbv_truncate_oldest(status)
          /\ ins' = NoInsert \/ Then("again") \/ Then("all")
    BY <1>4 DEF mspoolbdb_truncate_oldest, Status
  <2>2. ins.st # "idle" /\ UNCHANGED <<slotVars, work>>
    BY <1>4 DEF mspoolbdb_truncate_oldest
  <2> QED
    BY <1>2, <2>1, <2>2, TruncateTypes DEF Types, TypeOK, WaitOK, OpenOK, slotVars
<1>5. CASE mspoolbdb_truncate
  <2>1. PICK status \in Status : 
          /\ spoolbdbv_truncate(status)
          /\ ins' = NoInsert \/ Then("last")
    BY <1>5 DEF mspoolbdb_truncate
  <2>2. ins.st # "idle" /\ UNCHANGED <<slotVars, work>>
    BY <1>5 DEF mspoolbdb_truncate
  <2> QED
    BY <1>2, <2>1, <2>2, TruncateTypes DEF Types, TypeOK, WaitOK, OpenOK, slotVars
<1> QED
  BY <1>1, <1>3, <1>4, <1>5 DEF nbsp_mspoolbdb_insert

-----------------------------------------------------------------------------
(***************************************************************************)
(* The slots.                                                              *)
(***************************************************************************)
\* The slot of a thread is one of those taken.
LEMMA OwnTaken ==
  ASSUME SlotInv, NEW t \in Threads, th[t].st = "open"
  PROVE  /\ th[t].sd \in SlotIds /\ th[t].sd \in Taken
         /\ slot[th[t].sd].status = 1
         /\ slot[th[t].sd].v = th[t].v /\ slot[th[t].sd].nread = th[t].nread
<1>1. th[t].sd \in SlotIds
  BY DEF SlotInv, Types, OpenOK
<1>2. slot[th[t].sd] = [status |-> 1, v |-> th[t].v, nread |-> th[t].nread]
  BY DEF SlotInv, Owned
<1>3. slot[th[t].sd].status = 1
  BY SMTT(60), <1>2
<1> QED
  BY SMTT(60), <1>1, <1>2, <1>3 DEF Taken

\* Filling an empty slot adds it to the slots taken, for the thread alone.
LEMMA FillSlot ==
  ASSUME SlotInv, NEW t \in Threads, NEW k \in Keys, NEW i \in EmptySlots,
         th[t].st # "open", spoolbdbv_read(k) # None, Fill(t, k, i),
         UNCHANGED <<ringVars, ins, mutex, trouble>>, work' \in 0 .. MaxWork
  PROVE  SlotInv' /\ numslots' = numslots + 1
<1> DEFINE v == spoolbdbv_read(k)
<1>1. v \in Versions
  BY ReadType DEF SlotInv, Types
<1>2. i \in SlotIds /\ i \notin Taken /\ numslots \in 0 .. Slots
  BY SMTT(60) DEF EmptySlots, Taken, SlotInv, Types, TypeOK
<1>3. /\ slot' = [slot EXCEPT ![i] = [status |-> 1, v |-> v, nread |-> 0]]
      /\ numslots' = numslots + 1
      /\ th' = [th EXCEPT ![t] = [th[t] EXCEPT !.st = "open", !.k = k, !.sd = i,
                                               !.v = v, !.nread = 0]]
  BY DEF Fill
<1> DEFINE new == [th[t] EXCEPT !.st = "open", !.k = k, !.sd = i, !.v = v,
                                !.nread = 0]
<1>4. /\ new \in Reader /\ new.st = "open" /\ new.sd = i /\ new.v = v
      /\ new.nread = 0
  BY ZenonT(60), <1>1, <1>2 DEF SlotInv, Types, TypeOK, Reader
<1>5. th'[t] = new /\ \A u \in Threads \ {t} : th'[u] = th[u]
  BY <1>3 DEF SlotInv, Types, TypeOK
<1>6. /\ slot'[i] = [status |-> 1, v |-> v, nread |-> 0]
      /\ \A j \in SlotIds \ {i} : slot'[j] = slot[j]
  BY <1>2, <1>3 DEF SlotInv, Types, TypeOK
<1> HIDE DEF new
<1>7. Taken' = Taken \cup {i}
  BY SMTT(60), <1>2, <1>6 DEF Taken
<1>8. numslots < Slots /\ IsFiniteSet(Taken) /\ numslots = Cardinality(Taken)
  BY TakenBound DEF SlotInv, Types, Counted
<1>9. Counted'
  BY ZenonT(60), <1>2, <1>3, <1>7, <1>8, FS_AddElement DEF Counted
<1>10. TypeOK'
  <2>1. slot' \in [SlotIds -> [status : {0, 1}, v : Versions \cup {None}, nread : Nat]]
    BY <1>1, <1>2, <1>3 DEF SlotInv, Types, TypeOK
  <2>2. numslots' \in 0 .. Slots
    BY SMTT(60), <1>2, <1>3, <1>8, MspoolAssumption
  <2>3. th' \in [Threads -> Reader]
    BY <1>3, <1>4 DEF new, SlotInv, Types, TypeOK
  <2> QED
    BY <2>1, <2>2, <2>3 DEF SlotInv, Types, TypeOK, ringVars
<1>11. InsOK' /\ WaitOK' /\ OpenOK'
  BY <1>2, <1>4, <1>5 DEF SlotInv, Types, InsOK, WaitOK, OpenOK
<1>12. Owned'
  <2>1. \A u \in Threads \ {t} : th[u].st = "open" => th[u].sd \in SlotIds \ {i}
    BY <1>2, OwnTaken
  <2>2. slot'[th'[t].sd] = [status |-> 1, v |-> th'[t].v, nread |-> th'[t].nread]
    BY <1>4, <1>5, <1>6
  <2>3. ASSUME NEW u \in Threads \ {t}, th'[u].st = "open"
        PROVE  slot'[th'[u].sd] = [status |-> 1, v |-> th'[u].v, nread |-> th'[u].nread]
    BY SMTT(60), <1>5, <1>6, <2>1, <2>3 DEF SlotInv, Owned
  <2>4. ASSUME NEW u \in Threads, th'[u].st = "open",
               NEW x \in Threads \ {u}, th'[x].st = "open"
        PROVE  th'[x].sd # th'[u].sd
    <3>1. CASE u = t
      BY <1>4, <1>5, <2>1, <2>4, <3>1
    <3>2. CASE x = t
      BY <1>4, <1>5, <2>1, <2>4, <3>2
    <3>3. CASE u # t /\ x # t
      BY ZenonT(60), <1>5, <2>4, <3>3 DEF SlotInv, Owned
    <3> QED
      BY <3>1, <3>2, <3>3
  <2> QED
    BY <2>2, <2>3, <2>4 DEF Owned
<1> QED
  BY <1>3, <1>9, <1>10, <1>11, <1>12 DEF SlotInv, Types

\* A change of threads that do not have a slot, before it or after it, leaves
\* the slots as they are.
LEMMA ThreadsOnly ==
  ASSUME SlotInv, TypeOK', WaitOK', InsOK', UNCHANGED <<slot, numslots>>,
         \A u \in Threads : th'[u].st = "open" => th'[u] = th[u]
  PROVE  SlotInv'
<1>1. Counted'
  BY DEF SlotInv, Counted, Taken
<1>2. OpenOK' /\ Owned'
  BY ZenonT(60) DEF SlotInv, Types, OpenOK, Owned
<1> QED
  BY <1>1, <1>2 DEF SlotInv, Types

\* Closing takes the slot of the thread out of the slots taken.
LEMMA CloseSlot ==
  ASSUME SlotInv, NEW t \in Threads, th[t].st = "open", spoolbuf_slots_close(t)
  PROVE  SlotInv' /\ numslots' = numslots - 1
<1> DEFINE i == th[t].sd
<1>1. /\ i \in SlotIds /\ slot[i].status = 1 /\ i \in Taken /\ numslots \in 0 .. Slots
      /\ \A u \in Threads \ {t} : th[u].st = "open" => th[u].sd \in SlotIds \ {i}
  <2>1. i \in SlotIds /\ slot[i].status = 1 /\ i \in Taken /\ numslots \in 0 .. Slots
    BY OwnTaken DEF SlotInv, Types, TypeOK
  <2>2. ASSUME NEW u \in Threads \ {t}, th[u].st = "open"
        PROVE  th[u].sd \in SlotIds \ {i}
    BY ZenonT(60), <2>2, OwnTaken DEF SlotInv, Owned
  <2> QED
    BY <2>1, <2>2
<1>2. /\ slot' = [slot EXCEPT ![i].status = 0] /\ numslots' = numslots - 1
      /\ UNCHANGED <<ringVars, ins, mutex, trouble, work>>
  BY DEF spoolbuf_slots_close
<1>3. /\ slot'[i].status = 0
      /\ \A j \in SlotIds \ {i} : slot'[j] = slot[j]
  BY <1>1, <1>2 DEF SlotInv, Types, TypeOK
<1>4. Taken' = Taken \ {i}
  BY SMTT(60), <1>3 DEF Taken
<1>5. IsFiniteSet(Taken) /\ numslots = Cardinality(Taken)
  BY TakenBound DEF SlotInv, Types, Counted
<1>6. Cardinality(Taken') = numslots - 1 /\ Cardinality(Taken') \in Nat
  BY ZenonT(60), <1>1, <1>4, <1>5, FS_RemoveElement, FS_CardinalityType
<1>7. Returned \in Reader /\ Returned.st = "idle"
  BY DEF Returned, Reader, None
<1>8. PICK W \in SUBSET (Waiting \ {t}) :
        th' = [u \in Threads |-> IF u = t THEN Returned
                                 ELSE IF u \in W THEN [th[u] EXCEPT !.st = "woken"]
                                 ELSE th[u]]
  <2>1. CASE th' = [th EXCEPT ![t] = Returned]
    <3>1. th' = [x \in Threads |->
                   IF x = t THEN Returned
                   ELSE IF x \in {} THEN [th[x] EXCEPT !.st = "woken"]
                   ELSE th[x]]
      BY ZenonT(60), <2>1 DEF SlotInv, Types, TypeOK
    <3>2. {} \in SUBSET (Waiting \ {t})
      BY ZenonT(60)
    <3> QED
      BY ZenonT(60), <3>1, <3>2
  <2>2. ASSUME NEW u \in Waiting,
               th' = [th EXCEPT ![t] = Returned, ![u].st = "woken"]
        PROVE  \E W \in SUBSET (Waiting \ {t}) :
                 th' = [x \in Threads |->
                          IF x = t THEN Returned
                          ELSE IF x \in W THEN [th[x] EXCEPT !.st = "woken"]
                          ELSE th[x]]
    <3>1. u # t /\ u \in Threads
      BY DEF Waiting
    <3>2. th' = [x \in Threads |->
                   IF x = t THEN Returned
                   ELSE IF x \in {u} THEN [th[x] EXCEPT !.st = "woken"]
                   ELSE th[x]]
      BY ZenonT(60), <2>2, <3>1 DEF SlotInv, Types, TypeOK
    <3> QED
      BY ZenonT(60), <3>1, <3>2
  <2> QED
    BY <2>1, <2>2 DEF spoolbuf_slots_close
<1>9. \A u \in Threads \ {t} :
        /\ th'[u] \in Reader
        /\ th'[u].st = "open" => th'[u] = th[u]
        /\ th'[u].st \in {"waiting", "woken"} => th'[u].k \in Keys
  <2> SUFFICES ASSUME NEW u \in Threads \ {t}
               PROVE  /\ th'[u] \in Reader
                      /\ th'[u].st = "open" => th'[u] = th[u]
                      /\ th'[u].st \in {"waiting", "woken"} => th'[u].k \in Keys
    OBVIOUS
  <2>1. th[u] \in Reader
    BY DEF SlotInv, Types, TypeOK
  <2>2. CASE u \in W
    <3>1. th'[u] = [th[u] EXCEPT !.st = "woken"] /\ th[u].st = "waiting"
      BY <1>8, <2>2 DEF Waiting
    <3> QED
      BY <2>1, <3>1 DEF Reader, SlotInv, Types, WaitOK
  <2>3. CASE u \notin W
    <3>1. th'[u] = th[u]
      BY <1>8, <2>3
    <3> QED
      BY <2>1, <3>1 DEF SlotInv, Types, WaitOK
  <2> QED
    BY <2>2, <2>3
<1>10. TypeOK'
  <2>1. slot' \in [SlotIds -> [status : {0, 1}, v : Versions \cup {None}, nread : Nat]]
    BY ZenonT(60), <1>1, <1>2 DEF SlotInv, Types, TypeOK
  <2>2. numslots' \in 0 .. Slots
    BY SMTT(60), <1>1, <1>2, <1>6, MspoolAssumption
  <2>3. th'[t] \in Reader
    BY <1>7, <1>8
  <2>4. th' \in [Threads -> Reader]
    BY <1>8, <1>9, <2>3
  <2> QED
    BY <1>2, <2>1, <2>2, <2>4 DEF SlotInv, Types, TypeOK, ringVars
<1>11. th'[t].st = "idle"
  BY <1>7, <1>8
<1>12. InsOK' /\ WaitOK' /\ OpenOK'
  BY <1>2, <1>9, <1>11 DEF SlotInv, Types, InsOK, WaitOK, OpenOK
<1>13. Owned'
  BY SMTT(60), <1>1, <1>3, <1>9, <1>11 DEF SlotInv, Owned
<1> QED
  BY <1>2, <1>6, <1>10, <1>12, <1>13 DEF SlotInv, Types, Counted

\* There are finitely many threads to wake.
LEMMA WokenFinite ==
  /\ IsFiniteSet(Woken) /\ Cardinality(Woken) \in Nat
  /\ Cardinality(Woken') \in Nat
<1>1. IsFiniteSet(Threads)
  BY FS_AddElement, MspoolAssumption DEF Threads
<1> QED
  BY <1>1, FS_Subset, FS_CardinalityType DEF Woken

\* The invariant that holds of the slots in every state.
SlotsIInv == SlotInv /\ SlotsReturned /\ NoIdleWaiter

\* Another step of an open: the thread waits, or comes back with nothing.
LEMMA OpenKeeps ==
  ASSUME SlotsIInv, NEW t \in Threads, spoolbuf_slots_open(t)
  PROVE  SlotsIInv'
<1>1. PICK k \in Keys :
        /\ IF numslots = Slots THEN pthread_cond_wait(t, k)
           ELSE spoolbuf_slots_open_unlocked(t, k)
        /\ th[t].st \in {"idle", "woken"}
        /\ work' \in 0 .. MaxWork
  <2>1. CASE /\ th[t].st = "idle" /\ MoreWork
             /\ \E v \in DOMAIN hist :
                  IF numslots = Slots THEN pthread_cond_wait(t, hist[v].k)
                  ELSE spoolbuf_slots_open_unlocked(t, hist[v].k)
    <3>1. PICK v \in DOMAIN hist :
            IF numslots = Slots THEN pthread_cond_wait(t, hist[v].k)
            ELSE spoolbuf_slots_open_unlocked(t, hist[v].k)
      BY <2>1
    <3>2. hist[v] \in Arrivals
      BY SMTT(60) DEF SlotsIInv, SlotInv, Types, TypeOK
    <3>3. hist[v].k \in Keys
      BY <3>2, MspoolAssumption
    <3>4. work' \in 0 .. MaxWork
      BY SMTT(60), <2>1, MspoolAssumption DEF MoreWork, SlotsIInv, SlotInv, Types, TypeOK
    <3> QED
      BY <2>1, <3>1, <3>3, <3>4
  <2>2. CASE /\ th[t].st = "woken" /\ UNCHANGED work
             /\ IF numslots = Slots THEN pthread_cond_wait(t, th[t].k)
                ELSE spoolbuf_slots_open_unlocked(t, th[t].k)
    <3>1. th[t].k \in Keys /\ work' \in 0 .. MaxWork
      BY <2>2 DEF SlotsIInv, SlotInv, Types, WaitOK, TypeOK
    <3> QED
      BY <2>2, <3>1
  <2> QED
    BY <2>1, <2>2 DEF spoolbuf_slots_open
<1>2. /\ UNCHANGED <<ringVars, ins, mutex>>
      /\ th[t] \in Reader /\ numslots \in 0 .. Slots /\ Slots \in Nat
  BY MspoolAssumption DEF spoolbuf_slots_open, SlotsIInv, SlotInv, Types, TypeOK
<1>3. ASSUME NEW r \in Reader, r.st \in {"idle", "waiting"},
             r.st = "waiting" => r.k \in Keys,
             th' = [th EXCEPT ![t] = r], UNCHANGED <<slot, numslots>>,
             trouble' \subseteq {"put", "truncate", "ENOMEM", "wasted", "cancel"},
             "cancel" \notin trouble' => "cancel" \notin trouble
      PROVE  SlotInv' /\ SlotsReturned'
  <2>1. th'[t] = r /\ \A u \in Threads \ {t} : th'[u] = th[u]
    BY <1>3 DEF SlotsIInv, SlotInv, Types, TypeOK
  <2>2. TypeOK'
    BY <1>1, <1>2, <1>3 DEF SlotsIInv, SlotInv, Types, TypeOK, ringVars
  <2>3. WaitOK' /\ InsOK'
    BY <1>2, <1>3, <2>1 DEF SlotsIInv, SlotInv, Types, WaitOK, InsOK
  <2>4. \A u \in Threads : th'[u].st = "open" => th'[u] = th[u]
    BY <1>3, <2>1
  <2>5. SlotInv'
    BY <1>3, <2>2, <2>3, <2>4, ThreadsOnly DEF SlotsIInv
  <2>6. \A u \in Threads : th[u].st = "open" => th'[u] = th[u]
    BY <1>1, <2>1
  <2>7. SlotsReturned'
    BY SMTT(60), <1>2, <1>3, <2>6 DEF SlotsIInv, SlotsReturned
  <2> QED
    BY <2>5, <2>7
<1>4. CASE pthread_cond_wait(t, k) /\ numslots = Slots
  <2> DEFINE r == [th[t] EXCEPT !.st = "waiting", !.k = k]
  <2>1. r \in Reader /\ r.st = "waiting" /\ r.k = k
    BY ZenonT(60), <1>2 DEF Reader
  <2>2. th' = [th EXCEPT ![t] = r] /\ UNCHANGED <<slot, numslots, trouble>>
    BY <1>4 DEF pthread_cond_wait
  <2> HIDE DEF r
  <2>3. SlotInv' /\ SlotsReturned'
    BY ZenonT(60), <1>3, <2>1, <2>2 DEF SlotsIInv, SlotInv, Types, TypeOK
  <2>4. NoIdleWaiter'
    <3>1. Slots - numslots' = 0
      BY SMTT(60), <1>2, <1>4, <2>2
    <3> QED
      BY SMTT(60), <3>1, WokenFinite DEF NoIdleWaiter
  <2> QED
    BY <2>3, <2>4 DEF SlotsIInv
<1>5. CASE /\ EmptySlots # {} /\ spoolbdbv_read(k) # None
           /\ Fill(t, k, Min(EmptySlots)) /\ UNCHANGED trouble
  <2> DEFINE i == Min(EmptySlots)
  <2>1. i \in EmptySlots
    BY <1>5, MinEmpty DEF EmptySlots
  <2>2. SlotInv' /\ numslots' = numslots + 1
    BY <1>1, <1>2, <1>5, <2>1, FillSlot DEF SlotsIInv
  <2>3. /\ slot' = [slot EXCEPT ![i] = [status |-> 1, v |-> spoolbdbv_read(k), nread |-> 0]]
        /\ th' = [th EXCEPT ![t] = [th[t] EXCEPT !.st = "open", !.k = k, !.sd = i,
                                      !.v = spoolbdbv_read(k), !.nread = 0]]
    BY <1>5 DEF Fill
  <2>4. /\ th'[t].st = "open" /\ th'[t].sd = i
        /\ \A u \in Threads \ {t} : th'[u] = th[u]
        /\ \A j \in SlotIds \ {i} : slot'[j] = slot[j]
    BY <1>2, <2>1, <2>3 DEF SlotsIInv, SlotInv, Types, TypeOK, EmptySlots, Reader
  <2>5. SlotsReturned'
    <3>1. th[t].st # "open"
      BY <1>1
    <3> QED
      BY SMTT(60), <1>2, <1>5, <2>4, <3>1 DEF SlotsIInv, SlotsReturned
  <2>6. Waiting' = Waiting /\ Woken' = Woken \ {t}
    BY <1>1, <2>4 DEF Waiting, Woken
  <2>7. Cardinality(Woken') >= Cardinality(Woken) - 1
    <3>1. Cardinality(Woken \ {t}) =
            IF t \in Woken THEN Cardinality(Woken) - 1 ELSE Cardinality(Woken)
      BY ZenonT(60), WokenFinite, FS_RemoveElement
    <3> QED
      BY SMTT(60), <2>6, <3>1, WokenFinite
  <2>8. NoIdleWaiter'
    BY SMTT(60), <1>2, <1>5, <2>2, <2>6, <2>7, WokenFinite DEF SlotsIInv, NoIdleWaiter
  <2> QED
    BY <2>2, <2>5, <2>8 DEF SlotsIInv
<1>6. CASE /\ th' = [th EXCEPT ![t] = Returned] /\ UNCHANGED <<slot, numslots>>
           /\ IF th[t].st = "woken" THEN Noted("wasted") ELSE UNCHANGED trouble
  <2>1. Returned \in Reader /\ Returned.st = "idle"
    BY DEF Returned, Reader, None
  <2>2. trouble' \subseteq {"put", "truncate", "ENOMEM", "wasted", "cancel"}
    BY ZenonT(60), <1>6 DEF Noted, SlotsIInv, SlotInv, Types, TypeOK
  <2>3. SlotInv' /\ SlotsReturned'
    <3>1. "cancel" \notin trouble' => "cancel" \notin trouble
      BY <1>6 DEF Noted
    <3> QED
      BY ZenonT(60), <1>3, <1>6, <2>1, <2>2, <3>1
  <2>4. NoIdleWaiter'
    <3>1. CASE th[t].st = "woken"
      BY <1>6, <3>1 DEF Noted, NoIdleWaiter
    <3>2. CASE th[t].st = "idle"
      <4>1. Waiting' = Waiting /\ Woken' = Woken
        BY <1>6, <2>1, <3>2 DEF Waiting, Woken, SlotsIInv, SlotInv, Types, TypeOK
      <4> QED
        BY <1>6, <3>2, <4>1 DEF SlotsIInv, NoIdleWaiter
    <3> QED
      BY <1>1, <3>1, <3>2
  <2> QED
    BY <2>3, <2>4 DEF SlotsIInv
<1> QED
  BY <1>1, <1>4, <1>5, <1>6 DEF spoolbuf_slots_open_unlocked

\* Closing a slot wakes a thread for it, if one waits.
LEMMA CloseKeeps ==
  ASSUME SlotsIInv, NEW t \in Threads, th[t].st = "open", spoolbuf_slots_close(t)
  PROVE  SlotsIInv'
<1>1. SlotInv' /\ numslots' = numslots - 1
  BY CloseSlot DEF SlotsIInv
<1>2. /\ slot' = [slot EXCEPT ![th[t].sd].status = 0]
      /\ UNCHANGED <<mutex, trouble>>
  BY DEF spoolbuf_slots_close
<1>3. /\ th[t].sd \in SlotIds /\ slot'[th[t].sd].status = 0
      /\ \A j \in SlotIds \ {th[t].sd} : slot'[j] = slot[j]
  BY ZenonT(60), <1>2, OwnTaken DEF SlotsIInv, SlotInv, Types, TypeOK
<1>4. Returned.st = "idle"
  BY DEF Returned
<1>5. th \in [Threads -> Reader] /\ numslots \in Nat /\ Slots \in Nat
  BY SMTT(60), MspoolAssumption DEF SlotsIInv, SlotInv, Types, TypeOK
<1>6. CASE Waiting = {} /\ th' = [th EXCEPT ![t] = Returned]
  <2>1. th'[t].st = "idle" /\ \A u \in Threads \ {t} : th'[u] = th[u]
    BY <1>4, <1>5, <1>6
  <2>2. SlotsReturned'
    BY SMTT(60), <1>2, <1>3, <2>1 DEF SlotsIInv, SlotsReturned
  <2>3. Waiting' = {}
    BY <1>6, <2>1 DEF Waiting
  <2> QED
    BY <1>1, <2>2, <2>3 DEF SlotsIInv, NoIdleWaiter
<1>7. ASSUME NEW u \in Waiting, th' = [th EXCEPT ![t] = Returned, ![u].st = "woken"]
      PROVE  SlotsIInv'
  <2>1. u \in Threads /\ u # t /\ th[u].st = "waiting" /\ th[u] \in Reader
    BY <1>5 DEF Waiting
  <2>2. th'[u] = [th[u] EXCEPT !.st = "woken"]
    BY <1>5, <1>7, <2>1
  <2>3. th'[t].st = "idle" /\ th'[u].st = "woken"
    BY <1>4, <1>5, <1>7, <2>1, <2>2 DEF Reader
  <2>4. \A x \in Threads \ {t, u} : th'[x] = th[x]
    BY <1>5, <1>7
  <2>5. SlotsReturned'
    BY SMTT(60), <1>2, <1>3, <2>1, <2>4 DEF SlotsIInv, SlotsReturned
  <2>6. Woken' = Woken \cup {u} /\ u \notin Woken /\ Waiting # {}
    BY <2>1, <2>3, <2>4 DEF Woken, Waiting
  <2>7. Cardinality(Woken') = Cardinality(Woken) + 1
    BY ZenonT(60), <2>6, WokenFinite, FS_AddElement
  <2>8. NoIdleWaiter'
    BY SMTT(60), <1>1, <1>2, <1>5, <2>6, <2>7, WokenFinite DEF SlotsIInv, NoIdleWaiter
  <2> QED
    BY <1>1, <2>5, <2>8 DEF SlotsIInv
<1> QED
  BY <1>6, <1>7 DEF spoolbuf_slots_close

\* The steps of a thread that neither opens nor closes a slot.
LEMMA OthersKeep ==
  ASSUME SlotsIInv, NEW t \in Threads,
         build_nbs_packet(t) \/ Spurious(t) \/ pthread_cancel(t)
  PROVE  SlotsIInv'
<1>1. /\ th \in [Threads -> Reader] /\ th[t] \in Reader
      /\ slot \in [SlotIds -> [status : {0, 1}, v : Versions \cup {None}, nread : Nat]]
      /\ numslots \in Nat /\ Slots \in Nat
  BY SMTT(60), MspoolAssumption DEF SlotsIInv, SlotInv, Types, TypeOK
<1>2. CASE build_nbs_packet(t)
  <2> DEFINE i == th[t].sd
  <2>1. /\ th[t].st = "open" /\ slot' = [slot EXCEPT ![i].nread = slot[i].nread + 1]
        /\ th' = [th EXCEPT ![t].nread = th[t].nread + 1]
        /\ UNCHANGED <<ringVars, ins, numslots, mutex, trouble, work>>
    BY <1>2 DEF build_nbs_packet
  <2>2. /\ i \in SlotIds /\ slot[i].status = 1 /\ slot[i].v = th[t].v
        /\ slot[i].nread = th[t].nread /\ th[t].nread \in Nat
    BY <1>1, <2>1, OwnTaken DEF SlotsIInv, Reader
  <2>3. /\ th'[t] = [th[t] EXCEPT !.nread = th[t].nread + 1]
        /\ \A u \in Threads \ {t} : th'[u] = th[u]
    BY <1>1, <2>1
  <2>4. /\ th'[t] \in Reader /\ th'[t].st = "open" /\ th'[t].sd = i
        /\ th'[t].v = th[t].v /\ th'[t].nread = th[t].nread + 1
    BY SMTT(60), <1>1, <2>1, <2>2, <2>3 DEF Reader
  <2>5. /\ slot'[i] = [slot[i] EXCEPT !.nread = slot[i].nread + 1]
        /\ \A j \in SlotIds \ {i} : slot'[j] = slot[j]
    BY <1>1, <2>1, <2>2
  <2>6. slot'[i] = [status |-> 1, v |-> th'[t].v, nread |-> th'[t].nread]
    BY SMTT(60), <1>1, <2>2, <2>4, <2>5
  <2>7. TypeOK'
    <3>1. th' \in [Threads -> Reader]
      BY <1>1, <2>1, <2>3, <2>4
    <3>2. slot' \in [SlotIds -> [status : {0, 1}, v : Versions \cup {None}, nread : Nat]]
      BY SMTT(60), <1>1, <2>1, <2>2
    <3> QED
      BY <2>1, <3>1, <3>2 DEF SlotsIInv, SlotInv, Types, TypeOK, ringVars
  <2>8. \A j \in SlotIds : slot'[j].status = slot[j].status
    BY <2>2, <2>5, <2>6
  <2>9. Counted' /\ InsOK' /\ WaitOK' /\ OpenOK'
    <3>1. Taken' = Taken
      BY <2>8 DEF Taken
    <3> QED
      BY <2>1, <2>2, <2>3, <2>4, <3>1
      DEF SlotsIInv, SlotInv, Types, Counted, InsOK, WaitOK, OpenOK
  <2>10. \A u \in Threads \ {t} : th[u].st = "open" => th[u].sd \in SlotIds \ {i}
    BY ZenonT(60), <2>1, OwnTaken DEF SlotsIInv, SlotInv, Owned
  <2>11. \A u \in Threads : th'[u].st = th[u].st /\ th'[u].sd = th[u].sd
    BY <2>1, <2>3, <2>4
  <2>12. Owned'
    <3>1. ASSUME NEW u \in Threads \ {t}, th'[u].st = "open"
          PROVE  slot'[th'[u].sd] =
                   [status |-> 1, v |-> th'[u].v, nread |-> th'[u].nread]
      BY SMTT(60), <2>3, <2>5, <2>10, <3>1 DEF SlotsIInv, SlotInv, Owned
    <3>2. slot'[th'[t].sd] = [status |-> 1, v |-> th'[t].v, nread |-> th'[t].nread]
      BY <2>4, <2>6
    <3>3. ASSUME NEW u \in Threads, th'[u].st = "open",
                 NEW x \in Threads \ {u}, th'[x].st = "open"
          PROVE  th'[x].sd # th'[u].sd
      <4>1. th[u].st = "open" /\ th[x].st = "open" /\ x \in Threads
        BY <2>11, <3>3
      <4>2. th[x].sd # th[u].sd
        BY ZenonT(60), <4>1, <3>3 DEF SlotsIInv, SlotInv, Owned
      <4> QED
        BY <2>11, <4>1, <4>2
    <3> QED
      BY <3>1, <3>2, <3>3 DEF Owned
  <2>13. SlotsReturned' /\ NoIdleWaiter'
    <3>1. Waiting' = Waiting /\ Woken' = Woken
      BY <2>11 DEF Waiting, Woken
    <3> QED
      BY SMTT(60), <2>1, <2>8, <2>11, <3>1 DEF SlotsIInv, SlotsReturned, NoIdleWaiter
  <2> QED
    BY <2>7, <2>9, <2>12, <2>13 DEF SlotsIInv, SlotInv, Types
<1>3. CASE Spurious(t)
  <2>1. /\ th[t].st = "waiting" /\ th' = [th EXCEPT ![t].st = "woken"]
        /\ UNCHANGED <<ringVars, ins, slot, numslots, mutex, trouble, work>>
    BY <1>3 DEF Spurious
  <2>2. /\ th'[t] = [th[t] EXCEPT !.st = "woken"]
        /\ \A u \in Threads \ {t} : th'[u] = th[u]
    BY <1>1, <2>1
  <2>3. th'[t] \in Reader /\ th'[t].st = "woken" /\ th'[t].k = th[t].k
    BY <1>1, <2>2 DEF Reader
  <2>4. TypeOK' /\ WaitOK' /\ InsOK'
    <3>1. th' \in [Threads -> Reader]
      BY <1>1, <2>1, <2>2, <2>3
    <3> QED
      BY <2>1, <2>2, <2>3, <3>1
      DEF SlotsIInv, SlotInv, Types, TypeOK, WaitOK, InsOK, ringVars
  <2>5. SlotInv'
    BY <2>1, <2>2, <2>3, <2>4, ThreadsOnly DEF SlotsIInv
  <2>6. SlotsReturned'
    BY SMTT(60), <2>1, <2>2, <2>3 DEF SlotsIInv, SlotsReturned
  <2>7. Woken' = Woken \cup {t} /\ t \notin Woken /\ Waiting # {}
    BY ZenonT(60), <2>1, <2>2, <2>3 DEF Woken, Waiting
  <2>8. Cardinality(Woken') = Cardinality(Woken) + 1
    BY <2>7, WokenFinite, FS_AddElement
  <2>9. NoIdleWaiter'
    BY SMTT(60), <1>1, <2>1, <2>7, <2>8, WokenFinite DEF SlotsIInv, NoIdleWaiter
  <2> QED
    BY <2>5, <2>6, <2>9 DEF SlotsIInv
<1>4. CASE pthread_cancel(t)
  <2>1. /\ th' = [th EXCEPT ![t].st = "gone"] /\ trouble' = trouble \cup {"cancel"}
        /\ mutex' \in {0, 1} /\ UNCHANGED <<ringVars, ins, slot, numslots, work>>
    BY <1>4 DEF pthread_cancel, Noted, SlotsIInv, SlotInv, Types, TypeOK
  <2>2. /\ th'[t] = [th[t] EXCEPT !.st = "gone"]
        /\ \A u \in Threads \ {t} : th'[u] = th[u]
    BY <1>1, <2>1
  <2>3. th'[t] \in Reader /\ th'[t].st = "gone"
    BY <1>1, <2>2 DEF Reader
  <2>4. TypeOK' /\ WaitOK' /\ InsOK'
    <3>1. th' \in [Threads -> Reader]
      BY <1>1, <2>1, <2>2, <2>3
    <3> QED
      BY <2>1, <2>2, <2>3, <3>1
      DEF SlotsIInv, SlotInv, Types, TypeOK, WaitOK, InsOK, ringVars
  <2>5. SlotInv'
    BY <2>1, <2>2, <2>3, <2>4, ThreadsOnly DEF SlotsIInv
  <2> QED
    BY <2>1, <2>5 DEF SlotsIInv, SlotsReturned, NoIdleWaiter
<1> QED
  BY <1>2, <1>3, <1>4

\* The invariant holds at first.
LEMMA SlotsInit == Init => SlotsIInv
<1> SUFFICES ASSUME Init PROVE SlotsIInv
  OBVIOUS
<1>1. TypeOK
  <2>1. Returned \in Reader
    BY DEF Returned, Reader, None
  <2>2. /\ db \in [Dbs -> [Keys -> Versions \cup {None}]] /\ wrdb \in Dbs
        /\ size \in 0 .. Word - 1
    BY SMTT(60), MspoolAssumption DEF Init, Empty, Dbs
  <2>3. ins \in [st : {"idle", "insert", "oldest", "again", "all", "last"},
                 k : Keys \cup {None}, len : 0 .. Word - 1]
    BY SMTT(60), MspoolAssumption DEF Init, NoInsert, None
  <2>4. slot \in [SlotIds -> [status : {0, 1}, v : Versions \cup {None}, nread : Nat]]
    BY DEF Init
  <2>5. numslots \in 0 .. Slots /\ mutex \in {0, 1} /\ work \in 0 .. MaxWork
    BY SMTT(60), MspoolAssumption DEF Init
  <2>6. th \in [Threads -> Reader] /\ hist \in Seq(Arrivals) /\ trouble = {}
    BY SMTT(60), <2>1 DEF Init
  <2> QED
    BY <2>2, <2>3, <2>4, <2>5, <2>6 DEF TypeOK
<1>2. \A t \in Threads : th[t].st = "idle"
  BY DEF Init, Returned
<1>3. Taken = {} /\ mutex = 0 /\ numslots = 0
  BY SMTT(60) DEF Taken, Init
<1>4. Counted
  BY <1>3, FS_EmptySet DEF Counted
<1>5. InsOK /\ WaitOK /\ OpenOK /\ Owned /\ NoIdleWaiter
  BY <1>2 DEF Init, NoInsert, InsOK, WaitOK, OpenOK, Owned, NoIdleWaiter, Waiting
<1>6. SlotsReturned
  BY <1>3 DEF SlotsReturned, Taken
<1> QED
  BY <1>1, <1>4, <1>5, <1>6 DEF SlotsIInv, SlotInv, Types

\* Every step keeps the invariant.
LEMMA SlotsNext == SlotsIInv /\ [Next]_vars => SlotsIInv'
<1> SUFFICES ASSUME SlotsIInv, [Next]_vars PROVE SlotsIInv'
  OBVIOUS
<1>1. CASE nbsp_mspoolbdb_insert
  <2>1. Types' /\ UNCHANGED <<slot, numslots, mutex, th>>
    BY <1>1, InsertTypes DEF SlotsIInv, SlotInv, slotVars
  <2>2. trouble \subseteq trouble'
    BY <1>1 DEF nbsp_mspoolbdb_insert, Insert, mspoolbdb_insert, mspoolbdb_truncate_oldest,
       mspoolbdb_truncate, spoolbdbv_write2, spoolbdbv_truncate_oldest,
       spoolbdbv_truncate, Noted
  <2>3. Counted' /\ Owned'
    BY <2>1 DEF SlotsIInv, SlotInv, Counted, Taken, Owned
  <2>4. SlotsReturned'
    BY <2>1, <2>2 DEF SlotsIInv, SlotsReturned
  <2>5. NoIdleWaiter'
    BY <2>1, <2>2 DEF SlotsIInv, NoIdleWaiter, Waiting, Woken
  <2> QED
    BY <2>1, <2>3, <2>4, <2>5 DEF SlotsIInv, SlotInv
<1>2. ASSUME NEW t \in Threads, Progress(t) PROVE SlotsIInv'
  <2>1. CASE spoolbuf_slots_open(t)
    BY <2>1, OpenKeeps
  <2>2. CASE build_nbs_packet(t)
    BY <2>2, OthersKeep
  <2>3. CASE free_nbs_packet_st(t) \/ WriteFails(t)
    BY <2>3, CloseKeeps DEF free_nbs_packet_st, WriteFails
  <2>4. CASE t = FilterThread /\ nbsp_mspoolbdb_fpathsize
    BY <2>4, CloseKeeps DEF nbsp_mspoolbdb_fpathsize
  <2> QED
    BY <1>2, <2>1, <2>2, <2>3, <2>4 DEF Progress
<1>3. ASSUME NEW t \in Threads, Spurious(t) \/ pthread_cancel(t) PROVE SlotsIInv'
  BY <1>3, OthersKeep
<1>4. CASE UNCHANGED vars
  <2>1. UNCHANGED <<Taken, Waiting, Woken>>
    BY <1>4 DEF vars, slotVars, Taken, Waiting, Woken
  <2>2. TypeOK' /\ InsOK' /\ WaitOK' /\ OpenOK'
    BY <1>4 DEF vars, slotVars, ringVars, SlotsIInv, SlotInv, Types, TypeOK, InsOK,
       WaitOK, OpenOK
  <2>3. Counted' /\ Owned' /\ SlotsReturned' /\ NoIdleWaiter'
    BY <1>4, <2>1 DEF vars, slotVars, SlotsIInv, SlotInv, Counted, Owned, SlotsReturned,
       NoIdleWaiter
  <2> QED
    BY <2>2, <2>3 DEF SlotsIInv, SlotInv, Types
<1> QED
  BY <1>1, <1>2, <1>3, <1>4 DEF Next

\* The invariant gives the property of the readers.
LEMMA SlotsImply == SlotsIInv => TypeOK /\ SlotOwned
<1> SUFFICES ASSUME SlotsIInv PROVE TypeOK /\ SlotOwned
  OBVIOUS
<1>1. numslots < Slots => EmptySlots # {}
  BY TakenBound DEF SlotsIInv, SlotInv, Types
<1> QED
  BY <1>1 DEF SlotsIInv, SlotInv, Types, Owned, SlotOwned

(***************************************************************************)
(* The variables keep their types.                                         *)
(***************************************************************************)
THEOREM TypeCorrect == Spec => []TypeOK
BY SlotsInit, SlotsNext, SlotsImply, PTL DEF Spec

(***************************************************************************)
(* A thread reads from its slot the product it opened and nothing else,    *)
(* and an open that gets past its wait finds an empty slot, for any number *)
(* of threads, slots and databases: spoolbuf_slots_open() and _close().    *)
(***************************************************************************)
THEOREM SlotsExclusive == Spec => []SlotOwned
BY SlotsInit, SlotsNext, SlotsImply, PTL DEF Spec

(***************************************************************************)
(* No slot and no mutex is kept by a thread that will not give it back,    *)
(* unless a client thread was canceled with it: each open of               *)
(* init_nbs_packet_st() and nbsp_mspoolbdb_fpathsize() has its close.      *)
(***************************************************************************)
THEOREM SlotsComeBack == Spec => []SlotsReturned
<1>1. SlotsIInv => SlotsReturned
  BY DEF SlotsIInv
<1> QED
  BY <1>1, SlotsInit, SlotsNext, PTL DEF Spec

(***************************************************************************)
(* The signal of spoolbuf_slots_close() loses no waiting thread, unless a  *)
(* woken thread finds nothing to read or is canceled.                      *)
(***************************************************************************)
THEOREM WakeupsSuffice == Spec => []NoIdleWaiter
<1>1. SlotsIInv => NoIdleWaiter
  BY DEF SlotsIInv
<1> QED
  BY <1>1, SlotsInit, SlotsNext, PTL DEF Spec

-----------------------------------------------------------------------------
(***************************************************************************)
(* The ring: as long as no truncation fails, the databases are searched    *)
(* from the newest data to the oldest.                                     *)
(***************************************************************************)
Held(d, k) == db[d][k] # None

InOrder ==
  \A d, e \in Dbs, k, j \in Keys :
    Held(d, k) /\ Held(e, j) /\ Behind(d) < Behind(e) => db[d][k] > db[e][j]

RingIInv ==
  /\ \A d \in Dbs, k \in Keys : db[d][k] <= Len(hist)
  /\ "truncate" \notin trouble => InOrder

\* Advancing to the next database moves every other one a place back.
LEMMA BehindNext ==
  ASSUME wrdb \in Dbs, wrdb' = NextDb(wrdb)
  PROVE  /\ wrdb' \in Dbs /\ Behind(wrdb') < Ndb
         /\ \A d \in Dbs : Behind(d)' = IF d = wrdb' THEN 0 ELSE Behind(d) + 1
BY SMTT(60), MspoolAssumption DEF NextDb, Behind, Dbs

\* A database that is emptied as the ring advances to it keeps the order.
LEMMA AdvanceOrder ==
  ASSUME Types, RingIInv, wrdb' = NextDb(wrdb),
         db' = [db EXCEPT ![wrdb'] = Empty], InOrder
  PROVE  InOrder'
<1>1. wrdb \in Dbs /\ db \in [Dbs -> [Keys -> Versions \cup {None}]]
  BY DEF Types, TypeOK
<1>2. \A k \in Keys : db'[wrdb'][k] = None
  BY <1>1, BehindNext DEF Empty
<1>3. \A d \in Dbs : d # wrdb' => db'[d] = db[d] /\ Behind(d)' = Behind(d) + 1
  BY <1>1, BehindNext
<1>4. \A d \in Dbs : Behind(d) \in Nat
  BY SMTT(60), <1>1, BehindNat
<1>5. SUFFICES ASSUME NEW d \in Dbs, NEW e \in Dbs, NEW i \in Keys, NEW j \in Keys,
                      db'[d][i] # None, db'[e][j] # None, Behind(d)' < Behind(e)'
               PROVE  db'[d][i] > db'[e][j]
  BY DEF InOrder, Held
<1>6. d # wrdb' /\ e # wrdb'
  BY <1>2, <1>5
<1> QED
  BY SMTT(60), <1>3, <1>4, <1>5, <1>6 DEF InOrder, Held

\* Data put in the current database are the newest.
LEMMA PutOrder ==
  ASSUME Types, RingIInv, NEW k \in Keys, UNCHANGED wrdb, InOrder,
         db' = [db EXCEPT ![wrdb] = [db[wrdb] EXCEPT ![k] = Len(hist) + 1]]
  PROVE  InOrder'
<1>1. /\ wrdb \in Dbs /\ db \in [Dbs -> [Keys -> Versions \cup {None}]]
      /\ Len(hist) \in Nat
  BY SMTT(60) DEF Types, TypeOK
<1>2. \A d \in Dbs : Behind(d)' = Behind(d) /\ Behind(d) \in Nat
  BY SMTT(60), <1>1, BehindNat DEF Behind
<1>3. Behind(wrdb) = 0
  BY SMTT(60), <1>1, MspoolAssumption DEF Behind, Dbs
<1>4. SUFFICES ASSUME NEW d \in Dbs, NEW e \in Dbs, NEW i \in Keys, NEW j \in Keys,
                      Held(d, i)', Held(e, j)', Behind(d) < Behind(e)
               PROVE  db'[d][i] > db'[e][j]
  BY <1>2 DEF InOrder
<1>5. e # wrdb /\ db'[e] = db[e]
  BY SMTT(60), <1>1, <1>2, <1>3, <1>4
<1>6. db[e][j] \in Nat /\ db[e][j] <= Len(hist) /\ Held(e, j)
  BY <1>1, <1>4, <1>5 DEF RingIInv, Held, Versions, None
<1>7. CASE d = wrdb /\ i = k
  <2>1. db'[d][i] = Len(hist) + 1
    BY <1>1, <1>7
  <2> QED
    BY SMTT(60), <1>1, <1>5, <1>6, <2>1
<1>8. CASE ~(d = wrdb /\ i = k)
  <2>1. db'[d][i] = db[d][i]
    BY <1>1, <1>8
  <2> QED
    BY <1>4, <1>5, <1>6, <2>1 DEF InOrder, Held
<1> QED
  BY <1>7, <1>8

\* The first data put in a database that was emptied are the newest.
LEMMA PutAdvance ==
  ASSUME Types, RingIInv, NEW k \in Keys, wrdb' = NextDb(wrdb), InOrder,
         db' = [db EXCEPT ![wrdb'] = [Empty EXCEPT ![k] = Len(hist) + 1]]
  PROVE  InOrder'
<1>1. /\ wrdb \in Dbs /\ db \in [Dbs -> [Keys -> Versions \cup {None}]]
      /\ Len(hist) \in Nat
  BY SMTT(60) DEF Types, TypeOK
<1>2. /\ wrdb' \in Dbs
      /\ \A d \in Dbs : Behind(d)' = IF d = wrdb' THEN 0 ELSE Behind(d) + 1
  BY <1>1, BehindNext
<1>3. /\ \A d \in Dbs : d # wrdb' => db'[d] = db[d] /\ Behind(d) \in Nat
      /\ \A j \in Keys : db'[wrdb'][j] = IF j = k THEN Len(hist) + 1 ELSE None
  BY SMTT(60), <1>1, <1>2, BehindNat DEF Empty
<1>4. SUFFICES ASSUME NEW d \in Dbs, NEW e \in Dbs, NEW i \in Keys, NEW j \in Keys,
                      db'[d][i] # None, db'[e][j] # None, Behind(d)' < Behind(e)'
               PROVE  db'[d][i] > db'[e][j]
  BY DEF InOrder, Held
<1>5. e # wrdb' /\ db'[e][j] = db[e][j]
  <2>1. Behind(d)' \in Nat
    BY SMTT(60), <1>2, <1>3
  <2> QED
    BY SMTT(60), <1>2, <1>3, <1>4, <2>1
<1>6. db[e][j] \in Nat /\ db[e][j] <= Len(hist)
  BY SMTT(60), <1>1 DEF RingIInv, Versions, None
<1>7. CASE d = wrdb'
  BY SMTT(60), <1>1, <1>3, <1>4, <1>5, <1>6, <1>7
<1>8. CASE d # wrdb'
  BY SMTT(60), <1>2, <1>3, <1>4, <1>5, <1>8 DEF InOrder, Held
<1> QED
  BY <1>7, <1>8

\* spoolbdbv_write2() keeps the order.
LEMMA WriteOrder ==
  ASSUME Types, RingIInv, ins.st # "idle", NEW status \in Status,
         spoolbdbv_write2(status)
  PROVE  RingIInv'
<1> DEFINE w == IF Fits(ins.len) THEN wrdb ELSE NextDb(wrdb)
           room == IF Fits(ins.len) THEN db[w] ELSE Empty
           held == [db EXCEPT ![w] = room]
<1>1. /\ ins.k \in Keys /\ wrdb \in Dbs /\ Len(hist) \in Nat /\ hist \in Seq(Arrivals)
      /\ [k |-> ins.k, len |-> ins.len] \in Arrivals
      /\ db \in [Dbs -> [Keys -> Versions \cup {None}]]
  BY SMTT(60), MspoolAssumption DEF Types, TypeOK, InsOK
<1>2. w \in Dbs
  BY SMTT(60), <1>1, MspoolAssumption DEF NextDb, Dbs
<1>3. /\ held \in [Dbs -> [Keys -> Versions \cup {None}]] /\ held[w] = room
      /\ \A d \in Dbs \ {w} : held[d] = db[d]
      /\ \A d \in Dbs, k \in Keys : held[d][k] <= Len(hist)
  BY SMTT(60), <1>1, <1>2 DEF RingIInv, Empty, None
<1>4. CASE UNCHANGED ringVars /\ Noted("ENOMEM")
  BY <1>4 DEF ringVars, Noted, RingIInv, InOrder, Held, Behind
<1>5. CASE UNCHANGED <<db, size, hist>> /\ Noted("truncate")
  BY ZenonT(60), <1>5 DEF Noted, RingIInv
<1>6. CASE db' = held /\ wrdb' = w /\ UNCHANGED hist /\ Noted("put")
  <2>1. InOrder => InOrder'
    <3>1. CASE Fits(ins.len)
      <4>1. db' = db /\ wrdb' = wrdb
        BY <1>1, <1>6, <3>1
      <4> QED
        BY <4>1 DEF InOrder, Held, Behind
    <3>2. CASE ~Fits(ins.len)
      BY <1>6, <3>2, AdvanceOrder
    <3> QED
      BY <3>1, <3>2
  <2> QED
    BY <1>3, <1>6, <2>1 DEF Noted, RingIInv
<1>7. CASE /\ db' = [db EXCEPT ![w] = [room EXCEPT ![ins.k] = Len(hist) + 1]]
           /\ wrdb' = w /\ UNCHANGED trouble
           /\ hist' = Append(hist, [k |-> ins.k, len |-> ins.len])
  <2>1. Len(hist') = Len(hist) + 1
    BY SMTT(60), <1>1, <1>7
  <2>2. \A d \in Dbs, k \in Keys : db'[d][k] <= Len(hist')
    <3>1. \A d \in Dbs, k \in Keys :
            db'[d][k] = IF d = w /\ k = ins.k THEN Len(hist) + 1 ELSE held[d][k]
      BY <1>1, <1>2, <1>3, <1>7
    <3>2. \A d \in Dbs, k \in Keys : held[d][k] \in Nat
      BY SMTT(60), <1>3 DEF Versions, None
    <3> QED
      BY SMTT(60), <1>1, <1>3, <2>1, <3>1, <3>2
  <2>3. InOrder => InOrder'
    <3>1. CASE Fits(ins.len)
      BY ZenonT(60), <1>1, <1>7, <3>1, PutOrder
    <3>2. CASE ~Fits(ins.len)
      BY ZenonT(60), <1>1, <1>7, <3>2, PutAdvance
    <3> QED
      BY <3>1, <3>2
  <2> QED
    BY <1>7, <2>2, <2>3 DEF RingIInv
<1> QED
  BY <1>4, <1>5, <1>6, <1>7 DEF spoolbdbv_write2

\* A step that is not of the insertion.
ReadersStep ==
  \/ \E t \in Threads : Progress(t) \/ Spurious(t) \/ pthread_cancel(t)
  \/ UNCHANGED vars

\* A step of the readers does not touch the ring, nor the insertion.
LEMMA ReadersApart ==
  ASSUME ReadersStep
  PROVE  UNCHANGED <<ringVars, ins>> /\ trouble \subseteq trouble'
<1>1. ASSUME NEW t \in Threads, Progress(t) \/ Spurious(t) \/ pthread_cancel(t)
      PROVE  UNCHANGED <<ringVars, ins>> /\ trouble \subseteq trouble'
  <2>1. CASE spoolbuf_slots_open(t)
    BY ZenonT(60), <2>1
    DEF spoolbuf_slots_open, spoolbuf_slots_open_unlocked, pthread_cond_wait, Noted
  <2>2. CASE build_nbs_packet(t) \/ Spurious(t)
    BY <2>2 DEF build_nbs_packet, Spurious
  <2>3. CASE spoolbuf_slots_close(t)
    BY <2>3 DEF spoolbuf_slots_close
  <2>4. CASE pthread_cancel(t)
    BY <2>4 DEF pthread_cancel, Noted
  <2> QED
    BY <1>1, <2>1, <2>2, <2>3, <2>4 DEF Progress, free_nbs_packet_st, WriteFails,
       nbsp_mspoolbdb_fpathsize
<1>2. CASE UNCHANGED vars
  BY <1>2 DEF vars
<1> QED
  BY <1>1, <1>2 DEF ReadersStep

\* What does not touch the ring keeps the order.
LEMMA RingKept ==
  ASSUME RingIInv, UNCHANGED ringVars, trouble \subseteq trouble'
  PROVE  RingIInv'
BY DEF RingIInv, ringVars, InOrder, Held, Behind

LEMMA TruncateOldestOrder ==
  ASSUME Types, RingIInv, NEW status \in Status, spoolbdbv_truncate_oldest(status)
  PROVE  RingIInv'
<1>1. CASE UNCHANGED <<db, wrdb, size>> /\ Noted("truncate")
  BY <1>1, RingKept DEF spoolbdbv_truncate_oldest, Noted, ringVars
<1>2. CASE /\ db' = [db EXCEPT ![NextDb(wrdb)] = Empty] /\ wrdb' = NextDb(wrdb)
           /\ UNCHANGED trouble
  <2>1. InOrder => InOrder'
    BY <1>2, AdvanceOrder
  <2>2. UNCHANGED hist /\ Len(hist) \in Nat
    BY SMTT(60) DEF spoolbdbv_truncate_oldest, Types, TypeOK
  <2>3. db \in [Dbs -> [Keys -> Versions \cup {None}]]
    BY DEF Types, TypeOK
  <2>4. \A d \in Dbs, k \in Keys : db'[d][k] <= Len(hist)
    BY SMTT(60), <1>2, <2>2, <2>3 DEF RingIInv, Empty, None
  <2> QED
    BY <1>2, <2>1, <2>2, <2>4 DEF RingIInv
<1> QED
  BY <1>1, <1>2 DEF spoolbdbv_truncate_oldest

LEMMA TruncateOrder ==
  ASSUME Types, RingIInv, NEW status \in Status, spoolbdbv_truncate(status)
  PROVE  RingIInv'
<1>1. PICK first \in 1 .. Ndb + 1 :
        /\ (first = 1 /\ UNCHANGED trouble) \/ Noted("truncate")
        /\ db' = [d \in Dbs |-> IF d >= first THEN Empty ELSE db[d]]
  BY DEF spoolbdbv_truncate
<1>2. UNCHANGED hist /\ Len(hist) \in Nat
  BY SMTT(60) DEF spoolbdbv_truncate, Types, TypeOK
<1>3. \A d \in Dbs, k \in Keys :
        db'[d][k] = IF d >= first THEN None ELSE db[d][k]
  BY <1>1 DEF Empty
<1>4. \A d \in Dbs, k \in Keys : db'[d][k] <= Len(hist)
  BY SMTT(60), <1>2, <1>3 DEF RingIInv, None
<1>5. CASE first = 1
  BY SMTT(60), <1>2, <1>3, <1>4, <1>5 DEF RingIInv, InOrder, Held, Dbs
<1>6. CASE Noted("truncate")
  BY <1>2, <1>4, <1>6 DEF RingIInv, Noted
<1> QED
  BY <1>1, <1>5, <1>6

LEMMA RingInit == Init => RingIInv
BY SMTT(60) DEF Init, RingIInv, InOrder, Held, Empty, None

LEMMA RingNext == Types /\ RingIInv /\ [Next]_vars => RingIInv'
<1> SUFFICES ASSUME Types, RingIInv, [Next]_vars PROVE RingIInv'
  OBVIOUS
<1>1. CASE Insert
  BY <1>1, RingKept DEF Insert
<1>2. CASE mspoolbdb_insert
  BY <1>2, WriteOrder DEF mspoolbdb_insert
<1>3. CASE mspoolbdb_truncate_oldest
  BY <1>3, TruncateOldestOrder DEF mspoolbdb_truncate_oldest
<1>4. CASE mspoolbdb_truncate
  BY <1>4, TruncateOrder DEF mspoolbdb_truncate
<1>5. CASE ReadersStep
  BY <1>5, ReadersApart, RingKept
<1> QED
  BY <1>1, <1>2, <1>3, <1>4, <1>5 DEF Next, nbsp_mspoolbdb_insert, ReadersStep

\* What is nearest in the ring is newest.
LEMMA RingImplies == Types /\ RingIInv => NewestFirst
<1> SUFFICES ASSUME Types, RingIInv, "truncate" \notin trouble,
                    NEW k \in Keys, Holding(k) # {}
             PROVE  spoolbdbv_read(k) = Max(Present(k))
  BY DEF NewestFirst
<1> DEFINE n == Nearest(k)
<1>1. wrdb \in Dbs /\ db \in [Dbs -> [Keys -> Versions \cup {None}]]
  BY DEF Types, TypeOK
<1>2. n \in Holding(k) /\ \A e \in Holding(k) : Behind(n) <= Behind(e)
  BY <1>1, NearestHolds
<1>3. spoolbdbv_read(k) = db[n][k]
  BY DEF spoolbdbv_read
<1>4. \A d \in Holding(k) : d \in Dbs /\ db[d][k] # None /\ db[d][k] \in Nat
  BY <1>1 DEF Holding, Versions, None
<1> HIDE DEF n
<1>5. \A e \in Holding(k) : db[n][k] >= db[e][k]
  <2> TAKE e \in Holding(k)
  <2>1. CASE e = n
    BY SMTT(60), <1>4, <2>1
  <2>2. CASE e # n
    <3>1. Behind(n) < Behind(e)
      BY SMTT(60), <1>1, <1>2, <1>4, <2>2, BehindNat
    <3>2. db[n][k] > db[e][k]
      BY <1>2, <1>4, <3>1 DEF RingIInv, InOrder, Held
    <3> QED
      BY SMTT(60), <1>2, <1>4, <3>2
  <2> QED
    BY <2>1, <2>2
<1>6. /\ db[n][k] \in Present(k) /\ \A v \in Present(k) : v \in Nat /\ db[n][k] >= v
  BY <1>2, <1>4, <1>5 DEF Present
<1>7. \A x \in Present(k) : (\A y \in Present(k) : x >= y) => x = db[n][k]
  BY SMTT(60), <1>6
<1>8. Max(Present(k)) = db[n][k]
  BY <1>6, <1>7 DEF Max
<1> QED
  BY <1>3, <1>8

(***************************************************************************)
(* spoolbdbv_read() finds the newest version of a key that is in the ring, *)
(* for any number of databases, through every wrap and every recovery from *)
(* lack of memory, as long as no truncation fails.                         *)
(***************************************************************************)
THEOREM NewestRead == Spec => []NewestFirst
<1>1. SlotsIInv => Types
  BY DEF SlotsIInv, SlotInv
<1> QED
  BY <1>1, SlotsInit, SlotsNext, RingInit, RingNext, RingImplies, PTL DEF Spec
-----------------------------------------------------------------------------
(***************************************************************************)
(* The sizes: how much the products of a set of versions take.             *)
(***************************************************************************)
\* What arrives has at least a block.
LEMMA ArrivalLen ==
  ASSUME NEW a \in Arrivals
  PROVE  a.len \in 1 .. Word - 1 /\ a.len \in Nat /\ a.k \in Keys
<1>1. a \in [k : Keys, len : 1 .. Word - 1]
  BY ZenonT(60), MspoolAssumption
<1> QED
  BY SMTT(60), <1>1, MspoolAssumption

\* The blocks of some versions of a history are finitely many.
LEMMA AmountNat ==
  ASSUME NEW h \in Seq(Arrivals), NEW V \in SUBSET (1 .. Len(h))
  PROVE  IsFiniteSet(Blocks(h, V)) /\ Amount(h, V) \in Nat
<1> DEFINE A == 1 .. Len(h)
           B == 1 .. Word - 1
<1>1. IsFiniteSet(A) /\ IsFiniteSet(B)
  BY SMTT(60), FS_Interval, MspoolAssumption
<1>2. IsFiniteSet(A \X B)
  BY ZenonT(60), <1>1, FS_Product
<1>3. ASSUME NEW v \in V PROVE {v} \X (1 .. h[v].len) \subseteq A \X B
  <2>1. v \in A /\ h[v] \in Arrivals
    BY SMTT(60), <1>3
  <2>2. h[v].len \in 1 .. Word - 1
    BY <2>1, ArrivalLen
  <2>3. 1 .. h[v].len \subseteq B
    BY SMTT(60), <2>2, MspoolAssumption
  <2> QED
    BY <2>1, <2>3
<1> HIDE DEF A, B
<1>4. Blocks(h, V) \subseteq A \X B
  BY ZenonT(60), <1>3 DEF Blocks
<1>5. IsFiniteSet(Blocks(h, V))
  BY ZenonT(60), <1>2, <1>4, FS_Subset
<1> QED
  BY ZenonT(60), <1>5, FS_CardinalityType DEF Amount

\* Fewer versions take no more.
LEMMA AmountFewer ==
  ASSUME NEW h \in Seq(Arrivals), NEW W \in SUBSET (1 .. Len(h)), NEW V \in SUBSET W
  PROVE  Amount(h, V) <= Amount(h, W)
<1>1. Blocks(h, V) \subseteq Blocks(h, W)
  BY ZenonT(60) DEF Blocks
<1>2. IsFiniteSet(Blocks(h, W))
  BY AmountNat
<1> QED
  BY ZenonT(60), <1>1, <1>2, FS_Subset DEF Amount

\* Nothing takes nothing.
LEMMA AmountNone ==
  ASSUME NEW h
  PROVE  Amount(h, {}) = 0
<1>1. Blocks(h, {}) = {}
  BY ZenonT(60) DEF Blocks
<1> QED
  BY ZenonT(60), <1>1, FS_EmptySet DEF Amount

\* What one more product adds.
LEMMA AmountAppend ==
  ASSUME NEW h \in Seq(Arrivals), NEW a \in Arrivals,
         NEW V \in SUBSET (1 .. Len(h))
  PROVE  /\ Append(h, a) \in Seq(Arrivals) /\ Len(Append(h, a)) = Len(h) + 1
         /\ Amount(Append(h, a), V) = Amount(h, V)
         /\ Amount(Append(h, a), V \cup {Len(h) + 1}) = Amount(h, V) + a.len
<1> DEFINE g == Append(h, a)
           n == Len(h) + 1
           N == {n} \X (1 .. a.len)
<1>1. /\ g \in Seq(Arrivals) /\ Len(g) = n /\ g[n] = a /\ n \in Nat
      /\ \A v \in 1 .. Len(h) : g[v] = h[v] /\ v # n
  BY SMTT(60)
<1>2. a.len \in Nat
  BY ArrivalLen
<1> HIDE DEF g, n
<1>3. \A v \in V : g[v] = h[v] /\ v # n
  BY <1>1
<1>4. Blocks(g, V) = Blocks(h, V)
  BY ZenonT(60), <1>3 DEF Blocks
<1>5. Blocks(g, V \cup {n}) = Blocks(h, V) \cup N
  <2>1. Blocks(g, V \cup {n}) = Blocks(g, V) \cup ({n} \X (1 .. g[n].len))
    BY ZenonT(60) DEF Blocks
  <2> QED
    BY ZenonT(60), <1>1, <1>4, <2>1
<1>6. Blocks(h, V) \cap N = {}
  BY SMTT(60), <1>3 DEF Blocks
<1>7. IsFiniteSet(N) /\ Cardinality(N) = a.len
  <2>1. IsFiniteSet(1 .. a.len) /\ Cardinality(1 .. a.len) = a.len
    <3>1. 1 \in Int /\ a.len \in Int
      BY SMTT(60), <1>2
    <3>2. /\ IsFiniteSet(1 .. a.len)
          /\ Cardinality(1 .. a.len) = IF 1 > a.len THEN 0 ELSE a.len - 1 + 1
      BY ZenonT(60), <3>1, FS_Interval
    <3> QED
      BY SMTT(60), <1>2, <3>2
  <2>2. IsFiniteSet({n}) /\ Cardinality({n}) = 1
    BY ZenonT(60), FS_Singleton
  <2>3. IsFiniteSet(N) /\ Cardinality(N) = 1 * a.len
    BY ZenonT(60), <2>1, <2>2, FS_Product
  <2> QED
    BY SMTT(60), <1>2, <2>3
<1>8. IsFiniteSet(Blocks(h, V)) /\ Amount(h, V) \in Nat
  BY AmountNat
<1> HIDE DEF N
<1>9. Cardinality(Blocks(h, V) \cup N) = Cardinality(Blocks(h, V)) + Cardinality(N)
                                          - Cardinality({})
  <2>1. Cardinality(Blocks(h, V) \cup N) =
          Cardinality(Blocks(h, V)) + Cardinality(N)
            - Cardinality(Blocks(h, V) \cap N)
    BY ZenonT(60), <1>7, <1>8, FS_Union
  <2> QED
    BY ZenonT(60), <1>6, <2>1
<1>10. Cardinality({}) = 0
  BY ZenonT(60), FS_EmptySet
<1>11. Amount(g, V \cup {n}) = Amount(h, V) + a.len
  <2>1. Amount(g, V \cup {n}) = Amount(h, V) + a.len - 0
    BY ZenonT(60), <1>5, <1>7, <1>9, <1>10 DEF Amount
  <2> QED
    BY SMTT(60), <1>2, <1>8, <2>1
<1> QED
  BY <1>1, <1>4, <1>11 DEF Amount, g, n

(***************************************************************************)
(* What is in a database has been inserted under its key, and neither a    *)
(* product nor the size of the current database is larger than maxsize.    *)
(***************************************************************************)
Filed ==
  /\ \A d \in Dbs, k \in Keys : Held(d, k) =>
       db[d][k] \in 1 .. Len(hist) /\ hist[db[d][k]].k = k
  /\ size <= Maxsize
  /\ \A v \in 1 .. Len(hist) : hist[v].len <= Maxsize

\* As long as no truncation fails, no database holds more than it may, and
\* the current one no more than size.
Fitting ==
  "truncate" \notin trouble =>
    Stored(wrdb) <= size /\ \A d \in Dbs : Stored(d) <= Maxsize

\* There is no overflow: a product that fits, fits.
LEMMA FitsMeans ==
  ASSUME size \in Nat, size <= Maxsize, NEW len \in Nat, len <= Maxsize
  PROVE  /\ Fits(len) <=> size + len <= Maxsize
         /\ Wrap(Base(len) + len) = Base(len) + len
         /\ Base(len) + len <= Maxsize
BY SMTT(60), MspoolAssumption, SizeAssumption DEF Fits, Wrap, Base

\* What a database holds was inserted.
LEMMA ContentsOf ==
  ASSUME Types, Filed, NEW d \in Dbs
  PROVE  /\ Contents(d) \in SUBSET (1 .. Len(hist)) /\ hist \in Seq(Arrivals)
         /\ Stored(d) \in Nat
<1>1. Contents(d) \in SUBSET (1 .. Len(hist))
  BY DEF Contents, Filed, Held
<1>2. hist \in Seq(Arrivals)
  BY DEF Types, TypeOK
<1> QED
  BY <1>1, <1>2, AmountNat DEF Stored

\* A database that is emptied.
LEMMA EmptyStored ==
  ASSUME NEW d \in Dbs, db'[d] = Empty
  PROVE  Contents(d)' = {} /\ Stored(d)' = 0
<1>1. Contents(d)' = {}
  BY DEF Contents, Empty
<1> QED
  BY ZenonT(60), <1>1, AmountNone DEF Stored

\* A database that is left alone.
LEMMA SameStored ==
  ASSUME NEW d \in Dbs, db'[d] = db[d], hist' = hist
  PROVE  Stored(d)' = Stored(d)
BY ZenonT(60) DEF Stored, Contents

\* The calls on the ring that insert nothing: databases are left or emptied.
LEMMA EmptiedFits ==
  ASSUME Types, Filed, Fitting, hist' = hist, wrdb' \in Dbs,
         trouble \subseteq trouble',
         \A d \in Dbs : db'[d] \in {db[d], Empty},
         \/ wrdb' = wrdb /\ size' = size
         \/ db'[wrdb'] = Empty /\ size' = 0
         \/ "truncate" \in trouble' /\ size' = size
  PROVE  Filed' /\ Fitting'
<1>0. size \in Nat /\ Maxsize \in Nat
  BY SMTT(60), MspoolAssumption DEF Types, TypeOK
<1>1. \A d \in Dbs, k \in Keys : db'[d][k] = db[d][k] \/ db'[d][k] = None
  BY DEF Empty
<1>2. size' = size \/ size' = 0
  OBVIOUS
<1>3. Filed'
  BY SMTT(60), <1>0, <1>1, <1>2 DEF Filed, Held
<1>4. ASSUME NEW d \in Dbs PROVE Stored(d)' \in {Stored(d), 0}
  <2>1. CASE db'[d] = db[d]
    BY <2>1, SameStored
  <2>2. CASE db'[d] = Empty
    BY <2>2, EmptyStored
  <2> QED
    BY <2>1, <2>2
<1>5. ASSUME "truncate" \notin trouble' PROVE Stored(wrdb)' <= size'
  <2>1. wrdb \in Dbs /\ "truncate" \notin trouble
    BY <1>5 DEF Types, TypeOK
  <2>2. CASE wrdb' = wrdb /\ size' = size
    <3>1. PICK w \in Dbs : w = wrdb
      BY <2>1
    <3>2. Stored(w)' \in {Stored(w), 0} /\ Stored(w) <= size
      BY <1>4, <2>1, <3>1 DEF Fitting
    <3>3. Stored(wrdb)' = Stored(w)'
      BY ZenonT(60), <2>2, <3>1
    <3> QED
      BY SMTT(60), <1>0, <2>2, <3>2, <3>3
  <2>3. CASE db'[wrdb'] = Empty /\ size' = 0
    <3>1. PICK w \in Dbs : w = wrdb'
      OBVIOUS
    <3>2. Stored(w)' = 0
      BY <2>3, <3>1, EmptyStored
    <3>3. Stored(wrdb)' = Stored(w)'
      BY ZenonT(60), <3>1
    <3> QED
      BY SMTT(60), <2>3, <3>2, <3>3
  <2> QED
    BY <1>5, <2>2, <2>3
<1>6. ASSUME "truncate" \notin trouble', NEW d \in Dbs PROVE Stored(d)' <= Maxsize
  <2>1. Stored(d) <= Maxsize /\ Stored(d)' \in {Stored(d), 0}
    BY <1>4, <1>6 DEF Fitting
  <2> QED
    BY SMTT(60), <1>0, <2>1
<1> QED
  BY ZenonT(60), <1>3, <1>5, <1>6 DEF Fitting

\* What a write that is done makes of the ring.
Done ==
  /\ ins.len <= Maxsize
  /\ \E w \in Dbs, room \in [Keys -> Versions \cup {None}] :
       /\ w = (IF Fits(ins.len) THEN wrdb ELSE NextDb(wrdb))
       /\ room = (IF Fits(ins.len) THEN db[w] ELSE Empty)
       /\ db' = [db EXCEPT ![w] = [room EXCEPT ![ins.k] = Len(hist) + 1]]
       /\ wrdb' = w
  /\ size' = Wrap(Base(ins.len) + ins.len)
  /\ hist' = Append(hist, [k |-> ins.k, len |-> ins.len])
  /\ UNCHANGED trouble

\* A write is done, or leaves trouble and at most empties a database.
LEMMA WriteCases ==
  ASSUME Types, ins.st # "idle", NEW status \in Status, spoolbdbv_write2(status)
  PROVE  \/ status = "ok" /\ Done
         \/ /\ trouble' \in {trouble \cup {x} : x \in {"put", "truncate", "ENOMEM"}}
            /\ hist' = hist /\ wrdb' \in Dbs
            /\ \A d \in Dbs : db'[d] \in {db[d], Empty}
            /\ \/ wrdb' = wrdb /\ size' = size
               \/ db'[wrdb'] = Empty /\ size' = 0
               \/ "truncate" \in trouble' /\ size' = size
<1> DEFINE w == IF Fits(ins.len) THEN wrdb ELSE NextDb(wrdb)
           room == IF Fits(ins.len) THEN db[w] ELSE Empty
<1>1. wrdb \in Dbs /\ db \in [Dbs -> [Keys -> Versions \cup {None}]]
  BY DEF Types, TypeOK
<1>2. w \in Dbs
  BY SMTT(60), <1>1, MspoolAssumption DEF NextDb, Dbs
<1>3. room \in [Keys -> Versions \cup {None}]
  BY <1>1, <1>2 DEF Empty
<1>4. CASE UNCHANGED ringVars /\ Noted("ENOMEM")
  BY <1>1, <1>4 DEF ringVars, Noted
<1>5. CASE wrdb' = w /\ UNCHANGED <<db, size, hist>> /\ Noted("truncate")
  BY <1>2, <1>5 DEF Noted
<1>6. CASE /\ db' = [db EXCEPT ![w] = room] /\ wrdb' = w /\ size' = Base(ins.len)
           /\ UNCHANGED hist /\ Noted("put")
  <2>1. CASE Fits(ins.len)
    BY <1>1, <1>6, <2>1 DEF Noted, Base
  <2>2. CASE ~Fits(ins.len)
    BY <1>1, <1>2, <1>6, <2>2 DEF Noted, Base
  <2> QED
    BY <2>1, <2>2
<1>7. CASE /\ ins.len <= Maxsize /\ status = "ok"
           /\ db' = [db EXCEPT ![w] = [room EXCEPT ![ins.k] = Len(hist) + 1]]
           /\ wrdb' = w /\ size' = Wrap(Base(ins.len) + ins.len)
           /\ hist' = Append(hist, [k |-> ins.k, len |-> ins.len])
           /\ UNCHANGED trouble
  BY ZenonT(60), <1>2, <1>3, <1>7 DEF Done
<1> QED
  BY <1>4, <1>5, <1>6, <1>7 DEF spoolbdbv_write2

\* The product that is inserted.
LEMMA Inserted ==
  ASSUME Types, ins.st # "idle"
  PROVE  \E a \in Arrivals : /\ a = [k |-> ins.k, len |-> ins.len]
                             /\ a.k = ins.k /\ a.len = ins.len
                             /\ ins.k \in Keys /\ ins.len \in Nat \ {0}
<1>1. [k |-> ins.k, len |-> ins.len] \in Arrivals
  BY DEF Types, InsOK
<1>2. PICK a \in Arrivals : a = [k |-> ins.k, len |-> ins.len]
  BY <1>1
<1>3. a.k \in Keys /\ a.len \in 1 .. Word - 1
  BY ArrivalLen
<1> QED
  BY SMTT(60), <1>2, <1>3, MspoolAssumption

\* A write that is done keeps what is filed under its key.
LEMMA DoneFiled ==
  ASSUME Types, Filed, ins.st # "idle", Done
  PROVE  Filed'
<1>1. PICK a \in Arrivals : /\ a = [k |-> ins.k, len |-> ins.len]
                            /\ a.k = ins.k /\ a.len = ins.len
                            /\ ins.k \in Keys /\ ins.len \in Nat \ {0}
  BY Inserted
<1>2. PICK w \in Dbs, room \in [Keys -> Versions \cup {None}] :
        /\ w = (IF Fits(ins.len) THEN wrdb ELSE NextDb(wrdb))
        /\ room = (IF Fits(ins.len) THEN db[w] ELSE Empty)
        /\ db' = [db EXCEPT ![w] = [room EXCEPT ![ins.k] = Len(hist) + 1]]
        /\ wrdb' = w
  BY ZenonT(60) DEF Done
<1>3. /\ hist \in Seq(Arrivals) /\ hist' = Append(hist, a) /\ ins.len <= Maxsize
      /\ db \in [Dbs -> [Keys -> Versions \cup {None}]] /\ size \in Nat
      /\ size' = Wrap(Base(ins.len) + ins.len) /\ Maxsize \in Nat
  BY SMTT(60), <1>1, MspoolAssumption DEF Done, Types, TypeOK
<1>4. /\ Len(hist') = Len(hist) + 1 /\ hist'[Len(hist) + 1] = a
      /\ \A v \in 1 .. Len(hist) : hist'[v] = hist[v] /\ v \in 1 .. Len(hist')
      /\ Len(hist) + 1 \in 1 .. Len(hist')
      /\ \A v \in 1 .. Len(hist') : v \in 1 .. Len(hist) \/ v = Len(hist) + 1
  BY SMTT(60), <1>3
<1>5. size' <= Maxsize
  BY <1>1, <1>3, FitsMeans DEF Filed
<1>6. \A v \in 1 .. Len(hist') : hist'[v].len <= Maxsize
  BY <1>1, <1>3, <1>4 DEF Filed
<1>7. ASSUME NEW d \in Dbs, NEW k \in Keys, db'[d][k] # None
      PROVE  db'[d][k] \in 1 .. Len(hist') /\ hist'[db'[d][k]].k = k
  <2>1. CASE d = w /\ k = ins.k
    <3>1. db'[d][k] = Len(hist) + 1
      BY <1>1, <1>2, <1>3, <2>1
    <3> QED
      BY <1>1, <1>4, <2>1, <3>1
  <2>2. CASE ~(d = w /\ k = ins.k)
    <3>1. db'[d][k] = db[d][k]
      BY <1>1, <1>2, <1>3, <1>7, <2>2 DEF Empty
    <3>2. db[d][k] \in 1 .. Len(hist) /\ hist[db[d][k]].k = k
      BY <1>7, <3>1 DEF Filed, Held
    <3> QED
      BY <1>4, <3>1, <3>2
  <2> QED
    BY <2>1, <2>2
<1> QED
  BY ZenonT(60), <1>5, <1>6, <1>7 DEF Filed, Held

\* A write that is done keeps every database within maxsize.
LEMMA DoneFits ==
  ASSUME Types, Filed, Fitting, ins.st # "idle", Done
  PROVE  Fitting'
<1> SUFFICES ASSUME "truncate" \notin trouble
             PROVE  Stored(wrdb)' <= size' /\ \A d \in Dbs : Stored(d)' <= Maxsize
  BY ZenonT(60) DEF Fitting, Done
<1>1. PICK a \in Arrivals : /\ a = [k |-> ins.k, len |-> ins.len]
                            /\ a.k = ins.k /\ a.len = ins.len
                            /\ ins.k \in Keys /\ ins.len \in Nat \ {0}
  BY Inserted
<1>2. PICK w \in Dbs, room \in [Keys -> Versions \cup {None}] :
        /\ w = (IF Fits(ins.len) THEN wrdb ELSE NextDb(wrdb))
        /\ room = (IF Fits(ins.len) THEN db[w] ELSE Empty)
        /\ db' = [db EXCEPT ![w] = [room EXCEPT ![ins.k] = Len(hist) + 1]]
        /\ wrdb' = w
  BY ZenonT(60) DEF Done
<1>3. PICK h \in Seq(Arrivals) : h = hist
  BY DEF Types, TypeOK
<1>4. /\ hist' = Append(h, a) /\ ins.len <= Maxsize
      /\ db \in [Dbs -> [Keys -> Versions \cup {None}]] /\ size \in Nat
      /\ size' = Wrap(Base(ins.len) + ins.len) /\ Maxsize \in Nat
  BY SMTT(60), <1>1, <1>3, MspoolAssumption DEF Done, Types, TypeOK
<1>5. /\ size' = Base(ins.len) + ins.len /\ size' <= Maxsize
      /\ Base(ins.len) \in Nat
  BY <1>1, <1>4, FitsMeans DEF Filed, Base
<1>6. ASSUME NEW d \in Dbs, d # w PROVE Stored(d)' <= Maxsize
  <2>1. PICK V \in SUBSET (1 .. Len(h)) : V = Contents(d)
    BY <1>3, ContentsOf
  <2>2. Contents(d)' = V
    BY <1>2, <1>4, <1>6, <2>1 DEF Contents
  <2>3. Amount(Append(h, a), V) = Amount(h, V)
    BY ZenonT(60), AmountAppend
  <2>4. Stored(d)' = Stored(d)
    BY ZenonT(60), <1>3, <1>4, <2>1, <2>2, <2>3 DEF Stored
  <2> QED
    BY ZenonT(60), <2>4 DEF Fitting
<1>7. Stored(w)' <= size' /\ Stored(w)' \in Nat
  <2>1. PICK V \in SUBSET (1 .. Len(h)) :
          /\ V = {room[k] : k \in Keys} \ {None}
          /\ Amount(h, V) <= Base(ins.len)
    <3>1. CASE Fits(ins.len)
      <4>1. {room[k] : k \in Keys} \ {None} = Contents(wrdb) /\ wrdb \in Dbs
        BY <1>2, <3>1 DEF Contents
      <4>2. Contents(wrdb) \in SUBSET (1 .. Len(h))
        BY <1>3, <4>1, ContentsOf
      <4>3. Amount(h, Contents(wrdb)) <= size /\ Base(ins.len) = size
        BY ZenonT(60), <1>3, <3>1 DEF Fitting, Stored, Base
      <4> QED
        BY ZenonT(60), <4>1, <4>2, <4>3
    <3>2. CASE ~Fits(ins.len)
      <4>1. {room[k] : k \in Keys} \ {None} = {}
        BY <1>2, <3>2 DEF Empty
      <4>2. Amount(h, {}) <= Base(ins.len)
        BY SMTT(60), <3>2, AmountNone DEF Base
      <4> QED
        BY ZenonT(60), <4>1, <4>2
    <3> QED
      BY <3>1, <3>2
  <2>2. Contents(w)' \subseteq V \cup {Len(h) + 1}
    BY <1>1, <1>2, <1>3, <1>4, <2>1 DEF Contents
  <2>3. /\ Append(h, a) \in Seq(Arrivals) /\ Len(Append(h, a)) = Len(h) + 1
        /\ Amount(Append(h, a), V \cup {Len(h) + 1}) = Amount(h, V) + a.len
    BY AmountAppend
  <2>4. V \cup {Len(h) + 1} \in SUBSET (1 .. Len(Append(h, a)))
    <3>1. Len(h) \in Nat
      BY SMTT(60)
    <3>2. \A x \in 1 .. Len(h) : x \in 1 .. Len(h) + 1
      BY SMTT(60), <3>1
    <3>3. Len(h) + 1 \in 1 .. Len(h) + 1
      BY SMTT(60), <3>1
    <3> QED
      BY ZenonT(60), <2>3, <3>2, <3>3
  <2>5. Amount(Append(h, a), Contents(w)') <= Amount(Append(h, a), V \cup {Len(h) + 1})
    BY ZenonT(60), <2>2, <2>3, <2>4, AmountFewer
  <2>6. Stored(w)' = Amount(Append(h, a), Contents(w)')
    BY ZenonT(60), <1>4 DEF Stored
  <2>7. Stored(w)' <= Amount(h, V) + a.len
    BY ZenonT(60), <2>3, <2>5, <2>6
  <2>8. Amount(h, V) \in Nat
    BY AmountNat
  <2>9. Stored(w)' \in Nat
    <3>1. Contents(w)' \in SUBSET (1 .. Len(Append(h, a)))
      BY ZenonT(60), <2>2, <2>4
    <3>2. Amount(Append(h, a), Contents(w)') \in Nat
      BY ZenonT(60), <2>3, <3>1, AmountNat
    <3> QED
      BY ZenonT(60), <2>6, <3>2
  <2> HIDE DEF Stored
  <2> QED
    BY SMTT(60), <1>1, <1>5, <2>1, <2>7, <2>8, <2>9
<1>8. Stored(w)' <= Maxsize
  <2>1. size' \in Nat
    BY SMTT(60), <1>1, <1>5
  <2> QED
    BY SMTT(60), <1>4, <1>5, <1>7, <2>1
<1>9. Stored(wrdb)' = Stored(w)'
  BY ZenonT(60), <1>2
<1> QED
  BY ZenonT(60), <1>6, <1>7, <1>8, <1>9

\* What the truncations make of the ring.
LEMMA TruncateCases ==
  ASSUME Types, NEW status \in Status,
         spoolbdbv_truncate_oldest(status) \/ spoolbdbv_truncate(status)
  PROVE  /\ trouble' \in {trouble, trouble \cup {"truncate"}}
         /\ hist' = hist /\ wrdb' \in Dbs
         /\ \A d \in Dbs : db'[d] \in {db[d], Empty}
         /\ (wrdb' = wrdb /\ size' = size) \/ (db'[wrdb'] = Empty /\ size' = 0)
<1>1. /\ wrdb \in Dbs /\ db \in [Dbs -> [Keys -> Versions \cup {None}]]
      /\ Ndb \in Nat \ {0}
  BY MspoolAssumption DEF Types, TypeOK
<1>2. CASE spoolbdbv_truncate_oldest(status)
  <2>1. NextDb(wrdb) \in Dbs
    BY SMTT(60), <1>1 DEF NextDb, Dbs
  <2> QED
    BY <1>1, <1>2, <2>1 DEF spoolbdbv_truncate_oldest, Noted
<1>3. CASE spoolbdbv_truncate(status)
  <2>1. PICK first \in 1 .. Ndb + 1 :
          /\ trouble' = trouble \/ Noted("truncate")
          /\ db' = [d \in Dbs |-> IF d >= first THEN Empty ELSE db[d]]
          /\ wrdb' = IF first > Ndb THEN wrdb ELSE first
          /\ size' = IF first > Ndb THEN size ELSE 0
    BY <1>3 DEF spoolbdbv_truncate
  <2>2. trouble' \in {trouble, trouble \cup {"truncate"}} /\ hist' = hist
    BY ZenonT(60), <1>3, <2>1 DEF spoolbdbv_truncate, Noted
  <2>3. \A d \in Dbs : db'[d] \in {db[d], Empty}
    BY <2>1
  <2>4. CASE first > Ndb
    BY <1>1, <2>1, <2>2, <2>3, <2>4
  <2>5. CASE ~(first > Ndb)
    <3>1. first \in Dbs /\ wrdb' = first /\ size' = 0
      BY SMTT(60), <1>1, <2>1, <2>5 DEF Dbs
    <3>2. db'[first] = Empty
      BY SMTT(60), <2>1, <3>1 DEF Dbs
    <3> QED
      BY ZenonT(60), <2>2, <2>3, <3>1, <3>2
  <2> QED
    BY ZenonT(60), <2>4, <2>5
<1> QED
  BY <1>2, <1>3

\* The sizes at first.
LEMMA FitInit == Init => Filed /\ Fitting
<1> SUFFICES ASSUME Init PROVE Filed /\ Fitting
  OBVIOUS
<1>1. /\ \A d \in Dbs, k \in Keys : db[d][k] = None
      /\ size = 0 /\ hist = <<>> /\ Maxsize \in Nat /\ wrdb \in Dbs
  BY SMTT(60), MspoolAssumption DEF Init, Empty, Dbs
<1>2. Filed
  BY SMTT(60), <1>1 DEF Filed, Held
<1>3. ASSUME NEW d \in Dbs PROVE Stored(d) = 0
  <2>1. Contents(d) = {}
    BY <1>1 DEF Contents
  <2> QED
    BY ZenonT(60), <2>1, AmountNone DEF Stored
<1> QED
  BY SMTT(60), <1>1, <1>2, <1>3 DEF Fitting

\* Every step keeps the sizes.
LEMMA FitNext == Types /\ Filed /\ Fitting /\ [Next]_vars => Filed' /\ Fitting'
<1> SUFFICES ASSUME Types, Filed, Fitting, [Next]_vars PROVE Filed' /\ Fitting'
  OBVIOUS
<1>0. wrdb \in Dbs
  BY DEF Types, TypeOK
<1>1. CASE Insert \/ ReadersStep
  <2>1. UNCHANGED ringVars /\ trouble \subseteq trouble'
    BY <1>1, ReadersApart DEF Insert
  <2> QED
    BY <1>0, <2>1, EmptiedFits DEF ringVars
<1>2. CASE mspoolbdb_insert
  <2>1. PICK status \in Status : spoolbdbv_write2(status) /\ ins.st # "idle"
    BY <1>2 DEF mspoolbdb_insert
  <2>2. CASE Done
    BY <2>1, <2>2, DoneFiled, DoneFits
  <2>3. CASE ~Done
    <3>1. /\ trouble \subseteq trouble' /\ hist' = hist /\ wrdb' \in Dbs
          /\ \A d \in Dbs : db'[d] \in {db[d], Empty}
          /\ \/ wrdb' = wrdb /\ size' = size
             \/ db'[wrdb'] = Empty /\ size' = 0
             \/ "truncate" \in trouble' /\ size' = size
      BY <2>1, <2>3, WriteCases
    <3> QED
      BY ZenonT(60), <3>1, EmptiedFits
  <2> QED
    BY <2>2, <2>3
<1>3. CASE mspoolbdb_truncate_oldest \/ mspoolbdb_truncate
  <2>1. PICK status \in Status :
          spoolbdbv_truncate_oldest(status) \/ spoolbdbv_truncate(status)
    BY <1>3 DEF mspoolbdb_truncate_oldest, mspoolbdb_truncate
  <2>2. /\ trouble \subseteq trouble' /\ hist' = hist /\ wrdb' \in Dbs
        /\ \A d \in Dbs : db'[d] \in {db[d], Empty}
        /\ (wrdb' = wrdb /\ size' = size) \/ (db'[wrdb'] = Empty /\ size' = 0)
    BY <2>1, TruncateCases
  <2> QED
    BY ZenonT(60), <2>2, EmptiedFits
<1> QED
  BY <1>1, <1>2, <1>3 DEF Next, nbsp_mspoolbdb_insert, ReadersStep

(***************************************************************************)
(* No database of the ring holds more than maxsize, for any sizes of the   *)
(* products and any number of databases, as long as no truncation fails:   *)
(* the test of spoolbdbv_write2() comes before the data are added, and     *)
(* with less than 2 GB in each database its sum does not wrap.             *)
(***************************************************************************)
THEOREM CacheNotExceeded == Spec => []FitsCache
<1>1. SlotsIInv => Types
  BY DEF SlotsIInv, SlotInv
<1>2. Fitting => FitsCache
  BY DEF Fitting, FitsCache
<1> QED
  BY <1>1, <1>2, SlotsInit, SlotsNext, FitInit, FitNext, PTL DEF Spec
-----------------------------------------------------------------------------
(***************************************************************************)
(* How long a product stays in the ring.                                   *)
(***************************************************************************)
\* A nonempty set of bounded natural numbers has a maximum.
LEMMA MaxOf ==
  ASSUME NEW b \in Nat, NEW S \in SUBSET (0 .. b), S # {}
  PROVE  Max(S) \in S /\ \A y \in S : y <= Max(S)
<1> DEFINE D == {b - s : s \in S}
<1>1. D \in SUBSET Nat /\ D # {}
  <2>1. \A s \in 0 .. b : b - s \in Nat
    BY SMTT(60)
  <2> QED
    BY ZenonT(60), <2>1
<1>2. PICK n \in D : \A m \in D : n <= m
  BY ZenonT(60), <1>1, LeastNat
<1>3. PICK x \in S : n = b - x
  BY <1>2
<1>4. \A y \in S : x >= y
  <2> TAKE y \in S
  <2>1. b - y \in D
    BY ZenonT(60)
  <2>2. b - x <= b - y
    BY ZenonT(60), <1>2, <1>3, <2>1
  <2>3. x \in Nat /\ y \in Nat
    BY SMTT(60)
  <2> QED
    BY SMTT(60), <2>2, <2>3
<1>5. Max(S) \in S /\ \A y \in S : Max(S) >= y
  BY ZenonT(60), <1>4 DEF Max
<1>6. \A y \in S : y \in Nat
  BY SMTT(60)
<1> QED
  BY <1>5, <1>6

\* The products of a history after version v, and the largest of them.
After(h, v) == v + 1 .. Len(h)
Largest(h, v) == Max({h[u].len : u \in After(h, v)} \cup {0})

\* The largest is as large as each.
LEMMA LargestBounds ==
  ASSUME NEW h \in Seq(Arrivals), NEW v \in 0 .. Len(h), Maxsize \in Nat,
         \A u \in 1 .. Len(h) : h[u].len <= Maxsize
  PROVE  /\ Largest(h, v) \in 0 .. Maxsize
         /\ \A u \in After(h, v) : h[u].len <= Largest(h, v)
         /\ Largest(h, v) = 0 \/ \E u \in After(h, v) : Largest(h, v) = h[u].len
<1> DEFINE S == {h[u].len : u \in After(h, v)} \cup {0}
<1>1. ASSUME NEW u \in After(h, v) PROVE h[u].len \in 0 .. Maxsize
  <2>1. u \in 1 .. Len(h) /\ h[u] \in Arrivals
    BY SMTT(60) DEF After
  <2>2. h[u].len \in Nat /\ h[u].len <= Maxsize
    BY <2>1, ArrivalLen
  <2> QED
    BY SMTT(60), <2>2
<1>2. S \in SUBSET (0 .. Maxsize) /\ S # {}
  BY SMTT(60), <1>1
<1>3. Max(S) \in S /\ \A y \in S : y <= Max(S)
  BY ZenonT(60), <1>2, MaxOf
<1>4. \A u \in After(h, v) : h[u].len \in S
  BY ZenonT(60)
<1>5. Max(S) \in 0 .. Maxsize
  BY ZenonT(60), <1>2, <1>3
<1>6. Max(S) = 0 \/ \E u \in After(h, v) : Max(S) = h[u].len
  BY ZenonT(60), <1>3
<1> QED
  BY ZenonT(60), <1>3, <1>4, <1>5, <1>6 DEF Largest

\* What one more product makes of the amount after v and of the largest.
LEMMA AfterGrows ==
  ASSUME NEW h \in Seq(Arrivals), NEW a \in Arrivals, NEW v \in 0 .. Len(h),
         Maxsize \in Nat, a.len <= Maxsize,
         \A u \in 1 .. Len(h) : h[u].len <= Maxsize
  PROVE  /\ Largest(h, v) \in 0 .. Maxsize
         /\ Largest(Append(h, a), v) \in 0 .. Maxsize
         /\ Largest(h, v) <= Largest(Append(h, a), v)
         /\ a.len <= Largest(Append(h, a), v)
         /\ Amount(h, After(h, v)) \in Nat
         /\ Amount(Append(h, a), After(Append(h, a), v))
              = Amount(h, After(h, v)) + a.len
<1> DEFINE g == Append(h, a)
<1>2. /\ g \in Seq(Arrivals) /\ Len(g) = Len(h) + 1 /\ g[Len(h) + 1] = a
      /\ \A u \in 1 .. Len(h) : g[u] = h[u]
      /\ Len(h) \in Nat /\ v \in 0 .. Len(g)
  BY SMTT(60)
<1> HIDE DEF g
<1>3. \A u \in 1 .. Len(g) : g[u].len <= Maxsize
  BY SMTT(60), <1>2
<1>4. /\ After(g, v) = After(h, v) \cup {Len(h) + 1}
      /\ After(h, v) \in SUBSET (1 .. Len(h))
  BY SMTT(60), <1>2 DEF After
<1>5. /\ Largest(g, v) \in 0 .. Maxsize
      /\ \A u \in After(g, v) : g[u].len <= Largest(g, v)
  BY ZenonT(60), <1>2, <1>3, LargestBounds
<1>6. /\ Largest(h, v) \in 0 .. Maxsize
      /\ Largest(h, v) = 0 \/ \E u \in After(h, v) : Largest(h, v) = h[u].len
  BY ZenonT(60), LargestBounds
<1>7. a.len <= Largest(g, v)
  BY ZenonT(60), <1>2, <1>4, <1>5
<1>8. Largest(h, v) <= Largest(g, v)
  <2>1. CASE Largest(h, v) = 0
    BY SMTT(60), <1>5, <2>1
  <2>2. ASSUME NEW u \in After(h, v), Largest(h, v) = h[u].len
        PROVE  Largest(h, v) <= Largest(g, v)
    <3>1. u \in After(g, v) /\ g[u] = h[u]
      BY ZenonT(60), <1>2, <1>4
    <3> QED
      BY ZenonT(60), <1>5, <2>2, <3>1
  <2> QED
    BY <1>6, <2>1, <2>2
<1>9. Amount(h, After(h, v)) \in Nat
  BY ZenonT(60), <1>4, AmountNat
<1>10. Amount(g, After(g, v)) = Amount(h, After(h, v)) + a.len
  <2>1. After(h, v) \in SUBSET (1 .. Len(h))
    BY <1>4
  <2>2. Amount(g, After(h, v) \cup {Len(h) + 1}) = Amount(h, After(h, v)) + a.len
    BY ZenonT(60), <2>1, AmountAppend DEF g
  <2> QED
    BY ZenonT(60), <1>4, <2>2
<1> QED
  BY ZenonT(60), <1>5, <1>6, <1>7, <1>8, <1>9, <1>10 DEF g

\* Multiplication keeps the order.
LEMMA TimesOrder ==
  ASSUME NEW n \in Nat, NEW x \in Int, NEW y \in Int, x <= y
  PROVE  n * x <= n * y /\ n * x \in Int /\ n * y \in Int
<1>1. n * (y - x) >= 0
  BY SMTT(60)
<1>2. n * y = n * x + n * (y - x)
  BY SMTT(60)
<1> QED
  BY SMTT(60), <1>1, <1>2

\* A product of len blocks after S blocks, with the current database at size
\* and a largest product of L before it and M after it.
LEMMA OneMore ==
  ASSUME NEW C \in Nat, NEW L \in Nat, NEW M \in Nat, L <= M, M < C,
         NEW S \in Nat, NEW len \in Nat \ {0}, len <= M, NEW sz \in Nat,
         NEW n \in Nat
  PROVE  /\ S > n * (C - L) => S + len > n * (C - M)
         /\ S >= n * (C - L) + sz => S + len >= n * (C - M) + (sz + len)
         /\ S >= n * (C - L) + sz /\ sz + len >= C =>
              S + len >= (n + 1) * (C - M) + len
<1>1. PICK x \in Int, y \in Int : x = n * (C - M) /\ y = n * (C - L) /\ x <= y
  BY SMTT(60), TimesOrder
<1>2. (n + 1) * (C - M) = x + (C - M)
  BY SMTT(60), <1>1
<1> QED
  BY SMTT(60), <1>1, <1>2

\* Nothing has gone wrong with the ring.
Calm == trouble \cap {"put", "truncate", "ENOMEM"} = {}

\* No later product has the key of v.
Newest(v) == \A u \in After(hist, v) : hist[u].k # hist[v].k

\* After v the ring has had time to come around.
Old(v) == Since(v) > (Ndb - 1) * (Maxsize + 1 - LargestSince(v))

\* Product v is in database d, and each database between d and the current
\* one has been filled after it.
KeptIn(d, v) ==
  /\ db[d][hist[v].k] = v
  /\ Behind(d) > 0 =>
       Since(v) >= (Behind(d) - 1) * (Maxsize + 1 - LargestSince(v)) + size

RetainInv ==
  Calm => /\ ins.st \in {"idle", "insert"}
          /\ \A v \in 1 .. Len(hist) :
               Newest(v) => Old(v) \/ \E d \in Dbs : KeptIn(d, v)

\* The next database is the one farthest behind.
LEMMA NextFarthest ==
  ASSUME wrdb \in Dbs
  PROVE  NextDb(wrdb) \in Dbs /\ Behind(NextDb(wrdb)) = Ndb - 1
BY SMTT(60), MspoolAssumption DEF NextDb, Behind, Dbs

\* A write that is done: a product that is still the newest of its key stays
\* where it is, or its database is the one emptied and enough came after it.
LEMMA DoneKeeps ==
  ASSUME Types, Filed, ins.st # "idle", Done, NEW v \in 1 .. Len(hist), Newest(v)',
         Old(v) \/ \E d \in Dbs : KeptIn(d, v)
  PROVE  Old(v)' \/ \E d \in Dbs : KeptIn(d, v)'
<1>1. PICK a \in Arrivals : /\ a = [k |-> ins.k, len |-> ins.len]
                            /\ a.k = ins.k /\ a.len = ins.len
                            /\ ins.k \in Keys /\ ins.len \in Nat \ {0}
  BY Inserted
<1>2. PICK w \in Dbs, room \in [Keys -> Versions \cup {None}] :
        /\ w = (IF Fits(ins.len) THEN wrdb ELSE NextDb(wrdb))
        /\ room = (IF Fits(ins.len) THEN db[w] ELSE Empty)
        /\ db' = [db EXCEPT ![w] = [room EXCEPT ![ins.k] = Len(hist) + 1]]
        /\ wrdb' = w
  BY ZenonT(60) DEF Done
<1>3. PICK h \in Seq(Arrivals), sz \in Nat :
        h = hist /\ sz = size /\ hist' = Append(h, a) /\ sz <= Maxsize
  <2>1. hist \in Seq(Arrivals) /\ size \in Nat /\ size <= Maxsize
    BY SMTT(60), MspoolAssumption DEF Types, TypeOK, Filed
  <2> QED
    BY ZenonT(60), <1>1, <2>1 DEF Done
<1>4. /\ a.len <= Maxsize /\ Maxsize \in Nat /\ Ndb \in Nat \ {0} /\ wrdb \in Dbs
      /\ db \in [Dbs -> [Keys -> Versions \cup {None}]]
      /\ size' = Wrap(Base(ins.len) + ins.len)
  BY <1>1, MspoolAssumption DEF Done, Types, TypeOK
<1>5. /\ v \in 1 .. Len(h) /\ v \in 0 .. Len(h)
      /\ \A u \in 1 .. Len(h) : h[u].len <= Maxsize
  <2>1. v \in 1 .. Len(h) /\ \A u \in 1 .. Len(h) : h[u].len <= Maxsize
    BY ZenonT(60), <1>3 DEF Filed
  <2>2. v \in 0 .. Len(h)
    BY SMTT(60), <1>3, <2>1
  <2> QED
    BY ZenonT(60), <2>1, <2>2
<1>6. PICK L \in 0 .. Maxsize, M \in 0 .. Maxsize, S \in Nat :
        /\ L <= M /\ a.len <= M
        /\ LargestSince(v) = L /\ Since(v) = S
        /\ LargestSince(v)' = M /\ Since(v)' = S + a.len
  <2>1. /\ Largest(h, v) \in 0 .. Maxsize
        /\ Largest(Append(h, a), v) \in 0 .. Maxsize
        /\ Largest(h, v) <= Largest(Append(h, a), v)
        /\ a.len <= Largest(Append(h, a), v)
        /\ Amount(h, After(h, v)) \in Nat
        /\ Amount(Append(h, a), After(Append(h, a), v))
             = Amount(h, After(h, v)) + a.len
    BY ZenonT(60), <1>4, <1>5, AfterGrows
  <2>2. LargestSince(v) = Largest(h, v) /\ Since(v) = Amount(h, After(h, v))
    BY ZenonT(60), <1>3 DEF LargestSince, Largest, Since, After
  <2>3. /\ LargestSince(v)' = Largest(Append(h, a), v)
        /\ Since(v)' = Amount(Append(h, a), After(Append(h, a), v))
    BY ZenonT(60), <1>3 DEF LargestSince, Largest, Since, After
  <2> QED
    BY ZenonT(60), <2>1, <2>2, <2>3
<1>7. PICK C \in Nat : C = Maxsize + 1
  BY SMTT(60), <1>4
<1>8. L \in Nat /\ M \in Nat /\ L <= M /\ a.len <= M /\ M < C
  BY SMTT(60), <1>4, <1>6, <1>7
<1>9. hist'[v] = hist[v] /\ hist[v].k \in Keys /\ hist[v].k # ins.k
  <2>1. hist'[v] = hist[v] /\ hist[v] \in Arrivals
    <3>1. Append(h, a)[v] = h[v] /\ h[v] \in Arrivals
      BY ZenonT(60), <1>5, AppendKeeps
    <3> QED
      BY ZenonT(60), <1>3, <3>1
  <2>2. Len(h) + 1 \in After(hist', v) /\ hist'[Len(h) + 1] = a
    <3>1. PICK n \in Nat : n = Len(h) /\ Len(hist') = n + 1 /\ hist'[n + 1] = a
      BY ZenonT(60), <1>3, AppendLast
    <3>2. v \in 1 .. n
      BY ZenonT(60), <1>5, <3>1
    <3>3. n + 1 \in v + 1 .. n + 1
      BY SMTT(60), <3>2
    <3> QED
      BY ZenonT(60), <3>1, <3>3 DEF After
  <2>3. hist'[Len(h) + 1].k # hist'[v].k
    BY ZenonT(60), <2>2 DEF Newest
  <2> QED
    BY <1>1, <2>1, <2>2, <2>3, ArrivalLen
<1>10. CASE Old(v)
  <2>1. S > (Ndb - 1) * (C - L)
    BY SMTT(60), <1>4, <1>8, <1>6, <1>7, <1>10 DEF Old
  <2>2. Ndb - 1 \in Nat /\ a.len \in Nat \ {0}
    BY SMTT(60), <1>1, <1>4
  <2>3. S + a.len > (Ndb - 1) * (C - M)
    BY ZenonT(60), <1>8, <2>1, <2>2, OneMore
  <2>4. Old(v)'
    BY SMTT(60), <1>4, <1>8, <1>6, <1>7, <2>3 DEF Old
  <2> QED
    BY <2>4
<1>11. ASSUME NEW d \in Dbs, KeptIn(d, v)
       PROVE  Old(v)' \/ KeptIn(d, v)'
  <2>1. PICK m \in 0 .. Ndb - 1 : m = Behind(d)
    BY <1>4, BehindNat
  <2>2. db[d][hist[v].k] = v /\ (m > 0 => S >= (m - 1) * (C - L) + sz)
    BY SMTT(60), <1>4, <1>8, <1>3, <1>6, <1>7, <1>11, <2>1 DEF KeptIn
  <2>3. a.len \in Nat \ {0} /\ (m > 0 => m - 1 \in Nat)
    BY SMTT(60), <1>1, <1>4
  <2>4. CASE Fits(ins.len)
    <3>1. size' = sz + a.len
      BY <1>1, <1>3, <1>4, <2>4, FitsMeans DEF Base
    <3>2. w = wrdb /\ room = db[wrdb]
      BY <1>2, <2>4
    <3>3. Behind(d)' = m
      BY <1>2, <2>1, <3>2 DEF Behind
    <3>4. db'[d][hist[v].k] = v
      BY ZenonT(60), <1>2, <1>4, <1>9, <2>2, <3>2
    <3>5. ASSUME m > 0
          PROVE  S + a.len >= (m - 1) * (C - M) + (sz + a.len)
      BY ZenonT(60), <1>8, <2>2, <2>3, <3>5, OneMore
    <3>6. KeptIn(d, v)'
      <4>1. ASSUME m > 0
            PROVE  S + a.len >= (m - 1) * (Maxsize + 1 - M) + (sz + a.len)
        BY SMTT(60), <1>4, <1>7, <1>8, <2>3, <3>5, <4>1
      <4>2. Behind(d)' > 0 =>
              Since(v)' >= (Behind(d)' - 1) * (Maxsize + 1 - LargestSince(v)') + size'
        BY ZenonT(60), <1>6, <3>1, <3>3, <4>1
      <4> QED
        BY ZenonT(60), <1>9, <3>4, <4>2 DEF KeptIn
    <3> QED
      BY <3>6
  <2>5. CASE ~Fits(ins.len)
    <3>1. size' = a.len /\ sz + a.len >= C
      BY SMTT(60), <1>1, <1>3, <1>4, <1>7, <2>5, FitsMeans DEF Base
    <3>2. w = NextDb(wrdb)
      BY <1>2, <2>5
    <3>3. S + a.len >= m * (C - M) + a.len
      <4>1. CASE m = 0
        <5>1. m * (C - M) = 0
          BY SMTT(60), <1>8, <4>1
        <5> QED
          BY SMTT(60), <1>6, <2>3, <5>1
      <4>2. CASE m > 0
        <5>1. S + a.len >= ((m - 1) + 1) * (C - M) + a.len
          BY ZenonT(60), <1>8, <2>2, <2>3, <3>1, <4>2, OneMore
        <5>2. (m - 1) + 1 = m
          BY SMTT(60)
        <5> QED
          BY ZenonT(60), <5>1, <5>2
      <4> QED
        BY SMTT(60), <4>1, <4>2
    <3>4. CASE d = w
      <4>1. m = Ndb - 1
        BY <1>4, <2>1, <3>2, <3>4, NextFarthest
      <4>2. PICK x \in Int : x = m * (C - M)
        BY SMTT(60), <1>8
      <4>3. S + a.len > m * (C - M)
        BY SMTT(60), <1>6, <2>3, <3>3, <4>2
      <4>4. Old(v)'
        BY SMTT(60), <1>4, <1>8, <2>3, <1>6, <1>7, <4>1, <4>3 DEF Old
      <4> QED
        BY <4>4
    <3>5. CASE d # w
      <4>1. Behind(d)' = m + 1
        <5>1. Behind(d)' = IF d = wrdb' THEN 0 ELSE Behind(d) + 1
          BY <1>2, <1>4, <3>2, BehindNext
        <5> QED
          BY <1>2, <2>1, <3>5, <5>1
      <4>2. db'[d][hist[v].k] = v
        BY ZenonT(60), <1>2, <1>4, <2>2, <3>5
      <4>3. (m + 1) - 1 = m
        BY SMTT(60)
      <4>4. KeptIn(d, v)'
        <5>1. S + a.len >= m * (Maxsize + 1 - M) + a.len
          <6>1. C - M = Maxsize + 1 - M
            BY SMTT(60), <1>4, <1>7, <1>8
          <6> QED
            BY ZenonT(60), <3>3, <6>1
        <5>2. Since(v)' >= (Behind(d)' - 1) * (Maxsize + 1 - LargestSince(v)') + size'
          BY ZenonT(60), <1>6, <3>1, <4>1, <4>3, <5>1
        <5> QED
          BY ZenonT(60), <1>9, <4>2, <5>2 DEF KeptIn
      <4> QED
        BY <4>4
    <3> QED
      BY <3>4, <3>5
  <2> QED
    BY <2>4, <2>5
<1> QED
  BY ZenonT(60), <1>10, <1>11

\* What has just been written is in the current database.
LEMMA DoneKeepsNew ==
  ASSUME Types, ins.st # "idle", Done, NEW v, v = Len(hist) + 1
  PROVE  \E d \in Dbs : KeptIn(d, v)'
<1>1. PICK a \in Arrivals : /\ a = [k |-> ins.k, len |-> ins.len]
                            /\ a.k = ins.k /\ a.len = ins.len
                            /\ ins.k \in Keys /\ ins.len \in Nat \ {0}
  BY Inserted
<1>2. PICK w \in Dbs, room \in [Keys -> Versions \cup {None}] :
        /\ w = (IF Fits(ins.len) THEN wrdb ELSE NextDb(wrdb))
        /\ room = (IF Fits(ins.len) THEN db[w] ELSE Empty)
        /\ db' = [db EXCEPT ![w] = [room EXCEPT ![ins.k] = Len(hist) + 1]]
        /\ wrdb' = w
  BY ZenonT(60) DEF Done
<1>3. hist \in Seq(Arrivals) /\ hist' = Append(hist, a)
  BY <1>1 DEF Done, Types, TypeOK
<1>4. hist'[v] = a
  BY SMTT(60), <1>3
<1>5. db'[w][ins.k] = v
  <2>1. db \in [Dbs -> [Keys -> Versions \cup {None}]]
    BY DEF Types, TypeOK
  <2> QED
    BY <1>1, <1>2, <2>1
<1>6. ~(Behind(w)' > 0)
  <2>1. Behind(w)' = 0
    BY SMTT(60), <1>2 DEF Behind, Dbs
  <2> QED
    BY SMTT(60), <2>1
<1>7. KeptIn(w, v)'
  BY ZenonT(60), <1>1, <1>4, <1>5, <1>6 DEF KeptIn
<1> QED
  BY ZenonT(60), <1>7

\* While nothing goes wrong a write keeps the invariant.
LEMMA DoneRetains ==
  ASSUME Types, Filed, RetainInv, ins.st # "idle", Done,
         ins'.st \in {"idle", "insert"}
  PROVE  RetainInv'
<1> SUFFICES ASSUME Calm, NEW v \in 1 .. Len(hist'), Newest(v)'
             PROVE  Old(v)' \/ \E d \in Dbs : KeptIn(d, v)'
  BY ZenonT(60) DEF RetainInv, Calm, Done
<1>1. hist \in Seq(Arrivals)
  BY DEF Types, TypeOK
<1>2. hist' = Append(hist, [k |-> ins.k, len |-> ins.len])
  BY DEF Done
<1>3. /\ v \in 1 .. Len(hist) \/ v = Len(hist) + 1
      /\ After(hist, v) \subseteq After(hist', v)
      /\ \A u \in 1 .. Len(hist) : hist'[u] = hist[u]
  BY SMTT(60), <1>1, <1>2 DEF After
<1>4. CASE v = Len(hist) + 1
  BY <1>4, DoneKeepsNew
<1>5. CASE v \in 1 .. Len(hist)
  <2>1. After(hist, v) \subseteq 1 .. Len(hist)
    BY SMTT(60), <1>1, <1>5 DEF After
  <2>2. Newest(v)
    BY ZenonT(60), <1>3, <1>5, <2>1 DEF Newest
  <2>3. Old(v) \/ \E d \in Dbs : KeptIn(d, v)
    BY ZenonT(60), <1>5, <2>2 DEF RetainInv
  <2> QED
    BY ZenonT(60), <1>5, <2>3, DoneKeeps
<1> QED
  BY <1>3, <1>4, <1>5

\* What does not touch the ring keeps the invariant.
LEMMA RetainKept ==
  ASSUME RetainInv, UNCHANGED ringVars, trouble \subseteq trouble',
         ins'.st \in {ins.st, "insert"}
  PROVE  RetainInv'
<1> SUFFICES ASSUME Calm', NEW v \in 1 .. Len(hist)', Newest(v)'
             PROVE  Old(v)' \/ \E d \in Dbs : KeptIn(d, v)'
  <2>1. Calm' => Calm
    BY ZenonT(60) DEF Calm
  <2> QED
    BY ZenonT(60), <2>1 DEF RetainInv
<1>1. hist' = hist /\ db' = db /\ wrdb' = wrdb /\ size' = size /\ Calm
  BY ZenonT(60) DEF ringVars, Calm
<1>2. Newest(v) /\ v \in 1 .. Len(hist)
  BY ZenonT(60), <1>1 DEF Newest, After
<1>3. Old(v) \/ \E d \in Dbs : KeptIn(d, v)
  BY ZenonT(60), <1>1, <1>2 DEF RetainInv
<1>4. Since(v)' = Since(v) /\ LargestSince(v)' = LargestSince(v)
  BY ZenonT(60), <1>1 DEF Since, LargestSince
<1>5. CASE Old(v)
  BY <1>4, <1>5 DEF Old
<1>6. ASSUME NEW d \in Dbs, KeptIn(d, v) PROVE KeptIn(d, v)'
  <2>1. Behind(d)' = Behind(d)
    BY ZenonT(60), <1>1 DEF Behind
  <2> QED
    BY <1>1, <1>4, <1>6, <2>1 DEF KeptIn
<1> QED
  BY ZenonT(60), <1>3, <1>5, <1>6

\* At first there is nothing to keep.
LEMMA RetainInit == Init => RetainInv
<1> SUFFICES ASSUME Init PROVE RetainInv
  OBVIOUS
<1>1. ins.st = "idle" /\ 1 .. Len(hist) = {}
  BY SMTT(60) DEF Init, NoInsert
<1> QED
  BY ZenonT(60), <1>1 DEF RetainInv

\* Every step keeps the invariant.
LEMMA RetainNext == Types /\ Filed /\ RetainInv /\ [Next]_vars => RetainInv'
<1> SUFFICES ASSUME Types, Filed, RetainInv, [Next]_vars PROVE RetainInv'
  OBVIOUS
<1>1. CASE Insert \/ ReadersStep
  <2>1. UNCHANGED ringVars /\ trouble \subseteq trouble'
    BY <1>1, ReadersApart DEF Insert
  <2>2. ins'.st \in {ins.st, "insert"}
    BY SMTT(60), <1>1, ReadersApart DEF Insert
  <2> QED
    BY <2>1, <2>2, RetainKept
<1>2. CASE mspoolbdb_insert
  <2>1. PICK status \in Status :
          /\ spoolbdbv_write2(status) /\ ins.st # "idle"
          /\ IF status # "ENOMEM" \/ ins.st = "last" THEN ins' = NoInsert
             ELSE Then(IF ins.st = "insert" THEN "oldest" ELSE "all")
    BY <1>2 DEF mspoolbdb_insert
  <2>2. CASE status = "ok" /\ Done
    <3>1. ins'.st = "idle"
      BY SMTT(60), <2>1, <2>2 DEF NoInsert
    <3> QED
      BY <2>1, <2>2, <3>1, DoneRetains
  <2>3. CASE trouble' \in {trouble \cup {x} : x \in {"put", "truncate", "ENOMEM"}}
    <3>1. ~Calm'
      BY ZenonT(60), <2>3 DEF Calm
    <3> QED
      BY ZenonT(60), <3>1 DEF RetainInv
  <2> QED
    BY <2>1, <2>2, <2>3, WriteCases
<1>3. CASE mspoolbdb_truncate_oldest \/ mspoolbdb_truncate
  <2>1. PICK status \in Status :
          spoolbdbv_truncate_oldest(status) \/ spoolbdbv_truncate(status)
    BY <1>3 DEF mspoolbdb_truncate_oldest, mspoolbdb_truncate
  <2>2. trouble \subseteq trouble'
    BY <2>1, TruncateCases
  <2>3. ins.st \notin {"idle", "insert"}
    BY <1>3 DEF mspoolbdb_truncate_oldest, mspoolbdb_truncate
  <2>4. ~Calm'
    BY ZenonT(60), <2>2, <2>3 DEF RetainInv, Calm
  <2> QED
    BY ZenonT(60), <2>4 DEF RetainInv
<1> QED
  BY <1>1, <1>2, <1>3 DEF Next, nbsp_mspoolbdb_insert, ReadersStep

\* The newest product of a key that is in the ring is the one that is read.
LEMMA RetainImplies == Types /\ Filed /\ NewestFirst /\ RetainInv => Retained
<1> SUFFICES ASSUME Types, Filed, NewestFirst, RetainInv, Calm,
                    NEW v \in DOMAIN hist,
                    ~ \E u \in v + 1 .. Len(hist) : hist[u].k = hist[v].k,
                    ~ Old(v)
             PROVE  spoolbdbv_read(hist[v].k) = v
  BY ZenonT(60) DEF Retained, Calm, Old
<1>1. /\ hist \in Seq(Arrivals) /\ v \in 1 .. Len(hist) /\ Len(hist) \in Nat
      /\ db \in [Dbs -> [Keys -> Versions \cup {None}]]
  BY SMTT(60) DEF Types, TypeOK
<1>2. Newest(v)
  BY ZenonT(60) DEF Newest, After
<1>3. PICK d \in Dbs : db[d][hist[v].k] = v
  BY ZenonT(60), <1>1, <1>2 DEF RetainInv, KeptIn
<1>4. PICK k \in Keys : k = hist[v].k
  BY SMTT(60), <1>1, ArrivalLen
<1>5. d \in Holding(k) /\ v \in Present(k)
  BY SMTT(60), <1>1, <1>3, <1>4 DEF Holding, Present, None
<1>6. "truncate" \notin trouble
  BY DEF Calm
<1>7. spoolbdbv_read(k) = Max(Present(k))
  BY ZenonT(60), <1>5, <1>6 DEF NewestFirst
<1>8. ASSUME NEW x \in Present(k) PROVE x \in 0 .. v
  <2>1. x \in 1 .. Len(hist) /\ hist[x].k = k
    BY SMTT(60), <1>8 DEF Present, Holding, Filed, Held
  <2>2. x \notin v + 1 .. Len(hist)
    BY ZenonT(60), <1>4, <2>1
  <2> QED
    BY SMTT(60), <1>1, <2>1, <2>2
<1>9. Max(Present(k)) \in Present(k) /\ \A y \in Present(k) : y <= Max(Present(k))
  <2>1. Present(k) \in SUBSET (0 .. v) /\ v \in Nat
    BY SMTT(60), <1>1, <1>8
  <2> QED
    BY ZenonT(60), <1>5, <2>1, MaxOf
<1>10. Max(Present(k)) \in 0 .. v /\ v <= Max(Present(k))
  BY ZenonT(60), <1>5, <1>8, <1>9
<1>11. Max(Present(k)) = v
  BY SMTT(60), <1>1, <1>10
<1> QED
  BY ZenonT(60), <1>4, <1>7, <1>11

(***************************************************************************)
(* The newest product of a key can be read until Ndb - 1 databases have    *)
(* been filled after it, each to within one product of maxsize, for any    *)
(* number of databases and any sizes of the products.  The argument counts *)
(* the databases that were filled since: one more each time that           *)
(* spoolbdbv_write2() goes on to the next one.                             *)
(***************************************************************************)
THEOREM ProductsRetained == Spec => []Retained
<1>1. SlotsIInv => Types
  BY DEF SlotsIInv, SlotInv
<1> QED
  BY <1>1, SlotsInit, SlotsNext, RingInit, RingNext, RingImplies, FitInit, FitNext,
     RetainInit, RetainNext, RetainImplies, PTL DEF Spec
=============================================================================
