-------------------------- MODULE ProcessorProofs ---------------------------
(***************************************************************************)
(* Proofs about the processor thread: the db of received products never    *)
(* costs a product nor, while it works, lets one in twice; and the array   *)
(* of the spool deletes no file before its turn and forgets none.          *)
(***************************************************************************)
EXTENDS Processor, FiniteSetTheorems, SequenceTheorems, TLAPS

\* A leaf is for Zenon unless it names SMT, and may take a minute.
USE ZenonT(60), SMTT(60)

\* An element whose original, if it is a retransmission, has its contents.
Chain == {e \in Element : e.orig # 0 => Content[e.orig] = Content[e.seq]}

\* What is recorded as received is of contents that were spooled.
Truthful(f) == \A s \in DOMAIN f : f[s] = 0 => Content[s] \in spooled

\* Each number in the ghost is where a read finds it: in the current db, or
\* in the old one and not hidden by a record of the current one.
Found(s) ==
  \/ kept[s] = 0 /\ s \in DOMAIN rtx_c /\ rtx_c[s] = 0
  \/ /\ kept[s] = 1 /\ s \notin DOMAIN rtx_c
     /\ s \in DOMAIN rtx_o /\ rtx_o[s] = 0

DbInv ==
  /\ Truthful(rtx_c) /\ Truthful(rtx_o)
  /\ \A s \in DOMAIN kept : RtxEnabled
  /\ dbfails \in BOOLEAN
  /\ ~dbfails => \A s \in DOMAIN kept : Found(s)

InputInv ==
  /\ todo \in Seq(Chain) /\ taken \in Seq(Chain)
  /\ at = "insert" => pce \in Chain /\ Content[pce.seq] \in spooled

RtxInv == InputInv /\ DbInv /\ IgnoredOnlyIfSpooled

-----------------------------------------------------------------------------
\* What the readers send is in the chain.
LEMMA ArrivalsChain == Arrivals \subseteq Seq(Chain)
<1> SUFFICES ASSUME NEW a \in Arrivals PROVE a \in Seq(Chain)
  OBVIOUS
<1>1. a \in Seq(Element)
  BY ElementsAssumption
<1>2. ASSUME NEW i \in 1..Len(a) PROVE a[i] \in Chain
  BY <1>1, <1>2, ElementsAssumption, ElementOfSeq DEF Chain
<1> QED
  BY <1>1, <1>2, SeqDef, LenProperties, SMT

\* The fields of an element.
LEMMA ChainFields ==
  ASSUME NEW e \in Chain
  PROVE  /\ e.seq \in Seqs /\ e.orig \in Seqs \cup {0}
         /\ e.seq \in Nat /\ e.seq # 0
         /\ e.f_complete \in {0, 1} /\ e.rtxdb_flag \in {0, 1}
         /\ e.orig # 0 => Content[e.orig] = Content[e.seq]
<1>1. e \in Element
  BY DEF Chain
<1>2. e.seq \in Seqs
  BY <1>1 DEF Element
<1>3. e.orig \in Seqs \cup {0}
  BY <1>1 DEF Element
<1>4. e.f_complete \in {0, 1} /\ e.rtxdb_flag \in {0, 1}
  BY <1>1 DEF Element
<1>5. e.seq \in Nat /\ e.seq # 0
  BY ZenonT(60), <1>2, ElementsAssumption
<1> QED
  BY <1>2, <1>3, <1>4, <1>5 DEF Chain

\* The head of the queue and what is left when it is taken.
LEMMA TakeNext ==
  ASSUME InputInv, eopen_pctl_outputpce
  PROVE  next \in Chain /\ todo' \in Seq(Chain) /\ taken' \in Seq(Chain)
<1> USE DEF InputInv, eopen_pctl_outputpce, next
<1>1. Head(todo) \in Chain /\ Tail(todo) \in Seq(Chain)
  BY HeadTailProperties
<1>2. Append(taken, Head(todo)) \in Seq(Chain)
  BY <1>1, AppendProperties
<1> QED
  BY <1>1, <1>2

\* A record of a product that was spooled, or of one that was not received.
LEMMA PutInv ==
  ASSUME DbInv, NEW s, NEW v \in {0, 1}, nbsp_rtxdb_put(s, v),
         v = 0 => Content[s] \in spooled,
         spooled' = spooled, dbfails' = dbfails
  PROVE  DbInv'
<1>1. PICK done \in DbOutcomes :
        IF RtxEnabled /\ done
        THEN /\ rtx_c' = Put(rtx_c, s, v)
             /\ kept' = IF v = 0 THEN Put(kept, s, 0)
                        ELSE [x \in DOMAIN kept \ {s} |-> kept[x]]
        ELSE UNCHANGED <<rtx_c, kept>>
  BY DEF nbsp_rtxdb_put
<1>2. rtx_o' = rtx_o
  BY DEF nbsp_rtxdb_put
<1>3. CASE ~(RtxEnabled /\ done)
  BY <1>1, <1>2, <1>3 DEF DbInv, Truthful, Found
<1>4. CASE RtxEnabled /\ done
  <2>1. /\ DOMAIN rtx_c' = DOMAIN rtx_c \cup {s}
        /\ \A x \in DOMAIN rtx_c' : rtx_c'[x] = IF x = s THEN v ELSE rtx_c[x]
    BY <1>1, <1>4 DEF Put
  <2>2. Truthful(rtx_c)' /\ Truthful(rtx_o)'
    BY <2>1, <1>2 DEF DbInv, Truthful
  <2>3. ASSUME ~dbfails, NEW x \in DOMAIN kept' PROVE Found(x)'
    <3>1. CASE v = 0
      <4>1. /\ DOMAIN kept' = DOMAIN kept \cup {s}
            /\ kept'[x] = IF x = s THEN 0 ELSE kept[x]
        BY <1>1, <1>4, <3>1, <2>3 DEF Put
      <4> QED
        BY <4>1, <2>1, <1>2, <3>1, <2>3 DEF DbInv, Found
    <3>2. CASE v = 1
      <4>1. x \in DOMAIN kept /\ x # s /\ kept'[x] = kept[x]
        BY SMTT(60), <1>1, <1>4, <3>2, <2>3
      <4> QED
        BY <4>1, <2>1, <1>2, <2>3 DEF DbInv, Found
    <3> QED
      BY <3>1, <3>2
  <2> QED
    BY <2>2, <2>3, <1>4 DEF DbInv
<1> QED
  BY <1>3, <1>4

\* An answer of "received" comes from a record.
LEMMA ReceivedRecord ==
  ASSUME DbInv, NEW s, 0 \in e_nbsp_rtxdb_get_fstatus(s)
  PROVE  Content[s] \in spooled
<1>1. PICK c \in DbOutcomes, o \in DbOutcomes : nbsp_rtxdb_get(s, c, o) = 0
  BY SMTT(60) DEF e_nbsp_rtxdb_get_fstatus
<1> QED
  BY SMTT(60), <1>1 DEF nbsp_rtxdb_get, DbInv, Truthful

\* While Berkeley DB works, a number in the ghost is answered "received".
LEMMA KeptAnswered ==
  ASSUME DbInv, ~dbfails, NEW s \in DOMAIN kept,
         NEW a \in e_nbsp_rtxdb_get_fstatus(s)
  PROVE  a = 0
<1>1. RtxEnabled /\ Found(s)
  BY DEF DbInv
<1>2. PICK c \in DbOutcomes, o \in DbOutcomes : a = nbsp_rtxdb_get(s, c, o)
  BY SMTT(60), <1>1 DEF e_nbsp_rtxdb_get_fstatus
<1>3. c = TRUE /\ o = TRUE
  BY DEF DbOutcomes
<1> QED
  BY <1>1, <1>2, <1>3 DEF nbsp_rtxdb_get, Found

-----------------------------------------------------------------------------
\* The empty db has no records.
LEMMA EmptyDb == DOMAIN <<>> = {}
  BY SMTT(60)

\* RtxInv at the start.
LEMMA RtxInit == Init => RtxInv
<1> SUFFICES ASSUME Init PROVE RtxInv
  OBVIOUS
<1>1. InputInv
  <2>1. todo \in Seq(Chain)
    BY ArrivalsChain DEF Init
  <2> QED
    BY SMTT(60), <2>1 DEF Init, InputInv
<1>2. DbInv
  BY ZenonT(60), EmptyDb DEF Init, DbInv, Truthful
<1> QED
  BY <1>1, <1>2 DEF RtxInv, Init, IgnoredOnlyIfSpooled

\* After a queue comes another one, or the loop.
LEMMA QueuesPlaces ==
  /\ "insert" \notin QueueNames
  /\ Queues[1] \in QueueNames
  /\ \A q \in QueueNames : AfterQueue(q) \in QueueNames \cup {"loop"}
<1>1. "insert" \notin QueueNames /\ Len(Queues) \in Nat \ {0}
  BY QueuesAssumption DEF QueueNames
<1>2. ASSUME NEW q \in QueueNames PROVE AfterQueue(q) \in QueueNames \cup {"loop"}
  <2> DEFINE i == CHOOSE j \in 1..Len(Queues) : Queues[j] = q
  <2>1. i \in 1..Len(Queues)
    BY DEF QueueNames
  <2>2. AfterQueue(q) = IF i = Len(Queues) THEN "loop" ELSE Queues[i + 1]
    BY DEF AfterQueue
  <2> HIDE DEF i
  <2>3. i # Len(Queues) => i + 1 \in 1..Len(Queues)
    BY SMTT(60), <2>1, <1>1
  <2> QED
    BY <2>2, <2>3 DEF QueueNames
<1> QED
  BY SMTT(60), <1>1, <1>2 DEF QueueNames

\* Every step keeps RtxInv.
LEMMA RtxNext == RtxInv /\ [Next]_vars => RtxInv'
<1> SUFFICES ASSUME RtxInv, [Next]_vars PROVE RtxInv'
  OBVIOUS
<1> USE DEF RtxInv
<1> USE DEF input, db, flags, disk, array, consumers, ghosts
<1>1. CASE Incomplete
  <2>1. next \in Chain /\ todo' \in Seq(Chain) /\ taken' \in Seq(Chain)
    BY <1>1, TakeNext DEF Incomplete
  <2>2. DbInv'
    <3>1. CASE next.rtxdb_flag = 1
      BY SMTT(60), <1>1, <3>1, PutInv DEF Incomplete
    <3>2. CASE next.rtxdb_flag # 1
      BY <1>1, <3>2 DEF Incomplete, DbInv, Truthful, Found
    <3> QED
      BY <3>1, <3>2
  <2> QED
    BY <1>1, <2>1, <2>2 DEF Incomplete, InputInv, IgnoredOnlyIfSpooled
<1>2. CASE Received
  <2>1. next \in Chain /\ todo' \in Seq(Chain) /\ taken' \in Seq(Chain)
    BY <1>2, TakeNext DEF Received
  <2>2. next.rtxdb_flag = 1 /\ 0 \in e_nbsp_rtxdb_get_fstatus(next.orig)
    BY SMTT(60), <1>2 DEF Received, orig_prod_status
  <2>3. Content[next.seq] \in spooled
    BY <1>2, <2>1, <2>2, ChainFields, ReceivedRecord DEF Received
  <2>4. DbInv'
    BY <1>2, <2>2, <2>3, PutInv DEF Received
  <2> QED
    BY <1>2, <2>1, <2>3, <2>4 DEF Received, InputInv, IgnoredOnlyIfSpooled
<1>3. CASE NotWanted
  <2>1. todo' \in Seq(Chain) /\ taken' \in Seq(Chain)
    BY <1>3, TakeNext DEF NotWanted
  <2> QED
    BY <1>3, <2>1
    DEF NotWanted, InputInv, DbInv, Truthful, Found, IgnoredOnlyIfSpooled
<1>4. CASE pce_spool_product
  <2>1. next \in Chain /\ todo' \in Seq(Chain) /\ taken' \in Seq(Chain)
    BY <1>4, TakeNext DEF pce_spool_product
  <2>2. \/ spooled' = spooled \cup {Content[next.seq]} /\ pce' = next
        \/ spooled' = spooled /\ at' = "loop"
    BY <1>4 DEF pce_spool_product
  <2>3. InputInv'
    BY <2>1, <2>2 DEF InputInv
  <2>4. DbInv'
    BY <1>4, <2>2 DEF pce_spool_product, DbInv, Truthful, Found
  <2> QED
    BY <1>4, <2>2, <2>3, <2>4 DEF pce_spool_product, IgnoredOnlyIfSpooled
<1>5. CASE Insert
  <2>1. DbInv'
    <3>1. CASE pce.rtxdb_flag = 1
      BY <1>5, <3>1, PutInv DEF Insert, InputInv
    <3>2. CASE pce.rtxdb_flag # 1
      BY <1>5, <3>2 DEF Insert, DbInv, Truthful, Found
    <3> QED
      BY <3>1, <3>2
  <2>2. at' # "insert"
    BY <1>5, QueuesPlaces DEF Insert
  <2> QED
    BY <1>5, <2>1, <2>2 DEF Insert, InputInv, IgnoredOnlyIfSpooled
<1>6. CASE nbsp_periodic
  <2>1. \/ UNCHANGED db
        \/ \E done \in DbOutcomes : /\ nbsp_rtxdb_truncate(done)
                                    /\ RtxEnabled
                                    /\ kept' = [s \in {x \in DOMAIN kept : kept[x] = 0} |-> 1]
    BY <1>6 DEF nbsp_periodic
  <2>2. DbInv'
    <3>1. CASE UNCHANGED db
      BY <1>6, <3>1 DEF nbsp_periodic, DbInv, Truthful, Found
    <3>2. ASSUME NEW done \in DbOutcomes, nbsp_rtxdb_truncate(done), RtxEnabled,
                 kept' = [s \in {x \in DOMAIN kept : kept[x] = 0} |-> 1]
          PROVE  DbInv'
      <4>1. Truthful(rtx_c)' /\ Truthful(rtx_o)'
        BY SMTT(60), <1>6, <3>2, EmptyDb
        DEF nbsp_periodic, nbsp_rtxdb_truncate, DbInv, Truthful
      <4>2. dbfails' = dbfails
        BY <1>6 DEF nbsp_periodic
      <4>3. ASSUME ~dbfails, NEW s \in DOMAIN kept' PROVE Found(s)'
        <5>1. done = TRUE
          BY <4>3 DEF DbOutcomes
        <5>2. rtx_o' = rtx_c /\ rtx_c' = <<>>
          BY <5>1, <3>2 DEF nbsp_rtxdb_truncate
        <5>3. s \in DOMAIN kept /\ kept[s] = 0 /\ kept'[s] = 1
          BY <3>2, <4>3
        <5> QED
          BY SMTT(60), <5>2, <5>3, <4>3, EmptyDb DEF DbInv, Found
      <4> QED
        BY <4>1, <4>2, <4>3, <3>2 DEF DbInv
    <3> QED
      BY ZenonT(60), <2>1, <3>1, <3>2
  <2> QED
    BY <1>6, <2>2 DEF nbsp_periodic, InputInv, IgnoredOnlyIfSpooled
<1>7. CASE Restart \/ Crash
  <2>1. DbInv'
    BY ZenonT(60), <1>7, EmptyDb DEF Restart, Crash, MemoryLost, DbInv, Truthful
  <2>2. todo' \in Seq(Chain) /\ taken' \in Seq(Chain)
    <3>1. taken \o todo \in Seq(Chain) /\ <<>> \in Seq(Chain)
      BY ConcatProperties, EmptySeq DEF InputInv
    <3> QED
      BY ZenonT(60), <1>7, <3>1 DEF Restart, Crash, InputInv
  <2>3. at' = "loop"
    BY <1>7 DEF Restart, Crash
  <2> QED
    BY <1>7, <2>1, <2>2, <2>3 DEF Restart, Crash, InputInv, IgnoredOnlyIfSpooled
<1>8. ASSUME NEW q \in QueueNames, e_export_product(q) PROVE RtxInv'
  <2>1. at' # "insert"
    BY <1>8, QueuesPlaces DEF e_export_product
  <2> QED
    BY <1>8, <2>1
    DEF e_export_product, InputInv, DbInv, Truthful, Found, IgnoredOnlyIfSpooled
<1>9. CASE \/ NoElement \/ set_rtxdb_truncate_flag \/ DbFail \/ UNCHANGED vars
           \/ \E q \in QueueNames : nbspqt_rcv(q) \/ Consume(q)
  BY ZenonT(60), <1>9
  DEF NoElement, set_rtxdb_truncate_flag, DbFail, nbspqt_rcv, Consume, vars,
      InputInv, DbInv, Truthful, Found, IgnoredOnlyIfSpooled
<1> QED
  BY <1>1, <1>2, <1>3, <1>4, <1>5, <1>6, <1>7, <1>8, <1>9 DEF Next

(***************************************************************************)
(* The db of received products, whose truncation is asked for at any time  *)
(* and whose calls may fail, costs no product: what process_pctl_element() *)
(* ignores has had its contents spooled.  The argument is that a record is *)
(* written only after the product was saved or its original was found on   *)
(* record, and that a chain of retransmissions keeps its contents.         *)
(***************************************************************************)
THEOREM NoneLostToRtxdb == Spec => []IgnoredOnlyIfSpooled
<1>1. RtxInv => IgnoredOnlyIfSpooled
  BY DEF RtxInv
<1> QED
  BY <1>1, RtxInit, RtxNext, PTL DEF Spec

\* pce_spool_product() saves no retransmission whose original is on record.
LEMMA NotWantedTwice ==
  RtxInv /\ pce_spool_product /\ next.orig # 0 /\ next.rtxdb_flag = 1 /\ ~dbfails
    => next.orig \notin DOMAIN kept
<1> SUFFICES ASSUME RtxInv, pce_spool_product, next.orig # 0,
                    next.rtxdb_flag = 1, ~dbfails, next.orig \in DOMAIN kept
             PROVE  FALSE
  OBVIOUS
<1>1. orig_prod_status = e_nbsp_rtxdb_get_fstatus(next.orig)
  BY DEF orig_prod_status
<1>2. PICK s \in orig_prod_status : s \in {1, -1, -2}
  BY DEF pce_spool_product, Wanted
<1> QED
  BY SMTT(60), <1>1, <1>2, KeptAnswered DEF RtxInv

(***************************************************************************)
(* While Berkeley DB works, a retransmission of a product on record since  *)
(* the last truncation but one is not spooled again: whatever the chain of *)
(* retransmissions and whenever the main thread asks for truncations.      *)
(***************************************************************************)
THEOREM NoneSpooledTwice == Spec => NotSpooledTwice
<1>1. RtxInv =>
        [pce_spool_product /\ next.orig # 0 /\ next.rtxdb_flag = 1 /\ ~dbfails
           => next.orig \notin DOMAIN kept]_vars
  BY NotWantedTwice
<1> QED
  BY <1>1, RtxInit, RtxNext, PTL DEF Spec, NotSpooledTwice

-----------------------------------------------------------------------------
(***************************************************************************)
(* The array of the spool, in memory and in its file.                      *)
(***************************************************************************)
IsArray(n, k, s) ==
  /\ n \in SlotsSet /\ k \in [0 .. n - 1 -> Nat]
  /\ s \in Nat /\ (s = 0 \/ s < n)

ArrayInv ==
  /\ IsArray(numslots, keys, slot)
  /\ IsArray(saved.numslots, saved.keys, saved.slot)
  /\ saved.numslots <= numslots

KeysOf(k) == {k[i] : i \in DOMAIN k}

\* Only a file without a slot through a fault is in no slot, but for the one
\* that is about to be entered.
Tracked ==
  numslots > 0 => spool \ orphans \subseteq
                    KeysOf(keys) \cup (IF at = "insert" THEN {pce.seq} ELSE {})

\* What reading the file makes of the array.
LEMMA ReadArray ==
  ASSUME NEW slots \in SlotsSet, NEW file,
         IsArray(file.numslots, file.keys, file.slot), spooldb_read(slots, file)
  PROVE  /\ IsArray(slots, keys', slot')
         /\ file.numslots <= slots /\ slot' = file.slot
         /\ \A i \in 0 .. slots - 1 :
              keys'[i] = IF i < file.numslots THEN file.keys[i] ELSE 0
         /\ KeysOf(file.keys) \subseteq KeysOf(keys')
         /\ KeysOf(keys') \subseteq KeysOf(file.keys) \cup {0}
<1>1. slots \in Nat /\ file.numslots \in Nat
  BY ZenonT(60), LimitsAssumption DEF IsArray
<1>2. /\ file.numslots <= slots /\ slot' = file.slot
      /\ keys' = [i \in 0 .. slots - 1 |->
                    IF i < file.numslots THEN file.keys[i] ELSE 0]
  BY DEF spooldb_read, None
<1>3. \A i \in 0 .. slots - 1 : i < file.numslots => i \in 0 .. file.numslots - 1
  BY SMTT(60), <1>1
<1>4. \A i \in 0 .. file.numslots - 1 : i \in 0 .. slots - 1 /\ i < file.numslots
  BY SMTT(60), <1>1, <1>2
<1>5. IsArray(slots, keys', slot')
  BY SMTT(60), <1>1, <1>2, <1>3 DEF IsArray
<1>6. DOMAIN keys' = 0 .. slots - 1 /\ DOMAIN file.keys = 0 .. file.numslots - 1
  BY <1>2 DEF IsArray
<1> QED
  BY <1>2, <1>3, <1>4, <1>5, <1>6 DEF KeysOf

\* What entering a product makes of the array.
LEMMA InsertArray ==
  ASSUME ArrayInv, numslots > 0, NEW key \in Nat, spooldb_insert(key)
  PROVE  /\ slot \in 0 .. numslots - 1
         /\ keys' = [keys EXCEPT ![slot] = key]
         /\ slot' = IF slot + 1 = numslots THEN 0 ELSE slot + 1
         /\ IsArray(numslots, keys', slot')
         /\ KeysOf(keys') \subseteq KeysOf(keys) \cup {key}
         /\ \A i \in 0 .. numslots - 1 :
              keys'[i] = IF i = slot THEN key ELSE keys[i]
<1>1. numslots \in Nat /\ slot \in 0 .. numslots - 1
  BY SMTT(60), LimitsAssumption DEF ArrayInv, IsArray
<1>2. /\ keys' = [keys EXCEPT ![slot] = key]
      /\ slot' = IF slot + 1 = numslots THEN 0 ELSE slot + 1
  BY DEF spooldb_insert
<1>3. keys \in [0 .. numslots - 1 -> Nat]
  BY DEF ArrayInv, IsArray
<1> QED
  BY SMTT(60), <1>1, <1>2, <1>3 DEF ArrayInv, IsArray, KeysOf

\* The array at the start.
LEMMA ArrayInit == Init => ArrayInv /\ Tracked
<1> SUFFICES ASSUME Init PROVE ArrayInv /\ Tracked
  OBVIOUS
<1>1. numslots \in SlotsSet /\ numslots \in Nat
  BY LimitsAssumption DEF Init
<1>2. IsArray(numslots, keys, slot)
  BY <1>1 DEF Init, IsArray, NoKeys, None
<1> QED
  BY SMTT(60), <1>1, <1>2 DEF Init, ArrayInv, Tracked, IsArray

\* The actions that leave the files and both arrays alone, and do not come to
\* the insertion.
Aside ==
  \/ nbsp_periodic \/ NoElement \/ Incomplete \/ Received \/ NotWanted
  \/ \E q \in QueueNames : e_export_product(q) \/ nbspqt_rcv(q) \/ Consume(q)
  \/ set_rtxdb_truncate_flag \/ DbFail \/ UNCHANGED vars

\* What such an action does to the variables the spool depends on.
LEMMA AsideSteps ==
  ASSUME Aside
  PROVE  /\ UNCHANGED <<disk, array, pce>>
         /\ at' = at \/ (at # "insert" /\ at' # "insert")
         /\ UNCHANGED input \/ eopen_pctl_outputpce
<1> USE DEF input, db, flags, disk, array, consumers, ghosts
<1>1. CASE \E q \in QueueNames : e_export_product(q)
  BY <1>1, QueuesPlaces DEF e_export_product
<1>2. CASE Incomplete \/ Received \/ NotWanted
  BY <1>2 DEF Incomplete, Received, NotWanted, eopen_pctl_outputpce
<1>3. CASE \/ nbsp_periodic \/ NoElement \/ set_rtxdb_truncate_flag \/ DbFail
           \/ UNCHANGED vars
           \/ \E q \in QueueNames : nbspqt_rcv(q) \/ Consume(q)
  BY <1>3
  DEF nbsp_periodic, NoElement, set_rtxdb_truncate_flag, DbFail, nbspqt_rcv,
      Consume, vars
<1> QED
  BY <1>1, <1>2, <1>3 DEF Aside

\* Every step keeps the arrays and what they track.
LEMMA ArrayNext ==
  ArrayInv /\ Tracked /\ InputInv /\ [Next]_vars => ArrayInv' /\ Tracked'
<1> SUFFICES ASSUME ArrayInv, Tracked, InputInv, [Next]_vars
             PROVE  ArrayInv' /\ Tracked'
  OBVIOUS
<1> USE DEF input, db, flags, disk, array, consumers, ghosts
<1>1. CASE Aside
  BY <1>1, AsideSteps DEF ArrayInv, IsArray, Tracked, KeysOf
<1>2. CASE pce_spool_product
  <2>1. UNCHANGED array /\ saved' = saved
    BY <1>2 DEF pce_spool_product
  <2>2. \/ /\ spool' = spool \cup {next.seq} /\ orphans' = orphans
           /\ at' = "insert" /\ pce' = next
        \/ spool' \ orphans' \subseteq spool \ orphans /\ at' = "loop"
    <3>1. PICK outcome \in SaveOutcomes :
            /\ spool' = IF outcome = "failed" THEN spool ELSE spool \cup {next.seq}
            /\ orphans' = IF outcome = "partial" THEN orphans \cup {next.seq}
                          ELSE orphans
            /\ IF outcome = "saved" THEN at' = "insert" /\ pce' = next
               ELSE at' = "loop"
      BY <1>2 DEF pce_spool_product
    <3>2. outcome \in {"saved", "failed", "partial"}
      BY LimitsAssumption
    <3> QED
      BY <3>1, <3>2
  <2>3. at # "insert"
    BY <1>2 DEF pce_spool_product, eopen_pctl_outputpce
  <2> QED
    BY <2>1, <2>2, <2>3 DEF ArrayInv, IsArray, Tracked, KeysOf
<1>3. CASE Insert
  <2>1. pce.seq \in Nat /\ at' # "insert" /\ saved' = saved /\ numslots' = numslots
    BY <1>3, ChainFields, QueuesPlaces DEF Insert, InputInv, nbsp_spooldb_insert
  <2>2. CASE numslots = 0
    BY SMTT(60), <1>3, <2>1, <2>2
    DEF Insert, nbsp_spooldb_insert, ArrayInv, IsArray, Tracked
  <2>3. CASE numslots # 0
    <3>1. numslots > 0 /\ spooldb_insert(pce.seq)
      <4>1. numslots \in Nat
        BY LimitsAssumption DEF ArrayInv, IsArray
      <4>2. nbsp_spooldb_insert(pce.seq)
        BY <1>3 DEF Insert
      <4>3. spooldb_insert(pce.seq)
        BY <2>3, <4>2, ZenonT(60) DEF nbsp_spooldb_insert
      <4> QED
        BY SMTT(60), <2>3, <4>1, <4>3
    <3>2. ArrayInv'
      BY <2>1, <3>1, InsertArray DEF ArrayInv
    <3>3. ASSUME NEW x \in spool' \ orphans' PROVE x \in KeysOf(keys')
      <4>1. /\ DOMAIN keys' = 0 .. numslots - 1 /\ DOMAIN keys = 0 .. numslots - 1
            /\ slot \in 0 .. numslots - 1
            /\ \A i \in 0 .. numslots - 1 :
                 keys'[i] = IF i = slot THEN pce.seq ELSE keys[i]
        BY <2>1, <3>1, InsertArray DEF ArrayInv, IsArray
      <4>2. CASE x = pce.seq
        BY <4>1, <4>2 DEF KeysOf
      <4>3. CASE x # pce.seq
        <5>1. x # keys[slot] /\ x \in spool \ orphans
          BY <3>1, <3>3, <4>3 DEF spooldb_insert
        <5>2. x \in KeysOf(keys)
          BY <3>1, <4>3, <5>1 DEF Tracked
        <5> QED
          BY <4>1, <5>1, <5>2 DEF KeysOf
      <4> QED
        BY <4>2, <4>3
    <3> QED
      BY <3>2, <3>3 DEF Tracked
  <2> QED
    BY <2>2, <2>3
<1>4. CASE Restart
  <2>1. PICK slots \in SlotsSet : numslots' = slots /\ spooldb_read(slots, saved')
    BY <1>4 DEF Restart
  <2>2. IsArray(saved'.numslots, saved'.keys, saved'.slot) /\ saved'.keys = keys
    BY <1>4 DEF Restart, ArrayInv
  <2>3. ArrayInv' /\ KeysOf(keys) \subseteq KeysOf(keys')
    BY <2>1, <2>2, ReadArray DEF ArrayInv
  <2>4. numslots' > 0 => numslots > 0
    BY SMTT(60), <2>1, LimitsAssumption DEF ArrayInv, IsArray
  <2> QED
    BY <1>4, <2>3, <2>4 DEF Restart, Tracked
<1>5. CASE Crash
  <2>1. ArrayInv'
    BY <1>5, ReadArray DEF Crash, ArrayInv, IsArray
  <2>2. spool' \ orphans' \subseteq KeysOf(keys')
    BY <1>5 DEF Crash, KeysOf
  <2> QED
    BY <2>1, <2>2 DEF Tracked
<1> QED
  BY <1>1, <1>2, <1>3, <1>4, <1>5 DEF Next, Aside

\* An array has no more keys than slots.
LEMMA KeysCounted ==
  ASSUME NEW n \in Nat, NEW k \in [0 .. n - 1 -> Nat]
  PROVE  IsFiniteSet(KeysOf(k)) /\ Cardinality(KeysOf(k)) <= n
<1>1. IsFiniteSet(0 .. n - 1) /\ Cardinality(0 .. n - 1) = n
  <2>1. 0 \in Int /\ n - 1 \in Int
    BY SMTT(60)
  <2>2. IsFiniteSet(0 .. n - 1) /\ Cardinality(0 .. n - 1)
          = IF 0 > n - 1 THEN 0 ELSE (n - 1) - 0 + 1
    BY <2>1, FS_Interval, ZenonT(60)
  <2> QED
    BY SMTT(60), <2>2
<1>2. k \in Surjection(0 .. n - 1, KeysOf(k))
  BY DEF Surjection, KeysOf
<1>3. /\ IsFiniteSet(KeysOf(k))
      /\ Cardinality(KeysOf(k)) <= Cardinality(0 .. n - 1)
  BY <1>1, <1>2, FS_Surjection, ZenonT(60)
<1> QED
  BY <1>1, <1>3

(***************************************************************************)
(* spooldb.h's promise, for any number of slots and any sequence of        *)
(* restarts, crashes and faults: between products there are no more files  *)
(* than slots but for those that a fault left without one.  The argument   *)
(* is that every other file is the key of a slot (Tracked).                *)
(***************************************************************************)
THEOREM SpoolKeptBounded == Spec => []SpoolBounded
<1>1. ArrayInv /\ Tracked => SpoolBounded
  <2> SUFFICES ASSUME ArrayInv, Tracked, numslots > 0, at \in {"loop", "rcv"}
               PROVE  Cardinality(spool \ orphans) <= numslots
    BY DEF SpoolBounded
  <2>1. numslots \in Nat /\ keys \in [0 .. numslots - 1 -> Nat]
    BY LimitsAssumption DEF ArrayInv, IsArray
  <2>2. spool \ orphans \in SUBSET KeysOf(keys)
    BY DEF Tracked
  <2>3. IsFiniteSet(KeysOf(keys)) /\ Cardinality(KeysOf(keys)) <= numslots
    BY ZenonT(60), <2>1, KeysCounted
  <2>4. /\ Cardinality(spool \ orphans) <= Cardinality(KeysOf(keys))
        /\ IsFiniteSet(spool \ orphans)
    BY <2>2, <2>3, FS_Subset
  <2>5. Cardinality(spool \ orphans) \in Nat /\ Cardinality(KeysOf(keys)) \in Nat
    BY <2>3, <2>4, FS_CardinalityType
  <2> QED
    BY SMTT(60), <2>1, <2>3, <2>4, <2>5
<1>2. RtxInv => InputInv
  BY DEF RtxInv
<1> QED
  BY <1>1, <1>2, RtxInit, RtxNext, ArrayInit, ArrayNext, PTL DEF Spec
-----------------------------------------------------------------------------
(***************************************************************************)
(* When a file is deleted.  Turns is the number of insertions until the    *)
(* one that deletes the file of slot i.                                    *)
(***************************************************************************)
Turns(i, n, s) == IF i >= s THEN i - s + 1 ELSE i - s + n + 1

\* No slot comes up for deletion before the product in it may go.
Guarded(n, k, s) ==
  \A i \in 0 .. n - 1 : k[i] \in DOMAIN left => left[k[i]] <= Turns(i, n, s)

\* No product comes twice in a sequence of elements.
Distinct(e) == \A i, j \in 1..Len(e) : e[i].seq = e[j].seq => i = j

\* None of the elements is in the array.
Apart(e, k) == \A i \in 1..Len(e) : e[i].seq \notin KeysOf(k)

(***************************************************************************)
(* Both arrays are guarded; what may still be taken from the queue is not  *)
(* in the array, and what a crash may bring back is not in the file.       *)
(***************************************************************************)
KeepInv ==
  /\ \A k \in DOMAIN left : k # 0 /\ left[k] \in Nat
  /\ Guarded(numslots, keys, slot)
  /\ Guarded(saved.numslots, saved.keys, saved.slot)
  /\ Distinct(taken \o todo)
  /\ Apart(todo, keys)
  /\ Apart(taken \o todo, saved.keys)
  /\ at = "insert" =>
       /\ pce.seq \in spool
       /\ pce.seq \notin KeysOf(keys) /\ pce.seq \notin KeysOf(saved.keys)
       /\ \A i \in 1..Len(todo) : todo[i].seq # pce.seq

\* What is still queued is the end of what the queue had in all.
LEMMA QueuedLast ==
  ASSUME NEW a \in Seq(Chain), NEW b \in Seq(Chain)
  PROVE  /\ Len(a \o b) = Len(a) + Len(b) /\ Len(a) \in Nat /\ Len(b) \in Nat
         /\ \A i \in 1..Len(b) : /\ Len(a) + i \in 1..Len(a \o b)
                                 /\ (a \o b)[Len(a) + i] = b[i]
  BY SMTT(60), ConcatProperties, LenProperties

\* Taking the head moves it from one part to the other.
LEMMA TakeKeeps ==
  ASSUME InputInv, eopen_pctl_outputpce
  PROVE  /\ taken' \o todo' = taken \o todo
         /\ \A i \in 1..Len(todo') : i + 1 \in 1..Len(todo) /\ todo'[i] = todo[i + 1]
         /\ 1 \in 1..Len(todo) /\ next = todo[1]
<1> USE DEF InputInv, eopen_pctl_outputpce, next
<1>1. todo \in Seq(Chain) /\ taken \in Seq(Chain) /\ todo # <<>>
  OBVIOUS
<1>2. /\ Len(todo) \in Nat /\ Len(todo) # 0
      /\ Tail(todo) \in Seq(Chain) /\ Len(Tail(todo)) = Len(todo) - 1
      /\ \A i \in 1..Len(Tail(todo)) : Tail(todo)[i] = todo[i + 1]
      /\ Head(todo) = todo[1] /\ Head(todo) \in Chain
  BY SMTT(60), <1>1, HeadTailProperties, LenProperties, EmptySeq
<1>3. taken' = Append(taken, Head(todo)) /\ todo' = Tail(todo)
  OBVIOUS
<1>4. /\ taken' \in Seq(Chain) /\ Len(taken') = Len(taken) + 1
      /\ Len(taken) \in Nat
      /\ \A i \in 1..Len(taken) : taken'[i] = taken[i]
      /\ taken'[Len(taken) + 1] = todo[1]
  BY SMTT(60), <1>1, <1>2, <1>3, AppendProperties, LenProperties
<1>5. /\ taken' \o todo' \in Seq(Chain) /\ taken \o todo \in Seq(Chain)
      /\ Len(taken' \o todo') = Len(taken \o todo)
  BY SMTT(60), <1>1, <1>2, <1>3, <1>4, ConcatProperties
<1>6. ASSUME NEW i \in 1..Len(taken \o todo)
      PROVE  (taken' \o todo')[i] = (taken \o todo)[i]
  <2>1. /\ Len(taken \o todo) = Len(taken) + Len(todo)
        /\ (taken \o todo)[i] = IF i <= Len(taken) THEN taken[i]
                                ELSE todo[i - Len(taken)]
    BY ZenonT(60), <1>1, ConcatProperties
  <2>2. (taken' \o todo')[i] = IF i <= Len(taken') THEN taken'[i]
                               ELSE todo'[i - Len(taken')]
    BY SMTT(60), <1>2, <1>3, <1>4, <1>5, ConcatProperties
  <2>3. CASE i <= Len(taken)
    BY SMTT(60), <2>1, <2>2, <2>3, <1>4
  <2>4. CASE i = Len(taken) + 1
    BY SMTT(60), <2>1, <2>2, <2>4, <1>4
  <2>5. CASE i > Len(taken) + 1
    <3>1. i - Len(taken') \in 1..Len(todo')
      BY SMTT(60), <2>1, <2>5, <1>2, <1>3, <1>4
    <3>2. todo'[i - Len(taken')] = todo[i - Len(taken') + 1]
      BY <3>1, <1>2, <1>3
    <3>3. i - Len(taken') + 1 = i - Len(taken)
      BY SMTT(60), <1>4, <2>1
    <3> QED
      BY SMTT(60), <2>1, <2>2, <2>5, <3>2, <3>3, <1>4
  <2> QED
    BY SMTT(60), <2>1, <2>3, <2>4, <2>5, <1>4
<1>7. taken' \o todo' = taken \o todo
  BY <1>5, <1>6, SeqEqual
<1> QED
  BY SMTT(60), <1>2, <1>3, <1>7

\* KeepInv at the start, when no product is sent twice.
LEMMA KeepInit ==
  ASSUME \A a \in Arrivals : Distinct(a), Init
  PROVE  KeepInv /\ RecentFilesKept
<1>1. todo \in Arrivals /\ todo \in Seq(Chain) /\ taken = <<>>
  BY ArrivalsChain DEF Init
<1>2. taken \o todo = todo
  BY <1>1, ConcatEmptySeq
<1>3. DOMAIN left = {}
  BY EmptyDb DEF Init
<1>4. KeysOf(keys) \subseteq {0} /\ saved.keys = keys
  BY DEF Init, NoKeys, None, KeysOf
<1>5. \A i \in 1..Len(todo) : todo[i].seq # 0
  BY <1>1, ElementOfSeq, ChainFields
<1>6. Distinct(taken \o todo) /\ Apart(todo, keys) /\ Apart(taken \o todo, saved.keys)
  BY <1>1, <1>2, <1>4, <1>5 DEF Apart
<1>7. Guarded(numslots, keys, slot) /\ Guarded(saved.numslots, saved.keys, saved.slot)
  BY <1>3 DEF Guarded
<1>8. at = "loop"
  BY DEF Init
<1> QED
  BY <1>3, <1>6, <1>7, <1>8 DEF KeepInv, RecentFilesKept

\* Reading the file leaves every product as many turns, or more.
LEMMA ReadGuarded ==
  ASSUME NEW slots \in SlotsSet, NEW file,
         IsArray(file.numslots, file.keys, file.slot), spooldb_read(slots, file),
         Guarded(file.numslots, file.keys, file.slot),
         \A k \in DOMAIN left : k # 0 /\ left[k] \in Nat, left' = left
  PROVE  \A i \in 0 .. slots - 1 : keys'[i] \in DOMAIN left' =>
           left'[keys'[i]] <= Turns(i, slots, slot')
<1>1. /\ file.numslots <= slots /\ slot' = file.slot
      /\ \A i \in 0 .. slots - 1 :
           keys'[i] = IF i < file.numslots THEN file.keys[i] ELSE 0
  BY ReadArray
<1>2. slots \in Nat /\ file.numslots \in Nat /\ file.slot \in Nat
  BY ZenonT(60), LimitsAssumption DEF IsArray
<1>3. ASSUME NEW i \in 0 .. slots - 1, keys'[i] \in DOMAIN left
      PROVE  left[keys'[i]] <= Turns(i, slots, file.slot)
  <2>1. i \in 0 .. file.numslots - 1 /\ keys'[i] = file.keys[i]
    BY SMTT(60), <1>1, <1>2, <1>3
  <2>2. left[keys'[i]] <= Turns(i, file.numslots, file.slot)
    BY <2>1, <1>3 DEF Guarded
  <2>3. Turns(i, file.numslots, file.slot) <= Turns(i, slots, file.slot)
    BY SMTT(60), <1>1, <1>2 DEF Turns
  <2>4. /\ left[keys'[i]] \in Int /\ Turns(i, file.numslots, file.slot) \in Int
        /\ Turns(i, slots, file.slot) \in Int
    BY SMTT(60), <1>2, <1>3 DEF Turns
  <2> QED
    BY SMTT(60), <2>2, <2>3, <2>4
<1> QED
  BY <1>1, <1>3 DEF Guarded

\* The actions that take an element, or none, and leave the spool alone.
LEMMA AsideKeeps ==
  ASSUME KeepInv, InputInv, RecentFilesKept, Aside
  PROVE  KeepInv' /\ RecentFilesKept'
<1>1. /\ UNCHANGED <<disk, array, pce>>
      /\ at' = at \/ (at # "insert" /\ at' # "insert")
      /\ UNCHANGED input \/ eopen_pctl_outputpce
  BY AsideSteps
<1>2. /\ spool' = spool /\ saved' = saved /\ numslots' = numslots /\ pce' = pce
      /\ keys' = keys /\ slot' = slot /\ left' = left
  BY <1>1 DEF disk, array
<1>3. CASE UNCHANGED input
  <2>1. todo' = todo /\ taken' = taken
    BY <1>3 DEF input
  <2> QED
    BY SMTT(60), <1>1, <1>2, <2>1
    DEF KeepInv, RecentFilesKept, Guarded, Distinct, Apart, KeysOf
<1>4. CASE eopen_pctl_outputpce
  <2>1. /\ taken' \o todo' = taken \o todo
        /\ \A i \in 1..Len(todo') : i + 1 \in 1..Len(todo) /\ todo'[i] = todo[i + 1]
    BY <1>4, TakeKeeps
  <2>2. at # "insert" /\ at' # "insert"
    BY <1>1, <1>4 DEF eopen_pctl_outputpce
  <2>3. Apart(todo, keys)'
    BY ZenonT(60), <1>2, <2>1 DEF KeepInv, Apart, KeysOf
  <2>4. Distinct(taken' \o todo') /\ Apart(taken' \o todo', saved'.keys)
    BY <1>2, <2>1 DEF KeepInv
  <2> QED
    BY <1>2, <2>2, <2>3, <2>4 DEF KeepInv, RecentFilesKept, Guarded
<1> QED
  BY <1>1, <1>3, <1>4

\* A product that is saved is new to both arrays.
LEMMA SaveKeeps ==
  ASSUME KeepInv, InputInv, RecentFilesKept, pce_spool_product
  PROVE  KeepInv' /\ RecentFilesKept'
<1>1. /\ eopen_pctl_outputpce
      /\ saved' = saved /\ numslots' = numslots
      /\ keys' = keys /\ slot' = slot /\ left' = left /\ spool \subseteq spool'
  BY ZenonT(60) DEF pce_spool_product, array
<1>2. at' = "insert" => pce' = next /\ next.seq \in spool'
  BY DEF pce_spool_product
<1>3. /\ taken' \o todo' = taken \o todo
      /\ \A i \in 1..Len(todo') : i + 1 \in 1..Len(todo) /\ todo'[i] = todo[i + 1]
      /\ 1 \in 1..Len(todo) /\ next = todo[1]
  BY <1>1, TakeKeeps
<1>4. Apart(todo, keys)'
  <2>1. \A i \in 1..Len(todo') : \E j \in 1..Len(todo) : todo'[i] = todo[j]
    BY ZenonT(60), <1>3
  <2>2. keys' = keys
    BY <1>1
  <2>3. Apart(todo, keys)
    BY ZenonT(60) DEF KeepInv
  <2> QED
    BY ZenonT(60), <2>1, <2>2, <2>3 DEF Apart
<1>5. Distinct(taken' \o todo') /\ Apart(taken' \o todo', saved'.keys)
  BY <1>1, <1>3 DEF KeepInv
<1>6. /\ Len(taken) \in Nat /\ Len(todo) \in Nat
      /\ \A i \in 1..Len(todo) : /\ Len(taken) + i \in 1..Len(taken \o todo)
                                 /\ (taken \o todo)[Len(taken) + i] = todo[i]
  BY QueuedLast DEF InputInv
<1>7. next.seq \notin KeysOf(keys) /\ next.seq \notin KeysOf(saved.keys)
  BY <1>3, <1>6 DEF KeepInv, Apart
<1>8. ASSUME NEW i \in 1..Len(todo') PROVE todo'[i].seq # next.seq
  <2>1. i + 1 \in 1..Len(todo) /\ todo'[i] = todo[i + 1] /\ i \in Nat /\ i # 0
    BY SMTT(60), <1>3, <1>8, <1>6
  <2> DEFINE a == Len(taken) + (i + 1)
             b == Len(taken) + 1
  <2>2. a # b
    BY SMTT(60), <2>1, <1>6
  <2>3. /\ a \in 1..Len(taken \o todo) /\ (taken \o todo)[a] = todo'[i]
        /\ b \in 1..Len(taken \o todo) /\ (taken \o todo)[b] = next
    BY <2>1, <1>3, <1>6
  <2> HIDE DEF a, b
  <2>4. Distinct(taken \o todo)
    BY DEF KeepInv
  <2> QED
    BY <2>2, <2>3, <2>4, ZenonT(60) DEF Distinct
<1>9. Guarded(numslots, keys, slot)' /\ Guarded(saved.numslots, saved.keys, saved.slot)'
  BY <1>1 DEF KeepInv, Guarded
<1>10. at' = "insert" =>
         /\ pce'.seq \in spool'
         /\ pce'.seq \notin KeysOf(keys') /\ pce'.seq \notin KeysOf(saved'.keys)
         /\ \A i \in 1..Len(todo') : todo'[i].seq # pce'.seq
  BY <1>1, <1>2, <1>7, <1>8
<1> QED
  BY ZenonT(60), <1>1, <1>4, <1>5, <1>9, <1>10 DEF KeepInv, RecentFilesKept

\* A restart reads back the array it wrote; a crash, the one in the file.
LEMMA StopKeeps ==
  ASSUME KeepInv, InputInv, ArrayInv, RecentFilesKept, Restart \/ Crash
  PROVE  KeepInv' /\ RecentFilesKept'
<1>1. /\ left' = left /\ spool' = spool /\ at' = "loop" /\ taken' = <<>>
      /\ todo' \in {todo, taken \o todo}
  BY DEF Restart, Crash
<1>2. /\ Len(taken) \in Nat /\ Len(todo) \in Nat
      /\ \A i \in 1..Len(todo) : /\ Len(taken) + i \in 1..Len(taken \o todo)
                                 /\ (taken \o todo)[Len(taken) + i] = todo[i]
  BY QueuedLast DEF InputInv
<1>3. todo' \in Seq(Chain) /\ taken' \o todo' = todo'
  <2>1. taken \o todo \in Seq(Chain) /\ todo \in Seq(Chain)
    BY ConcatProperties DEF InputInv
  <2>2. todo' \in Seq(Chain)
    BY ZenonT(60), <1>1, <2>1
  <2>3. <<>> \o todo' = todo'
    BY <2>2, ConcatEmptySeq
  <2> QED
    BY <1>1, <2>2, <2>3
<1>4. Distinct(taken' \o todo')
  <2>1. ASSUME NEW i \in 1..Len(todo), NEW j \in 1..Len(todo), todo[i].seq = todo[j].seq
        PROVE  i = j
    <3>1. Len(taken) + i = Len(taken) + j
      BY ZenonT(60), <1>2, <2>1 DEF KeepInv, Distinct
    <3> QED
      BY SMTT(60), <1>2, <3>1
  <2>2. Distinct(todo)
    BY ZenonT(60), <2>1 DEF Distinct
  <2> QED
    BY ZenonT(60), <1>1, <1>3, <2>2 DEF KeepInv
<1>5. Apart(todo', saved'.keys)
  <2>1. CASE Restart
    BY <2>1 DEF Restart, KeepInv
  <2>2. CASE Crash
    <3>1. Apart(todo, saved.keys)
      BY ZenonT(60), <1>2 DEF KeepInv, Apart
    <3> QED
      BY ZenonT(60), <1>1, <2>2, <3>1 DEF Crash, KeepInv
  <2> QED
    BY <2>1, <2>2
<1>6. Guarded(saved.numslots, saved.keys, saved.slot)'
  BY SMTT(60), <1>1 DEF Restart, Crash, KeepInv, Guarded
<1>7. /\ IsArray(saved'.numslots, saved'.keys, saved'.slot)
      /\ numslots' \in SlotsSet /\ spooldb_read(numslots', saved')
  BY SMTT(60) DEF Restart, Crash, ArrayInv, IsArray
<1>8. KeysOf(keys') \subseteq KeysOf(saved'.keys) \cup {0}
  BY <1>7, ReadArray
<1>9. Apart(todo', keys')
  <2>1. \A i \in 1..Len(todo') : todo'[i].seq # 0
    BY <1>3, ElementOfSeq, ChainFields
  <2> QED
    BY <1>5, <1>8, <2>1 DEF Apart
<1>10. Guarded(saved'.numslots, saved'.keys, saved'.slot)
  BY <1>1, <1>6 DEF Guarded
<1>11. \A i \in 0 .. numslots' - 1 : keys'[i] \in DOMAIN left' =>
         left'[keys'[i]] <= Turns(i, numslots', slot')
  BY <1>1, <1>7, <1>10, ReadGuarded DEF KeepInv
<1> QED
  BY <1>1, <1>3, <1>4, <1>5, <1>6, <1>9, <1>11
  DEF KeepInv, RecentFilesKept, Guarded, Distinct, Apart

\* One insertion brings every other slot one turn nearer, and gives the new
\* product all the turns of the array.
LEMMA InsertTurns ==
  ASSUME NEW n \in Nat, NEW s \in 0 .. n - 1, NEW i \in 0 .. n - 1
  PROVE  LET t == IF s + 1 = n THEN 0 ELSE s + 1
         IN  /\ Turns(i, n, s) \in Nat \ {0}
             /\ Turns(i, n, s) = 1 <=> i = s
             /\ Turns(i, n, t) = IF i = s THEN n ELSE Turns(i, n, s) - 1
  BY SMTT(60) DEF Turns

\* What the insertion makes of the ghost that counts what is left.
LEMMA InsertLeft ==
  ASSUME KeepInv, NEW key \in Nat \ {0}, nbsp_spooldb_insert(key), numslots \in Nat
  PROVE  /\ DOMAIN left' = DOMAIN left \cup {key}
         /\ left'[key] = numslots
         /\ \A k \in DOMAIN left' : k # 0 /\ left'[k] \in Nat
         /\ \A k \in DOMAIN left' : k # key =>
              /\ k \in DOMAIN left /\ left[k] \in Nat
              /\ left'[k] = IF left[k] > 0 THEN left[k] - 1 ELSE 0
<1>1. left' = [k \in DOMAIN left \cup {key} |->
                IF k = key THEN numslots
                ELSE IF left[k] > 0 THEN left[k] - 1 ELSE 0]
  BY DEF nbsp_spooldb_insert
<1>2. \A k \in DOMAIN left : k # 0 /\ left[k] \in Nat
  BY DEF KeepInv
<1> QED
  BY SMTT(60), <1>1, <1>2

\* The product that is entered deletes a file whose turn has come.
LEMMA InsertKeeps ==
  ASSUME KeepInv, InputInv, ArrayInv, RecentFilesKept, Insert
  PROVE  KeepInv' /\ RecentFilesKept'
<1> DEFINE key == pce.seq
<1>1. /\ key \in Nat \ {0} /\ nbsp_spooldb_insert(key)
      /\ numslots \in Nat /\ numslots' = numslots
  BY ChainFields, LimitsAssumption
  DEF Insert, InputInv, ArrayInv, IsArray, nbsp_spooldb_insert
<1>2. /\ todo' = todo /\ taken' = taken /\ saved' = saved /\ pce' = pce
      /\ at' # "insert"
  BY QueuesPlaces DEF Insert, input
<1>3. /\ key \in spool /\ key \notin KeysOf(keys) /\ key \notin KeysOf(saved.keys)
      /\ \A i \in 1..Len(todo) : todo[i].seq # key
  BY DEF KeepInv, Insert
<1> HIDE DEF key
<1>4. /\ DOMAIN left' = DOMAIN left \cup {key} /\ left'[key] = numslots
      /\ \A k \in DOMAIN left' : k # 0 /\ left'[k] \in Nat
      /\ \A k \in DOMAIN left' : k # key =>
           /\ k \in DOMAIN left /\ left[k] \in Nat
           /\ left'[k] = IF left[k] > 0 THEN left[k] - 1 ELSE 0
  BY ZenonT(60), <1>1, InsertLeft
<1>5. Guarded(saved.numslots, saved.keys, saved.slot)'
  <2>1. /\ saved.numslots \in Nat /\ saved.slot \in Nat
        /\ DOMAIN saved.keys = 0 .. saved.numslots - 1
    BY ZenonT(60), LimitsAssumption DEF ArrayInv, IsArray
  <2>2. ASSUME NEW i \in 0 .. saved.numslots - 1, saved.keys[i] \in DOMAIN left'
        PROVE  left'[saved.keys[i]] <= Turns(i, saved.numslots, saved.slot)
    <3> DEFINE k == saved.keys[i]
               t == Turns(i, saved.numslots, saved.slot)
    <3>1. k # key
      BY <1>3, <2>1 DEF KeysOf
    <3>2. k \in DOMAIN left /\ left[k] \in Nat /\ left'[k] \in Nat
          /\ left'[k] = IF left[k] > 0 THEN left[k] - 1 ELSE 0
      BY <1>4, <2>2, <3>1
    <3>3. left[k] <= t /\ t \in Int
      BY SMTT(60), <2>1, <2>2, <3>2 DEF KeepInv, Guarded, Turns
    <3> QED
      BY SMTT(60), <3>2, <3>3
  <2> QED
    BY <1>2, <2>2 DEF Guarded
<1>6. CASE numslots = 0
  <2>1. spool' = spool /\ keys' = keys /\ slot' = slot
    BY <1>1, <1>6 DEF nbsp_spooldb_insert
  <2>2. Guarded(numslots, keys, slot)'
    BY SMTT(60), <1>1, <1>6 DEF Guarded
  <2>3. RecentFilesKept'
    BY SMTT(60), <1>4, <1>6, <2>1 DEF RecentFilesKept
  <2> QED
    <3>1. /\ Distinct(taken \o todo)' /\ Apart(todo, keys)'
          /\ Apart(taken \o todo, saved.keys)'
      BY ZenonT(60), <1>2, <2>1 DEF KeepInv
    <3> QED
      BY ZenonT(60), <1>2, <1>4, <1>5, <2>2, <2>3, <3>1 DEF KeepInv
<1>7. CASE numslots # 0
  <2>1. numslots > 0 /\ spooldb_insert(key)
    <3>1. spooldb_insert(key)
      BY <1>1, <1>7, ZenonT(60) DEF nbsp_spooldb_insert
    <3> QED
      BY SMTT(60), <1>1, <1>7, <3>1
  <2>2. /\ slot \in 0 .. numslots - 1
        /\ slot' = IF slot + 1 = numslots THEN 0 ELSE slot + 1
        /\ KeysOf(keys') \subseteq KeysOf(keys) \cup {key}
        /\ \A i \in 0 .. numslots - 1 :
             keys'[i] = IF i = slot THEN key ELSE keys[i]
    BY <1>1, <2>1, InsertArray
  <2>3. DOMAIN keys = 0 .. numslots - 1
    BY DEF ArrayInv, IsArray
  <2>4. ASSUME NEW i \in 0 .. numslots - 1, keys'[i] \in DOMAIN left'
        PROVE  left'[keys'[i]] <= Turns(i, numslots, slot')
    <3>1. /\ Turns(i, numslots, slot) \in Nat \ {0}
          /\ Turns(i, numslots, slot) = 1 <=> i = slot
          /\ Turns(i, numslots, slot') =
               IF i = slot THEN numslots ELSE Turns(i, numslots, slot) - 1
      BY SMTT(60), <1>1, <2>2, InsertTurns
    <3>2. CASE i = slot
      BY SMTT(60), <1>1, <1>4, <2>2, <3>1, <3>2
    <3>3. CASE i # slot
      <4> DEFINE k == keys[i]
      <4>1. keys'[i] = k /\ k # key
        BY <1>3, <2>2, <2>3, <3>3 DEF KeysOf
      <4>2. k \in DOMAIN left /\ left[k] \in Nat
            /\ left'[k] = IF left[k] > 0 THEN left[k] - 1 ELSE 0
        BY <1>4, <2>4, <4>1
      <4>3. left[k] <= Turns(i, numslots, slot)
        BY <4>2 DEF KeepInv, Guarded
      <4> HIDE DEF k
      <4> QED
        BY SMTT(60), <3>1, <3>3, <4>1, <4>2, <4>3
    <3> QED
      BY <3>2, <3>3
  <2>5. ASSUME NEW k \in DOMAIN left', left'[k] > 0 PROVE k \in spool'
    <3>1. \A x \in spool : x # keys[slot] => x \in spool'
      BY <2>1 DEF spooldb_insert
    <3>2. CASE k = key
      BY <1>3, <2>2, <2>3, <3>1, <3>2 DEF KeysOf
    <3>3. CASE k # key
      <4>1. k \in DOMAIN left /\ left[k] \in Nat /\ left[k] > 1
        BY SMTT(60), <1>4, <2>5, <3>3
      <4>2. k \in spool
        BY SMTT(60), <4>1 DEF RecentFilesKept
      <4>3. k # keys[slot]
        <5>1. Turns(slot, numslots, slot) = 1
          BY SMTT(60), <1>1, <2>2, InsertTurns
        <5> QED
          BY SMTT(60), <2>2, <4>1, <5>1 DEF KeepInv, Guarded
      <4> QED
        BY <3>1, <4>2, <4>3
    <3> QED
      BY <3>2, <3>3
  <2>6. Apart(todo', keys')
    BY <1>2, <1>3, <2>2 DEF KeepInv, Apart
  <2>7. Guarded(numslots, keys, slot)'
    BY <1>1, <2>4 DEF Guarded
  <2>8. Distinct(taken' \o todo') /\ Apart(taken' \o todo', saved'.keys)
    BY <1>2 DEF KeepInv
  <2> QED
    BY <1>2, <1>4, <1>5, <2>5, <2>6, <2>7, <2>8 DEF KeepInv, RecentFilesKept
<1> QED
  BY <1>6, <1>7

\* Every step keeps KeepInv.
LEMMA KeepNext ==
  KeepInv /\ RecentFilesKept /\ InputInv /\ ArrayInv /\ [Next]_vars
    => KeepInv' /\ RecentFilesKept'
  BY AsideKeeps, SaveKeeps, InsertKeeps, StopKeeps DEF Next, Aside

(***************************************************************************)
(* When no product number is sent twice, a product that was entered in the *)
(* array keeps its file for as many insertions as there were slots, for    *)
(* any number of slots, over restarts that add slots and crashes that      *)
(* bring back an old array and redeliver products.  The argument counts    *)
(* the turns to the deletion of each slot, in memory and in the file.      *)
(***************************************************************************)
THEOREM RecentFilesSafe ==
  ASSUME \A a \in Arrivals : Distinct(a)
  PROVE  Spec => []RecentFilesKept
<1>1. Init => KeepInv /\ RecentFilesKept
  BY KeepInit
<1>2. RtxInv => InputInv
  BY DEF RtxInv
<1> QED
  BY <1>1, <1>2, KeepNext, RtxInit, RtxNext, ArrayInit, ArrayNext, PTL DEF Spec
-----------------------------------------------------------------------------
(***************************************************************************)
(* The types.  Those of the processor queue and of the arrays' shape are   *)
(* in InputInv and ArrayInv.  From the insertion to the last queue the     *)
(* thread has an element in its hands.                                     *)
(***************************************************************************)
PlaceTypes ==
  /\ at \in {"loop", "rcv", "insert"} \cup QueueNames
  /\ pce \in Element \cup {NoPce}
  /\ at \in QueueNames \cup {"insert"} => pce \in Element

DbTypes ==
  /\ DOMAIN rtx_c \subseteq Seqs /\ \A s \in DOMAIN rtx_c : rtx_c[s] \in {0, 1}
  /\ DOMAIN rtx_o \subseteq Seqs /\ \A s \in DOMAIN rtx_o : rtx_o[s] \in {0, 1}
  /\ DOMAIN kept \subseteq Seqs /\ \A s \in DOMAIN kept : kept[s] \in {0, 1}

FileTypes ==
  /\ spool \subseteq Seqs /\ orphans \subseteq Seqs
  /\ KeysOf(keys) \subseteq Seqs \cup {0}
  /\ KeysOf(saved.keys) \subseteq Seqs \cup {0}
  /\ DOMAIN left \subseteq Seqs /\ \A s \in DOMAIN left : left[s] \in Nat

QueueTypes ==
  /\ queue \in [QueueNames -> Seq(Seqs)]
  /\ reading \in [QueueNames -> Seqs \cup {0}]

RestTypes ==
  /\ rtx_flag \in BOOLEAN /\ dbfails \in BOOLEAN /\ stops \in 0..MaxStops
  /\ spooled \subseteq {Content[s] : s \in Seqs}
  /\ ignored \subseteq Seqs

TypeInv == PlaceTypes /\ DbTypes /\ FileTypes /\ QueueTypes /\ RestTypes

\* With the shape of the queue and of the arrays these are the types.
LEMMA TypesTogether == TypeInv /\ InputInv /\ ArrayInv => TypeOK
<1> SUFFICES ASSUME TypeInv, InputInv, ArrayInv PROVE TypeOK
  OBVIOUS
<1>1. todo \in Seq(Element) /\ taken \in Seq(Element)
  BY SMTT(60) DEF InputInv, Chain
<1>2. ASSUME NEW n, NEW k, NEW s, IsArray(n, k, s), KeysOf(k) \subseteq Seqs \cup {0}
      PROVE  n \in SlotsSet /\ k \in [0 .. n - 1 -> Seqs \cup {0}]
             /\ (s = 0 \/ s \in DOMAIN k)
  <2>1. n \in Nat
    BY <1>2, LimitsAssumption DEF IsArray
  <2> QED
    BY SMTT(60), <1>2, <2>1 DEF IsArray, KeysOf
<1>3. /\ saved.numslots \in SlotsSet
      /\ saved.keys \in [0 .. saved.numslots - 1 -> Seqs \cup {0}]
      /\ saved.slot = 0 \/ saved.slot \in DOMAIN saved.keys
  BY ZenonT(60), <1>2 DEF TypeInv, FileTypes, ArrayInv
<1>4. /\ numslots \in SlotsSet /\ keys \in [0 .. numslots - 1 -> Seqs \cup {0}]
      /\ slot = 0 \/ slot \in DOMAIN keys
  BY ZenonT(60), <1>2 DEF TypeInv, FileTypes, ArrayInv
<1>5. \A a \in {saved, [numslots |-> numslots, keys |-> keys, slot |-> slot]} :
        /\ a.numslots \in SlotsSet
        /\ a.keys \in [0 .. a.numslots - 1 -> Seqs \cup {None}]
        /\ a.slot = 0 \/ a.slot \in DOMAIN a.keys
  <2> SUFFICES ASSUME NEW a \in {saved, [numslots |-> numslots, keys |-> keys,
                                       slot |-> slot]}
               PROVE  /\ a.numslots \in SlotsSet
                      /\ a.keys \in [0 .. a.numslots - 1 -> Seqs \cup {None}]
                      /\ a.slot = 0 \/ a.slot \in DOMAIN a.keys
    BY ZenonT(60)
  <2>1. CASE a = saved
    BY ZenonT(60), <1>3, <2>1 DEF None
  <2>2. CASE a = [numslots |-> numslots, keys |-> keys, slot |-> slot]
    <3>1. a.numslots = numslots /\ a.keys = keys /\ a.slot = slot
      BY <2>2
    <3> QED
      BY ZenonT(60), <1>4, <3>1 DEF None
  <2> QED
    BY <2>1, <2>2
<1>6. /\ at \in {"loop", "rcv", "insert"} \cup QueueNames
      /\ pce \in Element \cup {NoPce}
  BY DEF TypeInv, PlaceTypes
<1>7. \A f \in {rtx_c, rtx_o} :
        DOMAIN f \subseteq Seqs /\ \A s \in DOMAIN f : f[s] \in {0, 1}
  BY DEF TypeInv, DbTypes
<1> QED
  BY ZenonT(60), <1>1, <1>5, <1>6, <1>7
  DEF TypeOK, TypeInv, DbTypes, FileTypes, QueueTypes, RestTypes, None

\* The types at the start.
LEMMA TypesInit == Init => TypeInv
<1> SUFFICES ASSUME Init PROVE TypeInv
  OBVIOUS
<1>1. PlaceTypes
  BY QueuesAssumption DEF Init, PlaceTypes, QueueNames
<1>2. DbTypes
  BY ZenonT(60), EmptyDb DEF Init, DbTypes
<1>3. KeysOf(keys) \subseteq Seqs \cup {0} /\ saved.keys = keys
  BY DEF Init, KeysOf, NoKeys, None
<1>4. FileTypes
  BY ZenonT(60), <1>3, EmptyDb DEF Init, FileTypes
<1>5. QueueTypes
  BY SMTT(60) DEF Init, QueueTypes, None
<1>6. RestTypes
  <2>1. stops \in 0..MaxStops
    BY SMTT(60), LimitsAssumption DEF Init
  <2> QED
    BY ZenonT(60), <2>1 DEF Init, RestTypes
<1> QED
  BY <1>1, <1>2, <1>4, <1>5, <1>6 DEF TypeInv

\* A record for a known product.
LEMMA PutTypes ==
  ASSUME DbTypes, NEW s \in Seqs, NEW v \in {0, 1}, nbsp_rtxdb_put(s, v)
  PROVE  DbTypes'
<1>1. PICK done \in DbOutcomes :
        IF RtxEnabled /\ done
        THEN /\ rtx_c' = Put(rtx_c, s, v)
             /\ kept' = IF v = 0 THEN Put(kept, s, 0)
                        ELSE [x \in DOMAIN kept \ {s} |-> kept[x]]
        ELSE UNCHANGED <<rtx_c, kept>>
  BY DEF nbsp_rtxdb_put
<1>2. rtx_o' = rtx_o
  BY DEF nbsp_rtxdb_put
<1>3. CASE ~(RtxEnabled /\ done)
  BY <1>1, <1>2, <1>3 DEF DbTypes
<1>4. CASE RtxEnabled /\ done
  <2>1. DOMAIN rtx_c' \subseteq Seqs /\ \A x \in DOMAIN rtx_c' : rtx_c'[x] \in {0, 1}
    BY SMTT(60), <1>1, <1>4 DEF Put, DbTypes
  <2>2. DOMAIN kept' \subseteq Seqs /\ \A x \in DOMAIN kept' : kept'[x] \in {0, 1}
    BY SMTT(60), <1>1, <1>4 DEF Put, DbTypes
  <2> QED
    BY <1>2, <2>1, <2>2 DEF DbTypes
<1> QED
  BY <1>3, <1>4

\* The element that comes out of the queue.
LEMMA NextTypes ==
  ASSUME InputInv, eopen_pctl_outputpce
  PROVE  next \in Element /\ next.seq \in Seqs /\ at = "rcv"
  BY TakeNext, ChainFields DEF Chain, eopen_pctl_outputpce

\* Every step keeps the types of the db.
LEMMA DbTypesNext ==
  ASSUME InputInv, PlaceTypes, DbTypes, [Next]_vars
  PROVE  DbTypes'
<1> USE DEF input, db, flags, disk, array, consumers, ghosts
<1>1. CASE Incomplete \/ Received
  <2>1. next.seq \in Seqs
    BY ZenonT(60), <1>1, NextTypes DEF Incomplete, Received
  <2>2. \/ nbsp_rtxdb_put(next.seq, 1) \/ nbsp_rtxdb_put(next.seq, 0)
        \/ UNCHANGED db
    BY ZenonT(60), <1>1 DEF Incomplete, Received
  <2> QED
    BY <2>1, <2>2, PutTypes DEF DbTypes
<1>2. CASE Insert
  <2>1. pce.seq \in Seqs
    BY <1>2, ChainFields DEF Insert, InputInv
  <2>2. nbsp_rtxdb_put(pce.seq, 0) \/ UNCHANGED db
    BY ZenonT(60), <1>2 DEF Insert
  <2> QED
    BY <2>1, <2>2, PutTypes DEF DbTypes
<1>3. CASE nbsp_periodic
  <2>1. \/ UNCHANGED db
        \/ /\ rtx_o' = rtx_c /\ (rtx_c' = <<>> \/ rtx_c' = rtx_o)
           /\ kept' = [s \in {x \in DOMAIN kept : kept[x] = 0} |-> 1]
    BY <1>3 DEF nbsp_periodic, nbsp_rtxdb_truncate
  <2> QED
    BY <2>1, EmptyDb DEF DbTypes
<1>4. CASE Restart \/ Crash
  BY ZenonT(60), <1>4, EmptyDb DEF Restart, Crash, MemoryLost, DbTypes
<1>5. CASE \/ NoElement \/ NotWanted \/ pce_spool_product \/ DbFail
           \/ set_rtxdb_truncate_flag \/ UNCHANGED vars
           \/ \E q \in QueueNames : e_export_product(q) \/ nbspqt_rcv(q) \/ Consume(q)
  <2>1. UNCHANGED db
    BY ZenonT(60), <1>5
    DEF NoElement, NotWanted, pce_spool_product, DbFail, set_rtxdb_truncate_flag,
        vars, e_export_product, nbspqt_rcv, Consume
  <2> QED
    BY <2>1 DEF DbTypes
<1> QED
  BY ZenonT(60), <1>1, <1>2, <1>3, <1>4, <1>5 DEF Next

\* Every step keeps the type of the place in the loop and of what is in hand.
LEMMA PlaceTypesNext ==
  ASSUME InputInv, PlaceTypes, [Next]_vars
  PROVE  PlaceTypes'
<1> USE DEF input, db, flags, disk, array, consumers, ghosts
<1>0. "loop" \notin QueueNames /\ "rcv" \notin QueueNames
  BY QueuesAssumption DEF QueueNames
<1>1. CASE pce_spool_product
  <2>1. (at' = "insert" /\ pce' = next) \/ (at' = "loop" /\ pce' = pce)
    BY <1>1 DEF pce_spool_product
  <2>2. next \in Element
    BY <1>1, NextTypes DEF pce_spool_product
  <2> QED
    BY <1>0, <2>1, <2>2 DEF PlaceTypes
<1>2. CASE Insert
  <2>1. at' \in QueueNames /\ pce' = pce /\ pce \in Element
    BY <1>2, QueuesPlaces DEF Insert, PlaceTypes
  <2> QED
    BY <2>1 DEF PlaceTypes
<1>3. ASSUME NEW q \in QueueNames, e_export_product(q) PROVE PlaceTypes'
  <2>1. at' \in QueueNames \cup {"loop"} /\ pce' = pce /\ pce \in Element
    BY <1>3, QueuesPlaces DEF e_export_product, PlaceTypes
  <2> QED
    BY <2>1 DEF PlaceTypes
<1>4. CASE \/ nbsp_periodic \/ NoElement \/ Incomplete \/ Received \/ NotWanted
           \/ Restart \/ Crash
  <2>1. pce' = pce /\ at' \in {"loop", "rcv"}
    BY ZenonT(60), <1>4
    DEF nbsp_periodic, NoElement, Incomplete, Received, NotWanted, Restart, Crash
  <2> QED
    BY <1>0, <2>1 DEF PlaceTypes
<1>5. CASE \/ set_rtxdb_truncate_flag \/ DbFail \/ UNCHANGED vars
           \/ \E q \in QueueNames : nbspqt_rcv(q) \/ Consume(q)
  <2>1. pce' = pce /\ at' = at
    BY ZenonT(60), <1>5
    DEF set_rtxdb_truncate_flag, DbFail, vars, nbspqt_rcv, Consume
  <2> QED
    BY <2>1 DEF PlaceTypes
<1> QED
  BY ZenonT(60), <1>1, <1>2, <1>3, <1>4, <1>5 DEF Next

\* Every step keeps the types of the files and of the keys.
LEMMA FileTypesNext ==
  ASSUME InputInv, ArrayInv, FileTypes, [Next]_vars
  PROVE  FileTypes'
<1> USE DEF input, db, flags, disk, array, consumers, ghosts
<1>1. CASE Aside
  BY <1>1, AsideSteps DEF FileTypes, KeysOf
<1>2. CASE pce_spool_product
  <2>1. next.seq \in Seqs
    BY <1>2, NextTypes DEF pce_spool_product
  <2>2. /\ spool' \subseteq spool \cup {next.seq}
        /\ orphans' \subseteq orphans \cup {next.seq}
        /\ keys' = keys /\ saved' = saved /\ left' = left
    BY <1>2 DEF pce_spool_product
  <2> QED
    BY <2>1, <2>2 DEF FileTypes, KeysOf
<1>3. CASE Insert
  <2>1. pce.seq \in Seqs /\ pce.seq \in Nat
    BY <1>3, ChainFields DEF Insert, InputInv
  <2>2. numslots \in Nat
    BY LimitsAssumption DEF ArrayInv, IsArray
  <2>3. /\ DOMAIN left' \subseteq Seqs
        /\ \A s \in DOMAIN left' : left'[s] \in Nat
    BY SMTT(60), <1>3, <2>1, <2>2 DEF Insert, nbsp_spooldb_insert, FileTypes
  <2>4. saved' = saved
    BY <1>3 DEF Insert
  <2>5. CASE numslots = 0
    <3>1. UNCHANGED <<spool, orphans, keys>>
      BY <1>3, <2>5 DEF Insert, nbsp_spooldb_insert
    <3> QED
      BY <2>3, <2>4, <3>1 DEF FileTypes, KeysOf
  <2>6. CASE numslots # 0
    <3>1. spooldb_insert(pce.seq)
      BY ZenonT(60), <1>3, <2>6 DEF Insert, nbsp_spooldb_insert
    <3>2. spool' \subseteq spool /\ orphans' \subseteq orphans \cup spool
      BY <3>1 DEF spooldb_insert
    <3>3. KeysOf(keys') \subseteq KeysOf(keys) \cup {pce.seq}
      BY SMTT(60), <2>1, <2>2, <2>6, <3>1, InsertArray
    <3>4. KeysOf(saved'.keys) \subseteq Seqs \cup {0}
      BY <2>4 DEF FileTypes
    <3> QED
      BY <2>1, <2>3, <3>2, <3>3, <3>4 DEF FileTypes
  <2> QED
    BY <2>5, <2>6
<1>4. CASE Restart
  <2>1. PICK slots \in SlotsSet : numslots' = slots /\ spooldb_read(slots, saved')
    BY <1>4 DEF Restart
  <2>2. IsArray(saved'.numslots, saved'.keys, saved'.slot) /\ saved'.keys = keys
    BY <1>4 DEF Restart, ArrayInv
  <2>3. KeysOf(keys') \subseteq KeysOf(saved'.keys) \cup {0}
    BY <2>1, <2>2, ReadArray
  <2>4. KeysOf(saved'.keys) \subseteq Seqs \cup {0}
    BY <2>2 DEF FileTypes
  <2>5. UNCHANGED <<spool, orphans, left>>
    BY <1>4 DEF Restart
  <2> QED
    BY <2>3, <2>4, <2>5 DEF FileTypes
<1>5. CASE Crash
  <2>1. numslots \in SlotsSet /\ IsArray(saved.numslots, saved.keys, saved.slot)
    BY DEF ArrayInv, IsArray
  <2>2. KeysOf(keys') \subseteq KeysOf(saved.keys) \cup {0}
    BY <1>5, <2>1, ReadArray DEF Crash
  <2>3. saved' = saved /\ spool' = spool /\ left' = left /\ orphans' \subseteq orphans \cup spool
    BY <1>5 DEF Crash
  <2>4. KeysOf(saved'.keys) \subseteq Seqs \cup {0}
    BY <2>3 DEF FileTypes
  <2> QED
    BY <2>2, <2>3, <2>4 DEF FileTypes
<1> QED
  BY ZenonT(60), <1>1, <1>2, <1>3, <1>4, <1>5 DEF Next, Aside

\* Every step keeps the types of the queues and of what the consumers have.
LEMMA QueueTypesNext ==
  ASSUME PlaceTypes, QueueTypes, [Next]_vars
  PROVE  QueueTypes'
<1> USE DEF input, db, flags, disk, array, consumers, ghosts
<1>1. ASSUME NEW q \in QueueNames, e_export_product(q) PROVE QueueTypes'
  <2>1. pce.seq \in Seqs
    BY <1>1 DEF e_export_product, PlaceTypes, Element
  <2>2. Append(queue[q], pce.seq) \in Seq(Seqs)
    BY <2>1, AppendProperties DEF QueueTypes
  <2> QED
    BY <1>1, <2>2 DEF e_export_product, QueueTypes
<1>2. ASSUME NEW q \in QueueNames, nbspqt_rcv(q) PROVE QueueTypes'
  <2>1. queue[q] \in Seq(Seqs) /\ queue[q] # <<>>
    BY <1>2 DEF nbspqt_rcv, QueueTypes
  <2>2. Head(queue[q]) \in Seqs /\ Tail(queue[q]) \in Seq(Seqs)
    BY <2>1, HeadTailProperties
  <2> QED
    BY <1>2, <2>2 DEF nbspqt_rcv, QueueTypes
<1>3. ASSUME NEW q \in QueueNames, Consume(q) PROVE QueueTypes'
  BY <1>3 DEF Consume, QueueTypes, None
<1>4. CASE Restart \/ Crash
  <2>1. /\ queue' = queue \/ queue' = [q \in QueueNames |-> <<>>]
        /\ reading' = [q \in QueueNames |-> 0]
    BY ZenonT(60), <1>4 DEF Restart, Crash, MemoryLost, None
  <2>2. [q \in QueueNames |-> <<>>] \in [QueueNames -> Seq(Seqs)]
    BY EmptySeq
  <2>3. [q \in QueueNames |-> 0] \in [QueueNames -> Seqs \cup {0}]
    OBVIOUS
  <2> QED
    BY ZenonT(60), <2>1, <2>2, <2>3 DEF QueueTypes
<1>5. CASE \/ nbsp_periodic \/ NoElement \/ Incomplete \/ Received \/ NotWanted
           \/ pce_spool_product \/ Insert \/ DbFail
           \/ set_rtxdb_truncate_flag \/ UNCHANGED vars
  <2>1. queue' = queue /\ reading' = reading
    BY ZenonT(60), <1>5
    DEF nbsp_periodic, NoElement, Incomplete, Received, NotWanted,
        pce_spool_product, Insert, DbFail, set_rtxdb_truncate_flag, vars
  <2> QED
    BY <2>1 DEF QueueTypes
<1> QED
  BY ZenonT(60), <1>1, <1>2, <1>3, <1>4, <1>5 DEF Next

\* Every step keeps the types of the flags and of what is only observed.
LEMMA RestTypesNext ==
  ASSUME InputInv, RestTypes, [Next]_vars
  PROVE  RestTypes'
<1> USE DEF input, db, flags, disk, array, consumers, ghosts
<1>1. CASE Received
  <2>1. next.seq \in Seqs
    BY <1>1, NextTypes DEF Received
  <2>2. ignored' \subseteq Seqs
    BY <1>1, <2>1 DEF Received, RestTypes
  <2>3. UNCHANGED <<flags, spooled>>
    BY <1>1 DEF Received
  <2> QED
    BY ZenonT(60), <2>2, <2>3 DEF RestTypes
<1>2. CASE pce_spool_product
  <2>1. next.seq \in Seqs
    BY <1>2, NextTypes DEF pce_spool_product
  <2>2. spooled' \subseteq spooled \cup {Content[next.seq]}
    BY <1>2 DEF pce_spool_product
  <2>3. spooled' \subseteq {Content[s] : s \in Seqs}
    BY ZenonT(60), <2>1, <2>2 DEF RestTypes
  <2>4. UNCHANGED <<flags, ignored>>
    BY <1>2 DEF pce_spool_product
  <2> QED
    BY ZenonT(60), <2>3, <2>4 DEF RestTypes
<1>3. CASE Restart \/ Crash
  <2>1. /\ stops < MaxStops /\ stops' = stops + 1 /\ UNCHANGED ghosts
        /\ rtx_flag' = FALSE /\ dbfails' = FALSE
    BY ZenonT(60), <1>3 DEF Restart, Crash, MemoryLost
  <2>2. stops' \in 0..MaxStops
    BY SMTT(60), <2>1, LimitsAssumption DEF RestTypes
  <2> QED
    BY ZenonT(60), <2>1, <2>2 DEF RestTypes
<1>4. CASE nbsp_periodic \/ set_rtxdb_truncate_flag \/ DbFail
  <2>1. /\ rtx_flag' \in {rtx_flag, TRUE, FALSE} /\ dbfails' \in {dbfails, TRUE}
        /\ UNCHANGED <<stops, ghosts>>
    BY ZenonT(60), <1>4 DEF nbsp_periodic, set_rtxdb_truncate_flag, DbFail
  <2> QED
    BY ZenonT(60), <2>1 DEF RestTypes
<1>5. CASE \/ NoElement \/ Incomplete \/ NotWanted \/ Insert \/ UNCHANGED vars
           \/ \E q \in QueueNames : e_export_product(q) \/ nbspqt_rcv(q) \/ Consume(q)
  <2>1. UNCHANGED <<flags, ghosts>>
    BY ZenonT(60), <1>5
    DEF NoElement, Incomplete, NotWanted, Insert, vars, e_export_product,
        nbspqt_rcv, Consume
  <2> QED
    BY ZenonT(60), <2>1 DEF RestTypes
<1> QED
  BY ZenonT(60), <1>1, <1>2, <1>3, <1>4, <1>5 DEF Next

\* The types of the processor thread, of its files and of its queues.
THEOREM ProcessorTypesHold == Spec => []TypeOK
<1>1. TypeInv /\ InputInv /\ ArrayInv /\ [Next]_vars => TypeInv'
  BY ZenonT(60), PlaceTypesNext, DbTypesNext, FileTypesNext, QueueTypesNext,
     RestTypesNext DEF TypeInv
<1>2. RtxInv => InputInv
  BY DEF RtxInv
<1> QED
  BY <1>1, <1>2, TypesInit, TypesTogether, RtxInit, RtxNext, ArrayInit, ArrayNext,
     PTL DEF Spec
=============================================================================
