---------------------------- MODULE PctldbProofs ----------------------------
(***************************************************************************)
(* Proofs about Pctldb for any products, sizes and limits: the types, the  *)
(* counters and the limit on the length of the queue for any clock; the    *)
(* distinct keys, the own memory file of every element and the             *)
(* implementation of ProductQueue for one that is not set back.            *)
(***************************************************************************)
EXTENDS Pctldb, TLAPS, SequenceTheorems, FiniteSetTheorems

\* A leaf is for Zenon unless it names SMT, and may take a minute.
USE ZenonT(60), SMTT(60)

Element == [product : Products, tsqueue : Time]
Receipt == [product : Products, mf : Products]

\* The key cannot be given out again: it is not after the last one, or the
\* clock has passed it.
Passed(k) == ~Before(last_tsqueue, k) \/ Before(k, clock)

\* What OwnMemfile needs to know of the keys in use.
KeysPassed ==
  /\ clock.sec >= last_tsqueue.sec
  /\ \A j \in 1 .. Len(queue) : Passed(queue[j].tsqueue)
  /\ \A k \in DOMAIN mfdb : Passed(k)

\* mfdb is a function.
Keyed == mfdb \in [DOMAIN mfdb -> Products] /\ DOMAIN mfdb \subseteq Time

Types ==
  /\ queue \in Seq(Element)
  /\ n = Len(queue)
  /\ last_tsqueue \in Time /\ clock \in Times /\ dbfails \in BOOLEAN
  /\ hardlimit \in HardLimits
  /\ sent \subseteq Products
  /\ pc \in {"out", "waiting", "woken", "timedout"}
  /\ received \in Seq(Receipt)

KeyInv == Types /\ Keyed /\ KeysPassed /\ OwnMemfile

-----------------------------------------------------------------------------
\* The elements of the queue have a product and a key.
LEMMA ElementTypes ==
  ASSUME NEW q \in Seq(Element)
  PROVE  \A j \in 1 .. Len(q) : q[j].product \in Products /\ q[j].tsqueue \in Time
<1> SUFFICES ASSUME NEW j \in 1 .. Len(q)
             PROVE  q[j].product \in Products /\ q[j].tsqueue \in Time
  OBVIOUS
<1>1. q[j] \in Element
  BY SMTT(60)
<1> QED
  BY <1>1 DEF Element

-----------------------------------------------------------------------------
\* The types at the start.
LEMMA TypesInit ==
  Init => Types /\ Keyed
<1> SUFFICES ASSUME Init PROVE Types /\ Keyed
  OBVIOUS
<1>1. queue \in Seq(Element) /\ received \in Seq(Receipt) /\ n = Len(queue)
  BY SMTT(60) DEF Init
<1>2. mfdb = <<>> /\ DOMAIN mfdb = {}
  BY SMTT(60) DEF Init
<1>3. last_tsqueue \in Time
  BY DEF Init, Zero, Time
<1>4. Types
  BY ZenonT(60), <1>1, <1>3 DEF Init, Types
<1>5. Keyed
  BY SMTT(60), <1>2 DEF Keyed
<1> QED
  BY <1>4, <1>5

\* What a send leaves in the two databases.
LEMMA SendTypes ==
  ASSUME Types, Keyed, NEW p \in Products, pctldb_send_pce(p)
  PROVE  Types' /\ Keyed'
<1>1. /\ last_tsqueue' = Tsqueue /\ UNCHANGED <<hardlimit, clock, dbfails, received>>
      /\ sent' \subseteq Products /\ pc' \in {"out", "waiting", "woken", "timedout"}
  BY DEF pctldb_send_pce, Types
<1>2. Tsqueue \in Time
  BY SMTT(60), TimesAssumption DEF Types, Tsqueue, Time
<1>3. queue' \in Seq(Element) /\ n' = Len(queue')
  <2> DEFINE e == [product |-> p, tsqueue |-> Tsqueue]
  <2>1. e \in Element
    BY <1>2 DEF Element
  <2>2. \/ UNCHANGED <<queue, n>>
        \/ queue' = Append(queue, e) /\ n' = n + 1
    BY ZenonT(60) DEF pctldb_send_pce, Refused, MemfileLost, Queued, pctldb_snd
  <2> HIDE DEF e
  <2> QED
    BY SMTT(60), <2>1, <2>2 DEF Types
<1>4. Keyed'
  <2>1. mfdb' = mfdb \/ pctlmfdb_snd(p, Tsqueue)
    BY ZenonT(60) DEF pctldb_send_pce, Refused, MemfileLost, Queued
  <2> QED
    BY <1>2, <2>1 DEF pctlmfdb_snd, Keyed
<1> QED
  BY <1>1, <1>2, <1>3, <1>4 DEF Types

\* What a receive leaves in them.
LEMMA TakeTypes ==
  ASSUME Types, Keyed, Take
  PROVE  Types' /\ Keyed'
<1>1. PICK consumed, read, deleted \in BOOLEAN : pctldb_rcv(consumed, read, deleted)
  BY ZenonT(60) DEF Take, DbOutcomes
<1>2. UNCHANGED <<last_tsqueue, hardlimit, clock, dbfails, sent>> /\ pc' = "out"
  BY DEF Take
<1>3. CASE UNCHANGED <<queue, n, mfdb, mf_total_size, received>>
  BY <1>2, <1>3 DEF Types, Keyed
<1>4. CASE /\ queue # <<>> /\ queue' = Tail(queue) /\ n' = n - 1
           /\ pctlmfdb_rcv(Head(queue), read, deleted)
  <2>1. /\ Len(queue) \in Nat /\ Len(queue) > 0 /\ queue' \in Seq(Element)
        /\ Len(queue') = Len(queue) - 1 /\ Head(queue) = queue[1]
        /\ received \in Seq(Receipt)
    BY SMTT(60), <1>4 DEF Types
  <2>2. Head(queue).product \in Products
    BY SMTT(60), <2>1, ElementTypes DEF Types
  <2>3. Keyed'
    BY <1>4 DEF pctlmfdb_rcv, Restrict, Keyed
  <2> DEFINE x == [product |-> Head(queue).product, mf |-> mfdb[Head(queue).tsqueue]]
  <2>4. \/ received' = received
        \/ Head(queue).tsqueue \in DOMAIN mfdb /\ received' = Append(received, x)
    BY <1>4 DEF pctlmfdb_rcv
  <2>5. Head(queue).tsqueue \in DOMAIN mfdb => x \in Receipt
    BY <2>2 DEF Keyed, Receipt
  <2> HIDE DEF x
  <2>6. received' \in Seq(Receipt)
    BY SMTT(60), <2>1, <2>4, <2>5
  <2> QED
    BY <1>2, <1>4, <2>1, <2>3, <2>6 DEF Types
<1> QED
  BY <1>1, <1>3, <1>4 DEF pctldb_rcv

\* Every step keeps the types.
LEMMA TypesNext ==
  ASSUME Types, Keyed, [Next]_vars
  PROVE  Types' /\ Keyed'
<1>1. CASE Wait \/ GiveUp \/ Timeout \/ Tick \/ DbFail \/ Restart \/ UNCHANGED vars
  <2>1. UNCHANGED <<queue, mfdb, sent, received>> /\ n' = Len(queue)
    BY <1>1
    DEF Wait, GiveUp, Timeout, Tick, DbFail, Restart, pctldb_stat, vars, Types
  <2>2. clock' \in Times /\ dbfails' \in BOOLEAN /\ hardlimit' \in HardLimits
    BY ZenonT(60), <1>1
    DEF Wait, GiveUp, Timeout, Tick, DbFail, Restart, vars, Types
  <2>3. last_tsqueue' \in Time /\ pc' \in {"out", "waiting", "woken", "timedout"}
    BY SMTT(60), <1>1 DEF Wait, GiveUp, Timeout, Tick, DbFail, Restart, vars, Types, Zero, Time
  <2> QED
    BY ZenonT(60), <2>1, <2>2, <2>3 DEF Types, Keyed
<1> QED
  BY <1>1, SendTypes, TakeTypes DEF Next

-----------------------------------------------------------------------------
\* Before orders the readings of the clock.
LEMMA BeforeOrder ==
  /\ \A s \in Time : ~Before(s, s)
  /\ \A s, t, u \in Time : Before(s, t) /\ Before(t, u) => Before(s, u)
  /\ \A s, t, u \in Time : ~Before(t, s) /\ Before(t, u) => Before(s, u)
  /\ \A s, t, u \in Time : Before(s, t) /\ ~Before(u, t) => Before(s, u)
BY SMTT(60) DEF Before, Time

\* The key of pctldb_send_pce() is after the last one and not before the clock.
LEMMA NewKey ==
  ASSUME clock \in Time, last_tsqueue \in Time, clock.sec >= last_tsqueue.sec
  PROVE  /\ Tsqueue \in Time /\ Tsqueue.sec = clock.sec
         /\ Before(last_tsqueue, Tsqueue) /\ ~Before(Tsqueue, clock)
BY SMTT(60) DEF Tsqueue, Time, Before

\* So it is in use neither in the queue nor in the memory file db.
LEMMA KeyFresh ==
  ASSUME Types, Keyed, KeysPassed
  PROVE  /\ \A k \in Time : Passed(k) => Before(k, Tsqueue)
         /\ \A j \in 1 .. Len(queue) : queue[j].tsqueue # Tsqueue
         /\ Tsqueue \notin DOMAIN mfdb
<1>1. clock \in Time /\ last_tsqueue \in Time /\ clock.sec >= last_tsqueue.sec
  BY TimesAssumption DEF Types, KeysPassed
<1>2. Tsqueue \in Time /\ Before(last_tsqueue, Tsqueue) /\ ~Before(Tsqueue, clock)
  BY <1>1, NewKey
<1>3. ASSUME NEW k \in Time, Passed(k)
      PROVE  Before(k, Tsqueue)
  BY <1>1, <1>2, <1>3, BeforeOrder DEF Passed
<1>4. ASSUME NEW k \in Time, Passed(k)
      PROVE  k # Tsqueue
  BY <1>2, <1>3, <1>4, BeforeOrder
<1>5. \A j \in 1 .. Len(queue) : queue[j].tsqueue \in Time
  BY ElementTypes DEF Types
<1>6. \A j \in 1 .. Len(queue) : queue[j].tsqueue # Tsqueue
  BY <1>4, <1>5 DEF KeysPassed
<1>7. Tsqueue \notin DOMAIN mfdb
  BY <1>4 DEF KeysPassed, Keyed
<1> QED
  BY <1>3, <1>6, <1>7

\* The databases are empty at the start.
LEMMA KeyInit ==
  Init => KeyInv
<1> SUFFICES ASSUME Init PROVE KeyInv
  OBVIOUS
<1>1. queue = <<>> /\ Len(queue) = 0 /\ received = <<>>
  BY DEF Init
<1>2. mfdb = <<>> /\ DOMAIN mfdb = {}
  BY SMTT(60) DEF Init
<1>3. clock \in Time /\ last_tsqueue = Zero /\ Zero \in Time
  BY TimesAssumption DEF Init, Zero, Time
<1>4. Types /\ Keyed
  BY TypesInit
<1>6. KeysPassed
  BY SMTT(60), <1>1, <1>2, <1>3 DEF KeysPassed, Zero, Time
<1>7. OwnMemfile
  BY SMTT(60), <1>1 DEF OwnMemfile
<1> QED
  BY <1>4, <1>6, <1>7 DEF KeyInv
-----------------------------------------------------------------------------
\* A send keeps the keys that are in use out of reach, the new one included.
LEMMA SendPassed ==
  ASSUME Types, Keyed, KeysPassed, last_tsqueue' = Tsqueue, clock' = clock,
         NEW k \in Time, Passed(k) \/ k = Tsqueue
  PROVE  Passed(k)'
<1>1. clock \in Time /\ last_tsqueue \in Time /\ clock.sec >= last_tsqueue.sec
  BY TimesAssumption DEF Types, KeysPassed
<1>2. Tsqueue \in Time
  BY <1>1, NewKey
<1>3. ~Before(Tsqueue, k)
  BY <1>2, KeyFresh, BeforeOrder
<1> QED
  BY <1>3 DEF Passed

\* pctldb_send_pce()
LEMMA SendInv ==
  ASSUME KeyInv, NEW p \in Products, pctldb_send_pce(p)
  PROVE  KeyInv'
<1>0. Types' /\ Keyed'
  BY SendTypes DEF KeyInv
<1>1. Types /\ Keyed /\ KeysPassed /\ OwnMemfile
  BY DEF KeyInv
<1>2. /\ last_tsqueue' = Tsqueue /\ Tsqueue \in Time /\ Tsqueue.sec = clock.sec
      /\ UNCHANGED <<hardlimit, clock, dbfails, received>>
  BY <1>1, NewKey, TimesAssumption DEF pctldb_send_pce, Types, KeysPassed
<1>3. \A k \in Time : Passed(k) \/ k = Tsqueue => Passed(k)'
  BY <1>1, <1>2, SendPassed
<1>4. clock'.sec >= last_tsqueue'.sec
  BY SMTT(60), <1>1, <1>2, TimesAssumption DEF Types, Time
<1>6. /\ \A j \in 1 .. Len(queue) : queue[j].tsqueue \in Time /\ Passed(queue[j].tsqueue)
      /\ \A k \in DOMAIN mfdb : k \in Time /\ Passed(k)
      /\ Len(queue) \in Nat
  BY SMTT(60), <1>1, ElementTypes DEF Types, Keyed, KeysPassed
<1>7. CASE UNCHANGED <<queue, n, mfdb, mf_total_size>>
  <2>1. OwnMemfile'
    BY <1>1, <1>7 DEF OwnMemfile
  <2>2. KeysPassed'
    BY <1>3, <1>4, <1>6, <1>7 DEF KeysPassed
  <2> QED
    BY <1>0, <2>1, <2>2 DEF KeyInv
<1>8. CASE /\ queue' = Append(queue, [product |-> p, tsqueue |-> Tsqueue]) /\ n' = n + 1
           /\ \/ UNCHANGED <<mfdb, mf_total_size>>
              \/ pctlmfdb_snd(p, Tsqueue)
  <2> DEFINE e == [product |-> p, tsqueue |-> Tsqueue]
  <2>1. e \in Element /\ e.tsqueue = Tsqueue /\ e.product = p
    BY <1>2 DEF Element
  <2> HIDE DEF e
  <2>2. /\ queue' \in Seq(Element) /\ Len(queue') = Len(queue) + 1 /\ queue'[Len(queue) + 1] = e
        /\ \A j \in 1 .. Len(queue) : queue'[j] = queue[j]
    BY SMTT(60), <1>1, <1>8, <2>1 DEF Types, e
  <2>3. /\ mfdb' \in [DOMAIN mfdb' -> Products]
        /\ DOMAIN mfdb' \subseteq DOMAIN mfdb \cup {Tsqueue}
        /\ \A k \in DOMAIN mfdb : k # Tsqueue => mfdb'[k] = mfdb[k]
        /\ DOMAIN mfdb \subseteq DOMAIN mfdb'
        /\ Tsqueue \in DOMAIN mfdb' /\ Tsqueue \notin DOMAIN mfdb => mfdb'[Tsqueue] = p
    BY <1>1, <1>8 DEF pctlmfdb_snd, Keyed
  <2>7. \A j \in 1 .. Len(queue') : j = Len(queue) + 1 \/ j \in 1 .. Len(queue)
    BY SMTT(60), <1>6, <2>2
  <2>8. KeysPassed'
    BY <1>2, <1>3, <1>4, <1>6, <2>1, <2>2, <2>3, <2>7 DEF KeysPassed
  <2>9. /\ \A j \in 1 .. Len(queue) : queue[j].tsqueue # Tsqueue
        /\ Tsqueue \notin DOMAIN mfdb
    BY <1>1, KeyFresh
  <2>10. OwnMemfile'
    <3> SUFFICES ASSUME NEW j \in 1 .. Len(queue')
                 PROVE  /\ \A l \in 1 .. Len(queue') :
                             queue'[j].tsqueue = queue'[l].tsqueue => j = l
                        /\ queue'[j].tsqueue \in DOMAIN mfdb' =>
                             mfdb'[queue'[j].tsqueue] = queue'[j].product
      BY DEF OwnMemfile
    <3>1. CASE j = Len(queue) + 1
      BY <2>1, <2>2, <2>3, <2>7, <2>9, <3>1
    <3>2. CASE j \in 1 .. Len(queue)
      <4>1. queue'[j] = queue[j] /\ queue[j].tsqueue # Tsqueue
        BY <2>2, <2>9, <3>2
      <4>2. queue'[j].tsqueue \in DOMAIN mfdb' => mfdb'[queue'[j].tsqueue] = queue'[j].product
        BY <1>1, <2>3, <3>2, <4>1 DEF OwnMemfile
      <4>3. ASSUME NEW l \in 1 .. Len(queue'), queue'[j].tsqueue = queue'[l].tsqueue
            PROVE  j = l
        BY <1>1, <2>1, <2>2, <2>7, <3>2, <4>1, <4>3 DEF OwnMemfile
      <4> QED
        BY <4>2, <4>3
    <3> QED
      BY <2>7, <3>1, <3>2
  <2> QED
    BY <1>0, <2>8, <2>10 DEF KeyInv
<1> QED
  BY ZenonT(60), <1>7, <1>8 DEF pctldb_send_pce, Refused, MemfileLost, Queued, pctldb_snd

\* pctldb_rcv_pce(), when there is an element.
LEMMA TakeInv ==
  ASSUME KeyInv, Take
  PROVE  KeyInv'
<1>0. Types' /\ Keyed'
  BY TakeTypes DEF KeyInv
<1>1. Types /\ Keyed /\ KeysPassed /\ OwnMemfile
  BY DEF KeyInv
<1>2. PICK consumed, read, deleted \in BOOLEAN : pctldb_rcv(consumed, read, deleted)
  BY ZenonT(60) DEF Take, DbOutcomes
<1>3. UNCHANGED <<last_tsqueue, hardlimit, clock, dbfails, sent>> /\ pc' = "out"
  BY DEF Take
<1>4. \A k : Passed(k)' <=> Passed(k)
  BY <1>3 DEF Passed
<1>5. CASE UNCHANGED <<queue, n, mfdb, mf_total_size, received>>
  <2>1. OwnMemfile'
    BY <1>1, <1>5 DEF OwnMemfile
  <2>2. KeysPassed'
    BY <1>1, <1>3, <1>4, <1>5 DEF KeysPassed
  <2> QED
    BY <1>0, <2>1, <2>2 DEF KeyInv
<1>6. CASE queue # <<>> /\ queue' = Tail(queue) /\ n' = n - 1 /\ pctlmfdb_rcv(Head(queue), read, deleted)
  <2>1. /\ Len(queue) \in Nat /\ Len(queue) > 0 /\ queue' \in Seq(Element)
        /\ Len(queue') = Len(queue) - 1
        /\ \A j \in 1 .. Len(queue') : queue'[j] = queue[j + 1]
        /\ Head(queue) = queue[1]
    BY SMTT(60), <1>1, <1>6 DEF Types
  <2>2. 1 \in 1 .. Len(queue) /\ \A j \in 1 .. Len(queue') : j + 1 \in 1 .. Len(queue)
    BY SMTT(60), <2>1
  <2> DEFINE ts == queue[1].tsqueue
  <2>3. /\ mfdb' \in [DOMAIN mfdb' -> Products] /\ DOMAIN mfdb' \subseteq DOMAIN mfdb
        /\ \A k \in DOMAIN mfdb' : mfdb'[k] = mfdb[k]
    BY <1>1, <1>6 DEF pctlmfdb_rcv, Restrict, Keyed
  <2>8. KeysPassed'
    BY <1>1, <1>3, <1>4, <2>1, <2>2, <2>3 DEF KeysPassed
  <2>9. OwnMemfile'
    <3> SUFFICES ASSUME NEW j \in 1 .. Len(queue')
                 PROVE  /\ \A l \in 1 .. Len(queue') :
                             queue'[j].tsqueue = queue'[l].tsqueue => j = l
                        /\ queue'[j].tsqueue \in DOMAIN mfdb' =>
                             mfdb'[queue'[j].tsqueue] = queue'[j].product
      BY DEF OwnMemfile
    <3>1. queue'[j] = queue[j + 1] /\ j + 1 \in 1 .. Len(queue)
      BY <2>1, <2>2
    <3>2. ASSUME NEW l \in 1 .. Len(queue'), queue'[j].tsqueue = queue'[l].tsqueue
          PROVE  j = l
      <4>1. queue'[l] = queue[l + 1] /\ l + 1 \in 1 .. Len(queue)
        BY <2>1, <2>2
      <4>2. j + 1 = l + 1
        BY <1>1, <3>1, <3>2, <4>1 DEF OwnMemfile
      <4> QED
        BY SMTT(60), <4>2
    <3>3. queue'[j].tsqueue \in DOMAIN mfdb' => mfdb'[queue'[j].tsqueue] = queue'[j].product
      BY SMTT(60), <1>1, <2>3, <3>1 DEF OwnMemfile
    <3> QED
      BY <3>2, <3>3
  <2> QED
    BY <1>0, <2>8, <2>9 DEF KeyInv
<1> QED
  BY <1>2, <1>5, <1>6 DEF pctldb_rcv

\* The steps that change neither the queue nor the memory file db.
LEMMA OtherInv ==
  ASSUME KeyInv, ~ClockMayStepBack, Wait \/ GiveUp \/ Timeout \/ Tick \/ DbFail \/ Restart
  PROVE  KeyInv'
<1>0. Types' /\ Keyed'
  BY TypesNext DEF KeyInv, Next
<1>1. Types /\ Keyed /\ KeysPassed /\ OwnMemfile
  BY DEF KeyInv
<1>2. UNCHANGED <<queue, mfdb, sent, received>>
  BY DEF Wait, GiveUp, Timeout, Tick, DbFail, Restart
<1>3. OwnMemfile'
  BY <1>1, <1>2 DEF OwnMemfile
<1>4. /\ clock \in Time /\ last_tsqueue \in Time /\ clock.sec >= last_tsqueue.sec
      /\ \A j \in 1 .. Len(queue) : queue[j].tsqueue \in Time /\ Passed(queue[j].tsqueue)
      /\ \A k \in DOMAIN mfdb : k \in Time /\ Passed(k)
  BY <1>1, TimesAssumption, ElementTypes DEF Types, Keyed, KeysPassed
<1>5. CASE Tick
  <2>1. /\ UNCHANGED <<n, mf_total_size, last_tsqueue, hardlimit, dbfails, pc>>
        /\ clock' \in Times /\ clock' \in Time /\ Before(clock, clock')
    BY <1>5, TimesAssumption DEF Tick
  <2>2. \A k \in Time : Passed(k) => Passed(k)'
    BY <1>4, <2>1, BeforeOrder DEF Passed
  <2>3. clock'.sec >= last_tsqueue'.sec
    BY SMTT(60), <1>4, <2>1 DEF Before, Time
  <2>4. KeysPassed'
    BY <1>2, <1>4, <2>2, <2>3 DEF KeysPassed
  <2> QED
    BY <1>0, <1>3, <2>4 DEF KeyInv
<1>6. CASE Restart
  <2>1. /\ n' = Len(queue) /\ mf_total_size' = Stored(mfdb) /\ last_tsqueue' = Zero
        /\ hardlimit' \in HardLimits /\ pc' = "out" /\ UNCHANGED <<clock, dbfails>>
        /\ Before(last_tsqueue, clock)
    BY <1>6 DEF Restart, pctldb_stat, pctlmfdb_stat
  <2>2. Zero \in Time /\ clock.sec >= Zero.sec
    BY SMTT(60), <1>4 DEF Zero, Time
  <2>3. \A k \in Time : Passed(k) => Before(k, clock)
    BY <1>4, <2>1, BeforeOrder DEF Passed
  <2>4. \A k \in Time : Passed(k) => Passed(k)'
    BY <2>1, <2>3 DEF Passed
  <2>5. KeysPassed'
    BY <1>2, <1>4, <2>1, <2>2, <2>4 DEF KeysPassed
  <2> QED
    BY <1>0, <1>3, <2>5 DEF KeyInv
<1>7. CASE Wait \/ GiveUp \/ Timeout \/ DbFail
  <2>1. UNCHANGED <<last_tsqueue, clock>>
    BY <1>7 DEF Wait, GiveUp, Timeout, DbFail
  <2>2. \A k : Passed(k) <=> Passed(k)'
    BY <2>1 DEF Passed
  <2>3. KeysPassed'
    BY <1>1, <1>2, <2>1, <2>2 DEF KeysPassed
  <2> QED
    BY <1>0, <1>3, <2>3 DEF KeyInv
<1> QED
  BY <1>5, <1>6, <1>7

\* Every step keeps the invariant while the clock is not set back.
LEMMA KeyNext ==
  ~ClockMayStepBack => (KeyInv /\ [Next]_vars => KeyInv')
<1> SUFFICES ASSUME ~ClockMayStepBack, KeyInv, [Next]_vars PROVE KeyInv'
  OBVIOUS
<1>1. CASE UNCHANGED vars
  <2>1. \A k : Passed(k)' <=> Passed(k)
    BY <1>1 DEF vars, Passed
  <2> QED
    BY <1>1, <2>1 DEF vars, KeyInv, Types, Keyed, KeysPassed, OwnMemfile
<1> QED
  BY <1>1, SendInv, TakeInv, OtherInv DEF Next

-----------------------------------------------------------------------------
(***************************************************************************)
(* pctldb.c and pctlmfdb.c: no two queued elements have the same key and   *)
(* none finds the memory file of another, for any number of products and   *)
(* restarts, any calls of Berkeley DB that fail and any clock that is not  *)
(* set back.                                                               *)
(***************************************************************************)
THEOREM OwnMemfiles ==
  ~ClockMayStepBack => (Spec => []OwnMemfile)
<1> SUFFICES ASSUME ~ClockMayStepBack PROVE Spec => []OwnMemfile
  OBVIOUS
<1>1. KeyInv /\ [Next]_vars => KeyInv'
  BY KeyNext
<1>2. KeyInv => OwnMemfile
  BY DEF KeyInv
<1> QED
  BY <1>1, <1>2, KeyInit, PTL DEF Spec

-----------------------------------------------------------------------------
\* The products in the queue and the memory files received, as Abstract has
\* them.
Waiting == [j \in 1 .. Len(queue) |-> queue[j].product]
Received == [j \in 1 .. Len(received) |-> received[j].mf]

\* Elements in a sequence are mapped one by one.
LEMMA MapAppend ==
  ASSUME NEW q \in Seq(Element), NEW x \in Element
  PROVE  LET r == Append(q, x)
         IN  [j \in 1 .. Len(r) |-> r[j].product]
               = Append([j \in 1 .. Len(q) |-> q[j].product], x.product)
<1> DEFINE r == Append(q, x)
           w == [j \in 1 .. Len(q) |-> q[j].product]
           v == [j \in 1 .. Len(r) |-> r[j].product]
<1>1. /\ Len(q) \in Nat /\ Len(r) = Len(q) + 1 /\ r[Len(q) + 1] = x
      /\ \A j \in 1 .. Len(q) : r[j] = q[j]
  BY SMTT(60)
<1>2. w \in Seq(Products) /\ Len(w) = Len(q) /\ \A j \in 1 .. Len(q) : w[j] = q[j].product
  BY SMTT(60), <1>1, ElementTypes
<1> HIDE DEF w, r
<1>3. /\ Append(w, x.product) = [j \in 1 .. Len(q) + 1 |-> IF j = Len(q) + 1 THEN x.product ELSE w[j]]
  BY SMTT(60), <1>1, <1>2
<1>4. v = Append(w, x.product)
  BY SMTT(60), <1>1, <1>2, <1>3
<1> QED
  BY <1>4 DEF w, r

\* So they are when the head is taken off.
LEMMA MapTail ==
  ASSUME NEW q \in Seq(Element), q # <<>>
  PROVE  LET r == Tail(q)
             w == [j \in 1 .. Len(q) |-> q[j].product]
         IN  /\ [j \in 1 .. Len(r) |-> r[j].product] = Tail(w)
             /\ w # <<>> /\ Head(w) = Head(q).product
<1> DEFINE r == Tail(q)
           w == [j \in 1 .. Len(q) |-> q[j].product]
           v == [j \in 1 .. Len(r) |-> r[j].product]
<1>1. /\ Len(q) \in Nat /\ Len(q) > 0 /\ Len(r) = Len(q) - 1
      /\ \A j \in 1 .. Len(r) : r[j] = q[j + 1]
      /\ Head(q) = q[1]
  BY SMTT(60)
<1>2. w \in Seq(Products) /\ Len(w) = Len(q) /\ \A j \in 1 .. Len(q) : w[j] = q[j].product
  BY SMTT(60), <1>1, ElementTypes
<1> HIDE DEF w, r
<1>3. w # <<>> /\ Head(w) = w[1]
  BY SMTT(60), <1>1, <1>2
<1>4. /\ Tail(w) \in Seq(Products) /\ Len(Tail(w)) = Len(q) - 1
      /\ \A j \in 1 .. Len(Tail(w)) : Tail(w)[j] = w[j + 1]
  BY <1>2, <1>3, HeadTailProperties
<1>5. v \in Seq(Products) /\ Len(v) = Len(q) - 1 /\ \A j \in 1 .. Len(v) : v[j] = w[j + 1]
  BY SMTT(60), <1>1, <1>2, ElementTypes
<1> HIDE DEF v
<1>6. v = Tail(w)
  BY <1>4, <1>5, SeqEqual
<1>7. Head(w) = Head(q).product
  BY SMTT(60), <1>1, <1>2, <1>3
<1> QED
  BY <1>3, <1>6, <1>7 DEF w, r, v

\* What is received is mapped in the same way.
LEMMA MapReceived ==
  ASSUME NEW q \in Seq(Receipt), NEW x \in Receipt
  PROVE  LET r == Append(q, x)
         IN  [j \in 1 .. Len(r) |-> r[j].mf]
               = Append([j \in 1 .. Len(q) |-> q[j].mf], x.mf)
<1> DEFINE r == Append(q, x)
           w == [j \in 1 .. Len(q) |-> q[j].mf]
           v == [j \in 1 .. Len(r) |-> r[j].mf]
<1>1. /\ Len(q) \in Nat /\ Len(r) = Len(q) + 1 /\ r[Len(q) + 1] = x
      /\ \A j \in 1 .. Len(q) : r[j] = q[j]
  BY SMTT(60)
<1>2. w \in Seq(Products) /\ Len(w) = Len(q) /\ \A j \in 1 .. Len(q) : w[j] = q[j].mf
  <2>1. \A j \in 1 .. Len(q) : q[j] \in Receipt
    BY SMTT(60)
  <2>2. \A j \in 1 .. Len(q) : q[j].mf \in Products
    BY <2>1 DEF Receipt
  <2> QED
    BY SMTT(60), <1>1, <2>2
<1> HIDE DEF w, r
<1>3. Append(w, x.mf) = [j \in 1 .. Len(q) + 1 |-> IF j = Len(q) + 1 THEN x.mf ELSE w[j]]
  BY SMTT(60), <1>1, <1>2
<1>4. v = Append(w, x.mf)
  BY SMTT(60), <1>1, <1>2, <1>3
<1> QED
  BY <1>4 DEF w, r

\* Every step of the two databases is one of the queue, or none.
LEMMA QueueNext ==
  ASSUME KeyInv, [Next]_vars
  PROVE  [Abstract!Next]_Abstract!vars
<1>1. Types /\ Keyed /\ OwnMemfile
  BY DEF KeyInv
<1>2. queue \in Seq(Element) /\ received \in Seq(Receipt)
  BY <1>1 DEF Types
<1> USE DEF Abstract!vars
<1>3. SUFFICES \/ Waiting' = Waiting /\ Received' = Received
               \/ \E p \in Products : Waiting' = Append(Waiting, p) /\ Received' = Received
               \/ /\ Waiting # <<>> /\ Waiting' = Tail(Waiting)
                  /\ Received' = Append(Received, Head(Waiting)) \/ Received' = Received
  BY ZenonT(60), <1>3
  DEF Waiting, Received, Abstract!Next, Abstract!Put, Abstract!Receive, Abstract!Lose
<1>4. CASE UNCHANGED <<queue, received>>
  BY <1>4 DEF Waiting, Received
<1>5. CASE \E p \in Products : pctldb_send_pce(p)
  <2>1. PICK p \in Products : pctldb_send_pce(p)
    BY <1>5
  <2>2. UNCHANGED received
    BY <2>1 DEF pctldb_send_pce
  <2>3. CASE queue' = Append(queue, [product |-> p, tsqueue |-> Tsqueue])
    <3> DEFINE x == [product |-> p, tsqueue |-> Tsqueue]
    <3>1. x \in Element /\ x.product = p
      BY <1>1, NewKey, TimesAssumption DEF KeyInv, Types, KeysPassed, Element
    <3> HIDE DEF x
    <3>2. queue' = Append(queue, x)
      BY <2>3 DEF x
    <3>3. Waiting' = Append(Waiting, p)
      BY <1>2, <3>1, <3>2, MapAppend DEF Waiting
    <3> QED
      BY <2>2, <3>3 DEF Received
  <2> QED
    BY ZenonT(60), <1>4, <2>1, <2>2, <2>3
    DEF pctldb_send_pce, Refused, MemfileLost, Queued, pctldb_snd
<1>6. CASE Take
  <2>1. PICK consumed, read, deleted \in BOOLEAN : pctldb_rcv(consumed, read, deleted)
    BY ZenonT(60), <1>6 DEF Take, DbOutcomes
  <2>2. CASE queue # <<>> /\ queue' = Tail(queue) /\ pctlmfdb_rcv(Head(queue), read, deleted)
    <3>1. Waiting' = Tail(Waiting) /\ Waiting # <<>> /\ Head(Waiting) = Head(queue).product
      BY <1>2, <2>2, MapTail DEF Waiting
    <3>2. 1 \in 1 .. Len(queue) /\ Head(queue) = queue[1]
      BY SMTT(60), <1>2, <2>2
    <3>3. Head(queue).product \in Products
      BY <1>2, <3>2, ElementTypes
    <3>4. CASE received' = received
      BY <3>1, <3>4 DEF Received
    <3>5. CASE /\ Head(queue).tsqueue \in DOMAIN mfdb
               /\ received' = Append(received, [product |-> Head(queue).product,
                                                mf |-> mfdb[Head(queue).tsqueue]])
      <4> DEFINE x == [product |-> Head(queue).product, mf |-> mfdb[Head(queue).tsqueue]]
      <4>1. mfdb[Head(queue).tsqueue] = Head(queue).product
        BY <1>1, <3>2, <3>5 DEF OwnMemfile
      <4>2. x \in Receipt /\ x.mf = Head(queue).product
        BY <3>3, <4>1 DEF Receipt
      <4> HIDE DEF x
      <4>3. received' = Append(received, x)
        BY <3>5 DEF x
      <4>4. Received' = Append(Received, x.mf)
        BY <1>2, <4>2, <4>3, MapReceived DEF Received
      <4> QED
        BY <3>1, <4>2, <4>4
    <3> QED
      BY <2>2, <3>4, <3>5 DEF pctlmfdb_rcv
  <2> QED
    BY <1>4, <2>1, <2>2 DEF pctldb_rcv
<1> QED
  BY <1>4, <1>5, <1>6 DEF Next, vars, Wait, GiveUp, Timeout, Tick, DbFail, Restart

(***************************************************************************)
(* The two databases of pctldb.c and pctlmfdb.c, with their key and their  *)
(* counters, implement the queue of whole products: what the processor     *)
(* receives are products that were queued, in order, once, each with its   *)
(* own contents.                                                           *)
(***************************************************************************)
THEOREM QueueImplemented ==
  ~ClockMayStepBack => (Spec => ImplementsQueue)
<1> SUFFICES ASSUME ~ClockMayStepBack PROVE Spec => ImplementsQueue
  OBVIOUS
<1>1. Init => Abstract!Init
  BY SMTT(60) DEF Init, Abstract!Init
<1>2. KeyInv /\ [Next]_vars => KeyInv'
  BY KeyNext
<1>3. KeyInv /\ [Next]_vars => [Abstract!Next]_Abstract!vars
  BY QueueNext
<1> QED
  BY <1>1, <1>2, <1>3, KeyInit, PTL DEF Spec, ImplementsQueue, Abstract!Spec

-----------------------------------------------------------------------------
\* The counter that pctldb_hard_limit() compares is the length of the queue.
LimitInv ==
  /\ queue \in Seq(Element) /\ n = Len(queue)
  /\ clock \in Times /\ last_tsqueue \in Time
  /\ hardlimit \in HardLimits /\ HardLimitHolds

(***************************************************************************)
(* pctldb_hard_limit() compares for equality only, and yet the queue does  *)
(* not pass the limit, as long as every start of the daemon has the same.  *)
(***************************************************************************)
THEOREM LimitKept ==
  ASSUME NEW limit, HardLimits = {limit}
  PROVE  Spec => []HardLimitHolds
<1>1. Init => LimitInv
  <2> SUFFICES ASSUME Init PROVE LimitInv
    OBVIOUS
  <2>1. queue \in Seq(Element) /\ n = Len(queue) /\ Len(queue) = 0
    BY SMTT(60) DEF Init
  <2>2. last_tsqueue \in Time
    BY DEF Init, Zero, Time
  <2>3. hardlimit \in Nat
    BY LimitsAssumption DEF Init
  <2> QED
    BY SMTT(60), <2>1, <2>2, <2>3 DEF Init, LimitInv, HardLimitHolds
<1>2. LimitInv /\ [Next]_vars => LimitInv'
  <2> SUFFICES ASSUME LimitInv, [Next]_vars PROVE LimitInv'
    OBVIOUS
  <2>1. /\ queue \in Seq(Element) /\ n = Len(queue) /\ Len(queue) \in Nat
        /\ clock \in Time /\ last_tsqueue \in Time
        /\ hardlimit = limit /\ limit \in Nat /\ (limit > 0 => Len(queue) <= limit)
    BY SMTT(60), TimesAssumption, LimitsAssumption DEF LimitInv, HardLimitHolds
  <2>2. clock' \in Times /\ hardlimit' = limit
    BY <2>1 DEF LimitInv, Next, vars, pctldb_send_pce, Take, Wait, GiveUp, Timeout, Tick, DbFail, Restart
  <2>3. Tsqueue \in Time /\ Zero \in Time
    BY SMTT(60), <2>1 DEF Tsqueue, Zero, Time
  <2>4. last_tsqueue' \in Time
    BY <2>1, <2>3 DEF Next, vars, pctldb_send_pce, Take, Wait, GiveUp, Timeout, Tick, DbFail, Restart
  <2>5. /\ queue' \in Seq(Element) /\ n' = Len(queue')
        /\ limit > 0 => Len(queue') <= limit
    <3>1. CASE queue' = queue /\ n' = Len(queue)
      BY <2>1, <3>1
    <3>2. CASE \E p \in Products : pctldb_send_pce(p)
      <4>1. PICK p \in Products : pctldb_send_pce(p)
        BY <3>2
      <4>2. CASE /\ ~pctldb_hard_limit(Size[p]) /\ n' = n + 1
                 /\ queue' = Append(queue, [product |-> p, tsqueue |-> Tsqueue])
        <5> DEFINE x == [product |-> p, tsqueue |-> Tsqueue]
        <5>1. x \in Element
          BY <2>3 DEF Element
        <5> HIDE DEF x
        <5>2. queue' \in Seq(Element) /\ Len(queue') = Len(queue) + 1
          BY SMTT(60), <2>1, <4>2, <5>1 DEF x
        <5>3. limit > 0 => n # limit
          BY <2>1, <4>2 DEF pctldb_hard_limit
        <5> QED
          BY SMTT(60), <2>1, <4>2, <5>2, <5>3
      <4> QED
        BY ZenonT(60), <2>1, <3>1, <4>1, <4>2
        DEF pctldb_send_pce, Refused, MemfileLost, Queued, pctldb_snd
    <3>3. CASE Take
      <4>1. CASE queue # <<>> /\ queue' = Tail(queue) /\ n' = n - 1
        BY SMTT(60), <2>1, <4>1
      <4> QED
        BY <2>1, <3>1, <3>3, <4>1 DEF Take, pctldb_rcv
    <3> QED
      BY <2>1, <3>1, <3>2, <3>3
         DEF Next, vars, Wait, GiveUp, Timeout, Tick, DbFail, Restart, pctldb_stat
  <2> QED
    BY <2>2, <2>4, <2>5 DEF LimitInv, HardLimitHolds
<1>3. LimitInv => HardLimitHolds
  BY DEF LimitInv
<1> QED
  BY <1>1, <1>2, <1>3, PTL DEF Spec
-----------------------------------------------------------------------------
(***************************************************************************)
(* The counters.                                                           *)
(***************************************************************************)
\* The bytes of one memory file are as many as its size.
LEMMA FileBytes ==
  ASSUME NEW k, NEW m \in Nat
  PROVE  IsFiniteSet({k} \X (1 .. m)) /\ Cardinality({k} \X (1 .. m)) = m
<1>1. IsFiniteSet({k}) /\ Cardinality({k}) = 1
  BY FS_Singleton
<1>2. IsFiniteSet(1 .. m) /\ Cardinality(1 .. m) = m
  BY SMTT(60), FS_Interval
<1>3. /\ IsFiniteSet({k} \X (1 .. m))
      /\ Cardinality({k} \X (1 .. m)) = Cardinality({k}) * Cardinality(1 .. m)
  BY ZenonT(60), <1>1, <1>2, FS_Product
<1> QED
  BY SMTT(60), <1>1, <1>2, <1>3

\* Which bytes are in a db.
LEMMA InBytes ==
  ASSUME NEW f
  PROVE  \A b : b \in Bytes(f) <=> \E k \in DOMAIN f : b \in {k} \X (1 .. Size[f[k]])
BY ZenonT(60) DEF Bytes

\* A db with some of the files has some of the bytes.
LEMMA FewerBytes ==
  ASSUME NEW f, NEW g, \A k \in DOMAIN f : k \in DOMAIN g /\ f[k] = g[k]
  PROVE  Bytes(f) \subseteq Bytes(g)
<1> SUFFICES ASSUME NEW b \in Bytes(f) PROVE b \in Bytes(g)
  OBVIOUS
<1>1. PICK k \in DOMAIN f : b \in {k} \X (1 .. Size[f[k]])
  BY ZenonT(60), InBytes
<1>2. k \in DOMAIN g /\ f[k] = g[k]
  BY <1>1
<1> QED
  BY ZenonT(60), <1>1, <1>2, InBytes

\* pctlmfdb_snd() adds at most the bytes of the file it stores.
LEMMA StoredSent ==
  ASSUME IsFiniteSet(Bytes(mfdb)), NEW p \in Products, NEW ts,
         mfdb' = [k \in DOMAIN mfdb \cup {ts} |-> IF k = ts THEN p ELSE mfdb[k]]
  PROVE  IsFiniteSet(Bytes(mfdb')) /\ Stored(mfdb') <= Stored(mfdb) + Size[p]
<1> DEFINE B == Bytes(mfdb)
           F == {ts} \X (1 .. Size[p])
<1>0. Size[p] \in Nat
  BY SizeAssumption
<1>1. IsFiniteSet(F) /\ Cardinality(F) = Size[p]
  BY ZenonT(60), <1>0, FileBytes
<1>2. Bytes(mfdb') \subseteq B \cup F
  <2> SUFFICES ASSUME NEW b \in Bytes(mfdb') PROVE b \in B \cup F
    OBVIOUS
  <2>1. PICK k \in DOMAIN mfdb' : b \in {k} \X (1 .. Size[mfdb'[k]])
    BY ZenonT(60), InBytes
  <2>2. CASE k = ts
    <3>1. mfdb'[k] = p
      BY ZenonT(60), <2>1, <2>2
    <3> QED
      BY ZenonT(60), <2>1, <2>2, <3>1
  <2>3. CASE k # ts
    <3>1. k \in DOMAIN mfdb /\ mfdb'[k] = mfdb[k]
      BY ZenonT(60), <2>1, <2>3
    <3>2. b \in B
      BY ZenonT(60), <2>1, <3>1, InBytes
    <3> QED
      BY <3>2
  <2> QED
    BY <2>2, <2>3
<1> HIDE DEF B, F
<1>3. IsFiniteSet(B)
  BY DEF B
<1>4. /\ IsFiniteSet(B \cup F)
      /\ Cardinality(B \cup F) = Cardinality(B) + Cardinality(F) - Cardinality(B \cap F)
  BY ZenonT(60), <1>1, <1>3, FS_Union
<1>5. IsFiniteSet(B \cap F) /\ Cardinality(B) \in Nat /\ Cardinality(B \cap F) \in Nat
  BY ZenonT(60), <1>3, FS_Intersection, FS_CardinalityType
<1>6. IsFiniteSet(Bytes(mfdb')) /\ Cardinality(Bytes(mfdb')) <= Cardinality(B \cup F)
  BY ZenonT(60), <1>2, <1>4, FS_Subset
<1>7. Cardinality(Bytes(mfdb')) \in Nat /\ Cardinality(B \cup F) \in Nat
  BY <1>4, <1>6, FS_CardinalityType
<1> QED
  BY SMTT(60), <1>0, <1>1, <1>4, <1>5, <1>6, <1>7 DEF Stored, B

\* A memory file that is deleted takes its bytes with it.
LEMMA StoredTaken ==
  ASSUME IsFiniteSet(Bytes(mfdb)), Keyed, NEW ts,
         mfdb' = Restrict(mfdb, DOMAIN mfdb \ {ts})
  PROVE  /\ IsFiniteSet(Bytes(mfdb'))
         /\ ts \notin DOMAIN mfdb => Stored(mfdb') = Stored(mfdb)
         /\ ts \in DOMAIN mfdb => Stored(mfdb) = Stored(mfdb') + Size[mfdb[ts]]
<1> DEFINE B == Bytes(mfdb)
           C == Bytes(mfdb')
           F == {ts} \X (1 .. Size[mfdb[ts]])
<1>1. /\ DOMAIN mfdb' = DOMAIN mfdb \ {ts}
      /\ \A k \in DOMAIN mfdb' : mfdb'[k] = mfdb[k]
  BY ZenonT(60) DEF Restrict
<1>2. C \subseteq B
  <2>1. \A k \in DOMAIN mfdb' : k \in DOMAIN mfdb /\ mfdb'[k] = mfdb[k]
    BY ZenonT(60), <1>1
  <2> QED
    BY ZenonT(60), <2>1, FewerBytes
<1>3. IsFiniteSet(C)
  BY ZenonT(60), <1>2, FS_Subset
<1>4. CASE ts \notin DOMAIN mfdb
  <2>1. \A k \in DOMAIN mfdb : k \in DOMAIN mfdb' /\ mfdb[k] = mfdb'[k]
    BY ZenonT(60), <1>1, <1>4
  <2>2. B \subseteq C
    BY ZenonT(60), <2>1, FewerBytes
  <2>3. B = C
    BY <1>2, <2>2
  <2> QED
    BY ZenonT(60), <1>3, <1>4, <2>3 DEF Stored
<1>5. CASE ts \in DOMAIN mfdb
  <2>0. Size[mfdb[ts]] \in Nat
    BY <1>5, SizeAssumption DEF Keyed
  <2>1. IsFiniteSet(F) /\ Cardinality(F) = Size[mfdb[ts]]
    BY ZenonT(60), <2>0, FileBytes
  <2>2. F \subseteq B
    BY ZenonT(60), <1>5, InBytes
  <2>3. B \subseteq C \cup F
    <3> SUFFICES ASSUME NEW b \in B PROVE b \in C \cup F
      OBVIOUS
    <3>1. PICK k \in DOMAIN mfdb : b \in {k} \X (1 .. Size[mfdb[k]])
      BY ZenonT(60), InBytes
    <3>2. CASE k = ts
      BY ZenonT(60), <3>1, <3>2
    <3>3. CASE k # ts
      <4>1. k \in DOMAIN mfdb' /\ mfdb'[k] = mfdb[k]
        BY ZenonT(60), <1>1, <3>1, <3>3
      <4>2. b \in C
        BY ZenonT(60), <3>1, <4>1, InBytes
      <4> QED
        BY <4>2
    <3> QED
      BY <3>2, <3>3
  <2>4. C \cap F = {}
    <3> SUFFICES ASSUME NEW b \in C, b \in F PROVE FALSE
      OBVIOUS
    <3>1. PICK k \in DOMAIN mfdb' : b \in {k} \X (1 .. Size[mfdb'[k]])
      BY ZenonT(60), InBytes
    <3>2. b[1] = k /\ b[1] = ts
      BY <3>1
    <3> QED
      BY <1>1, <3>1, <3>2
  <2> HIDE DEF B, C, F
  <2>5. B = C \cup F
    BY <1>2, <2>2, <2>3
  <2>6. Cardinality(C \cup F) = Cardinality(C) + Cardinality(F) - Cardinality(C \cap F)
    BY ZenonT(60), <1>3, <2>1, FS_Union
  <2>7. Cardinality(C \cap F) = 0 /\ Cardinality(C) \in Nat
    BY ZenonT(60), <1>3, <2>4, FS_EmptySet, FS_CardinalityType
  <2>8. Cardinality(B) = Cardinality(C) + Cardinality(F)
    BY SMTT(60), <2>0, <2>1, <2>5, <2>6, <2>7
  <2> QED
    BY <1>3, <1>5, <2>1, <2>8 DEF Stored, B, C
<1> QED
  BY <1>4, <1>5

\* The memory file db is finite.
CountInv ==
  /\ Types /\ Keyed /\ IsFiniteSet(Bytes(mfdb))
  /\ mf_total_size \in Nat /\ CountersCover

\* A send is refused when its memory file would pass the limit.
LEMMA SendCount ==
  ASSUME CountInv, NEW p \in Products, pctldb_send_pce(p)
  PROVE  /\ IsFiniteSet(Bytes(mfdb')) /\ mf_total_size' \in Nat
         /\ mf_total_size' >= Stored(mfdb')
         /\ MfHardLimit > 0 => Stored(mfdb') <= MfHardLimit
<1>1. CASE UNCHANGED <<mfdb, mf_total_size>>
  BY <1>1 DEF CountInv, CountersCover
<1>2. CASE ~pctldb_hard_limit(Size[p]) /\ pctlmfdb_snd(p, Tsqueue)
  <2>1. /\ mf_total_size' = mf_total_size + Size[p] /\ Size[p] \in Nat
        /\ mf_total_size \in Nat /\ mf_total_size >= Stored(mfdb)
        /\ MfHardLimit > 0 => mf_total_size + Size[p] <= MfHardLimit
        /\ MfHardLimit \in Nat
    BY SMTT(60), <1>2, SizeAssumption, LimitsAssumption
    DEF CountInv, CountersCover, pctlmfdb_snd, pctldb_hard_limit
  <2>2. IsFiniteSet(Bytes(mfdb)) /\ Stored(mfdb) \in Nat
    BY FS_CardinalityType DEF CountInv, Stored
  <2>3. IsFiniteSet(Bytes(mfdb')) /\ Stored(mfdb') <= Stored(mfdb) + Size[p]
    BY ZenonT(60), <1>2, <2>2, StoredSent DEF pctlmfdb_snd
  <2>4. Stored(mfdb') \in Nat
    BY <2>3, FS_CardinalityType DEF Stored
  <2> QED
    BY SMTT(60), <2>1, <2>2, <2>3, <2>4
<1> QED
  BY ZenonT(60), <1>1, <1>2 DEF pctldb_send_pce, Refused, MemfileLost, Queued

\* A receive takes off no more than it deleted.
LEMMA TakeCount ==
  ASSUME CountInv, Take
  PROVE  /\ IsFiniteSet(Bytes(mfdb')) /\ mf_total_size' \in Nat
         /\ mf_total_size' >= Stored(mfdb')
         /\ MfHardLimit > 0 => Stored(mfdb') <= MfHardLimit
<1>1. PICK consumed, read, deleted \in BOOLEAN : pctldb_rcv(consumed, read, deleted)
  BY ZenonT(60) DEF Take, DbOutcomes
<1>2. CASE UNCHANGED <<mfdb, mf_total_size>>
  BY <1>2 DEF CountInv, CountersCover
<1>3. CASE pctlmfdb_rcv(Head(queue), read, deleted) /\ deleted
  <2> DEFINE ts == Head(queue).tsqueue
             s == IF ts \in DOMAIN mfdb /\ read THEN Size[mfdb[ts]] ELSE 0
  <2>1. /\ mfdb' = Restrict(mfdb, DOMAIN mfdb \ {ts})
        /\ ts \notin DOMAIN mfdb => mf_total_size' = mf_total_size
        /\ ts \in DOMAIN mfdb =>
             mf_total_size' = IF mf_total_size > s THEN mf_total_size - s ELSE 0
    BY ZenonT(60), <1>3 DEF pctlmfdb_rcv
  <2>2. /\ IsFiniteSet(Bytes(mfdb')) /\ IsFiniteSet(Bytes(mfdb))
        /\ ts \notin DOMAIN mfdb => Stored(mfdb') = Stored(mfdb)
        /\ ts \in DOMAIN mfdb => Stored(mfdb) = Stored(mfdb') + Size[mfdb[ts]]
    BY ZenonT(60), <2>1, StoredTaken DEF CountInv
  <2>3. Stored(mfdb') \in Nat /\ Stored(mfdb) \in Nat
    BY <2>2, FS_CardinalityType DEF Stored
  <2>4. ts \in DOMAIN mfdb => Size[mfdb[ts]] \in Nat /\ s \in Nat /\ s <= Size[mfdb[ts]]
    BY SMTT(60), SizeAssumption DEF CountInv, Keyed
  <2>5. /\ mf_total_size \in Nat /\ mf_total_size >= Stored(mfdb)
        /\ MfHardLimit > 0 => Stored(mfdb) <= MfHardLimit
        /\ MfHardLimit \in Nat
    BY LimitsAssumption DEF CountInv, CountersCover
  <2> HIDE DEF ts, s
  <2> QED
    BY SMTT(60), <2>1, <2>2, <2>3, <2>4, <2>5
<1>4. CASE pctlmfdb_rcv(Head(queue), read, deleted) /\ ~deleted
  <2>1. UNCHANGED <<mfdb, mf_total_size>>
    BY ZenonT(60), <1>4 DEF pctlmfdb_rcv
  <2> QED
    BY <1>2, <2>1
<1> QED
  BY ZenonT(60), <1>1, <1>2, <1>3, <1>4 DEF pctldb_rcv

\* The counters at the start, and after every step.
LEMMA CountAlways == Spec => []CountInv
<1>1. Init => CountInv
  <2> SUFFICES ASSUME Init PROVE CountInv
    OBVIOUS
  <2>1. Types /\ Keyed /\ n = Len(queue) /\ mf_total_size = 0
    BY TypesInit DEF Init, Types
  <2>2. Bytes(mfdb) = {}
    <3>1. DOMAIN mfdb = {}
      BY SMTT(60) DEF Init
    <3> QED
      BY ZenonT(60), <3>1 DEF Bytes
  <2>3. IsFiniteSet(Bytes(mfdb)) /\ Stored(mfdb) = 0
    BY <2>2, FS_EmptySet DEF Stored
  <2> QED
    BY SMTT(60), <2>1, <2>3, LimitsAssumption DEF CountInv, CountersCover
<1>2. CountInv /\ [Next]_vars => CountInv'
  <2> SUFFICES ASSUME CountInv, [Next]_vars PROVE CountInv'
    OBVIOUS
  <2>1. Types' /\ Keyed' /\ (n = Len(queue))'
    BY TypesNext DEF CountInv, Types
  <2>2. /\ IsFiniteSet(Bytes(mfdb')) /\ mf_total_size' \in Nat
        /\ mf_total_size' >= Stored(mfdb')
        /\ MfHardLimit > 0 => Stored(mfdb') <= MfHardLimit
    <3>1. CASE UNCHANGED <<mfdb, mf_total_size>>
      BY <3>1 DEF CountInv, CountersCover
    <3>2. CASE Restart
      <4>1. mfdb' = mfdb /\ mf_total_size' = Stored(mfdb)
        BY <3>2 DEF Restart, pctlmfdb_stat
      <4>2. Stored(mfdb) \in Nat
        BY FS_CardinalityType DEF CountInv, Stored
      <4> QED
        BY SMTT(60), <4>1, <4>2 DEF CountInv, CountersCover
    <3> QED
      BY <3>1, <3>2, SendCount, TakeCount
      DEF Next, vars, Wait, GiveUp, Timeout, Tick, DbFail
  <2> QED
    BY ZenonT(60), <2>1, <2>2 DEF CountInv, CountersCover
<1> QED
  BY <1>1, <1>2, PTL DEF Spec

(***************************************************************************)
(* The counters of pctldb.c, which do not survive the process, always      *)
(* cover the files, which do: n is the length of the queue, mf_total_size  *)
(* does not fall below the bytes in pctlmf.db and these do not pass their  *)
(* limit, whatever call of Berkeley DB fails, however the clock is set and *)
(* whatever the sizes.                                                     *)
(***************************************************************************)
THEOREM CountersKept == Spec => []CountersCover
<1>1. CountInv => CountersCover
  BY DEF CountInv
<1> QED
  BY <1>1, CountAlways, PTL

(***************************************************************************)
(* The types of the queue; mf_total_size does not become negative.         *)
(***************************************************************************)
THEOREM QueueTypesHold == Spec => []TypeOK
<1>1. CountInv => TypeOK
  <2> SUFFICES ASSUME CountInv PROVE TypeOK
    OBVIOUS
  <2>1. n \in Nat
    BY SMTT(60) DEF CountInv, Types
  <2>2. Range(mfdb) \subseteq Products
    BY DEF CountInv, Keyed, Range
  <2> QED
    BY ZenonT(60), <2>1, <2>2 DEF CountInv, Types, Keyed, TypeOK, Element, Receipt
<1> QED
  BY <1>1, CountAlways, PTL
=============================================================================
