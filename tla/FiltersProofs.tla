--------------------------- MODULE FiltersProofs ---------------------------
(***************************************************************************)
(* The steps of Filters keep ListExact, HandlesListed and NoStalePipes,    *)
(* for any filters in the configuration and in the directory.              *)
(***************************************************************************)
EXTENDS Filters, TLAPS, FiniteSetTheorems, WellFoundedInduction, NaturalsInduction

\* A leaf is for Zenon unless it names SMT, and may take a minute.
USE ZenonT(60), SMTT(60)

\* The entries in use, and those with an open descriptor or pipe, of a list f
\* of k entries.
UsedIn(f, k) == {j \in 0 .. k - 1 : f[j].fname # NULL}
FdsIn(f, k) == {j \in 0 .. k - 1 : f[j].fd}
PipesIn(f, k) == {j \in 0 .. k - 1 : f[j].pfp}

InUse(e) == IF e.fname = NULL THEN 0 ELSE 1
Used(f, k) == Cardinality(UsedIn(f, k))
Handles(f, k) == Cardinality(FdsIn(f, k)) + Cardinality(PipesIn(f, k))

\* A set of natural numbers that is not empty has a least element.
LEMMA LeastNat ==
  ASSUME NEW S \in SUBSET Nat, S # {}
  PROVE  \E s \in S : \A r \in S : s <= r
<1>1. PICK s \in S : \A r \in S : ~ (<<r, s>> \in OpToRel(<, Nat))
  BY ZenonT(60), NatLessThanWellFounded, WFMin, S # {}
<1>2. ASSUME NEW r \in S, r < s PROVE FALSE
  <2>1. <<r, s>> \in {ss \in Nat \X Nat : ss[1] < ss[2]}
    BY <1>2
  <2>2. <<r, s>> \in OpToRel(<, Nat)
    BY <2>1 DEF OpToRel
  <2> QED
    BY ZenonT(60), <1>1, <2>2
<1> QED
  BY SMTT(60), <1>2

\* The size of a set of which one element comes or goes.
LEMMA Recount ==
  ASSUME NEW S, NEW T, NEW j, IsFiniteSet(S), T \ {j} = S \ {j}
  PROVE  /\ IsFiniteSet(T)
         /\ (j \in T <=> j \in S) => Cardinality(T) = Cardinality(S)
         /\ (j \in T /\ j \notin S) => Cardinality(T) = Cardinality(S) + 1
         /\ (j \notin T /\ j \in S) => Cardinality(T) = Cardinality(S) - 1
<1> DEFINE R == S \ {j}
<1>1. /\ IsFiniteSet(R) /\ j \notin R
      /\ Cardinality(R) = IF j \in S THEN Cardinality(S) - 1 ELSE Cardinality(S)
  BY FS_RemoveElement
<1>2. /\ IsFiniteSet(R \cup {j})
      /\ Cardinality(R \cup {j}) = Cardinality(R) + 1
  BY <1>1, FS_AddElement
<1>3. Cardinality(S) \in Nat /\ Cardinality(R) \in Nat
  BY <1>1, FS_CardinalityType
<1>4. T = IF j \in T THEN R \cup {j} ELSE R
  OBVIOUS
<1> HIDE DEF R
<1>5. CASE j \in T /\ j \in S
  BY <1>1, <1>2, <1>3, <1>4, <1>5
<1>6. CASE j \in T /\ j \notin S
  <2>1. T = R \cup {j} /\ Cardinality(R) = Cardinality(S)
    BY <1>1, <1>4, <1>6
  <2> QED
    BY <1>2, <1>3, <1>6, <2>1
<1>7. CASE j \notin T /\ j \in S
  BY <1>1, <1>2, <1>3, <1>4, <1>7
<1>8. CASE j \notin T /\ j \notin S
  BY <1>1, <1>2, <1>3, <1>4, <1>8
<1> QED
  BY <1>5, <1>6, <1>7, <1>8

\* There are at most as many entries in use as slots.
LEMMA Counts ==
  ASSUME NEW k \in Nat, NEW f
  PROVE  /\ IsFiniteSet(UsedIn(f, k)) /\ IsFiniteSet(FdsIn(f, k)) /\ IsFiniteSet(PipesIn(f, k))
         /\ Used(f, k) \in Nat /\ Used(f, k) <= k
         /\ Used(f, k) = k => UsedIn(f, k) = 0 .. k - 1
         /\ Handles(f, k) \in Nat
<1>1. IsFiniteSet(0 .. k - 1) /\ Cardinality(0 .. k - 1) = k
  BY SMTT(60), FS_Interval
<1>2. /\ UsedIn(f, k) \in SUBSET (0 .. k - 1) /\ FdsIn(f, k) \in SUBSET (0 .. k - 1)
      /\ PipesIn(f, k) \in SUBSET (0 .. k - 1)
  BY DEF UsedIn, FdsIn, PipesIn
<1>3. /\ IsFiniteSet(UsedIn(f, k)) /\ IsFiniteSet(FdsIn(f, k)) /\ IsFiniteSet(PipesIn(f, k))
      /\ Cardinality(UsedIn(f, k)) <= k
      /\ Cardinality(UsedIn(f, k)) = k => UsedIn(f, k) = 0 .. k - 1
  BY <1>1, <1>2, FS_Subset
<1> QED
  BY SMTT(60), <1>3, FS_CardinalityType DEF Used, Handles

\* The list grows.
LEMMA GrowEntries ==
  ASSUME NEW k \in Nat, NEW f \in [0 .. k - 1 -> Entry], NEW g,
         g = [j \in 0 .. GROW_FACTOR * k - 1 |-> IF j < k THEN f[j] ELSE EmptyEntry]
  PROVE  /\ g \in [0 .. GROW_FACTOR * k - 1 -> Entry]
         /\ Used(g, GROW_FACTOR * k) = Used(f, k)
         /\ Handles(g, GROW_FACTOR * k) = Handles(f, k)
<1>1. EmptyEntry \in Entry /\ EmptyEntry.fname = NULL /\ ~EmptyEntry.fd /\ ~EmptyEntry.pfp
  BY DEF Entry, EmptyEntry
<1>2. g \in [0 .. GROW_FACTOR * k - 1 -> Entry]
  BY SMTT(60), <1>1 DEF GROW_FACTOR
<1>3. /\ UsedIn(g, GROW_FACTOR * k) = UsedIn(f, k)
      /\ FdsIn(g, GROW_FACTOR * k) = FdsIn(f, k)
      /\ PipesIn(g, GROW_FACTOR * k) = PipesIn(f, k)
  BY SMTT(60), <1>1 DEF UsedIn, FdsIn, PipesIn, GROW_FACTOR
<1> QED
  BY <1>2, <1>3 DEF Used, Handles

-----------------------------------------------------------------------------
(***************************************************************************)
(* The list.                                                               *)
(***************************************************************************)
ProperEntry(e) ==
  /\ e \in Entry
  /\ e.fname = NULL => e = EmptyEntry
  /\ e.type = "NONE" => e.fname = NULL
  /\ e.fd => e.type = "FIFO"
  /\ e.pfp => e.type = "PIPE"

ListOK(f, k) ==
  /\ k \in Nat /\ f \in [0 .. k - 1 -> Entry]
  /\ \A j \in 0 .. k - 1 : ProperEntry(f[j])
  /\ \A j, l \in 0 .. k - 1 : (f[j].fname = f[l].fname /\ f[j].fname # NULL) => j = l

NewEntry(name, type) == [fname |-> name, type |-> type, fd |-> FALSE, pfp |-> FALSE]

\* The empty entry holds nothing.
LEMMA EmptyProper ==
  /\ ProperEntry(EmptyEntry) /\ EmptyEntry.fname = NULL
  /\ Held(EmptyEntry) = 0 /\ InUse(EmptyEntry) = 0
BY SMTT(60) DEF ProperEntry, EmptyEntry, Entry, Held, InUse

\* A filter that can be added.
LEMMA NewProper ==
  ASSUME NEW name \in Names, NEW type \in {"FIFO", "PIPE"}
  PROVE  /\ ProperEntry(NewEntry(name, type)) /\ Held(NewEntry(name, type)) = 0
         /\ NewEntry(name, type).fname = name /\ name # NULL
         /\ InUse(NewEntry(name, type)) = 1
<1>1. name # NULL /\ NewEntry(name, type) \in Entry
  BY FiltersAssumption DEF Entry, NewEntry
<1>2. ProperEntry(NewEntry(name, type)) /\ NewEntry(name, type).fname = name
  BY <1>1 DEF ProperEntry, NewEntry
<1>3. Held(NewEntry(name, type)) = 0
  BY SMTT(60) DEF Held, NewEntry
<1>4. InUse(NewEntry(name, type)) = 1
  BY <1>1, <1>2 DEF InUse
<1> QED
  BY <1>1, <1>2, <1>3, <1>4

\* List g is list f with entry j replaced by one with the same name, with a
\* new name or empty.
Replaced(g, f, k, j, e) ==
  /\ ListOK(f, k) /\ j \in 0 .. k - 1 /\ ProperEntry(e)
  /\ g = [f EXCEPT ![j] = e]
  /\ e.fname = NULL \/ e.fname = f[j].fname \/ \A l \in 0 .. k - 1 : f[l].fname # e.fname

\* What is replaced is what changes the counts.
LEMMA SetSlot ==
  ASSUME NEW f, NEW k, NEW j, NEW e, NEW g, Replaced(g, f, k, j, e)
  PROVE  /\ ListOK(g, k)
         /\ Used(g, k) = Used(f, k) + InUse(e) - InUse(f[j])
         /\ Handles(g, k) = Handles(f, k) + Held(e) - Held(f[j])
<1> USE DEF Replaced
<1>1. e \in Entry
  BY DEF ProperEntry
<1>2. k \in Nat /\ f \in [0 .. k - 1 -> Entry]
  BY DEF ListOK
<1>3. g \in [0 .. k - 1 -> Entry]
  BY <1>1, <1>2
<1>4. \A l \in 0 .. k - 1 : g[l] = IF l = j THEN e ELSE f[l]
  BY <1>2
<1>5. \A l \in 0 .. k - 1 : ProperEntry(g[l])
  BY <1>4 DEF ListOK
<1>6. ASSUME NEW a \in 0 .. k - 1, NEW b \in 0 .. k - 1,
             g[a].fname = g[b].fname, g[a].fname # NULL
      PROVE  a = b
  BY <1>4, <1>6 DEF ListOK
<1>7. ListOK(g, k)
  BY <1>2, <1>3, <1>5, <1>6 DEF ListOK
<1>8. /\ UsedIn(g, k) \ {j} = UsedIn(f, k) \ {j}
      /\ FdsIn(g, k) \ {j} = FdsIn(f, k) \ {j}
      /\ PipesIn(g, k) \ {j} = PipesIn(f, k) \ {j}
  BY <1>2, <1>4 DEF UsedIn, FdsIn, PipesIn
<1>9. /\ j \in UsedIn(g, k) <=> e.fname # NULL
      /\ j \in UsedIn(f, k) <=> f[j].fname # NULL
      /\ j \in FdsIn(g, k) <=> e.fd
      /\ j \in FdsIn(f, k) <=> f[j].fd
      /\ j \in PipesIn(g, k) <=> e.pfp
      /\ j \in PipesIn(f, k) <=> f[j].pfp
  BY <1>2, <1>4 DEF UsedIn, FdsIn, PipesIn
<1>10. /\ IsFiniteSet(UsedIn(f, k)) /\ Cardinality(UsedIn(f, k)) \in Nat
      /\ IsFiniteSet(FdsIn(f, k)) /\ Cardinality(FdsIn(f, k)) \in Nat
      /\ IsFiniteSet(PipesIn(f, k)) /\ Cardinality(PipesIn(f, k)) \in Nat
  BY <1>2, Counts, FS_CardinalityType
<1>11. Used(g, k) = Used(f, k) + InUse(e) - InUse(f[j])
  <2>1. /\ (j \in UsedIn(g, k) <=> j \in UsedIn(f, k)) =>
             Cardinality(UsedIn(g, k)) = Cardinality(UsedIn(f, k))
        /\ (j \in UsedIn(g, k) /\ j \notin UsedIn(f, k)) =>
             Cardinality(UsedIn(g, k)) = Cardinality(UsedIn(f, k)) + 1
        /\ (j \notin UsedIn(g, k) /\ j \in UsedIn(f, k)) =>
             Cardinality(UsedIn(g, k)) = Cardinality(UsedIn(f, k)) - 1
    BY ZenonT(60), <1>8, <1>10, Recount
  <2> QED
    BY SMTT(60), <1>9, <1>10, <2>1 DEF Used, InUse
<1>12. Cardinality(FdsIn(g, k)) = Cardinality(FdsIn(f, k)) + (IF e.fd THEN 1 ELSE 0)
                                                          - (IF f[j].fd THEN 1 ELSE 0)
  <2>1. /\ (j \in FdsIn(g, k) <=> j \in FdsIn(f, k)) =>
             Cardinality(FdsIn(g, k)) = Cardinality(FdsIn(f, k))
        /\ (j \in FdsIn(g, k) /\ j \notin FdsIn(f, k)) =>
             Cardinality(FdsIn(g, k)) = Cardinality(FdsIn(f, k)) + 1
        /\ (j \notin FdsIn(g, k) /\ j \in FdsIn(f, k)) =>
             Cardinality(FdsIn(g, k)) = Cardinality(FdsIn(f, k)) - 1
    BY ZenonT(60), <1>8, <1>10, Recount
  <2> QED
    BY SMTT(60), <1>9, <1>10, <2>1
<1>13. Cardinality(PipesIn(g, k)) = Cardinality(PipesIn(f, k)) + (IF e.pfp THEN 1 ELSE 0)
                                                              - (IF f[j].pfp THEN 1 ELSE 0)
  <2>1. /\ (j \in PipesIn(g, k) <=> j \in PipesIn(f, k)) =>
             Cardinality(PipesIn(g, k)) = Cardinality(PipesIn(f, k))
        /\ (j \in PipesIn(g, k) /\ j \notin PipesIn(f, k)) =>
             Cardinality(PipesIn(g, k)) = Cardinality(PipesIn(f, k)) + 1
        /\ (j \notin PipesIn(g, k) /\ j \in PipesIn(f, k)) =>
             Cardinality(PipesIn(g, k)) = Cardinality(PipesIn(f, k)) - 1
    BY ZenonT(60), <1>8, <1>10, Recount
  <2> QED
    BY SMTT(60), <1>9, <1>10, <2>1
<1>14. Handles(g, k) = Handles(f, k) + Held(e) - Held(f[j])
  BY SMTT(60), <1>10, <1>12, <1>13 DEF Handles, Held
<1> QED
  BY <1>7, <1>11, <1>14

\* A list that has grown.
LEMMA GrowOK ==
  ASSUME NEW f, NEW k, ListOK(f, k), NEW g,
         g = [j \in 0 .. GROW_FACTOR * k - 1 |-> IF j < k THEN f[j] ELSE EmptyEntry]
  PROVE  /\ ListOK(g, GROW_FACTOR * k)
         /\ Used(g, GROW_FACTOR * k) = Used(f, k)
         /\ Handles(g, GROW_FACTOR * k) = Handles(f, k)
<1>1. k \in Nat /\ GROW_FACTOR * k \in Nat /\ f \in [0 .. k - 1 -> Entry]
  BY SMTT(60) DEF ListOK, GROW_FACTOR
<1>2. /\ g \in [0 .. GROW_FACTOR * k - 1 -> Entry]
      /\ Used(g, GROW_FACTOR * k) = Used(f, k)
      /\ Handles(g, GROW_FACTOR * k) = Handles(f, k)
  BY <1>1, GrowEntries
<1>3. \A j \in 0 .. GROW_FACTOR * k - 1 :
        g[j] = IF j < k THEN f[j] ELSE EmptyEntry
  OBVIOUS
<1>4. \A j \in 0 .. GROW_FACTOR * k - 1 : j < k => j \in 0 .. k - 1
  BY SMTT(60), <1>1 DEF GROW_FACTOR
<1>5. \A j \in 0 .. GROW_FACTOR * k - 1 : ProperEntry(g[j])
  BY <1>3, <1>4, EmptyProper DEF ListOK
<1>6. ASSUME NEW a \in 0 .. GROW_FACTOR * k - 1, NEW b \in 0 .. GROW_FACTOR * k - 1,
             g[a].fname = g[b].fname, g[a].fname # NULL
      PROVE  a = b
  BY <1>3, <1>4, <1>6, EmptyProper DEF ListOK
<1> QED
  BY <1>1, <1>2, <1>5, <1>6 DEF ListOK

\* In a list that is not full there is a first free slot.
LEMMA FreeSlot ==
  ASSUME ListOK(filters, nmax), Used(filters, nmax) # nmax
  PROVE  find_empty_entry \in Slots /\ filters[find_empty_entry] = EmptyEntry
<1> DEFINE F == {j \in Slots : filters[j].fname = NULL}
<1>1. nmax \in Nat
  BY DEF ListOK
<1>2. F \in SUBSET Nat
  BY SMTT(60), <1>1 DEF Slots
<1>3. F # {}
  <2>1. SUFFICES ASSUME F = {} PROVE FALSE
    OBVIOUS
  <2>2. UsedIn(filters, nmax) = 0 .. nmax - 1
    BY <2>1 DEF UsedIn, Slots
  <2>3. Cardinality(0 .. nmax - 1) = nmax
    BY SMTT(60), <1>1, FS_Interval
  <2> QED
    BY <2>2, <2>3 DEF Used
<1>4. PICK s \in F : \A r \in F : s <= r
  BY ZenonT(60), <1>2, <1>3, LeastNat
<1>5. \A l \in 0 .. s - 1 : filters[l].fname # NULL
  BY SMTT(60), <1>1, <1>4 DEF Slots
<1>6. find_empty_entry \in Slots /\ filters[find_empty_entry].fname = NULL
  BY <1>4, <1>5 DEF find_empty_entry
<1> QED
  BY <1>6 DEF ListOK, ProperEntry, Slots

\* The entries of the list after name was added to it, or was not.
Grown(name, type) ==
  \A j \in 0 .. nmax' - 1 :
    \/ j \in Slots /\ filters'[j] = filters[j]
    \/ filters'[j] = EmptyEntry
    \/ filters'[j] = NewEntry(name, type)

\* A name that is not in the list is put in a free slot of it.
Filled(g, f, k, j, name, type) ==
  /\ ListOK(f, k) /\ j \in 0 .. k - 1 /\ f[j] = EmptyEntry
  /\ \A l \in 0 .. k - 1 : f[l].fname # name
  /\ g = [f EXCEPT ![j] = [fname |-> name, type |-> type, fd |-> @.fd, pfp |-> @.pfp]]

\* The name is listed once, and is not open.
LEMMA FillSlot ==
  ASSUME NEW f, NEW k, NEW j, NEW g, NEW name \in Names, NEW type \in {"FIFO", "PIPE"},
         Filled(g, f, k, j, name, type)
  PROVE  /\ ListOK(g, k)
         /\ Used(g, k) = Used(f, k) + 1
         /\ Handles(g, k) = Handles(f, k)
         /\ \A l \in 0 .. k - 1 : g[l] = IF l = j THEN NewEntry(name, type) ELSE f[l]
<1> USE DEF Filled
<1> DEFINE e == NewEntry(name, type)
<1>1. ProperEntry(e) /\ Held(e) = 0 /\ InUse(e) = 1 /\ e.fname = name
  BY NewProper
<1>2. k \in Nat /\ f \in [0 .. k - 1 -> Entry]
  BY DEF ListOK
<1>3. g = [f EXCEPT ![j] = e]
  BY SMTT(60), <1>2 DEF EmptyEntry, NewEntry
<1> HIDE DEF e
<1>4. Held(f[j]) = 0 /\ InUse(f[j]) = 0
  BY EmptyProper
<1>5. /\ ListOK(g, k)
      /\ Used(g, k) = Used(f, k) + InUse(e) - InUse(f[j])
      /\ Handles(g, k) = Handles(f, k) + Held(e) - Held(f[j])
  <2>1. Replaced(g, f, k, j, e)
    BY ZenonT(60), <1>1, <1>3 DEF Replaced
  <2> QED
    BY SMTT(60), <2>1, SetSlot
<1>6. Used(f, k) \in Nat /\ Handles(f, k) \in Nat
  BY <1>2, Counts
<1>7. \A l \in 0 .. k - 1 : g[l] = IF l = j THEN e ELSE f[l]
  BY <1>2, <1>3
<1> QED
  BY SMTT(60), <1>1, <1>4, <1>5, <1>6, <1>7 DEF e

\* add_filter_entry() keeps the list in order and opens and closes nothing.
LEMMA AddEntry ==
  ASSUME ListOK(filters, nmax), n = Used(filters, nmax), nmax >= 1,
         NEW name \in Names, NEW type \in {"FIFO", "PIPE"}, add_filter_entry(name, type)
  PROVE  /\ ListOK(filters', nmax') /\ n' = Used(filters', nmax') /\ nmax' >= 1
         /\ Handles(filters', nmax') = Handles(filters, nmax)
         /\ status' \in {0, -1}
         /\ Grown(name, type)
<1>1. nmax \in Nat /\ filters \in [0 .. nmax - 1 -> Entry]
  BY DEF ListOK
<1>2. CASE status' \in {0, -1} /\ UNCHANGED list
  BY <1>2 DEF list, Grown, Slots
<1>3. CASE find_entry(name) = {} /\ n = nmax /\ ~UNCHANGED list
  <2> DEFINE g == grow_list
  <2>1. /\ ListOK(g, GROW_FACTOR * nmax)
        /\ Used(g, GROW_FACTOR * nmax) = n
        /\ Handles(g, GROW_FACTOR * nmax) = Handles(filters, nmax)
    BY GrowOK DEF grow_list
  <2>2. /\ nmax \in 0 .. GROW_FACTOR * nmax - 1
        /\ \A j \in 0 .. GROW_FACTOR * nmax - 1 :
              g[j] = IF j < nmax THEN filters[j] ELSE EmptyEntry
    BY SMTT(60), <1>1 DEF grow_list, GROW_FACTOR
  <2>3. /\ g[nmax] = EmptyEntry
        /\ \A j \in 0 .. GROW_FACTOR * nmax - 1 : j < nmax => j \in Slots
    BY SMTT(60), <1>1, <2>2 DEF Slots
  <2>4. \A j \in 0 .. GROW_FACTOR * nmax - 1 : g[j].fname # name
    <3>1. \A j \in Slots : filters[j].fname # name
      BY <1>3 DEF find_entry
    <3> QED
      BY <2>2, <2>3, <3>1, EmptyProper, NewProper
  <2> HIDE DEF g
  <2>5. /\ nmax' = GROW_FACTOR * nmax
        /\ \/ filters' = g /\ n' = n /\ status' = -1
           \/ /\ filters' = [g EXCEPT ![nmax] = [fname |-> name, type |-> type,
                                                 fd |-> @.fd, pfp |-> @.pfp]]
              /\ n' = n + 1 /\ status' = 0
    BY <1>3 DEF add_filter_entry, Added, g, list
  <2>6. CASE filters' = g /\ n' = n /\ status' = -1
    BY SMTT(60), <1>1, <2>1, <2>2, <2>3, <2>5, <2>6 DEF Grown, GROW_FACTOR
  <2>7. CASE /\ filters' = [g EXCEPT ![nmax] = [fname |-> name, type |-> type,
                                               fd |-> @.fd, pfp |-> @.pfp]]
             /\ n' = n + 1 /\ status' = 0
    <3>1. /\ ListOK(filters', GROW_FACTOR * nmax)
          /\ Used(filters', GROW_FACTOR * nmax) = Used(g, GROW_FACTOR * nmax) + 1
          /\ Handles(filters', GROW_FACTOR * nmax) = Handles(g, GROW_FACTOR * nmax)
          /\ \A l \in 0 .. GROW_FACTOR * nmax - 1 :
                filters'[l] = IF l = nmax THEN NewEntry(name, type) ELSE g[l]
      <4>1. Filled(filters', g, GROW_FACTOR * nmax, nmax, name, type)
        BY <2>1, <2>2, <2>3, <2>4, <2>7 DEF Filled
      <4> QED
        BY SMTT(60), <4>1, FillSlot
    <3>2. Grown(name, type)
      BY <2>2, <2>3, <2>5, <3>1 DEF Grown
    <3> QED
      BY SMTT(60), <1>1, <2>1, <2>5, <2>7, <3>1, <3>2 DEF GROW_FACTOR
  <2> QED
    BY <2>5, <2>6, <2>7
<1>4. CASE find_entry(name) = {} /\ n # nmax
  <2> DEFINE s == find_empty_entry
  <2>1. s \in 0 .. nmax - 1 /\ filters[s] = EmptyEntry
    BY <1>4, FreeSlot DEF Slots
  <2> HIDE DEF s
  <2>2. \A j \in 0 .. nmax - 1 : filters[j].fname # name
    BY <1>4 DEF find_entry, Slots
  <2>3. /\ nmax' = nmax
        /\ \/ filters' = filters /\ n' = n /\ status' = -1
           \/ /\ filters' = [filters EXCEPT ![s] = [fname |-> name, type |-> type,
                                                    fd |-> @.fd, pfp |-> @.pfp]]
              /\ n' = n + 1 /\ status' = 0
    BY <1>4 DEF add_filter_entry, Added, s, list
  <2>4. CASE filters' = filters /\ n' = n /\ status' = -1
    BY <1>2, <2>3, <2>4 DEF list
  <2>5. CASE /\ filters' = [filters EXCEPT ![s] = [fname |-> name, type |-> type,
                                                  fd |-> @.fd, pfp |-> @.pfp]]
             /\ n' = n + 1 /\ status' = 0
    <3>1. /\ ListOK(filters', nmax)
          /\ Used(filters', nmax) = Used(filters, nmax) + 1
          /\ Handles(filters', nmax) = Handles(filters, nmax)
          /\ \A l \in 0 .. nmax - 1 :
                filters'[l] = IF l = s THEN NewEntry(name, type) ELSE filters[l]
      <4>1. Filled(filters', filters, nmax, s, name, type)
        BY <2>1, <2>2, <2>5 DEF Filled
      <4> QED
        BY SMTT(60), <4>1, FillSlot
    <3>2. Grown(name, type)
      BY <2>3, <3>1 DEF Grown, Slots
    <3> QED
      BY <2>3, <2>5, <3>1, <3>2
  <2> QED
    BY <2>3, <2>4, <2>5
<1>5. CASE find_entry(name) # {}
  BY <1>2, <1>5 DEF add_filter_entry
<1>6. CASE find_entry(name) = {} /\ n = nmax /\ UNCHANGED list
  <2>1. status' \in {0, -1}
    BY <1>6 DEF add_filter_entry, Added
  <2> QED
    BY <1>2, <1>6, <2>1
<1> QED
  BY <1>3, <1>4, <1>5, <1>6

\* The bounds of the counts.
LEMMA ListTypes ==
  ASSUME NEW f, NEW k, ListOK(f, k)
  PROVE  /\ k \in Nat /\ f \in [0 .. k - 1 -> Entry]
         /\ Used(f, k) \in Nat /\ Used(f, k) <= k /\ Handles(f, k) \in Nat
         /\ Used(f, k) \in -k .. k
<1>1. /\ k \in Nat /\ f \in [0 .. k - 1 -> Entry]
      /\ Used(f, k) \in Nat /\ Used(f, k) <= k /\ Handles(f, k) \in Nat
  BY Counts DEF ListOK
<1> QED
  BY SMTT(60), <1>1

\* A list of empty entries.
LEMMA AllEmpty ==
  ASSUME NEW f, NEW k \in Nat, f \in [0 .. k - 1 -> Entry],
         \A j \in 0 .. k - 1 : f[j] = EmptyEntry
  PROVE  ListOK(f, k) /\ Used(f, k) = 0 /\ Handles(f, k) = 0
<1>1. UsedIn(f, k) = {} /\ FdsIn(f, k) = {} /\ PipesIn(f, k) = {}
  BY SMTT(60) DEF UsedIn, FdsIn, PipesIn, EmptyEntry
<1>2. Used(f, k) = 0 /\ Handles(f, k) = 0
  BY SMTT(60), <1>1, FS_EmptySet DEF Used, Handles
<1> QED
  BY <1>2, EmptyProper DEF ListOK

\* No list.
LEMMA NoList ==
  /\ NoEntries \in [0 .. 0 - 1 -> Entry]
  /\ ListOK(NoEntries, 0) /\ Used(NoEntries, 0) = 0 /\ Handles(NoEntries, 0) = 0
<1>1. NoEntries \in [0 .. 0 - 1 -> Entry]
  BY SMTT(60) DEF NoEntries
<1>2. \A j \in 0 .. 0 - 1 : NoEntries[j] = EmptyEntry
  BY SMTT(60)
<1> QED
  BY <1>1, <1>2, AllEmpty, 0 \in Nat, ZenonT(60)

-----------------------------------------------------------------------------
(***************************************************************************)
(* The inductive invariant: the list is in order, and what the thread has  *)
(* done with it so far.                                                    *)
(***************************************************************************)
Position ==
  /\ fpc \in {"none", "start", "done"} => nmax = 0
  /\ fpc \in {"sys", "dev", "read", "stat", "open", "queue", "send", "reload?", "delete"}
       => nmax >= 1
  /\ (fpc = "loop" /\ nmax = 0) => f_quit
  /\ fpc \in {"open", "send", "delete", "kill"} => i <= nmax
  /\ fpc = "sys" => i >= 1
  /\ fpc = "stat" => cur \in DevNames

Progress ==
  /\ (fpc \in {"sys", "dev", "read", "stat"} /\ ~reopen) => \A j \in Slots : ~Opened(filters[j])
  /\ (fpc = "open" /\ ~reopen) => \A j \in Slots : j >= i => ~Opened(filters[j])
  /\ fpc = "delete" => \A j \in Slots : j < i => filters[j].type # "PIPE"
  /\ fpc \in {"sys", "dev"} =>
       \A j \in Slots : filters[j].type = "PIPE" => filters[j].fname \in SysNames
  /\ fpc = "kill" => n >= -i /\ \A j \in Slots : j < i => filters[j] = EmptyEntry

FiltersInv ==
  /\ FiltersTypeOK
  /\ ListOK(filters, nmax) /\ handles = Handles(filters, nmax)
  /\ fpc # "kill" => n = Used(filters, nmax)
  /\ NoStalePipes
  /\ Position /\ Progress

\* The invariant implies the properties.
LEMMA FiltersInvImplies ==
  FiltersInv => ListExact /\ HandlesListed /\ NoStalePipes
BY DEF FiltersInv, ListExact, HandlesListed, ListOK, ProperEntry, Used, Handles, UsedIn,
       FdsIn, PipesIn, Slots

\* The thread is not running yet.
LEMMA FiltersInitInv ==
  FiltersInit => FiltersInv
<1> SUFFICES ASSUME FiltersInit PROVE FiltersInv
  OBVIOUS
<1>1. ListOK(filters, nmax) /\ handles = Handles(filters, nmax) /\ n = Used(filters, nmax)
  BY NoList DEF FiltersInit
<1>2. FiltersTypeOK
  <2>1. filters \in [Slots -> Entry]
    BY NoList DEF FiltersInit, Slots
  <2>2. nmax \in Nat /\ n \in -nmax .. nmax /\ handles \in Nat
    BY SMTT(60) DEF FiltersInit
  <2> QED
    BY ZenonT(60), <2>1, <2>2 DEF FiltersInit, FiltersTypeOK, FilterPcs
<1>3. NoStalePipes /\ Position /\ Progress
  BY SMTT(60) DEF FiltersInit, NoStalePipes, Position, Progress, Slots
<1> QED
  BY <1>1, <1>2, <1>3 DEF FiltersInv, FiltersInit

\* What the other threads may do to the variables of the filter thread.
LEMMA FiltersOthers ==
  ASSUME FiltersInv, UNCHANGED <<list, handles, i, scan, dir, changed>>,
         fpc' = fpc \/ (fpc = "none" /\ fpc' = "start"),
         f_quit' \in BOOLEAN, f_quit => f_quit',
         reload' \in [{"filter", "server"} -> BOOLEAN], locked' \in {"none", "filter", "server"}
  PROVE  FiltersInv'
<1> USE DEF FiltersInv, list, scan
<1>1. FiltersTypeOK'
  BY DEF FiltersTypeOK, FilterPcs, Slots
<1>2. (ListOK(filters, nmax) /\ handles = Handles(filters, nmax))'
  OBVIOUS
<1>3. (fpc # "kill" => n = Used(filters, nmax))'
  OBVIOUS
<1>4. NoStalePipes' /\ Position' /\ Progress'
  BY ZenonT(60) DEF NoStalePipes, Position, Progress, Slots, Opened
<1> QED
  BY <1>1, <1>2, <1>3, <1>4

\* Someone changes the directory.
LEMMA ChangeDirInv ==
  ASSUME FiltersInv, NEW x \in DevNames, ChangeDir(x)
  PROVE  FiltersInv'
<1> USE DEF FiltersInv, list, ChangeDir
<1>1. FiltersTypeOK'
  BY ZenonT(60) DEF FiltersTypeOK, FilterPcs, Slots, Kinds
<1>2. (ListOK(filters, nmax) /\ handles = Handles(filters, nmax))'
  OBVIOUS
<1>3. (fpc # "kill" => n = Used(filters, nmax))'
  OBVIOUS
<1>4. NoStalePipes'
  BY SMTT(60) DEF NoStalePipes, Slots, FiltersTypeOK
<1>5. Position' /\ Progress'
  BY DEF Position, Progress, Slots, Opened
<1> QED
  BY <1>1, <1>2, <1>3, <1>4, <1>5

-----------------------------------------------------------------------------
(***************************************************************************)
(* The steps of the thread that leave the list alone.                      *)
(***************************************************************************)
\* A step that only moves.
LEMMA MovesInv ==
  ASSUME FiltersInv,
         \/ get_dev_filters \/ get_dev_filters_read \/ filter_loop \/ process_filter_queue
         \/ get_reload_filters_flag
  PROVE  FiltersInv'
<1> USE DEF FiltersInv, list, scan, Goto
<1>1. CASE get_dev_filters
  <2> USE <1>1 DEF get_dev_filters
  <2>1. FiltersTypeOK'
    BY SMTT(60) DEF FiltersTypeOK, FilterPcs, Slots
  <2>2. NoStalePipes'
    BY DEF NoStalePipes, Progress, Slots
  <2>3. Position' /\ Progress'
    BY SMTT(60) DEF Position, Progress, Slots, Opened, FiltersTypeOK
  <2> QED
    BY <2>1, <2>2, <2>3
<1>2. CASE get_dev_filters_read
  <2> USE <1>2 DEF get_dev_filters_read
  <2>1. FiltersTypeOK'
    BY SMTT(60) DEF FiltersTypeOK, FilterPcs, Slots
  <2>2. NoStalePipes'
    BY DEF NoStalePipes, Slots
  <2>3. Position' /\ Progress'
    BY SMTT(60) DEF Position, Progress, Slots, Opened, FiltersTypeOK
  <2> QED
    BY <2>1, <2>2, <2>3
<1>3. CASE filter_loop
  <2> USE <1>3 DEF filter_loop
  <2>1. FiltersTypeOK'
    BY SMTT(60) DEF FiltersTypeOK, FilterPcs, Slots
  <2>2. NoStalePipes'
    BY DEF NoStalePipes, Slots
  <2>3. n \in Nat /\ n <= nmax /\ nmax \in Nat
    BY ListTypes
  <2>4. Position' /\ Progress'
    BY SMTT(60), <2>3 DEF Position, Progress, Slots, Opened
  <2>5. (fpc # "kill" => n = Used(filters, nmax))'
    OBVIOUS
  <2> QED
    BY <2>1, <2>2, <2>4, <2>5
<1>4. CASE process_filter_queue
  <2> USE <1>4 DEF process_filter_queue
  <2>1. FiltersTypeOK'
    BY SMTT(60) DEF FiltersTypeOK, FilterPcs, Slots
  <2>2. NoStalePipes'
    BY DEF NoStalePipes, Slots
  <2>3. n \in Nat /\ n <= nmax /\ nmax \in Nat
    BY ListTypes
  <2>4. Position' /\ Progress'
    BY SMTT(60), <2>3 DEF Position, Progress, Slots, Opened
  <2>5. (fpc # "kill" => n = Used(filters, nmax))'
    OBVIOUS
  <2> QED
    BY <2>1, <2>2, <2>4, <2>5
<1>5. CASE get_reload_filters_flag
  <2> USE <1>5 DEF get_reload_filters_flag
  <2>1. FiltersTypeOK'
    <3>1. reload' \in [{"filter", "server"} -> BOOLEAN]
      BY ZenonT(60) DEF FiltersTypeOK
    <3>2. fpc' \in FilterPcs /\ i' = 0
      BY DEF FilterPcs
    <3> QED
      BY <3>1, <3>2 DEF FiltersTypeOK, Slots
  <2>2. NoStalePipes'
    BY DEF NoStalePipes, Slots
  <2>3. Position' /\ Progress'
    BY SMTT(60) DEF Position, Progress, Slots, Opened, FiltersTypeOK
  <2> QED
    BY <2>1, <2>2, <2>3
<1> QED
  BY <1>1, <1>2, <1>3, <1>4, <1>5

(***************************************************************************)
(* The steps that make the list.                                           *)
(***************************************************************************)
\* The list is allocated, or the daemon quits.
LEMMA OpenServerInv ==
  ASSUME FiltersInv, open_filter_server
  PROVE  FiltersInv'
<1> USE DEF FiltersInv, list, scan, Goto, open_filter_server
<1>1. CASE fpc' = "loop"
  <2>1. FiltersTypeOK'
    BY SMTT(60), <1>1 DEF FiltersTypeOK, FilterPcs, Slots
  <2>2. NoStalePipes' /\ Position' /\ Progress'
    BY <1>1 DEF NoStalePipes, Position, Progress, Slots
  <2> QED
    BY <1>1, <2>1, <2>2
<1>2. CASE fpc' = "sys"
  <2>1. /\ nmax' = 1 /\ n' = 0 /\ filters' \in [0 .. nmax' - 1 -> Entry]
        /\ \A j \in 0 .. nmax' - 1 : filters'[j] = EmptyEntry
    BY <1>2, EmptyProper DEF INITIAL_SIZE, ProperEntry
  <2>2. ListOK(filters', nmax') /\ Used(filters', nmax') = 0 /\ Handles(filters', nmax') = 0
    BY ZenonT(60), <2>1, AllEmpty
  <2>3. handles' = 0
    <3>1. nmax = 0 /\ filters \in [0 .. nmax - 1 -> Entry]
      BY DEF Position, ListOK
    <3>2. nmax \in Nat /\ \A j \in 0 .. nmax - 1 : filters[j] = EmptyEntry
      BY SMTT(60), <3>1
    <3>3. Handles(filters, nmax) = 0
      BY <3>1, <3>2, AllEmpty, ZenonT(60)
    <3> QED
      BY <3>3
  <2>4. FiltersTypeOK'
    <3>1. (nmax \in Nat /\ n \in -nmax .. nmax /\ filters \in [Slots -> Entry] /\ handles \in Nat)'
      BY SMTT(60), <2>1, <2>3 DEF Slots
    <3>3. fpc' = "sys" /\ i' = 1 /\ status' = 0 /\ reopen' = FALSE
      BY <1>2
    <3>2. (fpc \in FilterPcs /\ i \in Nat /\ status \in {0, -1} /\ reopen \in BOOLEAN)'
      BY ZenonT(60), <3>3 DEF FilterPcs
    <3> QED
      BY <1>2, <3>1, <3>2 DEF FiltersTypeOK
  <2>5. NoStalePipes' /\ Position' /\ Progress'
    BY SMTT(60), <1>2, <2>1 DEF NoStalePipes, Position, Progress, Slots, EmptyEntry, Opened
  <2> QED
    BY <1>2, <2>1, <2>2, <2>3, <2>4, <2>5
<1> QED
  BY <1>1, <1>2

\* A filter of the configuration is added.
LEMMA SysFiltersInv ==
  ASSUME FiltersInv, get_sys_filters
  PROVE  FiltersInv'
<1> USE DEF FiltersInv, scan, Goto, get_sys_filters
<1>1. CASE UNCHANGED <<list, status>> /\ fpc' \in {"dev", "open"}
  <2>1. FiltersTypeOK'
    BY SMTT(60), <1>1 DEF FiltersTypeOK, FilterPcs, Slots, list
  <2>2. NoStalePipes' /\ Position' /\ Progress'
    BY SMTT(60), <1>1 DEF NoStalePipes, Position, Progress, Slots, Opened, FiltersTypeOK, list
  <2> QED
    BY <1>1, <2>1, <2>2 DEF list
<1>2. CASE /\ i <= Len(SysFilters) /\ fpc' = "sys" /\ i' = i + 1
           /\ add_filter_entry(SysFilters[i], "PIPE")
  <2>1. SysFilters[i] \in SysNames /\ SysFilters[i] \in Names
    BY SMTT(60), <1>2, FiltersAssumption DEF Position, SysNames, Names, FiltersTypeOK
  <2>2. nmax >= 1 /\ n = Used(filters, nmax)
    BY DEF Position
  <2>3. /\ ListOK(filters', nmax') /\ n' = Used(filters', nmax') /\ nmax' >= 1
        /\ Handles(filters', nmax') = Handles(filters, nmax)
        /\ status' \in {0, -1}
        /\ Grown(SysFilters[i], "PIPE")
    BY <1>2, <2>1, <2>2, AddEntry
  <2>4. FiltersTypeOK'
    BY SMTT(60), <1>2, <2>3, ListTypes DEF FiltersTypeOK, FilterPcs, Slots
  <2>5. \A j \in Slots' :
          \/ j \in Slots /\ filters'[j] = filters[j]
          \/ filters'[j].type = "NONE" /\ ~Opened(filters'[j])
          \/ /\ filters'[j].type = "PIPE" /\ ~Opened(filters'[j])
             /\ filters'[j].fname = SysFilters[i]
    BY SMTT(60), <2>3 DEF Grown, Slots, NewEntry, EmptyEntry, Opened
  <2>6. NoStalePipes'
    BY <2>1, <2>5 DEF NoStalePipes
  <2>7. Position' /\ Progress'
    BY SMTT(60), <1>2, <2>1, <2>3, <2>5 DEF Position, Progress, FiltersTypeOK
  <2> QED
    BY <1>2, <2>3, <2>4, <2>6, <2>7
<1> QED
  BY <1>1, <1>2

\* A filter of the directory is added.
LEMMA DirEntryInv ==
  ASSUME FiltersInv, process_dir_entry
  PROVE  FiltersInv'
<1> USE DEF FiltersInv, scan, Goto, process_dir_entry
<1>1. fpc = "stat" /\ cur \in DevNames /\ nmax >= 1 /\ n = Used(filters, nmax)
  BY DEF Position
<1>2. /\ status' \in {0, -1} /\ fpc' \in {"read", "open"} /\ i' = 0
      /\ ListOK(filters', nmax') /\ n' = Used(filters', nmax') /\ nmax' >= 1
      /\ Handles(filters', nmax') = Handles(filters, nmax)
      /\ \A j \in Slots' :
           \/ j \in Slots /\ filters'[j] = filters[j]
           \/ filters'[j].type # "PIPE" /\ ~Opened(filters'[j])
           \/ ~Opened(filters'[j]) /\ filters'[j].fname = cur /\ dir[cur] = "script"
  <2>1. ASSUME NEW type \in {"FIFO", "PIPE"}, type = "PIPE" => dir[cur] = "script",
               add_filter_entry(cur, type)
        PROVE  <1>2!:
    <3>1. /\ ListOK(filters', nmax') /\ n' = Used(filters', nmax') /\ nmax' >= 1
          /\ Handles(filters', nmax') = Handles(filters, nmax)
          /\ status' \in {0, -1}
          /\ Grown(cur, type)
      BY <1>1, <2>1, AddEntry DEF Names
    <3>2. \A j \in Slots' :
            \/ j \in Slots /\ filters'[j] = filters[j]
            \/ filters'[j].type # "PIPE" /\ ~Opened(filters'[j])
            \/ ~Opened(filters'[j]) /\ filters'[j].fname = cur /\ dir[cur] = "script"
      BY SMTT(60), <2>1, <3>1 DEF Grown, Slots, NewEntry, EmptyEntry, Opened
    <3> QED
      BY <3>1, <3>2
  <2>2. CASE status' \in {0, -1} /\ UNCHANGED list
    BY <1>1, <2>2 DEF list, Slots
  <2>3. status \in {0, -1}
    BY DEF FiltersTypeOK
  <2> QED
    BY <2>1, <2>2, <2>3
<1>3. FiltersTypeOK'
  BY SMTT(60), <1>2, ListTypes DEF FiltersTypeOK, FilterPcs, Slots
<1>4. NoStalePipes'
  BY <1>2 DEF NoStalePipes
<1>5. Position'
  <2>1. nmax' \in Nat /\ nmax' >= 1
    BY <1>2, ListTypes
  <2> QED
    BY SMTT(60), <1>2, <2>1 DEF Position
<1>6. Progress'
  <2>1. ~reopen' => \A j \in Slots : ~Opened(filters[j])
    BY <1>1 DEF Progress
  <2>2. ~reopen' => \A j \in Slots' : ~Opened(filters'[j])
    BY <1>2, <2>1
  <2> QED
    BY <1>2, <2>2 DEF Progress
<1> QED
  BY <1>2, <1>3, <1>4, <1>5, <1>6

(***************************************************************************)
(* The steps that open, close and remove filters.                          *)
(***************************************************************************)
\* What opening and closing does to an entry.
LEMMA OpenProper ==
  ASSUME NEW e, ProperEntry(e), e.fname # NULL
  PROVE  /\ ProperEntry(OpenedEntry(e)) /\ Held(OpenedEntry(e)) = 1
         /\ OpenedEntry(e).fname = e.fname /\ OpenedEntry(e).type = e.type
         /\ ProperEntry(ClosedEntry(e)) /\ Held(ClosedEntry(e)) = 0
         /\ ClosedEntry(e).fname = e.fname /\ ClosedEntry(e).type = e.type
<1>1. e \in Entry /\ e.type \in {"FIFO", "PIPE"}
  BY DEF ProperEntry, Entry
<1>2. /\ OpenedEntry(e) \in Entry
      /\ OpenedEntry(e).fname = e.fname /\ OpenedEntry(e).type = e.type
      /\ OpenedEntry(e).fd <=> e.type = "FIFO"
      /\ OpenedEntry(e).pfp <=> e.type = "PIPE"
  BY ZenonT(60), <1>1 DEF Entry, OpenedEntry
<1>3. /\ ClosedEntry(e) \in Entry
      /\ ClosedEntry(e).fname = e.fname /\ ClosedEntry(e).type = e.type
      /\ ~ClosedEntry(e).fd /\ ~ClosedEntry(e).pfp
  BY ZenonT(60), <1>1 DEF Entry, ClosedEntry
<1>4. ProperEntry(OpenedEntry(e)) /\ Held(OpenedEntry(e)) = 1
  BY SMTT(60), <1>1, <1>2 DEF ProperEntry, Held
<1>5. ProperEntry(ClosedEntry(e)) /\ Held(ClosedEntry(e)) = 0
  BY SMTT(60), <1>1, <1>3 DEF ProperEntry, Held
<1> QED
  BY <1>2, <1>3, <1>4, <1>5

\* delete_filter_entry() gives back what the entry held.
LEMMA DeleteEntry ==
  ASSUME ListOK(filters, nmax), handles = Handles(filters, nmax), NEW j \in Slots,
         delete_filter_entry(j)
  PROVE  /\ ListOK(filters', nmax') /\ handles' = Handles(filters', nmax')
         /\ nmax' = nmax /\ n' = n - 1
         /\ Used(filters', nmax') = Used(filters, nmax) - InUse(filters[j])
         /\ \A l \in Slots : filters'[l] = IF l = j THEN EmptyEntry ELSE filters[l]
<1>1. nmax \in Nat /\ filters \in [0 .. nmax - 1 -> Entry] /\ Used(filters, nmax) \in Nat
      /\ Handles(filters, nmax) \in Nat
  BY ListTypes
<1>2. Replaced(filters', filters, nmax, j, EmptyEntry)
  BY EmptyProper DEF Replaced, delete_filter_entry, Slots
<1>3. /\ ListOK(filters', nmax)
      /\ Used(filters', nmax) = Used(filters, nmax) + InUse(EmptyEntry) - InUse(filters[j])
      /\ Handles(filters', nmax) = Handles(filters, nmax) + Held(EmptyEntry) - Held(filters[j])
  BY ZenonT(60), <1>2, SetSlot
<1>4. InUse(filters[j]) \in {0, 1} /\ Held(filters[j]) \in {0, 1, 2}
  BY SMTT(60) DEF InUse, Held
<1>5. \A l \in Slots : filters'[l] = IF l = j THEN EmptyEntry ELSE filters[l]
  BY <1>1 DEF delete_filter_entry, Slots
<1> QED
  BY SMTT(60), <1>1, <1>3, <1>4, <1>5, EmptyProper DEF delete_filter_entry

\* A filter is opened or removed.
LEMMA OpenFiltersInv ==
  ASSUME FiltersInv, open_filters1
  PROVE  FiltersInv'
<1> USE DEF FiltersInv, scan, Goto
<1>0. 0 \in Nat
  OBVIOUS
<1>1. /\ fpc = "open" /\ n = Used(filters, nmax) /\ n \in Nat /\ n <= nmax
      /\ nmax \in Nat /\ nmax >= 1 /\ i \in Nat /\ i <= nmax
  BY SMTT(60), ListTypes DEF open_filters1, Position, FiltersTypeOK
<1>2. CASE fpc' = "loop" /\ UNCHANGED <<list, handles>>
  <2>1. FiltersTypeOK'
    <3>1. f_quit' \in BOOLEAN /\ reopen' \in BOOLEAN /\ status' \in {0, -1} /\ i' = 0
      BY ZenonT(60), <1>1, <1>2 DEF open_filters1, FiltersTypeOK
    <3>2. fpc' \in FilterPcs /\ i' \in Nat
      BY ZenonT(60), <1>0, <1>2, <3>1 DEF FilterPcs
    <3> QED
      BY ZenonT(60), <1>2, <3>1, <3>2 DEF open_filters1, FiltersTypeOK, Slots, list
  <2>2. NoStalePipes' /\ Position' /\ Progress'
    BY SMTT(60), <1>1, <1>2 DEF NoStalePipes, Position, Progress, Slots, list, open_filters1
  <2> QED
    BY <1>1, <1>2, <2>1, <2>2 DEF list
<1>3. CASE fpc' = "open"
  <2>1. /\ i # nmax /\ i' = i + 1 /\ UNCHANGED <<f_quit, scan, dir, changed, reload, locked>>
        /\ \/ ~reopen_one_filter(filters[i]) /\ UNCHANGED <<list, handles>>
           \/ /\ reopen_one_filter(filters[i])
              /\ \/ /\ filters' = [filters EXCEPT ![i] = OpenedEntry(@)]
                    /\ handles' = handles + 1 /\ UNCHANGED <<n, nmax>>
                 \/ delete_filter_entry(i)
    BY <1>1, <1>3 DEF open_filters1
  <2>2. i \in Slots /\ i \in 0 .. nmax - 1 /\ ProperEntry(filters[i])
    BY SMTT(60), <1>1, <2>1 DEF Slots, ListOK
  <2>3. /\ ListOK(filters', nmax') /\ handles' = Handles(filters', nmax')
        /\ nmax' = nmax /\ n' = Used(filters', nmax')
        /\ \A l \in Slots : /\ l # i => filters'[l] = filters[l]
                            /\ \/ filters'[l].fname = filters[l].fname
                                  /\ filters'[l].type = filters[l].type
                               \/ filters'[l] = EmptyEntry
    <3>1. CASE UNCHANGED <<list, handles>>
      BY <1>1, <3>1 DEF list
    <3>2. CASE delete_filter_entry(i) /\ reopen_one_filter(filters[i])
      <4>1. InUse(filters[i]) = 1
        BY <3>2 DEF InUse, reopen_one_filter
      <4> QED
        BY SMTT(60), <1>1, <2>2, <3>2, <4>1, DeleteEntry
    <3>3. CASE /\ filters' = [filters EXCEPT ![i] = OpenedEntry(@)]
               /\ handles' = handles + 1 /\ UNCHANGED <<n, nmax>>
               /\ reopen_one_filter(filters[i])
      <4> DEFINE e == OpenedEntry(filters[i])
      <4>1. ~Opened(filters[i]) /\ filters[i].fname # NULL
        BY SMTT(60), <1>1, <2>2, <3>3 DEF Progress, reopen_one_filter
      <4>2. /\ ProperEntry(e) /\ Held(e) = 1
            /\ e.fname = filters[i].fname /\ e.type = filters[i].type
        BY <2>2, <4>1, OpenProper
      <4>3. Held(filters[i]) = 0 /\ InUse(e) = InUse(filters[i]) /\ InUse(e) \in {0, 1}
        BY SMTT(60), <4>1, <4>2 DEF Held, Opened, InUse
      <4>4. filters' = [filters EXCEPT ![i] = e]
        BY <3>3
      <4> HIDE DEF e
      <4>5. Replaced(filters', filters, nmax, i, e)
        BY <2>2, <4>2, <4>4 DEF Replaced
      <4>6. /\ ListOK(filters', nmax)
            /\ Used(filters', nmax) = Used(filters, nmax) + InUse(e) - InUse(filters[i])
            /\ Handles(filters', nmax) = Handles(filters, nmax) + Held(e) - Held(filters[i])
        BY SMTT(60), <4>5, SetSlot
      <4>7. Handles(filters, nmax) \in Nat /\ Used(filters, nmax) \in Nat
        BY ListTypes
      <4>8. \A l \in Slots : filters'[l] = IF l = i THEN e ELSE filters[l]
        BY <4>4 DEF FiltersTypeOK
      <4>9. Used(filters', nmax) = n /\ Handles(filters', nmax) = handles + 1
        BY SMTT(60), <1>1, <4>2, <4>3, <4>6, <4>7
      <4> QED
        BY <3>3, <4>2, <4>6, <4>8, <4>9
    <3> QED
      BY <2>1, <3>1, <3>2, <3>3
  <2>4. FiltersTypeOK'
    <3>1. /\ nmax' \in Nat /\ filters' \in [0 .. nmax' - 1 -> Entry] /\ handles' \in Nat
          /\ n' \in -nmax' .. nmax'
      BY <2>3, ListTypes
    <3>2. (nmax \in Nat /\ n \in -nmax .. nmax /\ filters \in [Slots -> Entry] /\ handles \in Nat)'
      BY ZenonT(60), <3>1 DEF Slots
    <3>3. fpc' \in FilterPcs /\ i' \in Nat
      BY SMTT(60), <1>1, <1>3, <2>1 DEF FilterPcs
    <3> QED
      BY ZenonT(60), <2>1, <3>2, <3>3 DEF FiltersTypeOK
  <2>5. NoStalePipes'
    BY SMTT(60), <2>1, <2>3 DEF NoStalePipes, Slots, EmptyEntry
  <2>6. Position'
    BY SMTT(60), <1>1, <1>3, <2>1, <2>3 DEF Position
  <2>7. Progress'
    BY SMTT(60), <1>1, <1>3, <2>1, <2>2, <2>3 DEF Progress, Slots
  <2> QED
    BY <1>3, <2>3, <2>4, <2>5, <2>6, <2>7
<1> QED
  BY <1>2, <1>3 DEF open_filters1

\* A product is sent to a filter, which may open or close it.
LEMMA SendInv ==
  ASSUME FiltersInv, sendto_one_filter
  PROVE  FiltersInv'
<1> USE DEF FiltersInv, scan, Goto
<1>1. /\ fpc = "send" /\ n = Used(filters, nmax) /\ n \in Nat /\ n <= nmax
      /\ nmax \in Nat /\ nmax >= 1 /\ i \in Nat /\ i <= nmax
      /\ UNCHANGED <<scan, dir, changed, f_quit, reload, locked, n, nmax>>
  BY SMTT(60), ListTypes DEF sendto_one_filter, Position, FiltersTypeOK, list
<1>2. /\ ListOK(filters', nmax) /\ handles' = Handles(filters', nmax)
      /\ n = Used(filters', nmax)
      /\ \A l \in Slots : filters'[l].fname = filters[l].fname /\ filters'[l].type = filters[l].type
  <2>1. CASE UNCHANGED <<filters, handles>>
    BY <1>1, <2>1
  <2>2. ASSUME i \in Slots, filters[i].fname # NULL, NEW e,
               e = OpenedEntry(filters[i]) \/ e = ClosedEntry(filters[i]),
               filters' = [filters EXCEPT ![i] = e],
               handles' = handles + Held(e) - Held(filters[i])
        PROVE  <1>2!:
    <3>1. ProperEntry(filters[i]) /\ i \in 0 .. nmax - 1
      BY <2>2 DEF ListOK, Slots
    <3>2. ProperEntry(e) /\ e.fname = filters[i].fname /\ e.type = filters[i].type
      BY <2>2, <3>1, OpenProper
    <3>3. InUse(e) = InUse(filters[i]) /\ InUse(e) \in {0, 1}
      BY <3>2 DEF InUse
    <3>4. Replaced(filters', filters, nmax, i, e)
      BY <2>2, <3>1, <3>2 DEF Replaced
    <3>5. /\ ListOK(filters', nmax)
          /\ Used(filters', nmax) = Used(filters, nmax) + InUse(e) - InUse(filters[i])
          /\ Handles(filters', nmax) = Handles(filters, nmax) + Held(e) - Held(filters[i])
      BY SMTT(60), <3>4, SetSlot
    <3>6. n = Used(filters', nmax)
      BY SMTT(60), <1>1, <3>3, <3>5
    <3>7. \A l \in Slots : filters'[l] = IF l = i THEN e ELSE filters[l]
      BY <2>2 DEF FiltersTypeOK
    <3> QED
      BY <2>2, <3>2, <3>5, <3>6, <3>7
  <2>3. CASE i # nmax /\ ~UNCHANGED <<filters, handles>>
    <3>1. i \in Slots
      BY SMTT(60), <1>1, <2>3 DEF Slots
    <3>2. /\ filters[i].fname # NULL
          /\ \E sent \in BOOLEAN :
               LET after == Sent(filters[i], sent)
               IN  /\ filters' = [filters EXCEPT ![i] = after]
                   /\ handles' = handles + Held(after) - Held(filters[i])
      BY <2>3 DEF sendto_one_filter
    <3>3. PICK sent \in BOOLEAN :
               LET after == Sent(filters[i], sent)
               IN  /\ filters' = [filters EXCEPT ![i] = after]
                   /\ handles' = handles + Held(after) - Held(filters[i])
      BY ZenonT(60), <3>2
    <3>4. CASE sent
      BY ZenonT(60), <2>2, <3>1, <3>2, <3>3, <3>4 DEF Sent
    <3>5. CASE ~sent
      BY ZenonT(60), <2>2, <3>1, <3>2, <3>3, <3>5 DEF Sent
    <3> QED
      BY <3>4, <3>5
  <2>4. CASE i = nmax
    BY <2>1, <2>4 DEF sendto_one_filter, list
  <2> QED
    BY <2>1, <2>3, <2>4
<1>3. (fpc' = "reload?" /\ i' = 0) \/ (fpc' = "send" /\ i' = i + 1 /\ i # nmax)
  BY DEF sendto_one_filter
<1>4. FiltersTypeOK'
  <2>1. /\ filters' \in [0 .. nmax - 1 -> Entry] /\ handles' \in Nat
    BY <1>2, ListTypes
  <2>2. (nmax \in Nat /\ n \in -nmax .. nmax /\ filters \in [Slots -> Entry] /\ handles \in Nat)'
    BY SMTT(60), <1>1, <2>1 DEF Slots
  <2>3. fpc' \in FilterPcs /\ i' \in Nat
    BY SMTT(60), <1>1, <1>3 DEF FilterPcs
  <2> QED
    BY <1>1, <2>2, <2>3 DEF FiltersTypeOK
<1>5. NoStalePipes'
  BY <1>1, <1>2 DEF NoStalePipes, Slots
<1>6. Position' /\ Progress'
  BY SMTT(60), <1>1, <1>3 DEF Position, Progress
<1> QED
  BY <1>1, <1>2, <1>3, <1>4, <1>5, <1>6

\* A reload begins with the removal of the pipes.
LEMMA ReloadInv ==
  ASSUME FiltersInv, e_reload_filters
  PROVE  FiltersInv'
<1>0. \A x \in Nat : x + 1 \in Nat
  BY SMTT(60)
<1> USE DEF FiltersInv, scan, Goto
<1>1. /\ fpc = "delete" /\ n = Used(filters, nmax) /\ n \in Nat /\ n <= nmax
      /\ nmax \in Nat /\ nmax >= 1 /\ i \in Nat /\ i <= nmax
  BY SMTT(60), ListTypes DEF e_reload_filters, Position, FiltersTypeOK
<1>2. CASE fpc' = "sys" /\ UNCHANGED <<list, handles>>
  <2>1. i = nmax /\ i' = 1 /\ status' = 0 /\ reopen' = TRUE
    BY <1>1, <1>2 DEF e_reload_filters
  <2>2. FiltersTypeOK'
    BY <1>2, <2>1 DEF e_reload_filters, FiltersTypeOK, FilterPcs, Slots, list
  <2>3. NoStalePipes' /\ Position'
    BY SMTT(60), <1>1, <1>2, <2>1 DEF NoStalePipes, Position, Slots, list, e_reload_filters
  <2>4. \A j \in Slots : filters[j].type # "PIPE"
    BY SMTT(60), <1>1, <2>1 DEF Progress, Slots
  <2>5. Progress'
    BY <1>2, <2>1, <2>4 DEF Progress, Slots, list
  <2> QED
    BY <1>1, <1>2, <2>2, <2>3, <2>5 DEF list
<1>3. CASE fpc' = "delete"
  <2>1. /\ i # nmax /\ i' = i + 1 /\ UNCHANGED <<f_quit, scan, dir, changed, reload, locked>>
        /\ \/ filters[i].type = "PIPE" /\ delete_filter_entry(i)
           \/ filters[i].type # "PIPE" /\ UNCHANGED <<list, handles>>
    BY ZenonT(60), <1>1, <1>3 DEF e_reload_filters
  <2>2. i \in Slots /\ ProperEntry(filters[i])
    BY SMTT(60), <1>1, <2>1 DEF Slots, ListOK
  <2>3. /\ ListOK(filters', nmax') /\ handles' = Handles(filters', nmax')
        /\ nmax' = nmax /\ n' = Used(filters', nmax')
        /\ filters'[i].type # "PIPE"
        /\ \A l \in Slots : filters'[l] = filters[l] \/ filters'[l] = EmptyEntry
    <3>1. CASE filters[i].type # "PIPE" /\ UNCHANGED <<list, handles>>
      BY <1>1, <3>1 DEF list
    <3>2. CASE filters[i].type = "PIPE" /\ delete_filter_entry(i)
      <4>2. EmptyEntry.type # "PIPE"
        BY DEF EmptyEntry
      <4>1. InUse(filters[i]) = 1
        BY ZenonT(60), <2>2, <3>2, <4>2 DEF InUse, ProperEntry
      <4> QED
        BY SMTT(60), <1>1, <2>2, <3>2, <4>1, <4>2, DeleteEntry
    <3> QED
      BY <2>1, <3>1, <3>2
  <2>4. FiltersTypeOK'
    <3>1. /\ nmax' \in Nat /\ filters' \in [0 .. nmax' - 1 -> Entry] /\ handles' \in Nat
          /\ n' \in -nmax' .. nmax'
      BY <2>3, ListTypes
    <3>2. (nmax \in Nat /\ n \in -nmax .. nmax /\ filters \in [Slots -> Entry] /\ handles \in Nat)'
      BY ZenonT(60), <3>1 DEF Slots
    <3>3. fpc' \in FilterPcs /\ i' \in Nat
      BY ZenonT(60), <1>0, <1>1, <1>3, <2>1 DEF FilterPcs
    <3> QED
      BY ZenonT(60), <2>1, <3>2, <3>3 DEF FiltersTypeOK
  <2>5. NoStalePipes'
    <3>1. EmptyEntry.type # "PIPE"
      BY DEF EmptyEntry
    <3>2. Slots' = Slots /\ dir' = dir /\ changed' = changed
      BY ZenonT(60), <2>1, <2>3 DEF Slots
    <3>3. ASSUME NEW j \in Slots
          PROVE  filters'[j].type = "PIPE" => filters'[j] = filters[j]
      BY ZenonT(60), <2>3, <3>1, <3>3
    <3> QED
      BY ZenonT(60), <3>2, <3>3 DEF NoStalePipes
  <2>6. Position'
    BY SMTT(60), <1>1, <1>3, <2>1, <2>3 DEF Position
  <2>7. Progress'
    <3>1. ASSUME NEW j \in Slots, j < i + 1 PROVE filters'[j].type # "PIPE"
      <4>1. CASE j = i
        BY <2>3, <4>1
      <4>2. CASE j # i
        BY SMTT(60), <1>1, <2>3, <3>1, <4>2 DEF Progress, Slots, EmptyEntry
      <4> QED
        BY <4>1, <4>2
    <3> QED
      BY ZenonT(60), <1>3, <2>1, <2>3, <3>1 DEF Progress, Slots
  <2> QED
    BY <1>3, <2>3, <2>4, <2>5, <2>6, <2>7
<1> QED
  BY <1>2, <1>3 DEF e_reload_filters

\* The list is destroyed.
LEMMA KillInv ==
  ASSUME FiltersInv, kill_filter_list
  PROVE  FiltersInv'
<1> USE DEF FiltersInv, scan, Goto
<1>1. /\ fpc = "kill" /\ nmax \in Nat /\ i \in Nat /\ i <= nmax
      /\ n \in -nmax .. nmax /\ n >= -i /\ filters \in [0 .. nmax - 1 -> Entry]
      /\ UNCHANGED <<scan, dir, changed, f_quit, reload, locked>>
  BY DEF kill_filter_list, Position, Progress, FiltersTypeOK, ListOK
<1>2. CASE fpc' = "done"
  <2>1. i = nmax /\ i' = 0 /\ n' = 0 /\ nmax' = 0 /\ filters' = NoEntries /\ handles' = handles
    BY <1>1, <1>2 DEF kill_filter_list
  <2>2. \A j \in 0 .. nmax - 1 : filters[j] = EmptyEntry
    BY SMTT(60), <1>1, <2>1 DEF Progress, Slots
  <2>3. handles' = 0
    BY <1>1, <2>1, <2>2, AllEmpty
  <2>4. /\ filters' \in [0 .. nmax' - 1 -> Entry]
        /\ ListOK(filters', nmax') /\ handles' = Handles(filters', nmax')
        /\ n' = Used(filters', nmax')
    BY <2>1, <2>3, NoList
  <2>5. FiltersTypeOK'
    <3>1. (nmax \in Nat /\ n \in -nmax .. nmax /\ filters \in [Slots -> Entry] /\ handles \in Nat)'
      BY SMTT(60), <2>1, <2>3, <2>4 DEF Slots
    <3>2. fpc' \in FilterPcs /\ i' \in Nat
      BY <1>2, <2>1 DEF FilterPcs
    <3> QED
      BY ZenonT(60), <1>1, <3>1, <3>2 DEF FiltersTypeOK
  <2>6. NoStalePipes' /\ Position' /\ Progress'
    BY SMTT(60), <1>2, <2>1 DEF NoStalePipes, Position, Progress, Slots
  <2> QED
    BY <1>2, <2>4, <2>5, <2>6
<1>3. CASE fpc' = "kill"
  <2>1. i # nmax /\ i' = i + 1 /\ delete_filter_entry(i)
    BY <1>1, <1>3 DEF kill_filter_list
  <2>2. i \in Slots
    BY SMTT(60), <1>1, <2>1 DEF Slots
  <2>3. /\ ListOK(filters', nmax') /\ handles' = Handles(filters', nmax')
        /\ nmax' = nmax /\ n' = n - 1
        /\ \A l \in Slots : filters'[l] = IF l = i THEN EmptyEntry ELSE filters[l]
    BY <2>1, <2>2, DeleteEntry
  <2>4. FiltersTypeOK'
    <3>1. filters' \in [0 .. nmax' - 1 -> Entry] /\ handles' \in Nat
      BY <2>3, ListTypes
    <3>2. n' \in -nmax' .. nmax'
      BY SMTT(60), <1>1, <2>1, <2>3
    <3>3. (nmax \in Nat /\ n \in -nmax .. nmax /\ filters \in [Slots -> Entry] /\ handles \in Nat)'
      BY <1>1, <2>3, <3>1, <3>2 DEF Slots
    <3>4. fpc' \in FilterPcs /\ i' \in Nat
      BY SMTT(60), <1>1, <1>3, <2>1 DEF FilterPcs
    <3> QED
      BY ZenonT(60), <1>1, <3>3, <3>4 DEF FiltersTypeOK
  <2>5. NoStalePipes'
    <3>1. Slots' = Slots /\ EmptyEntry.type # "PIPE"
      BY <2>3 DEF Slots, EmptyEntry
    <3> QED
      BY ZenonT(60), <1>1, <2>3, <3>1 DEF NoStalePipes
  <2>6. Position'
    BY SMTT(60), <1>1, <1>3, <2>1, <2>3 DEF Position
  <2>7. Progress'
    BY SMTT(60), <1>1, <1>3, <2>1, <2>3 DEF Progress, Slots
  <2> QED
    BY <1>3, <2>3, <2>4, <2>5, <2>6, <2>7
<1> QED
  BY <1>2, <1>3 DEF kill_filter_list

\* Every step of the thread keeps the invariant.
LEMMA FilterThreadInv ==
  ASSUME FiltersInv, FilterThread
  PROVE  FiltersInv'
BY MovesInv, OpenServerInv, SysFiltersInv, DirEntryInv, OpenFiltersInv, SendInv, ReloadInv,
   KillInv DEF FilterThread

\* The thread does not go back to its start, and does not take back the
\* decision to quit.
LEMMA FilterThreadSteps ==
  ASSUME FiltersInv, FilterThread
  PROVE  /\ fpc \notin {"none", "done"} /\ fpc' # "none"
         /\ f_quit => f_quit'
<1> USE DEF Goto
<1>1. CASE open_filter_server
  BY SMTT(60), <1>1 DEF open_filter_server
<1>2. CASE get_sys_filters
  BY <1>2 DEF get_sys_filters
<1>3. CASE get_dev_filters
  BY <1>3 DEF get_dev_filters
<1>4. CASE get_dev_filters_read
  BY <1>4 DEF get_dev_filters_read
<1>5. CASE process_dir_entry
  BY <1>5 DEF process_dir_entry
<1>6. CASE open_filters1
  BY ZenonT(60), <1>6 DEF open_filters1
<1>7. CASE filter_loop
  BY <1>7 DEF filter_loop
<1>8. CASE process_filter_queue
  BY <1>8 DEF process_filter_queue
<1>9. CASE sendto_one_filter
  BY <1>9 DEF sendto_one_filter
<1>10. CASE get_reload_filters_flag
  BY <1>10 DEF get_reload_filters_flag
<1>11. CASE e_reload_filters
  BY <1>11 DEF e_reload_filters
<1>12. CASE kill_filter_list
  BY <1>12 DEF kill_filter_list
<1> QED
  BY <1>1, <1>2, <1>3, <1>4, <1>5, <1>6, <1>7, <1>8, <1>9, <1>10, <1>11, <1>12 DEF FilterThread

\* A thread that is not running has nothing open.
LEMMA NothingOpen ==
  ASSUME FiltersInv, fpc \in {"none", "done"}
  PROVE  handles = 0
<1>1. nmax = 0 /\ filters \in [0 .. nmax - 1 -> Entry]
  BY DEF FiltersInv, Position, ListOK
<1>2. nmax \in Nat /\ \A j \in 0 .. nmax - 1 : filters[j] = EmptyEntry
  BY SMTT(60), <1>1
<1>3. Handles(filters, nmax) = 0
  BY <1>1, <1>2, AllEmpty, ZenonT(60)
<1> QED
  BY <1>3 DEF FiltersInv
=============================================================================
