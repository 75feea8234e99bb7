--------------------------- MODULE BssTableProofs ---------------------------
(***************************************************************************)
(* Safety of BssTable for every set of access points, every limit and      *)
(* every sequence of scans, flushes and connections.                       *)
(*                                                                         *)
(* The properties of the table are not inductive by themselves.  The walks *)
(* of the code start at one end of wpa_s->bss, so its order must be total  *)
(* (InLine), or there would be no first entry to push out; and the walk    *)
(* that stops at a young entry relies on the ages along it (AgesAlong).    *)
(***************************************************************************)
EXTENDS BssTable, FiniteSetTheorems, WellFoundedInduction, NaturalsInduction, TLAPS

\* The pairs r put the entries L in a line.
InLine(r, L) ==
    /\ r \subseteq L \X L
    /\ \A i \in L : <<i, i>> \notin r
    /\ \A i, j \in L : i # j => <<i, j>> \in r \/ <<j, i>> \in r
    /\ \A i, j, k \in L : <<i, j>> \in r /\ <<j, k>> \in r => <<i, k>> \in r

\* If scan results are never old, ages do not increase along the line.
AgesAlong(r, L, e) ==
    DriverAge \subseteq {0} =>
        \A i, j \in L : <<i, j>> \in r => e[j].age <= e[i].age

TableType == bss \in [Id -> Entry \cup {NoEntry}]

Inv ==
    /\ TypeOK
    /\ TableType
    /\ InLine(before, list)
    /\ AgesAlong(before, list, bss)
    /\ OneEntryPerBss
    /\ IdListInOrder
    /\ LimitHolds

-----------------------------------------------------------------------------
\* Orders

LEMMA LeastElement ==
    ASSUME NEW S \in SUBSET Nat, S # {}
    PROVE  \E u \in S : \A v \in S : u <= v
<1> DEFINE R == {p \in Nat \X Nat : p[1] < p[2]}
<1>1. IsWellFoundedOn(R, Nat)
  BY NatLessThanWellFounded, Zenon DEF OpToRel
<1>2. \A x, y \in Nat : x < y => <<x, y>> \in R
  OBVIOUS
<1> HIDE DEF R
<1>3. PICK u \in S : \A v \in S : ~ (<<v, u>> \in R)
  BY <1>1, WFMin
<1>4. u \in Nat /\ \A v \in S : v \in Nat /\ ~(v < u)
  BY <1>2, <1>3, Zenon
<1> QED BY <1>4

\* A finite line has a first element: the one with the fewest before it.
LEMMA FirstExists ==
    ASSUME NEW L, NEW r, InLine(r, L), NEW S \in SUBSET L, S # {}, IsFiniteSet(S)
    PROVE  First(r, S) \in S /\ \A j \in S \ {First(r, S)} : <<First(r, S), j>> \in r
<1> DEFINE P(i) == {j \in S : <<j, i>> \in r}
           C == {Cardinality(P(i)) : i \in S}
<1>1. \A i \in S : IsFiniteSet(P(i)) /\ Cardinality(P(i)) \in Nat
  BY FS_Subset, FS_CardinalityType
<1>2. PICK i \in S : \A j \in S : Cardinality(P(i)) <= Cardinality(P(j))
  <2>1. C \in SUBSET Nat /\ C # {}
    BY <1>1
  <2>2. PICK u \in C : \A v \in C : u <= v
    BY <2>1, LeastElement
  <2> QED BY <2>2
<1>3. \A j \in S \ {i} : <<i, j>> \in r
  <2> SUFFICES ASSUME NEW j \in S \ {i}, <<i, j>> \notin r PROVE FALSE
    OBVIOUS
  <2>1. <<j, i>> \in r
    BY DEF InLine
  <2>2. P(j) \in SUBSET P(i) /\ j \in P(i) /\ j \notin P(j)
    BY <2>1 DEF InLine
  <2>3. Cardinality(P(j)) <= Cardinality(P(i))
        /\ (Cardinality(P(i)) = Cardinality(P(j)) => P(i) = P(j))
    BY <1>1, <2>2, FS_Subset
  <2>4. Cardinality(P(i)) = Cardinality(P(j))
    BY <1>1, <1>2, <2>3
  <2> QED BY <2>2, <2>3, <2>4
<1> QED BY <1>3 DEF First

\* Read from the other end, the line is a line, too.
LEMMA LastExists ==
    ASSUME NEW L, NEW r, InLine(r, L), NEW S \in SUBSET L, S # {}, IsFiniteSet(S)
    PROVE  Last(r, S) \in S
<1> DEFINE q == {p \in L \X L : <<p[2], p[1]>> \in r}
<1>1. \A i, j \in L : <<i, j>> \in q <=> <<j, i>> \in r
  OBVIOUS
<1>2. q \subseteq L \X L
  OBVIOUS
<1> HIDE DEF q
<1>3. InLine(q, L)
  BY <1>1, <1>2 DEF InLine
<1>4. First(q, S) \in S /\ \A j \in S \ {First(q, S)} : <<First(q, S), j>> \in q
  BY <1>3, FirstExists
<1>5. \A j \in S \ {First(q, S)} : <<j, First(q, S)>> \in r
  BY <1>1, <1>4
<1> QED BY <1>4, <1>5 DEF Last

\* The pairs of a line without some entries, and with a new last one.
LEMMA PairsWithout ==
    ASSUME NEW r, NEW gone
    PROVE  \A i, j : <<i, j>> \in Without(r, gone) <=>
                        <<i, j>> \in r /\ i \notin gone /\ j \notin gone
BY DEF Without

LEMMA PairsAddTail ==
    ASSUME NEW r, NEW L, NEW i
    PROVE  \A j, k : <<j, k>> \in AddTail(r, L, i) <=>
                        <<j, k>> \in r \/ (j \in L \ {i} /\ k = i)
BY DEF AddTail

LEMMA LineWithout ==
    ASSUME NEW L, NEW r, InLine(r, L), NEW gone
    PROVE  InLine(Without(r, gone), L \ gone)
<1>1. Without(r, gone) \subseteq (L \ gone) \X (L \ gone)
  BY DEF Without, InLine
<1> QED BY <1>1, PairsWithout DEF InLine

LEMMA LineAddTail ==
    ASSUME NEW L, NEW r, InLine(r, L), NEW i, i \notin L
    PROVE  InLine(AddTail(r, L, i), L \cup {i})
<1>1. AddTail(r, L, i) \subseteq (L \cup {i}) \X (L \cup {i})
  BY DEF AddTail, InLine
<1>2. \A j, k : <<j, k>> \in r => j \in L /\ k \in L
  BY DEF InLine
<1> QED BY <1>1, <1>2, PairsAddTail DEF InLine

\* An entry moved to the end of the line.
LEMMA LineMoved ==
    ASSUME NEW L, NEW r, InLine(r, L), NEW i \in L
    PROVE  /\ InLine(AddTail(Without(r, {i}), L, i), L)
           /\ \A j, k : <<j, k>> \in AddTail(Without(r, {i}), L, i) <=>
                  \/ <<j, k>> \in r /\ j # i /\ k # i
                  \/ j \in L \ {i} /\ k = i
<1>1. InLine(Without(r, {i}), L \ {i})
  BY LineWithout
<1>2. InLine(AddTail(Without(r, {i}), L \ {i}, i), (L \ {i}) \cup {i})
  BY <1>1, LineAddTail
<1>3. (L \ {i}) \cup {i} = L
      /\ AddTail(Without(r, {i}), L \ {i}, i) = AddTail(Without(r, {i}), L, i)
  BY DEF AddTail
<1>4. InLine(AddTail(Without(r, {i}), L, i), L)
  BY <1>2, <1>3
<1> QED BY <1>4, PairsWithout, PairsAddTail

LEMMA Bounds ==
    /\ MaxCount \in Nat \ {0} /\ ScanCount \in Nat \ {0}
    /\ MaxAge \in Nat /\ MaxId \in Nat
    /\ DriverAge \subseteq 0 .. MaxAge + 1
BY TableAssumption, Zenon

LEMMA FiniteList ==
    ASSUME TypeOK
    PROVE  /\ IsFiniteSet(list) /\ Cardinality(list) \in Nat
           /\ list \subseteq Id
           /\ \A S \in SUBSET list : IsFiniteSet(S)
<1>1. IsFiniteSet(0 .. bss_next_id - 1) /\ list \subseteq 0 .. bss_next_id - 1
  BY FS_Interval, Bounds DEF TypeOK
<1>2. IsFiniteSet(list)
  BY <1>1, FS_Subset
<1>3. list \subseteq Id
  BY Bounds DEF TypeOK, Id
<1> QED BY <1>2, <1>3, FS_Subset, FS_CardinalityType

LEMMA InitInv == Init => Inv
<1> SUFFICES ASSUME Init PROVE Inv
  OBVIOUS
<1>1. TypeOK /\ TableType
  <2>1. bss_next_id \in 0 .. MaxId /\ list \subseteq 0 .. bss_next_id - 1
    BY Bounds DEF Init
  <2>2. bss = [i \in Id |-> NoEntry] /\ TableType
    BY DEF Init, TableType
  <2> QED BY <2>1, <2>2 DEF Init, TypeOK
<1>2. InLine(before, list) /\ AgesAlong(before, list, bss)
  BY DEF Init, InLine, AgesAlong
<1>3. OneEntryPerBss /\ IdListInOrder
  BY DEF Init, OneEntryPerBss, IdListInOrder
<1>4. LimitHolds
  BY FS_EmptySet, Bounds DEF Init, LimitHolds
<1> QED BY <1>1, <1>2, <1>3, <1>4 DEF Inv

-----------------------------------------------------------------------------
\* Steps

\* Entries leave the table; those that stay keep their key, memory and age.
Removes(gone) ==
    /\ list' = list \ gone
    /\ before' = Without(before, gone)
    /\ before_id' = Without(before_id, gone)
    /\ bss' \in [Id -> Entry \cup {NoEntry}]
    /\ \A i \in list \ gone : /\ bss'[i] \in Entry
                              /\ bss'[i].key = bss[i].key
                              /\ bss'[i].addr = bss[i].addr
                              /\ bss'[i].age = bss[i].age
    /\ \A i \in Id \ (list \ gone) : bss'[i] = NoEntry
    /\ bss_next_id' = bss_next_id

LEMMA RemovalKeepsInv ==
    ASSUME Inv, NEW gone, Removes(gone), updating' \in BOOLEAN,
           UNCHANGED connection
    PROVE  Inv'
<1> USE DEF Removes
<1>1. InLine(before', list')
  BY LineWithout DEF Inv
<1>2. IdListInOrder'
  BY PairsWithout DEF Inv, IdListInOrder, Without
<1>3. TypeOK'
  <2>1. before' \subseteq list' \X list' /\ before_id' \subseteq list' \X list'
    BY <1>1, <1>2 DEF InLine, IdListInOrder
  <2>2. UNCHANGED <<current_bss, bssid, pending_bssid>>
    BY DEF connection
  <2> QED BY <2>1, <2>2 DEF Inv, TypeOK
<1>4. TableType'
  BY DEF TableType
<1>5. AgesAlong(before', list', bss')
  BY PairsWithout DEF Inv, AgesAlong
<1>6. OneEntryPerBss'
  BY DEF Inv, OneEntryPerBss
<1>7. LimitHolds'
  <2>1. IsFiniteSet(list) /\ Cardinality(list) \in Nat /\ list' \in SUBSET list
    BY FiniteList DEF Inv
  <2>2. Cardinality(list') <= Cardinality(list) /\ Cardinality(list') \in Nat
    BY <2>1, FS_Subset, FS_CardinalityType
  <2> QED BY <2>1, <2>2, Bounds DEF Inv, LimitHolds
<1> QED BY <1>1, <1>2, <1>3, <1>4, <1>5, <1>6, <1>7 DEF Inv

\* wpa_bss_remove() is such a step.
LEMMA RemoveRemoves ==
    ASSUME Inv, NEW gone, wpa_bss_remove(gone), bss_next_id' = bss_next_id
    PROVE  Removes(gone)
BY FiniteList DEF Inv, TypeOK, TableType, wpa_bss_remove, Removes

LEMMA StartKeepsInv ==
    ASSUME Inv, wpa_bss_update_start
    PROVE  Inv'
<1>1. /\ list' = list /\ before' = before /\ before_id' = before_id
      /\ bss_next_id' = bss_next_id /\ UNCHANGED connection
      /\ bss' = [i \in Id |-> IF i \in list THEN [bss[i] EXCEPT !.fresh = FALSE] ELSE bss[i]]
      /\ updating' = TRUE
  BY DEF wpa_bss_update_start
<1>2. Without(before, {}) = before /\ Without(before_id, {}) = before_id
      /\ list \ {} = list
  BY DEF Without
<1>3. list \subseteq Id
  BY FiniteList DEF Inv
<1>4. \A i \in list : /\ bss'[i] \in Entry
                      /\ bss'[i].key = bss[i].key
                      /\ bss'[i].addr = bss[i].addr
                      /\ bss'[i].age = bss[i].age
  BY <1>1, <1>3 DEF Inv, TypeOK, Entry
<1>5. \A i \in Id \ list : bss'[i] = NoEntry
  BY <1>1 DEF Inv, TypeOK
<1>6. bss' \in [Id -> Entry \cup {NoEntry}]
  BY <1>1, <1>3, <1>4, <1>5
<1>7. Removes({})
  BY <1>1, <1>2, <1>4, <1>5, <1>6 DEF Removes
<1> QED BY <1>1, <1>7, RemovalKeepsInv

\* The entry that has to make way is one of the table.
LEMMA ExcessInTable ==
    ASSUME NEW L, NEW r, NEW e, InLine(r, L), IsFiniteSet(L), L # {}
    PROVE  /\ Cardinality(L) > MaxCount => \E i \in L : Excess(L, r, e) = {i}
           /\ ~(Cardinality(L) > MaxCount) => Excess(L, r, e) = {}
<1> DEFINE unknown == {i \in L : e[i].key[2] \notin Known}
           S == IF unknown = {} THEN L ELSE unknown
<1>1. S \in SUBSET L /\ S # {}
  OBVIOUS
<1>2. IsFiniteSet(S)
  BY <1>1, FS_Subset
<1>3. First(r, S) \in L
  BY <1>1, <1>2, FirstExists
<1> QED BY <1>3 DEF Excess, wpa_bss_remove_oldest

\* A new entry at the end of both lists; a full table loses another one.
LEMMA AddKeepsInv ==
    ASSUME Inv, NEW key \in Result, NEW addr \in Addr, NEW age \in DriverAge,
           updating, Matching(key) = {}, wpa_bss_add(key, addr, age),
           UNCHANGED <<updating, connection>>
    PROVE  /\ Inv'
           /\ list \ list' # {} => Cardinality(list) = MaxCount
<1> DEFINE n == bss_next_id
           L == list \cup {n}
           new == [key |-> key, addr |-> addr, fresh |-> TRUE,
                   scan_miss_count |-> 0, age |-> age]
           order == AddTail(before, list, n)
           order_id == AddTail(before_id, list, n)
           entry == [bss EXCEPT ![n] = new]
           gone == Excess(L, order, entry)
<1>1. /\ n < MaxId /\ bss_next_id' = n + 1
      /\ addr \notin {bss[i].addr : i \in list}
      /\ list' = L \ gone /\ before' = Without(order, gone)
      /\ before_id' = Without(order_id, gone)
      /\ bss' = [j \in Id |-> IF j \in gone THEN NoEntry ELSE entry[j]]
  BY DEF wpa_bss_add
<1>2. /\ n \in Id /\ n \notin list /\ list \subseteq Id
      /\ list \subseteq 0 .. n - 1 /\ n \in Nat
  BY <1>1, FiniteList, Bounds DEF Inv, TypeOK, Id
<1>3. new \in Entry /\ new.key = key /\ new.addr = addr /\ new.age = age
  BY Bounds DEF Entry
<1> HIDE DEF new
<1>4. /\ entry \in [Id -> Entry \cup {NoEntry}] /\ entry[n] = new
      /\ \A j \in Id \ {n} : entry[j] = bss[j]
  BY <1>2, <1>3 DEF Inv, TableType
<1>5. InLine(order, L)
  BY <1>2, LineAddTail DEF Inv
<1>6. /\ IsFiniteSet(list) /\ Cardinality(list) \in Nat /\ Cardinality(list) <= MaxCount
      /\ IsFiniteSet(L) /\ L # {} /\ Cardinality(L) = Cardinality(list) + 1
  BY <1>2, FiniteList, FS_AddElement DEF Inv, LimitHolds
<1> HIDE DEF order, entry, L
<1>7. /\ Cardinality(L) > MaxCount => \E i \in L : gone = {i}
      /\ ~(Cardinality(L) > MaxCount) => gone = {}
  BY <1>5, <1>6, ExcessInTable
<1> HIDE DEF gone
<1>8. InLine(before', list')
  BY <1>1, <1>5, LineWithout
<1>9. Cardinality(list') <= MaxCount
  <2>1. CASE Cardinality(L) > MaxCount
    <3>1. PICK i \in L : gone = {i}
      BY <1>7, <2>1
    <3>2. Cardinality(L \ {i}) = Cardinality(L) - 1
      BY <1>6, FS_RemoveElement
    <3> QED BY <1>1, <1>6, <3>1, <3>2, Bounds
  <2>2. CASE ~(Cardinality(L) > MaxCount)
    <3>1. list' = L
      BY <1>1, <1>7, <2>2
    <3> QED BY <1>6, <2>2, <3>1, Bounds
  <2> QED BY <2>1, <2>2
<1>10. list \ list' # {} => Cardinality(list) = MaxCount
  BY <1>1, <1>6, <1>7, Bounds DEF L
<1>11. IdListInOrder'
  <2>1. \A i, j \in L : <<i, j>> \in order_id <=> i < j
    <3>1. \A i, j : <<i, j>> \in order_id <=>
                       <<i, j>> \in before_id \/ (i \in list \ {n} /\ j = n)
      BY DEF AddTail
    <3>2. \A i, j \in list : <<i, j>> \in before_id <=> i < j
      BY DEF Inv, IdListInOrder
    <3>3. \A i, j : <<i, j>> \in before_id => i \in list /\ j \in list
      BY DEF Inv, TypeOK
    <3>4. n \in Nat /\ \A i \in list : i \in Nat /\ i < n
      BY <1>2
    <3> HIDE DEF order_id
    <3> SUFFICES ASSUME NEW i \in L, NEW j \in L
                 PROVE  <<i, j>> \in order_id <=> i < j
      OBVIOUS
    <3>5. CASE i \in list /\ j \in list
      BY <1>2, <3>1, <3>2, <3>5
    <3>6. CASE i = n
      BY <1>2, <3>1, <3>3, <3>4, <3>6 DEF L
    <3>7. CASE i \in list /\ j = n
      BY <1>2, <3>1, <3>4, <3>7
    <3> QED BY <3>5, <3>6, <3>7 DEF L
  <2>2. before_id' \subseteq list' \X list'
    <3>1. order_id \subseteq L \X L
      BY DEF AddTail, Inv, TypeOK, L
    <3> QED BY <1>1, <3>1 DEF Without
  <2>3. \A i, j \in list' : <<i, j>> \in before_id' <=> i < j
    <3>1. \A i, j : <<i, j>> \in before_id' <=>
                       <<i, j>> \in order_id /\ i \notin gone /\ j \notin gone
      BY <1>1 DEF Without
    <3> HIDE DEF order_id
    <3> QED BY <1>1, <2>1, <3>1
  <2>4. before_id' = {p \in list' \X list' : p[1] < p[2]}
    BY <2>2, <2>3
  <2> QED BY <2>4 DEF IdListInOrder
<1>12. /\ \A j \in list' : bss'[j] = entry[j] /\ j \in Id
       /\ \A j \in Id \ list' : bss'[j] = NoEntry
  BY <1>1, <1>2, <1>4 DEF L, Inv, TypeOK
<1>13. TableType'
  BY <1>1, <1>4 DEF TableType
<1>14. \A j \in list' : entry[j] \in Entry
  BY <1>1, <1>2, <1>3, <1>4 DEF L, Inv, TypeOK
<1>15. TypeOK'
  <2>1. list' \subseteq 0 .. bss_next_id' - 1 /\ bss_next_id' \in 0 .. MaxId
    <3>1. n + 1 \in 0 .. MaxId
      BY <1>1, <1>2, Bounds
    <3>2. \A i \in L : i \in 0 .. (n + 1) - 1
      BY <1>2 DEF L
    <3> QED BY <1>1, <3>1, <3>2
  <2>2. before' \subseteq list' \X list' /\ before_id' \subseteq list' \X list'
    BY <1>8, <1>11 DEF InLine, IdListInOrder
  <2> QED BY <1>12, <1>14, <2>1, <2>2 DEF Inv, TypeOK, connection
<1>16. OneEntryPerBss'
  <2>1. \A j \in list : bss[j].key # key /\ bss[j].addr # addr
    BY <1>1 DEF Matching
  <2> QED BY <1>1, <1>2, <1>3, <1>4, <1>12, <2>1 DEF L, Inv, OneEntryPerBss
<1>17. AgesAlong(before', list', bss')
  <2> SUFFICES ASSUME DriverAge \subseteq {0}, NEW i \in list', NEW j \in list',
                      <<i, j>> \in before'
               PROVE  bss'[j].age <= bss'[i].age
    BY DEF AgesAlong
  <2>1. <<i, j>> \in before \/ (i \in list /\ j = n)
    BY <1>1, PairsWithout, PairsAddTail DEF order
  <2>2. CASE <<i, j>> \in before
    <3>1. i \in list /\ j \in list /\ bss[j].age <= bss[i].age
      BY <2>2 DEF Inv, InLine, AgesAlong
    <3>2. bss'[i] = bss[i] /\ bss'[j] = bss[j]
      BY <1>2, <1>4, <1>12, <3>1
    <3> QED BY <3>1, <3>2
  <2>3. CASE j = n
    <3>1. bss'[j].age = 0
      BY <1>3, <1>4, <1>12, <2>3
    <3>2. bss'[i].age \in 0 .. MaxAge + 1
      BY <1>12, <1>14 DEF Entry
    <3> QED BY <3>1, <3>2
  <2> QED BY <2>1, <2>2, <2>3
<1> QED
  BY <1>8, <1>9, <1>10, <1>11, <1>13, <1>15, <1>16, <1>17 DEF Inv, LimitHolds

\* An entry is updated and moved to the end.
LEMMA UpdateKeepsInv ==
    ASSUME Inv, NEW i \in list, NEW addr \in Addr, NEW age \in DriverAge,
           wpa_bss_update(i, addr, age), UNCHANGED <<updating, connection>>
    PROVE  Inv'
<1> DEFINE new == [bss[i] EXCEPT !.addr = addr, !.fresh = TRUE,
                                 !.scan_miss_count = 0, !.age = age]
<1>1. /\ addr = bss[i].addr \/ addr \notin {bss[j].addr : j \in list}
      /\ before' = AddTail(Without(before, {i}), list, i)
      /\ before_id' = before_id
      /\ bss' = [bss EXCEPT ![i] = new]
      /\ list' = list /\ bss_next_id' = bss_next_id
  BY DEF wpa_bss_update, OrderAfterUpdate, IdOrderAfterUpdate
<1>2. list \subseteq Id /\ bss[i] \in Entry /\ \A j \in list : bss[j] \in Entry
  BY FiniteList DEF Inv, TypeOK
<1>3. new \in Entry /\ new.key = bss[i].key /\ new.addr = addr /\ new.age = age
  <2> DEFINE M == 0 .. ScanCount - 1
             A == 0 .. MaxAge + 1
             E == [key : Result, addr : Addr, fresh : BOOLEAN, scan_miss_count : M, age : A]
  <2>1. 0 \in M /\ age \in A
    BY Bounds
  <2>2. E = Entry
    BY DEF Entry
  <2> HIDE DEF M, A
  <2> QED BY <1>2, <2>1, <2>2
<1> HIDE DEF new
<1>4. TableType' /\ bss'[i] = new /\ \A j \in Id \ {i} : bss'[j] = bss[j]
  BY <1>1, <1>2, <1>3 DEF Inv, TableType
<1>5. InLine(before', list')
  BY <1>1, LineMoved DEF Inv
<1>6. IdListInOrder' /\ LimitHolds'
  BY <1>1 DEF Inv, IdListInOrder, LimitHolds
<1>7. TypeOK'
  BY <1>1, <1>2, <1>3, <1>4, <1>5 DEF Inv, TypeOK, connection, InLine
<1>8. OneEntryPerBss'
  BY <1>1, <1>2, <1>3, <1>4 DEF Inv, OneEntryPerBss
<1>9. AgesAlong(before', list', bss')
  <2> SUFFICES ASSUME DriverAge \subseteq {0}, NEW j \in list, NEW k \in list,
                      <<j, k>> \in before'
               PROVE  bss'[k].age <= bss'[j].age
    BY <1>1 DEF AgesAlong
  <2>1. \/ <<j, k>> \in before /\ j # i /\ k # i
        \/ j \in list \ {i} /\ k = i
    BY <1>1, LineMoved DEF Inv
  <2>2. CASE <<j, k>> \in before /\ j # i /\ k # i
    BY <1>2, <1>4, <2>2 DEF Inv, AgesAlong
  <2>3. CASE j \in list \ {i} /\ k = i
    <3>1. bss'[k].age = 0
      BY <1>3, <1>4, <2>3
    <3>2. bss'[j].age \in 0 .. MaxAge + 1
      BY <1>2, <1>4, <2>3 DEF Entry
    <3> QED BY <3>1, <3>2
  <2> QED BY <2>1, <2>2, <2>3
<1> QED BY <1>4, <1>5, <1>6, <1>7, <1>8, <1>9 DEF Inv

\* The end of an update expires entries that scans missed too often; they were
\* neither in use nor seen.
LEMMA EndKeepsInv ==
    ASSUME Inv, NEW new_scan \in BOOLEAN, NEW included \in SUBSET list,
           wpa_bss_update_end(new_scan, included)
    PROVE  /\ Inv'
           /\ \A i \in list \ list' : ~wpa_bss_in_use(i) /\ ~bss[i].fresh
<1> DEFINE gone == ExpiredByScan(included)
<1>1. updating' = FALSE /\ bss_next_id' = bss_next_id /\ UNCHANGED connection
  BY DEF wpa_bss_update_end
<1>2. list \subseteq Id /\ \A i \in list : bss[i] \in Entry
  BY FiniteList DEF Inv, TypeOK
<1>3. CASE UNCHANGED <<list, before, before_id, bss>>
  <2>1. Removes({})
    BY <1>1, <1>3 DEF Removes, Without, Inv, TypeOK, TableType
  <2> QED BY <1>1, <1>3, <2>1, RemovalKeepsInv
<1>4. CASE /\ list' = list \ gone /\ before' = Without(before, gone)
           /\ before_id' = Without(before_id, gone)
           /\ bss' = [i \in Id |->
                         IF i \in list \ gone
                         THEN [bss[i] EXCEPT !.scan_miss_count = Missed(i, included)]
                         ELSE NoEntry]
  <2>1. \A i \in list \ gone : Missed(i, included) \in 0 .. ScanCount - 1
    <3> SUFFICES ASSUME NEW i \in list \ gone
                 PROVE  Missed(i, included) \in 0 .. ScanCount - 1
      OBVIOUS
    <3>1. bss[i].scan_miss_count \in 0 .. ScanCount - 1
      BY <1>2 DEF Entry
    <3>2. CASE Missed(i, included) = bss[i].scan_miss_count
      BY <3>1, <3>2
    <3>3. CASE /\ ~(wpa_bss_in_use(i) \/ i \notin included \/ bss[i].fresh)
               /\ Missed(i, included) = bss[i].scan_miss_count + 1
      <4>1. ~(Missed(i, included) >= ScanCount)
        BY <3>3 DEF ExpiredByScan
      <4> QED BY <3>1, <3>3, <4>1, Bounds
    <3> QED BY <3>2, <3>3 DEF Missed
  <2>2. \A i \in list \ gone : /\ bss'[i] \in Entry
                               /\ bss'[i].key = bss[i].key
                               /\ bss'[i].addr = bss[i].addr
                               /\ bss'[i].age = bss[i].age
    <3> SUFFICES ASSUME NEW i \in list \ gone
                 PROVE  /\ bss'[i] \in Entry
                        /\ bss'[i].key = bss[i].key
                        /\ bss'[i].addr = bss[i].addr
                        /\ bss'[i].age = bss[i].age
      OBVIOUS
    <3> DEFINE m == Missed(i, included)
    <3>1. m \in 0 .. ScanCount - 1 /\ bss[i] \in Entry
      BY <1>2, <2>1
    <3>2. bss'[i] = [bss[i] EXCEPT !.scan_miss_count = m]
      BY <1>2, <1>4
    <3> HIDE DEF m
    <3> QED BY <3>1, <3>2 DEF Entry
  <2>3. \A i \in Id \ (list \ gone) : bss'[i] = NoEntry
    BY <1>4
  <2>4. bss' \in [Id -> Entry \cup {NoEntry}]
    <3>1. \A i \in Id : bss'[i] \in Entry \cup {NoEntry}
      BY <2>2, <2>3
    <3> HIDE DEF gone
    <3> QED BY <1>4, <3>1
  <2>5. Removes(gone)
    BY <1>1, <1>4, <2>2, <2>3, <2>4 DEF Removes
  <2>6. \A i \in gone : ~wpa_bss_in_use(i) /\ ~bss[i].fresh
    <3> SUFFICES ASSUME NEW i \in gone PROVE ~wpa_bss_in_use(i) /\ ~bss[i].fresh
      OBVIOUS
    <3>1. i \in list /\ ~wpa_bss_in_use(i) /\ Missed(i, included) >= ScanCount
      BY DEF ExpiredByScan
    <3>2. bss[i].scan_miss_count \in 0 .. ScanCount - 1
      BY <1>2, <3>1 DEF Entry
    <3> QED BY <3>1, <3>2, Bounds DEF Missed
  <2> QED BY <1>1, <1>4, <2>5, <2>6, RemovalKeepsInv
<1> QED BY <1>3, <1>4 DEF wpa_bss_update_end

\* A flush, by age or of everything, spares the entries in use.
LEMMA FlushKeepsInv ==
    ASSUME Inv, NEW gone \in SUBSET list, \A i \in gone : ~wpa_bss_in_use(i),
           wpa_bss_remove(gone), UNCHANGED <<bss_next_id, updating, connection>>
    PROVE  Inv' /\ \A i \in list \ list' : ~wpa_bss_in_use(i)
<1>1. Removes(gone)
  BY RemoveRemoves
<1>2. updating' \in BOOLEAN
  BY DEF Inv, TypeOK
<1> QED BY <1>1, <1>2, RemovalKeepsInv DEF Removes

\* Every entry ages by one up to the cap, so that their order by age stays.
LEMMA TickKeepsInv ==
    ASSUME Inv, Tick
    PROVE  Inv' /\ list' = list
<1>1. /\ UNCHANGED <<list, before, before_id, bss_next_id, updating, connection>>
      /\ bss' = [i \in Id |-> IF i \in list /\ bss[i].age <= MaxAge
                              THEN [bss[i] EXCEPT !.age = @ + 1] ELSE bss[i]]
  BY DEF Tick
<1>2. list \subseteq Id /\ \A i \in list : bss[i] \in Entry
  BY FiniteList DEF Inv, TypeOK
<1>3. ASSUME NEW i \in list
      PROVE  /\ bss'[i] \in Entry
             /\ bss'[i].key = bss[i].key /\ bss'[i].addr = bss[i].addr
             /\ bss'[i].age = IF bss[i].age <= MaxAge THEN bss[i].age + 1 ELSE bss[i].age
  <2>1. bss[i] \in Entry /\ bss[i].age \in 0 .. MaxAge + 1 /\ i \in Id
    BY <1>2 DEF Entry
  <2>2. CASE bss[i].age <= MaxAge
    <3> DEFINE a == bss[i].age + 1
    <3>1. a \in 0 .. MaxAge + 1 /\ bss'[i] = [bss[i] EXCEPT !.age = a]
      BY <1>1, <2>1, <2>2, Bounds
    <3> HIDE DEF a
    <3>2. bss'[i] \in Entry /\ bss'[i].age = a
          /\ bss'[i].key = bss[i].key /\ bss'[i].addr = bss[i].addr
      BY <2>1, <3>1 DEF Entry
    <3> QED BY <2>2, <3>2 DEF a
  <2>3. CASE ~(bss[i].age <= MaxAge)
    BY <1>1, <2>1, <2>3
  <2> QED BY <2>2, <2>3
<1>4. \A i \in Id \ list : bss'[i] = NoEntry
  BY <1>1 DEF Inv, TypeOK
<1>5. TableType'
  <2>1. \A i \in Id : bss'[i] \in Entry \cup {NoEntry}
    BY <1>3, <1>4
  <2> QED BY <1>1, <2>1 DEF TableType
<1>6. TypeOK'
  BY <1>1, <1>3, <1>4 DEF Inv, TypeOK, connection
<1>7. InLine(before', list') /\ IdListInOrder' /\ LimitHolds'
  BY <1>1 DEF Inv, IdListInOrder, LimitHolds
<1>8. OneEntryPerBss'
  <2>1. \A i \in list : bss'[i].key = bss[i].key /\ bss'[i].addr = bss[i].addr
    BY <1>3
  <2>2. list' = list
    BY <1>1
  <2>3. \A i, j \in list : bss[i].key = bss[j].key \/ bss[i].addr = bss[j].addr => i = j
    BY DEF Inv, OneEntryPerBss
  <2> QED BY <2>1, <2>2, <2>3 DEF OneEntryPerBss
<1>9. AgesAlong(before', list', bss')
  <2> SUFFICES ASSUME DriverAge \subseteq {0}, NEW i \in list, NEW j \in list,
                      <<i, j>> \in before
               PROVE  bss'[j].age <= bss'[i].age
    BY <1>1 DEF AgesAlong
  <2>1. bss[j].age <= bss[i].age
    BY DEF Inv, AgesAlong
  <2>2. bss[i].age \in 0 .. MaxAge + 1 /\ bss[j].age \in 0 .. MaxAge + 1
    BY <1>2 DEF Entry
  <2>3. /\ bss'[i].age = IF bss[i].age <= MaxAge THEN bss[i].age + 1 ELSE bss[i].age
        /\ bss'[j].age = IF bss[j].age <= MaxAge THEN bss[j].age + 1 ELSE bss[j].age
    BY <1>3
  <2>4. \A x, y \in 0 .. MaxAge + 1 : y <= x =>
          (IF y <= MaxAge THEN y + 1 ELSE y) <= (IF x <= MaxAge THEN x + 1 ELSE x)
    BY Bounds
  <2> QED BY <2>1, <2>2, <2>3, <2>4
<1> QED BY <1>1, <1>5, <1>6, <1>7, <1>8, <1>9 DEF Inv

\* The connection keeps the address and the BSSID of an entry of the table.
LEMMA ConnectionKeepsInv ==
    ASSUME Inv,
           \/ \E i \in list : sme_authenticate(i)
           \/ \E b \in Bssid, ssid \in Known : wpa_supplicant_event_assoc(b, ssid)
           \/ wpa_supplicant_mark_disassoc
    PROVE  Inv' /\ list' = list
<1>1. UNCHANGED <<list, before, before_id, bss, bss_next_id, updating>>
  BY DEF sme_authenticate, wpa_supplicant_event_assoc, wpa_supplicant_mark_disassoc
<1>2. \A i \in list : bss[i].addr \in Addr /\ bss[i].key \in Result
  BY DEF Inv, TypeOK, Entry
<1>3. /\ current_bss' \in Addr \cup {None}
      /\ bssid' \in Bssid \cup {None} /\ pending_bssid' \in Bssid \cup {None}
  <2>1. ASSUME NEW i \in list, sme_authenticate(i)
        PROVE  /\ current_bss' \in Addr \cup {None}
               /\ bssid' \in Bssid \cup {None} /\ pending_bssid' \in Bssid \cup {None}
    BY <1>2, <2>1 DEF sme_authenticate, Bssid
  <2>2. ASSUME NEW b \in Bssid, NEW ssid \in Known, wpa_supplicant_event_assoc(b, ssid)
        PROVE  /\ current_bss' \in Addr \cup {None}
               /\ bssid' \in Bssid \cup {None} /\ pending_bssid' \in Bssid \cup {None}
    <3> DEFINE same == {i \in list : bss[i].key[1] = b}
               M == Matching(<<b, ssid>>)
    <3>1. M \in SUBSET list /\ same \in SUBSET list
      BY DEF Matching
    <3>2. \A S \in SUBSET list : S # {} => First(before, S) \in S /\ Last(before, S) \in S
      BY FiniteList, FirstExists, LastExists DEF Inv
    <3>3. /\ bssid' = b /\ pending_bssid' = None
          /\ current_bss' = IF M # {} THEN bss[First(before, M)].addr
                            ELSE IF same # {} THEN bss[Last(before, same)].addr
                            ELSE current_bss
      BY <2>2 DEF wpa_supplicant_event_assoc
    <3> HIDE DEF M, same
    <3>4. /\ M # {} => First(before, M) \in list
          /\ same # {} => Last(before, same) \in list
      BY <3>1, <3>2
    <3>5. current_bss' \in Addr \cup {None}
      BY <1>2, <3>3, <3>4 DEF Inv, TypeOK
    <3> QED BY <3>3, <3>5
  <2>3. CASE wpa_supplicant_mark_disassoc
    BY <2>3 DEF wpa_supplicant_mark_disassoc
  <2> QED BY <2>1, <2>2, <2>3
<1>4. TypeOK'
  BY <1>1, <1>3 DEF Inv, TypeOK
<1> QED
  BY <1>1, <1>4
     DEF Inv, TableType, InLine, AgesAlong, OneEntryPerBss, IdListInOrder, LimitHolds

\* One entry for a key, so that the first of them is the one.
LEMMA MatchInTable ==
    ASSUME Inv, NEW key, Matching(key) # {}
    PROVE  First(before, Matching(key)) \in list
<1>1. Matching(key) \in SUBSET list
  BY DEF Matching
<1> QED BY <1>1, FiniteList, FirstExists DEF Inv

\* Which entries a step may take from the table.
Spares ==
    \A i \in list \ list' :
        /\ updating /\ (wpa_bss_in_use(i) \/ bss[i].fresh) =>
               updating' /\ Cardinality(list) = MaxCount
        /\ ~updating => ~wpa_bss_in_use(i)

\* Every handler keeps the invariant and spares the entries it must spare.
LEMMA StepInv == Inv /\ [Next]_vars => Inv' /\ Spares
<1> SUFFICES ASSUME Inv, [Next]_vars PROVE Inv' /\ Spares
  OBVIOUS
<1>1. CASE wpa_bss_update_start
  <2>1. list' = list
    BY <1>1 DEF wpa_bss_update_start
  <2> QED BY <1>1, <2>1, StartKeepsInv DEF Spares
<1>2. ASSUME NEW key \in Result, NEW addr \in Addr, NEW age \in DriverAge,
             wpa_bss_update_scan_res(key, addr, age)
      PROVE  Inv' /\ Spares
  <2>1. updating /\ UNCHANGED <<updating, connection>>
    BY <1>2 DEF wpa_bss_update_scan_res
  <2>2. CASE Matching(key) = {} /\ wpa_bss_add(key, addr, age)
    <3>1. Inv' /\ (list \ list' # {} => Cardinality(list) = MaxCount)
      BY <2>1, <2>2, AddKeepsInv
    <3> QED BY <2>1, <3>1 DEF Spares
  <2>3. CASE Matching(key) # {} /\ wpa_bss_update(First(before, Matching(key)), addr, age)
    <3>1. First(before, Matching(key)) \in list
      BY <2>3, MatchInTable
    <3>2. Inv'
      BY <2>1, <2>3, <3>1, UpdateKeepsInv
    <3>3. list' = list
      BY <2>3 DEF wpa_bss_update
    <3> QED BY <3>2, <3>3 DEF Spares
  <2> QED BY <1>2, <2>2, <2>3 DEF wpa_bss_update_scan_res
<1>3. ASSUME NEW new_scan \in BOOLEAN, NEW included \in SUBSET list,
             wpa_bss_update_end(new_scan, included)
      PROVE  Inv' /\ Spares
  BY <1>3, EndKeepsInv DEF Spares
<1>4. ASSUME NEW age, wpa_bss_flush_by_age(age)
      PROVE  Inv' /\ Spares
  <2>1. /\ ~updating /\ wpa_bss_remove(ExpiredByAge(age))
        /\ UNCHANGED <<bss_next_id, updating, connection>>
    BY <1>4 DEF wpa_bss_flush_by_age
  <2>2. /\ ExpiredByAge(age) \in SUBSET list
        /\ \A i \in ExpiredByAge(age) : ~wpa_bss_in_use(i)
    BY DEF ExpiredByAge
  <2> QED BY <2>1, <2>2, FlushKeepsInv DEF Spares
<1>5. CASE wpa_bss_flush
  <2> DEFINE gone == {i \in list : ~wpa_bss_in_use(i)}
  <2>1. /\ ~updating /\ wpa_bss_remove(gone)
        /\ UNCHANGED <<bss_next_id, updating, connection>>
    BY <1>5 DEF wpa_bss_flush
  <2>2. gone \in SUBSET list /\ \A i \in gone : ~wpa_bss_in_use(i)
    OBVIOUS
  <2> HIDE DEF gone
  <2> QED BY <2>1, <2>2, FlushKeepsInv DEF Spares
<1>6. CASE Tick
  BY <1>6, TickKeepsInv DEF Spares
<1>7. CASE \/ \E i \in list : sme_authenticate(i)
           \/ \E b \in Bssid, ssid \in Known : wpa_supplicant_event_assoc(b, ssid)
           \/ wpa_supplicant_mark_disassoc
  BY <1>7, ConnectionKeepsInv DEF Spares
<1>8. CASE UNCHANGED vars
  BY <1>8
     DEF vars, Inv, TypeOK, TableType, InLine, AgesAlong, OneEntryPerBss,
         IdListInOrder, LimitHolds, Spares
<1> QED
  BY <1>1, <1>2, <1>3, <1>4, <1>5, <1>6, <1>7, <1>8 DEF Next, wpa_bss_timeout

\* The table keeps its invariant under every sequence of scans, flushes and
\* connections (bss.c as a whole).
THEOREM Invariance == Spec => []Inv
<1> QED BY InitInv, StepInv, PTL DEF Spec

-----------------------------------------------------------------------------
\* The fields of the table and the connection have their types; no entry that
\* is still linked was missed bss_expiration_scan_count times
\* (wpa_bss_update_end()).
THEOREM TypeCorrect == Spec => []TypeOK
<1>1. Inv => TypeOK
  BY DEF Inv
<1> QED BY <1>1, Invariance, PTL

\* Neither a key nor memory is shared by two entries (wpa_bss_get(),
\* wpa_bss_add(), wpa_bss_update()).
THEOREM EntriesDistinct == Spec => []OneEntryPerBss
<1>1. Inv => OneEntryPerBss
  BY DEF Inv
<1> QED BY <1>1, Invariance, PTL

\* wpa_s->bss_id has the entries of wpa_s->bss in the order of their
\* identifiers, whatever wpa_bss_update() did to the other list.
THEOREM IdListOrdered == Spec => []IdListInOrder
<1>1. Inv => IdListInOrder
  BY DEF Inv
<1> QED BY <1>1, Invariance, PTL

\* bss_max_count is never exceeded between two results: the entry pushed out by
\* wpa_bss_remove_oldest() always exists.
THEOREM LimitKept == Spec => []LimitHolds
<1>1. Inv => LimitHolds
  BY DEF Inv
<1> QED BY <1>1, Invariance, PTL

\* The walk of wpa_bss_flush_by_age() reaches every old entry that is not in
\* use, for every limit of age, if the driver does not report old results.
THEOREM AgesHonoured == Spec => []AgeHonoured
<1>1. ASSUME Inv PROVE AgeHonoured
  <2> SUFFICES ASSUME DriverAge \subseteq {0}, NEW age \in 0 .. MaxAge, NEW i \in list,
                      Old(i, age), ~wpa_bss_in_use(i),
                      NEW j \in list, <<j, i>> \in before
               PROVE  Old(j, age)
    BY DEF AgeHonoured, ExpiredByAge
  <2>1. bss[i].age <= bss[j].age
    BY <1>1 DEF Inv, AgesAlong
  <2>2. bss[i].age \in 0 .. MaxAge + 1 /\ bss[j].age \in 0 .. MaxAge + 1
    BY <1>1 DEF Inv, TypeOK, Entry
  <2> QED BY <2>1, <2>2, Bounds DEF Old
<1> QED BY <1>1, Invariance, PTL

\* An entry in use, or one just seen, leaves the table only when a result needs
\* its place in a full table; flushes spare the entries in use
\* (wpa_bss_remove_oldest(), wpa_bss_update_end(), wpa_bss_flush()).
THEOREM UsedEntriesStay == Spec => UsedLeavesFullTable
<1>1. Inv /\ [Next]_vars => [Spares]_vars
  BY StepInv
<1>2. [][Spares]_vars => UsedLeavesFullTable
  BY DEF Spares, UsedLeavesFullTable
<1> QED BY <1>1, <1>2, Invariance, PTL DEF Spec
=============================================================================
