------------------------------ MODULE BssTable ------------------------------
(***************************************************************************)
(* The table of access points in range, wpa_supplicant/bss.c: entries that *)
(* scans add, update, move and expire while the connection keeps a pointer *)
(* to one of them.                                                         *)
(*                                                                         *)
(* The order of a list is a set of pairs <<i, j>>, "i comes before j".     *)
(* The handler of scan results is a loop over the results; its steps are   *)
(* taken with updating set, when no other handler runs.  What elements an  *)
(* entry has is left out: a result needs more room than its entry has, or  *)
(* it does not.  Time is the age of the entries, up to one above the       *)
(* largest age that matters.                                               *)
(***************************************************************************)
EXTENDS Integers, FiniteSets

CONSTANTS
    Result,      \* pairs <<BSSID, SSID>> that scans can report
    Known,       \* SSIDs of configured networks
    Addr,        \* addresses os_zalloc() and os_realloc() can return
    None,        \* no BSSID, or a null pointer
    DriverAge,   \* ages the driver gives scan results
    MaxCount,    \* bss_max_count
    MaxAge,      \* bss_expiration_age
    ScanCount,   \* bss_expiration_scan_count
    MaxId        \* bound on the number of entries ever added

ASSUME TableAssumption ==
    /\ None \notin Addr
    /\ \A r \in Result : r = <<r[1], r[2]>> /\ r[1] # None
    /\ MaxCount \in Nat \ {0}
    /\ ScanCount \in Nat \ {0}
    /\ MaxAge \in Nat
    /\ MaxId \in Nat
    /\ DriverAge \subseteq 0 .. MaxAge + 1

VARIABLES
    list,          \* identifiers of the entries of wpa_s->bss
    before,        \* the order of wpa_s->bss
    before_id,     \* the order of wpa_s->bss_id
    bss,           \* the fields of the entries
    bss_next_id,
    updating,      \* between wpa_bss_update_start() and wpa_bss_update_end()
    current_bss,   \* the address the connection keeps
    bssid,         \* wpa_s->bssid
    pending_bssid  \* wpa_s->pending_bssid

vars == <<list, before, before_id, bss, bss_next_id, updating, current_bss, bssid,
          pending_bssid>>

connection == <<current_bss, bssid, pending_bssid>>

Id == 0 .. MaxId - 1

Bssid == {r[1] : r \in Result}

\* fresh: last_update_idx is the index of the latest update.
Entry == [key : Result, addr : Addr, fresh : BOOLEAN, scan_miss_count : 0 .. ScanCount - 1,
          age : 0 .. MaxAge + 1]

\* An identifier that has no entry.
NoEntry == [key |-> None, addr |-> None, fresh |-> FALSE, scan_miss_count |-> 0,
            age |-> 0]

Init ==
    /\ list = {} /\ before = {} /\ before_id = {}
    /\ bss = [i \in Id |-> NoEntry]
    /\ bss_next_id = 0
    /\ updating = FALSE
    /\ current_bss = None /\ bssid = None /\ pending_bssid = None

-----------------------------------------------------------------------------
\* The order r without the entries gone.
Without(r, gone) == {p \in r : p[1] \notin gone /\ p[2] \notin gone}

\* dl_list_add_tail(): entry i, which is not linked, behind the entries L.
AddTail(r, L, i) == r \cup {<<j, i>> : j \in L \ {i}}

\* wpa_bss_in_use()
wpa_bss_in_use(i) ==
    bss[i].addr = current_bss \/ bss[i].key[1] \in {bssid, pending_bssid}

\* Faulty variant: the walk ends at the first entry with the BSSID.
Matching_first(key) ==
    {i \in list : bss[i].key = key
                   /\ \A j \in list : <<j, i>> \in before => bss[j].key[1] # key[1]}

\* wpa_bss_get()
Matching(key) == {i \in list : bss[i].key = key}

\* The first of the entries S.
First(r, S) == CHOOSE i \in S : \A j \in S \ {i} : <<i, j>> \in r

\* The last of the entries S.
Last(r, S) == CHOOSE i \in S : \A j \in S \ {i} : <<j, i>> \in r

\* wpa_bss_remove() for each of the entries gone.
wpa_bss_remove(gone) ==
    /\ list' = list \ gone
    /\ before' = Without(before, gone)
    /\ before_id' = Without(before_id, gone)
    /\ bss' = [i \in Id |-> IF i \in gone THEN NoEntry ELSE bss[i]]

-----------------------------------------------------------------------------
\* Results of a scan.

\* wpa_bss_update_start()
wpa_bss_update_start ==
    /\ ~updating
    /\ updating' = TRUE
    /\ bss' = [i \in Id |-> IF i \in list THEN [bss[i] EXCEPT !.fresh = FALSE] ELSE bss[i]]
    /\ UNCHANGED <<list, before, before_id, bss_next_id, connection>>

\* wpa_bss_remove_oldest(): the first entry that no configured network
\* matches, or else the first one, whether or not it is in use.
wpa_bss_remove_oldest(L, r, entry) ==
    LET unknown == {i \in L : entry[i].key[2] \notin Known}
    IN  {First(r, IF unknown = {} THEN L ELSE unknown)}

\* Faulty variant: the limit is tested before the entry is counted.
Excess_late(L, r, entry) ==
    IF Cardinality(L) > MaxCount + 1 THEN wpa_bss_remove_oldest(L, r, entry) ELSE {}

\* The entry that a new one pushes out of a full table, the new one included.
Excess(L, r, entry) ==
    IF Cardinality(L) > MaxCount THEN wpa_bss_remove_oldest(L, r, entry) ELSE {}

\* wpa_bss_add(); without memory nothing is added.
wpa_bss_add(key, addr, age) ==
    /\ bss_next_id < MaxId
    /\ addr \notin {bss[i].addr : i \in list}
    /\ LET i      == bss_next_id
           L      == list \cup {i}
           order  == AddTail(before, list, i)
           entry  == [bss EXCEPT ![i] = [key |-> key, addr |-> addr, fresh |-> TRUE,
                                         scan_miss_count |-> 0, age |-> age]]
           gone   == Excess(L, order, entry)
       IN  /\ list' = L \ gone
           /\ before' = Without(order, gone)
           /\ before_id' = Without(AddTail(before_id, list, i), gone)
           /\ bss' = [j \in Id |-> IF j \in gone THEN NoEntry ELSE entry[j]]
    /\ bss_next_id' = bss_next_id + 1

\* Faulty variant: an entry that moved is linked at the end of the other list.
IdOrderAfterUpdate_tail(i, moved) ==
    IF moved THEN AddTail(Without(before_id, {i}), list, i) ELSE before_id

\* The order of wpa_s->bss_id: an entry that moved is linked behind the one it
\* was behind.
IdOrderAfterUpdate(i, moved) == before_id

\* The entry is moved to the end of wpa_s->bss.
OrderAfterUpdate(i) == AddTail(Without(before, {i}), list, i)

\* wpa_bss_update(); if the elements need more room, os_realloc() fails, keeps
\* the entry where it is or moves it to another address.
wpa_bss_update(i, addr, age) ==
    /\ addr = bss[i].addr \/ addr \notin {bss[j].addr : j \in list}
    /\ before' = OrderAfterUpdate(i)
    /\ before_id' = IdOrderAfterUpdate(i, addr # bss[i].addr)
    /\ bss' = [bss EXCEPT ![i] = [@ EXCEPT !.addr = addr, !.fresh = TRUE,
                                           !.scan_miss_count = 0, !.age = age]]
    /\ UNCHANGED <<list, bss_next_id>>

\* wpa_bss_update_scan_res() for one result.
wpa_bss_update_scan_res(key, addr, age) ==
    /\ updating
    /\ \/ Matching(key) = {} /\ wpa_bss_add(key, addr, age)
       \/ Matching(key) # {} /\ wpa_bss_update(First(before, Matching(key)), addr, age)
    /\ UNCHANGED <<updating, connection>>

\* scan_miss_count of an entry after a scan that covered the entries included.
Missed(i, included) ==
    IF wpa_bss_in_use(i) \/ i \notin included \/ bss[i].fresh
    THEN bss[i].scan_miss_count
    ELSE bss[i].scan_miss_count + 1

\* Faulty variant: an entry in use is expired as well.
ExpiredByScan_in_use(included) ==
    {i \in list \cap included :
        bss[i].scan_miss_count + (IF bss[i].fresh THEN 0 ELSE 1) >= ScanCount}

\* Faulty variant: one scan more is needed.
ExpiredByScan_late(included) ==
    {i \in list \cap included : ~wpa_bss_in_use(i) /\ Missed(i, included) > ScanCount}

\* Entries that wpa_bss_update_end() removes.
ExpiredByScan(included) ==
    {i \in list \cap included : ~wpa_bss_in_use(i) /\ Missed(i, included) >= ScanCount}

\* wpa_bss_update_end(); without a new scan nothing expires.
wpa_bss_update_end(new_scan, included) ==
    /\ updating
    /\ updating' = FALSE
    /\ \/ /\ ~new_scan
          /\ UNCHANGED <<list, before, before_id, bss>>
       \/ /\ new_scan
          /\ LET gone == ExpiredByScan(included)
             IN  /\ list' = list \ gone
                 /\ before' = Without(before, gone)
                 /\ before_id' = Without(before_id, gone)
                 /\ bss' = [i \in Id |->
                               IF i \in list \ gone
                               THEN [bss[i] EXCEPT !.scan_miss_count = Missed(i, included)]
                               ELSE NoEntry]
    /\ UNCHANGED <<bss_next_id, connection>>

-----------------------------------------------------------------------------
\* Age and flushing.

Old(i, age) == bss[i].age > age

\* Faulty variant: the walk ends at an entry in use.
ExpiredByAge_stops(age) ==
    {i \in list : /\ ~wpa_bss_in_use(i) /\ Old(i, age)
                  /\ \A j \in list : <<j, i>> \in before =>
                         ~wpa_bss_in_use(j) /\ Old(j, age)}

\* The walk of wpa_bss_flush_by_age() passes over entries in use and ends at
\* the first other entry that is young enough.
ExpiredByAge(age) ==
    {i \in list : /\ ~wpa_bss_in_use(i) /\ Old(i, age)
                  /\ \A j \in list : <<j, i>> \in before =>
                         wpa_bss_in_use(j) \/ Old(j, age)}

\* wpa_bss_flush_by_age(), from wpa_bss_timeout() or the D-Bus method FlushBSS.
wpa_bss_flush_by_age(age) ==
    /\ ~updating
    /\ wpa_bss_remove(ExpiredByAge(age))
    /\ UNCHANGED <<bss_next_id, updating, connection>>

wpa_bss_timeout == wpa_bss_flush_by_age(MaxAge)

\* wpa_bss_flush(), from the D-Bus method FlushBSS with age 0.
wpa_bss_flush ==
    /\ ~updating
    /\ wpa_bss_remove({i \in list : ~wpa_bss_in_use(i)})
    /\ UNCHANGED <<bss_next_id, updating, connection>>

\* Time passes.
Tick ==
    /\ ~updating
    /\ bss' = [i \in Id |-> IF i \in list /\ bss[i].age <= MaxAge
                            THEN [bss[i] EXCEPT !.age = @ + 1] ELSE bss[i]]
    /\ UNCHANGED <<list, before, before_id, bss_next_id, updating, connection>>

-----------------------------------------------------------------------------
\* The connection.

\* sme_authenticate() with the entry i.
sme_authenticate(i) ==
    /\ ~updating
    /\ current_bss' = bss[i].addr
    /\ pending_bssid' = bss[i].key[1]
    /\ bssid' = None
    /\ UNCHANGED <<list, before, before_id, bss, bss_next_id, updating>>

\* wpa_supplicant_event_assoc() with access point b and the network ssid: the
\* entry is looked up by both, then by the BSSID alone, from the end.
wpa_supplicant_event_assoc(b, ssid) ==
    LET same == {i \in list : bss[i].key[1] = b}
    IN  /\ ~updating
        /\ b # bssid
        /\ bssid' = b
        /\ pending_bssid' = None
        /\ current_bss' = IF Matching(<<b, ssid>>) # {}
                          THEN bss[First(before, Matching(<<b, ssid>>))].addr
                          ELSE IF same # {} THEN bss[Last(before, same)].addr
                          ELSE current_bss
        /\ UNCHANGED <<list, before, before_id, bss, bss_next_id, updating>>

\* wpa_supplicant_mark_disassoc()
wpa_supplicant_mark_disassoc ==
    /\ ~updating
    /\ current_bss' = None /\ bssid' = None /\ pending_bssid' = None
    /\ UNCHANGED <<list, before, before_id, bss, bss_next_id, updating>>

Next ==
    \/ wpa_bss_update_start
    \/ \E key \in Result, addr \in Addr, age \in DriverAge :
          wpa_bss_update_scan_res(key, addr, age)
    \/ \E new_scan \in BOOLEAN, included \in SUBSET list :
          wpa_bss_update_end(new_scan, included)
    \/ wpa_bss_timeout
    \/ \E age \in 0 .. MaxAge - 1 : wpa_bss_flush_by_age(age)
    \/ wpa_bss_flush
    \/ Tick
    \/ \E i \in list : sme_authenticate(i)
    \/ \E b \in Bssid, ssid \in Known : wpa_supplicant_event_assoc(b, ssid)
    \/ wpa_supplicant_mark_disassoc

Spec == Init /\ [][Next]_vars

-----------------------------------------------------------------------------
\* Types; an entry that scans miss is gone by the scan in which its count reaches
\* bss_expiration_scan_count, or is in use and not counted (wpa_bss_update_end()).
TypeOK ==
    /\ list \subseteq 0 .. bss_next_id - 1
    /\ before \subseteq list \X list
    /\ before_id \subseteq list \X list
    /\ \A i \in list : bss[i] \in Entry
    /\ \A i \in Id \ list : bss[i] = NoEntry
    /\ bss_next_id \in 0 .. MaxId
    /\ updating \in BOOLEAN
    /\ current_bss \in Addr \cup {None}
    /\ bssid \in Bssid \cup {None}
    /\ pending_bssid \in Bssid \cup {None}

\* wpa_bss_get() finds one entry for a BSSID and an SSID, and two entries never
\* share their memory, whatever was added, moved, pushed out and expired.
OneEntryPerBss ==
    \A i, j \in list : bss[i].key = bss[j].key \/ bss[i].addr = bss[j].addr => i = j

\* wpa_s->bss_id holds the entries of wpa_s->bss in the order of their
\* identifiers, also after os_realloc() moved an entry out of both lists.
IdListInOrder == before_id = {p \in list \X list : p[1] < p[2]}

\* The table never holds more than bss_max_count entries between two results.
LimitHolds == Cardinality(list) <= MaxCount

\* An entry in use, or one that the latest update saw, leaves the table only
\* because a result needs its place in a full table; a flush spares those in use.
UsedLeavesFullTable ==
    [][\A i \in list \ list' :
          /\ updating /\ (wpa_bss_in_use(i) \/ bss[i].fresh) =>
                 updating' /\ Cardinality(list) = MaxCount
          /\ ~updating => ~wpa_bss_in_use(i)]_vars

\* bss_expiration_age: unless the driver reports results that are old, the walk
\* of wpa_bss_flush_by_age() reaches every entry that is too old and not in
\* use, although it ends at the first one that is young enough.
AgeHonoured ==
    DriverAge \subseteq {0} =>
        \A age \in 0 .. MaxAge : \A i \in list :
            Old(i, age) /\ ~wpa_bss_in_use(i) => i \in ExpiredByAge(age)
=============================================================================
