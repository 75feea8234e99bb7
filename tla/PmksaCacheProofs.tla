-------------------------- MODULE PmksaCacheProofs --------------------------
(***************************************************************************)
(* Safety of PmksaCache for every set of APs, keys and networks, every     *)
(* limit and lifetime, and every sequence of handlers.                     *)
(*                                                                         *)
(* The properties are not inductive by themselves.  Searches and removals  *)
(* start at the head of the list, so its order must be total (InLine).     *)
(* That cur_pmksa has the key in use and that this key is cached follows   *)
(* from where the entry of the connection is: at the AP of the connection, *)
(* with which no preauthentication is ever under way (LinkOK).             *)
(***************************************************************************)
EXTENDS PmksaCache, FiniteSetTheorems, SequenceTheorems, WellFoundedInduction,
        NaturalsInduction, TLAPS

Caches == [Slots -> Entry \cup {None}]
Orders == SUBSET (Slots \X Slots)
Pointers == Slots \cup {None}
Addresses == APs \cup {None}
KeyOrNone == Keys \cup {None}
Contexts == Networks \cup {None}
Timers == Timer \cup {None}
Candidate == [bssid : APs, prio : 0 .. ScanPriority]
Candidates == Seq(Candidate)

SmType ==
    [pmksa : Caches, before : Orders, cur_pmksa : Pointers, pmk : KeyOrNone,
     bssid : Addresses, network_ctx : Contexts, state : States, ie : KeyOrNone,
     expire : Timers, reauth : Timers, preauth : Addresses,
     candidates : Candidates, start_preauth : BOOLEAN]

\* The pairs r put the entries L in a line.
InLine(r, L) ==
    /\ r \subseteq L \X L
    /\ \A i \in L : <<i, i>> \notin r
    /\ \A i, j \in L : i # j => <<i, j>> \in r \/ <<j, i>> \in r
    /\ \A i, j, k \in L : <<i, j>> \in r /\ <<j, k>> \in r => <<i, k>> \in r

\* The cache by itself.
OnePerAddress(s) == \A i, j \in Entries(s) : s.pmksa[i].aa = s.pmksa[j].aa => i = j

Shape(s) ==
    /\ s \in SmType
    /\ InLine(s.before, Entries(s))
    /\ IsFiniteSet(Entries(s))
    /\ Cardinality(Entries(s)) <= MaxEntries
    /\ OnePerAddress(s)
    /\ s.cur_pmksa # None => s.cur_pmksa \in Entries(s)

Scheduled(s) == Entries(s) # {} => s.expire # None

\* The cache and the connection: the entry in use is the one of the AP, and
\* while the key negotiated with the AP is in use it has such an entry.
HasKey(s, aa, k) == \E i \in Entries(s) : s.pmksa[i].aa = aa /\ s.pmksa[i].pmk = k

InUseAt(s, aa) == s.cur_pmksa # None => s.pmksa[s.cur_pmksa].aa = aa

Up(s) == s.state \in {"associated", "handshake", "completed"}

LinkOK(s, tgt) ==
    /\ s.cur_pmksa # None => s.pmksa[s.cur_pmksa].pmk = s.pmk
    /\ Up(s) => s.bssid # None /\ InUseAt(s, s.bssid)
    /\ s.state = "associating" => s.ie = s.pmk /\ tgt # None /\ InUseAt(s, tgt)
    /\ s.preauth # None => s.preauth # s.bssid
    /\ ~ReportsCurrent /\ s.state \in {"handshake", "completed"} =>
            HasKey(s, s.bssid, s.pmk)

Served(s) ==
    s.state = "completed" /\ s.candidates # <<>> => s.preauth # None \/ s.start_preauth

\* The invariant of struct wpa_sm, without the candidates.
Good(s, tgt) == Shape(s) /\ Scheduled(s) /\ LinkOK(s, tgt)

Inv ==
    /\ Good(sm, target)
    /\ Served(sm)
    /\ eapol \in KeyOrNone
    /\ target \in Addresses
    /\ scanning \in BOOLEAN

-----------------------------------------------------------------------------
\* Orders

LEMMA LeastElement ==
    ASSUME NEW S \in SUBSET Nat, S # {}
    PROVE  Least(S) \in S /\ \A v \in S : Least(S) <= v
<1> DEFINE R == {p \in Nat \X Nat : p[1] < p[2]}
<1>1. IsWellFoundedOn(R, Nat)
  BY NatLessThanWellFounded, Zenon DEF OpToRel
<1>2. \A x, y \in Nat : x < y => <<x, y>> \in R
  OBVIOUS
<1> HIDE DEF R
<1>3. PICK u \in S : \A v \in S : ~ (<<v, u>> \in R)
  BY <1>1, WFMin
<1>4. u \in Nat /\ \A v \in S : v \in Nat /\ ~(v < u)
  BY <1>2, <1>3, Zenon
<1>5. \A v \in S : u <= v
  BY <1>4
<1> QED BY <1>5 DEF Least

\* A finite line has a first element: the one with the fewest before it.
LEMMA FirstExists ==
    ASSUME NEW s, NEW L, InLine(s.before, L), NEW S \in SUBSET L, S # {},
           IsFiniteSet(S)
    PROVE  First(s, S) \in S
<1> DEFINE P(i) == {j \in S : <<j, i>> \in s.before}
           C == {Cardinality(P(i)) : i \in S}
<1>1. \A i \in S : IsFiniteSet(P(i)) /\ Cardinality(P(i)) \in Nat
  BY FS_Subset, FS_CardinalityType
<1>2. PICK i \in S : \A j \in S : Cardinality(P(i)) <= Cardinality(P(j))
  <2>1. C \in SUBSET Nat /\ C # {}
    BY <1>1
  <2>2. Least(C) \in C /\ \A v \in C : Least(C) <= v
    BY <2>1, LeastElement
  <2> QED BY <2>2
<1>3. \A j \in S \ {i} : <<i, j>> \in s.before
  <2> SUFFICES ASSUME NEW j \in S \ {i}, <<i, j>> \notin s.before PROVE FALSE
    OBVIOUS
  <2>1. <<j, i>> \in s.before
    BY DEF InLine
  <2>2. P(j) \in SUBSET P(i) /\ j \in P(i) /\ j \notin P(j)
    BY <2>1 DEF InLine
  <2>3. Cardinality(P(j)) <= Cardinality(P(i))
        /\ (Cardinality(P(i)) = Cardinality(P(j)) => P(i) = P(j))
    BY <1>1, <2>2, FS_Subset
  <2>4. Cardinality(P(i)) = Cardinality(P(j))
    BY <1>1, <1>2, <2>3
  <2> QED BY <2>2, <2>3, <2>4
<1> QED BY <1>3 DEF First

LEMMA FindOK ==
    ASSUME NEW s, Shape(s), NEW M \in SUBSET Entries(s)
    PROVE  /\ Find(s, M) \in Pointers
           /\ Find(s, M) = None <=> M = {}
           /\ Find(s, M) # None => Find(s, M) \in M
<1>1. IsFiniteSet(M)
  BY FS_Subset DEF Shape
<1>2. M # {} => First(s, M) \in M
  BY <1>1, FirstExists DEF Shape
<1>3. \A i \in Entries(s) : i # None /\ i \in Pointers
  BY CacheBounds DEF Entries, Pointers
<1> QED BY <1>2, <1>3 DEF Find, Pointers

\* A search by address finds the entry, and the only one.
LEMMA GetOK ==
    ASSUME NEW s, Shape(s), NEW aa
    PROVE  LET p == pmksa_cache_get(s, aa) IN
           /\ p \in Pointers
           /\ p = None <=> \A i \in Entries(s) : s.pmksa[i].aa # aa
           /\ p # None => p \in Entries(s) /\ s.pmksa[p].aa = aa
<1> DEFINE M == {i \in Entries(s) : s.pmksa[i].aa = aa}
<1>1. M \in SUBSET Entries(s)
  OBVIOUS
<1> HIDE DEF M
<1>2. /\ Find(s, M) \in Pointers
      /\ Find(s, M) = None <=> M = {}
      /\ Find(s, M) # None => Find(s, M) \in M
  BY <1>1, FindOK
<1> QED BY <1>2 DEF M, pmksa_cache_get

LEMMA GetByPmkidOK ==
    ASSUME NEW s, Shape(s), NEW aa, NEW k
    PROVE  LET p == GetByPmkid(s, aa, k) IN
           /\ p \in Pointers
           /\ p = None <=> ~HasKey(s, aa, k)
           /\ p # None => p \in Entries(s) /\ s.pmksa[p].aa = aa /\ s.pmksa[p].pmk = k
<1> DEFINE M == {i \in Entries(s) : s.pmksa[i].aa = aa /\ s.pmksa[i].pmk = k}
<1>1. M \in SUBSET Entries(s)
  OBVIOUS
<1> HIDE DEF M
<1>2. /\ Find(s, M) \in Pointers
      /\ Find(s, M) = None <=> M = {}
      /\ Find(s, M) # None => Find(s, M) \in M
  BY <1>1, FindOK
<1> QED BY <1>2 DEF M, GetByPmkid, HasKey

-----------------------------------------------------------------------------
\* What removals do

\* Nothing but the cache and the connection that relies on it has changed.
SameRest(s, t) ==
    /\ t.bssid = s.bssid /\ t.ie = s.ie /\ t.preauth = s.preauth
    /\ t.candidates = s.candidates /\ t.start_preauth = s.start_preauth

Ended(t) == t.state = "disconnected" /\ t.pmk = None /\ t.cur_pmksa = None

SameKey(s, t) == t.state = s.state /\ t.pmk = s.pmk /\ t.network_ctx = s.network_ctx

\* From s to t entries were removed; unless the connection was ended, those
\* with the key in use stayed, except that of address aa.
Smaller(s, t, aa) ==
    /\ Entries(t) \subseteq Entries(s)
    /\ \A i \in Entries(t) : t.pmksa[i] = s.pmksa[i]
    /\ SameRest(s, t)
    /\ t.cur_pmksa \in {s.cur_pmksa, None}
    /\ Ended(t) \/ SameKey(s, t)
    /\ \/ Ended(t)
       \/ \A i \in Entries(s) : \/ i \in Entries(t)
                                \/ s.pmksa[i].pmk # s.pmk
                                \/ s.pmksa[i].aa = aa

LEMMA SmallerTransitive ==
    ASSUME NEW s, NEW t, NEW u, NEW aa, Smaller(s, t, aa), Smaller(t, u, aa),
           s.pmksa \in Caches
    PROVE  Smaller(s, u, aa)
<1>1. SameRest(s, u)
  BY DEF Smaller, SameRest
<1>2. Ended(u) \/ SameKey(s, u)
  BY CacheBounds DEF Smaller, Ended, SameKey
<1>3. /\ Entries(u) \subseteq Entries(s)
      /\ \A i \in Entries(u) : u.pmksa[i] = s.pmksa[i]
  BY DEF Smaller
<1>4. u.cur_pmksa \in {s.cur_pmksa, None}
  BY DEF Smaller
<1>5. \A i \in Entries(s) : s.pmksa[i].pmk # None
  BY CacheBounds DEF Entries, Caches, Entry
<1>6. \/ Ended(u)
      \/ \A i \in Entries(s) : \/ i \in Entries(u)
                               \/ s.pmksa[i].pmk # s.pmk
                               \/ s.pmksa[i].aa = aa
  <2> SUFFICES ASSUME ~Ended(u), NEW i \in Entries(s), s.pmksa[i].pmk = s.pmk,
                      s.pmksa[i].aa # aa
               PROVE  i \in Entries(u)
    OBVIOUS
  <2>1. CASE Ended(t)
    <3>1. SameKey(t, u) /\ u.cur_pmksa = None
      BY <2>1 DEF Smaller, Ended
    <3> QED BY <2>1, <3>1 DEF Ended, SameKey
  <2>2. CASE ~Ended(t)
    <3>1. i \in Entries(t) /\ t.pmksa[i] = s.pmksa[i] /\ t.pmk = s.pmk
      BY <2>2 DEF Smaller, SameKey
    <3> QED BY <3>1 DEF Smaller
  <2> QED BY <2>1, <2>2
<1> HIDE DEF Ended, SameKey, SameRest, Entries
<1> QED BY <1>1, <1>2, <1>3, <1>4, <1>6 DEF Smaller

\* Taking entries out of the line leaves a line.
LEMMA LineWithout ==
    ASSUME NEW r, NEW L, InLine(r, L), NEW D
    PROVE  InLine({p \in r : p[1] \notin D /\ p[2] \notin D}, L \ D)
<1> DEFINE q == {p \in r : p[1] \notin D /\ p[2] \notin D}
<1>1. \A i, j \in L : <<i, j>> \in q <=> <<i, j>> \in r /\ i \notin D /\ j \notin D
  OBVIOUS
<1>2. q \subseteq (L \ D) \X (L \ D)
  BY DEF InLine
<1> HIDE DEF q
<1>3. InLine(q, L \ D)
  BY <1>1, <1>2 DEF InLine
<1> QED BY <1>3 DEF q

LEMMA UnlinkOK ==
    ASSUME NEW s, Shape(s), NEW D \in SUBSET Entries(s),
           s.cur_pmksa # None => s.cur_pmksa \notin D
    PROVE  LET t == Unlink(s, D) IN
           /\ Shape(t)
           /\ Entries(t) = Entries(s) \ D
           /\ \A i \in Entries(t) : t.pmksa[i] = s.pmksa[i]
           /\ t.cur_pmksa = s.cur_pmksa /\ t.expire = s.expire
           /\ SameRest(s, t) /\ SameKey(s, t)
<1> DEFINE f == [i \in Slots |-> IF i \in D THEN None ELSE s.pmksa[i]]
           r == {p \in s.before : p[1] \notin D /\ p[2] \notin D}
           t == [s EXCEPT !.pmksa = f, !.before = r]
<1>1. t = Unlink(s, D)
  BY DEF Unlink
<1>2. s \in SmType
  BY DEF Shape
<1>3. f \in Caches /\ r \in Orders
  BY <1>2 DEF SmType, Caches, Orders
<1>4. \A i \in Slots : f[i] = IF i \in D THEN None ELSE s.pmksa[i]
  OBVIOUS
<1>5. InLine(r, Entries(s) \ D)
  BY LineWithout DEF Shape
<1> HIDE DEF f, r
<1>6. t \in SmType /\ t.pmksa = f /\ t.before = r
  BY <1>2, <1>3 DEF SmType
<1>7. t.cur_pmksa = s.cur_pmksa /\ t.expire = s.expire /\ SameRest(s, t) /\ SameKey(s, t)
  BY <1>2 DEF SmType, SameRest, SameKey
<1> HIDE DEF t
<1>8. Entries(t) = Entries(s) \ D
  BY <1>4, <1>6 DEF Entries
<1>9. \A i \in Entries(t) : t.pmksa[i] = s.pmksa[i]
  BY <1>4, <1>6, <1>8 DEF Entries
<1>10. IsFiniteSet(Entries(t)) /\ Cardinality(Entries(t)) <= MaxEntries
  <2>1. IsFiniteSet(Entries(t)) /\ Cardinality(Entries(t)) <= Cardinality(Entries(s))
    BY <1>8, FS_Subset DEF Shape
  <2>2. Cardinality(Entries(t)) \in Nat /\ Cardinality(Entries(s)) \in Nat
    BY <2>1, FS_CardinalityType DEF Shape
  <2> QED BY <2>1, <2>2, CacheBounds DEF Shape
<1>11. OnePerAddress(t)
  BY <1>8, <1>9 DEF Shape, OnePerAddress
<1>12. Shape(t)
  BY <1>5, <1>6, <1>7, <1>8, <1>10, <1>11 DEF Shape
<1> QED BY <1>1, <1>7, <1>8, <1>9, <1>12

LEMMA CallbackOK ==
    ASSUME NEW s, Shape(s), NEW D \in SUBSET Entries(s), NEW replace \in BOOLEAN
    PROVE  LET t == wpa_sm_pmksa_free_cb(s, D, replace) IN
           /\ Shape(t)
           /\ Entries(t) = Entries(s) /\ t.pmksa = s.pmksa
           /\ t.cur_pmksa \in {s.cur_pmksa, None}
           /\ t.cur_pmksa # None => t.cur_pmksa \notin D
           /\ t.expire = s.expire
           /\ SameRest(s, t)
           /\ replace => SameKey(s, t)
           /\ ~replace => \/ Ended(t)
                          \/ SameKey(s, t) /\ \A i \in D : s.pmksa[i].pmk # s.pmk
<1> DEFINE t == wpa_sm_pmksa_free_cb(s, D, replace)
<1>1. s \in SmType
  BY DEF Shape
<1>2. "disconnected" \in States /\ None \in Pointers /\ None \in KeyOrNone /\ None \in Contexts
  BY DEF States, Pointers, KeyOrNone, Contexts
<1>3. t \in SmType /\ t.pmksa = s.pmksa /\ t.before = s.before
  BY <1>1, <1>2 DEF SmType, wpa_sm_pmksa_free_cb, Deauthenticate
<1>4. t.expire = s.expire /\ SameRest(s, t)
  BY <1>1 DEF SmType, wpa_sm_pmksa_free_cb, Deauthenticate, SameRest
<1>5. t.cur_pmksa = IF InUse(s, D) THEN None ELSE s.cur_pmksa
  BY <1>1 DEF SmType, wpa_sm_pmksa_free_cb, Deauthenticate
<1>6. replace => SameKey(s, t)
  BY <1>1 DEF SmType, wpa_sm_pmksa_free_cb, Deauthenticate, SameKey
<1>7. ~replace => \/ Ended(t)
                  \/ SameKey(s, t) /\ ~InUse(s, D)
  BY <1>1 DEF SmType, wpa_sm_pmksa_free_cb, Deauthenticate, SameKey, Ended
<1> HIDE DEF t
<1>8. ~InUse(s, D) => s.cur_pmksa \notin D /\ \A i \in D : s.pmksa[i].pmk # s.pmk
  BY DEF InUse
<1>9. Entries(t) = Entries(s)
  BY <1>3 DEF Entries
<1>10. Shape(t)
  BY <1>3, <1>5, <1>9 DEF Shape, OnePerAddress
<1>11. t.cur_pmksa \in {s.cur_pmksa, None} /\ (t.cur_pmksa # None => t.cur_pmksa \notin D)
  BY <1>5, <1>8
<1> QED BY <1>3, <1>4, <1>6, <1>7, <1>8, <1>9, <1>10, <1>11 DEF t

\* pmksa_cache_free_entry(): with replace only the entry of aa goes.
LEMMA FreeOK ==
    ASSUME NEW s, Shape(s), NEW D \in SUBSET Entries(s), NEW replace \in BOOLEAN,
           NEW aa, replace => \A i \in D : s.pmksa[i].aa = aa
    PROVE  LET t == pmksa_cache_free_entry(s, D, replace) IN
           /\ Shape(t)
           /\ Smaller(s, t, aa)
           /\ Entries(t) = Entries(s) \ D
           /\ t.expire = s.expire
<1> DEFINE c == wpa_sm_pmksa_free_cb(s, D, replace)
           t == Unlink(c, D)
<1>1. /\ Shape(c) /\ Entries(c) = Entries(s) /\ c.pmksa = s.pmksa
      /\ c.cur_pmksa \in {s.cur_pmksa, None}
      /\ c.cur_pmksa # None => c.cur_pmksa \notin D
      /\ c.expire = s.expire /\ SameRest(s, c)
      /\ replace => SameKey(s, c)
      /\ ~replace => \/ Ended(c)
                     \/ SameKey(s, c) /\ \A i \in D : s.pmksa[i].pmk # s.pmk
  BY CallbackOK
<1> HIDE DEF c
<1>2. /\ Shape(t) /\ Entries(t) = Entries(c) \ D
      /\ \A i \in Entries(t) : t.pmksa[i] = c.pmksa[i]
      /\ t.cur_pmksa = c.cur_pmksa /\ t.expire = c.expire
      /\ SameRest(c, t) /\ SameKey(c, t)
  BY <1>1, UnlinkOK
<1>3. t = pmksa_cache_free_entry(s, D, replace)
  BY DEF c, pmksa_cache_free_entry
<1> HIDE DEF t
<1>4. SameRest(s, t) /\ Entries(t) = Entries(s) \ D /\ t.expire = s.expire
  BY <1>1, <1>2 DEF SameRest
<1>5. /\ replace => SameKey(s, t)
      /\ ~replace => \/ Ended(t)
                     \/ SameKey(s, t) /\ \A i \in D : s.pmksa[i].pmk # s.pmk
  BY <1>1, <1>2 DEF SameKey, Ended
<1> HIDE DEF Entries
<1>6. Smaller(s, t, aa)
  BY <1>1, <1>2, <1>4, <1>5 DEF Smaller
<1> QED BY <1>2, <1>3, <1>4, <1>6

\* pmksa_cache_set_expiration(): if there is an entry, its expiry is scheduled.
LEMMA ExpirationOK ==
    ASSUME NEW s, Shape(s)
    PROVE  LET t == pmksa_cache_set_expiration(s) IN
           /\ Shape(t) /\ Scheduled(t)
           /\ Entries(t) = Entries(s) /\ t.pmksa = s.pmksa /\ t.cur_pmksa = s.cur_pmksa
           /\ SameRest(s, t) /\ SameKey(s, t)
<1> DEFINE e == s.pmksa[First(s, Entries(s))]
           x == IF Entries(s) = {} THEN None ELSE e.exp + 1
           y == IF Entries(s) # {} /\ (s.cur_pmksa # None \/ pmksa_cache_get(s, s.bssid) # None)
                THEN e.reauth ELSE None
           t == [s EXCEPT !.expire = x, !.reauth = y]
<1>1. s \in SmType
  BY DEF Shape
<1>2. t = pmksa_cache_set_expiration(s)
  BY <1>1 DEF SmType, pmksa_cache_set_expiration
<1>3. Entries(s) # {} => e \in Entry
  <2>1. Entries(s) # {} => First(s, Entries(s)) \in Entries(s)
    BY FirstExists DEF Shape
  <2> QED BY <1>1, <2>1 DEF Entries, SmType, Caches
<1>4. x \in Timers /\ y \in Timers /\ (Entries(s) # {} => x # None)
  BY <1>3, CacheBounds DEF Entry, Timer, Timers
<1> HIDE DEF x, y
<1>5. /\ t \in SmType /\ t.pmksa = s.pmksa /\ t.before = s.before
      /\ t.cur_pmksa = s.cur_pmksa /\ t.expire = x
  BY <1>1, <1>4 DEF SmType
<1>6. SameRest(s, t) /\ SameKey(s, t)
  BY <1>1 DEF SmType, SameRest, SameKey
<1> HIDE DEF t
<1>7. Entries(t) = Entries(s)
  BY <1>5 DEF Entries
<1>8. Shape(t) /\ Scheduled(t)
  BY <1>4, <1>5, <1>7 DEF Shape, OnePerAddress, Scheduled
<1> QED BY <1>2, <1>5, <1>6, <1>7, <1>8

\* A walk that removes entries ends with setting the timers.
LEMMA FreeAllOK ==
    ASSUME NEW s, Shape(s), NEW D \in SUBSET Entries(s), NEW aa
    PROVE  LET t == pmksa_cache_set_expiration(pmksa_cache_free_entry(s, D, FALSE))
           IN  Shape(t) /\ Scheduled(t) /\ Smaller(s, t, aa)
<1> DEFINE c == pmksa_cache_free_entry(s, D, FALSE)
           t == pmksa_cache_set_expiration(c)
<1>1. Shape(c) /\ Smaller(s, c, aa)
  BY FreeOK
<1> HIDE DEF c
<1>2. /\ Shape(t) /\ Scheduled(t)
      /\ Entries(t) = Entries(c) /\ t.pmksa = c.pmksa /\ t.cur_pmksa = c.cur_pmksa
      /\ SameRest(c, t) /\ SameKey(c, t)
  BY <1>1, ExpirationOK
<1> HIDE DEF t
<1>3. Smaller(c, t, aa)
  BY <1>2 DEF Smaller
<1>4. Smaller(s, t, aa)
  BY <1>1, <1>3, SmallerTransitive DEF Shape, SmType
<1> QED BY <1>2, <1>4 DEF c, t

LEMMA FlushOK ==
    ASSUME NEW s, Shape(s), Scheduled(s), NEW net, NEW aa
    PROVE  LET t == pmksa_cache_flush(s, net)
           IN  Shape(t) /\ Scheduled(t) /\ Smaller(s, t, aa)
<1>1. CASE Belonging(s, net) = {}
  <2>1. pmksa_cache_flush(s, net) = s
    BY <1>1 DEF pmksa_cache_flush
  <2>2. Smaller(s, s, aa)
    BY DEF Smaller, SameRest, SameKey
  <2> QED BY <2>1, <2>2
<1>2. CASE Belonging(s, net) # {}
  <2>1. Belonging(s, net) \in SUBSET Entries(s)
    BY DEF Belonging
  <2> QED BY <1>2, <2>1, FreeAllOK DEF pmksa_cache_flush
<1> QED BY <1>1, <1>2

\* Afterwards there is no entry for aa.
LEMMA ReplaceOK ==
    ASSUME NEW s, Shape(s), Scheduled(s), NEW net, NEW aa
    PROVE  LET t == Replace(s, aa, net)
           IN  /\ Shape(t) /\ Scheduled(t) /\ Smaller(s, t, aa)
               /\ \A i \in Entries(t) : t.pmksa[i].aa # aa
<1> DEFINE old == pmksa_cache_get(s, aa)
           c == pmksa_cache_free_entry(s, {old}, TRUE)
           t == pmksa_cache_flush(c, net)
<1>1. /\ old \in Pointers
      /\ old = None <=> \A i \in Entries(s) : s.pmksa[i].aa # aa
      /\ old # None => old \in Entries(s) /\ s.pmksa[old].aa = aa
  BY GetOK
<1>2. CASE old = None
  <2>1. Replace(s, aa, net) = s
    BY <1>2 DEF Replace
  <2>2. Smaller(s, s, aa)
    BY DEF Smaller, SameRest, SameKey
  <2> QED BY <1>1, <1>2, <2>1, <2>2
<1>3. CASE old # None
  <2>1. Replace(s, aa, net) = t
    BY <1>3 DEF Replace
  <2> HIDE DEF old
  <2>2. Shape(c) /\ Smaller(s, c, aa) /\ Entries(c) = Entries(s) \ {old} /\ c.expire = s.expire
    BY <1>1, <1>3, FreeOK
  <2> HIDE DEF c
  <2>3. Scheduled(c)
    BY <2>2 DEF Scheduled
  <2>4. Shape(t) /\ Scheduled(t) /\ Smaller(c, t, aa)
    BY <2>2, <2>3, FlushOK
  <2> HIDE DEF t
  <2>5. Smaller(s, t, aa)
    BY <2>2, <2>4, SmallerTransitive DEF Shape, SmType
  <2>6. \A i \in Entries(c) : s.pmksa[i].aa # aa
    BY <1>1, <1>3, <2>2 DEF Shape, OnePerAddress
  <2>7. \A i \in Entries(t) : t.pmksa[i].aa # aa
    BY <2>4, <2>5, <2>6 DEF Smaller
  <2> QED BY <2>1, <2>4, <2>5, <2>7
<1> QED BY <1>2, <1>3

LEMMA MakeRoomOK ==
    ASSUME NEW s, Shape(s), Scheduled(s), NEW aa
    PROVE  LET t == MakeRoom(s)
           IN  /\ Shape(t) /\ Scheduled(t) /\ Smaller(s, t, aa)
               /\ Cardinality(Entries(t)) < MaxEntries
<1> DEFINE first == First(s, Entries(s))
           t == pmksa_cache_free_entry(s, {first}, FALSE)
<1>0. IsFiniteSet(Entries(s)) /\ Cardinality(Entries(s)) \in Nat
  BY FS_CardinalityType DEF Shape
<1> DEFINE n == Cardinality(Entries(s))
<1>a. n >= MaxEntries <=> ~(n < MaxEntries)
  BY <1>0, CacheBounds
<1>b. MakeRoom(s) = IF n >= MaxEntries THEN t ELSE s
  BY DEF MakeRoom
<1> HIDE DEF n, t
<1>1. CASE n < MaxEntries
  <2>1. MakeRoom(s) = s
    BY <1>1, <1>a, <1>b
  <2>2. Smaller(s, s, aa)
    BY DEF Smaller, SameRest, SameKey
  <2> QED BY <1>1, <2>1, <2>2 DEF n
<1>2. CASE ~(n < MaxEntries)
  <2>1. MakeRoom(s) = t
    BY <1>2, <1>a, <1>b
  <2>2. Entries(s) # {}
    BY <1>0, <1>2, FS_EmptySet, CacheBounds DEF n
  <2>3. first \in Entries(s)
    BY <2>2, FirstExists DEF Shape
  <2> HIDE DEF first
  <2>4. Shape(t) /\ Smaller(s, t, aa) /\ Entries(t) = Entries(s) \ {first} /\ t.expire = s.expire
    BY <2>3, FreeOK DEF t
  <2>5. Cardinality(Entries(t)) = Cardinality(Entries(s)) - 1
    BY <1>0, <2>3, <2>4, FS_RemoveElement
  <2>6. Cardinality(Entries(t)) < MaxEntries
    BY <1>0, <2>5, CacheBounds DEF Shape
  <2>7. Scheduled(t)
    BY <2>4 DEF Scheduled
  <2> QED BY <2>1, <2>4, <2>6, <2>7
<1> QED BY <1>1, <1>2

-----------------------------------------------------------------------------
\* What additions do

\* An element between those of A and the others lengthens the line.
LEMMA LineWith ==
    ASSUME NEW r, NEW L, InLine(r, L), NEW n, n \notin L, NEW A \in SUBSET L,
           \A i \in A, j \in L : <<j, i>> \in r => j \in A
    PROVE  InLine(r \cup (A \X {n}) \cup ({n} \X (L \ A)), L \cup {n})
<1> DEFINE q == r \cup (A \X {n}) \cup ({n} \X (L \ A))
<1>1. \A i, j \in L \cup {n} :
         <<i, j>> \in q <=> \/ i # n /\ j # n /\ <<i, j>> \in r
                            \/ i \in A /\ j = n
                            \/ i = n /\ j \in L \ A
  <2>1. \A i, j : <<i, j>> \in r => i # n /\ j # n
    BY DEF InLine
  <2>2. \A i, j : <<i, j>> \in q <=> \/ <<i, j>> \in r
                                     \/ i \in A /\ j = n
                                     \/ i = n /\ j \in L \ A
    OBVIOUS
  <2> QED BY <2>1, <2>2
<1>2. q \subseteq (L \cup {n}) \X (L \cup {n})
  BY DEF InLine
<1> HIDE DEF q
<1>3. \A i \in L \cup {n} : <<i, i>> \notin q
  BY <1>1 DEF InLine
<1>4. \A i, j \in L \cup {n} : i # j => <<i, j>> \in q \/ <<j, i>> \in q
  BY <1>1 DEF InLine
<1>5. ASSUME NEW i \in L \cup {n}, NEW j \in L \cup {n}, NEW k \in L \cup {n},
             <<i, j>> \in q, <<j, k>> \in q
      PROVE  <<i, k>> \in q
  <2>1. CASE i = n
    BY <1>1, <1>5, <2>1 DEF InLine
  <2>2. CASE j = n
    <3>1. i \in A /\ k \in L \ A
      BY <1>1, <1>5, <2>2
    <3>2. <<i, k>> \in r
      BY <3>1 DEF InLine
    <3> QED BY <1>1, <3>1, <3>2
  <2>3. CASE k = n
    BY <1>1, <1>5, <2>3 DEF InLine
  <2>4. CASE i \in L /\ j \in L /\ k \in L
    BY <1>1, <1>5, <2>4 DEF InLine
  <2> QED BY <2>1, <2>2, <2>3, <2>4
<1>6. InLine(q, L \cup {n})
  BY <1>2, <1>3, <1>4, <1>5 DEF InLine
<1> QED BY <1>6 DEF q

LEMMA AheadOK ==
    ASSUME NEW s, Shape(s), NEW e
    PROVE  /\ Ahead(s, e) \in SUBSET Entries(s)
           /\ \A i \in Ahead(s, e), j \in Entries(s) : <<j, i>> \in s.before => j \in Ahead(s, e)
<1> DEFINE later == {i \in Entries(s) : s.pmksa[i].exp > e.exp}
           A == {i \in Entries(s) : <<i, First(s, later)>> \in s.before}
<1>1. Ahead(s, e) = IF later = {} THEN Entries(s) ELSE A
  BY DEF Ahead
<1>2. IsFiniteSet(later)
  BY FS_Subset DEF Shape
<1>3. later # {} => First(s, later) \in Entries(s)
  BY <1>2, FirstExists DEF Shape
<1>4. later # {} => \A i \in A, j \in Entries(s) : <<j, i>> \in s.before => j \in A
  BY <1>3 DEF Shape, InLine
<1> QED BY <1>1, <1>4

LEMMA LinkEntry ==
    ASSUME NEW s, Shape(s), NEW e \in Entry, NEW new \in Slots, new \notin Entries(s),
           Cardinality(Entries(s)) < MaxEntries,
           \A i \in Entries(s) : s.pmksa[i].aa # e.aa
    PROVE  LET t == Link(s, e, new) IN
           /\ Shape(t)
           /\ Entries(t) = Entries(s) \cup {new}
           /\ t.pmksa[new] = e /\ \A i \in Entries(s) : t.pmksa[i] = s.pmksa[i]
           /\ t.cur_pmksa = s.cur_pmksa /\ t.expire = s.expire
           /\ SameRest(s, t) /\ SameKey(s, t)
<1> DEFINE f == [s.pmksa EXCEPT ![new] = e]
           A == Ahead(s, e)
           r == s.before \cup (A \X {new}) \cup ({new} \X (Entries(s) \ A))
           t == [s EXCEPT !.pmksa = f, !.before = r]
<1>1. t = Link(s, e, new)
  BY DEF Link
<1>2. s \in SmType
  BY DEF Shape
<1>3. A \in SUBSET Entries(s) /\ InLine(r, Entries(s) \cup {new})
  <2>1. A \in SUBSET Entries(s) /\ \A i \in A, j \in Entries(s) : <<j, i>> \in s.before => j \in A
    BY AheadOK
  <2>2. InLine(s.before, Entries(s))
    BY DEF Shape
  <2> HIDE DEF A
  <2> QED BY <2>1, <2>2, LineWith
<1> HIDE DEF A
<1>4. f \in Caches /\ r \in Orders
  BY <1>2, <1>3 DEF SmType, Caches, Orders, Entries
<1>5. f[new] = e /\ \A i \in Slots \ {new} : f[i] = s.pmksa[i]
  BY <1>2 DEF SmType, Caches
<1> HIDE DEF f, r
<1>6. t \in SmType /\ t.pmksa = f /\ t.before = r
  BY <1>2, <1>4 DEF SmType
<1>7. t.cur_pmksa = s.cur_pmksa /\ t.expire = s.expire /\ SameRest(s, t) /\ SameKey(s, t)
  BY <1>2 DEF SmType, SameRest, SameKey
<1> HIDE DEF t
<1>8. Entries(t) = Entries(s) \cup {new}
  BY <1>5, <1>6, CacheBounds DEF Entries
<1>9. t.pmksa[new] = e /\ \A i \in Entries(s) : t.pmksa[i] = s.pmksa[i]
  BY <1>5, <1>6 DEF Entries
<1>10. IsFiniteSet(Entries(t)) /\ Cardinality(Entries(t)) <= MaxEntries
  <2>1. IsFiniteSet(Entries(s)) /\ Cardinality(Entries(s)) \in Nat
    BY FS_CardinalityType DEF Shape
  <2>2. IsFiniteSet(Entries(t)) /\ Cardinality(Entries(t)) = Cardinality(Entries(s)) + 1
    BY <1>8, <2>1, FS_AddElement
  <2> QED BY <2>1, <2>2, CacheBounds
<1>11. OnePerAddress(t)
  BY <1>8, <1>9 DEF Shape, OnePerAddress
<1>12. Shape(t)
  BY <1>3, <1>6, <1>7, <1>8, <1>10, <1>11 DEF Shape
<1> QED BY <1>1, <1>7, <1>8, <1>9, <1>12

LEMMA InsertOK ==
    ASSUME NEW s, Shape(s), Scheduled(s), NEW e \in Entry, NEW new \in Slots,
           new \notin Entries(s), Cardinality(Entries(s)) < MaxEntries,
           \A i \in Entries(s) : s.pmksa[i].aa # e.aa
    PROVE  LET t == Insert(s, e, new) IN
           /\ Shape(t) /\ Scheduled(t)
           /\ Entries(t) = Entries(s) \cup {new}
           /\ t.pmksa[new] = e /\ \A i \in Entries(s) : t.pmksa[i] = s.pmksa[i]
           /\ t.cur_pmksa = s.cur_pmksa
           /\ SameRest(s, t) /\ SameKey(s, t)
<1> DEFINE c == Link(s, e, new)
           t == pmksa_cache_set_expiration(c)
<1>1. /\ Shape(c)
      /\ Entries(c) = Entries(s) \cup {new}
      /\ c.pmksa[new] = e /\ \A i \in Entries(s) : c.pmksa[i] = s.pmksa[i]
      /\ c.cur_pmksa = s.cur_pmksa /\ c.expire = s.expire
      /\ SameRest(s, c) /\ SameKey(s, c)
  BY LinkEntry
<1>2. Insert(s, e, new) = IF Ahead(s, e) = {} THEN t ELSE c
  BY DEF Insert
<1> HIDE DEF c
<1>3. CASE Ahead(s, e) # {}
  <2>1. Entries(s) # {}
    BY <1>3, AheadOK
  <2>2. Scheduled(c)
    BY <1>1, <2>1 DEF Scheduled
  <2> QED BY <1>1, <1>2, <1>3, <2>2
<1>4. CASE Ahead(s, e) = {}
  <2>1. /\ Shape(t) /\ Scheduled(t)
        /\ Entries(t) = Entries(c) /\ t.pmksa = c.pmksa /\ t.cur_pmksa = c.cur_pmksa
        /\ SameRest(c, t) /\ SameKey(c, t)
    BY <1>1, ExpirationOK
  <2> HIDE DEF t
  <2>2. SameRest(s, t) /\ SameKey(s, t)
    BY <1>1, <2>1 DEF SameRest, SameKey
  <2> QED BY <1>1, <1>2, <1>4, <2>1, <2>2
<1> QED BY <1>3, <1>4

\* From s to t an entry for aa was added; before that, entries were removed.
Grown(s, t, aa) ==
    /\ Shape(t) /\ Scheduled(t)
    /\ SameRest(s, t)
    /\ t.cur_pmksa \in {s.cur_pmksa, None}
    /\ Ended(t) \/ SameKey(s, t)
    /\ \A i \in Entries(t) : i \in Entries(s) => /\ t.pmksa[i].aa = s.pmksa[i].aa
                                                 /\ t.pmksa[i].pmk = s.pmksa[i].pmk
    /\ \/ Ended(t)
       \/ \A i \in Entries(s) : \/ i \in Entries(t)
                                \/ s.pmksa[i].pmk # s.pmk
                                \/ s.pmksa[i].aa = aa

LEMMA GrownSame ==
    ASSUME NEW s, NEW aa, Shape(s), Scheduled(s)
    PROVE  Grown(s, s, aa)
BY DEF Grown, SameRest, SameKey

LEMMA NewEntryType ==
    ASSUME NEW k \in Keys, NEW aa \in APs, NEW net \in Contexts
    PROVE  NewEntry(k, aa, net) \in Entry
<1> DEFINE x == Lifetime * Threshold
<1>1. Lifetime \in Nat /\ Threshold \in Nat /\ Threshold <= 100
  BY CacheBounds
<1>2. x \in Nat /\ x <= Lifetime * 100
  BY <1>1
<1> HIDE DEF x
<1>3. x \div 100 \in 0 .. Lifetime
  BY <1>1, <1>2
<1> QED BY <1>1, <1>3 DEF NewEntry, Entry, Contexts, x

LEMMA AddOK ==
    ASSUME NEW s, Shape(s), Scheduled(s), NEW k \in Keys, NEW aa \in APs,
           NEW net \in Contexts, NEW new \in Slots, new \notin Entries(s)
    PROVE  LET t == pmksa_cache_add(s, k, aa, net, new)
           IN  Grown(s, t, aa) /\ HasKey(t, aa, k)
<1> DEFINE b == Replace(s, aa, net)
           c == MakeRoom(b)
           e == NewEntry(k, aa, net)
           t == Insert(c, e, new)
<1>1. CASE GetByPmkid(s, aa, k) # None
  <2>1. pmksa_cache_add(s, k, aa, net, new) = s
    BY <1>1 DEF pmksa_cache_add
  <2>2. HasKey(s, aa, k)
    BY <1>1, GetByPmkidOK
  <2> QED BY <2>1, <2>2, GrownSame
<1>2. CASE GetByPmkid(s, aa, k) = None
  <2>1. pmksa_cache_add(s, k, aa, net, new) = t
    BY <1>2 DEF pmksa_cache_add
  <2>2. /\ Shape(b) /\ Scheduled(b) /\ Smaller(s, b, aa)
        /\ \A i \in Entries(b) : b.pmksa[i].aa # aa
    BY ReplaceOK
  <2> HIDE DEF b
  <2>3. /\ Shape(c) /\ Scheduled(c) /\ Smaller(b, c, aa)
        /\ Cardinality(Entries(c)) < MaxEntries
    BY <2>2, MakeRoomOK
  <2> HIDE DEF c
  <2>4. Smaller(s, c, aa)
    BY <2>2, <2>3, SmallerTransitive DEF Shape, SmType
  <2>5. e \in Entry /\ e.aa = aa /\ e.pmk = k
    BY NewEntryType DEF NewEntry
  <2>6. new \notin Entries(c) /\ \A i \in Entries(c) : c.pmksa[i].aa # e.aa
    BY <2>2, <2>3, <2>4, <2>5 DEF Smaller
  <2> HIDE DEF e
  <2>7. /\ Shape(t) /\ Scheduled(t)
        /\ Entries(t) = Entries(c) \cup {new}
        /\ t.pmksa[new] = e /\ \A i \in Entries(c) : t.pmksa[i] = c.pmksa[i]
        /\ t.cur_pmksa = c.cur_pmksa
        /\ SameRest(c, t) /\ SameKey(c, t)
    BY <2>3, <2>5, <2>6, InsertOK
  <2> HIDE DEF t
  <2>8. SameRest(s, t) /\ t.cur_pmksa \in {s.cur_pmksa, None}
    BY <2>4, <2>7 DEF Smaller, SameRest
  <2>9. (Ended(c) => Ended(t)) /\ (SameKey(s, c) => SameKey(s, t))
    BY <2>7 DEF Ended, SameKey
  <2>10. \A i \in Entries(t) : i \in Entries(s) => t.pmksa[i] = s.pmksa[i]
    BY <2>4, <2>7 DEF Smaller
  <2>11. Ended(t) \/ SameKey(s, t)
    BY <2>4, <2>9 DEF Smaller
  <2>12. \/ Ended(t)
         \/ \A i \in Entries(s) : \/ i \in Entries(t)
                                  \/ s.pmksa[i].pmk # s.pmk
                                  \/ s.pmksa[i].aa = aa
    BY <2>4, <2>7, <2>9 DEF Smaller
  <2>13. HasKey(t, aa, k)
    BY <2>5, <2>7 DEF HasKey
  <2>14. Grown(s, t, aa)
    BY <2>7, <2>8, <2>10, <2>11, <2>12 DEF Grown
  <2> QED BY <2>1, <2>13, <2>14
<1> QED BY <1>1, <1>2

\* Entries may change in other respects than address and key.
Alike(s, t) ==
    \A i \in Slots :
        /\ t.pmksa[i] = None <=> s.pmksa[i] = None
        /\ s.pmksa[i] # None => /\ t.pmksa[i].aa = s.pmksa[i].aa
                                /\ t.pmksa[i].pmk = s.pmksa[i].pmk

LEMMA AlikeOK ==
    ASSUME NEW s, Shape(s), NEW t \in SmType, t.before = s.before,
           t.cur_pmksa \in {s.cur_pmksa, None}, Alike(s, t)
    PROVE  /\ Shape(t)
           /\ Entries(t) = Entries(s)
           /\ \A i \in Entries(s) : /\ t.pmksa[i].aa = s.pmksa[i].aa
                                    /\ t.pmksa[i].pmk = s.pmksa[i].pmk
<1>1. Entries(t) = Entries(s)
  BY DEF Entries, Alike
<1>2. \A i \in Entries(s) : /\ t.pmksa[i].aa = s.pmksa[i].aa
                            /\ t.pmksa[i].pmk = s.pmksa[i].pmk
  BY DEF Entries, Alike
<1> QED BY <1>1, <1>2 DEF Shape, OnePerAddress

\* The same where the cache is left alone.
LEMMA SameCacheOK ==
    ASSUME NEW s, Shape(s), NEW t \in SmType, t.before = s.before, t.pmksa = s.pmksa,
           t.cur_pmksa \in Entries(s) \cup {None}
    PROVE  Shape(t) /\ Entries(t) = Entries(s)
<1>1. Entries(t) = Entries(s)
  BY DEF Entries
<1> QED BY <1>1 DEF Shape, OnePerAddress

LEMMA CloneOK ==
    ASSUME NEW s, Shape(s), Scheduled(s), NEW old \in Entries(s), NEW aa \in APs,
           NEW new \in Slots, new \notin Entries(s),
           NEW u \in pmksa_cache_clone_entry(s, old, aa, new)
    PROVE  Grown(s, u, aa)
<1> DEFINE k == s.pmksa[old].pmk
           net == s.pmksa[old].net
           t == pmksa_cache_add(s, k, aa, net, new)
           copy == pmksa_cache_get(t, aa)
           f(x) == [i \in Slots |-> IF i = copy THEN Guess(t.pmksa[i], x) ELSE t.pmksa[i]]
<1>1. s.pmksa[old] \in Entry
  BY DEF Entries, Shape, SmType, Caches
<1>2. k \in Keys /\ net \in Contexts /\ s.pmksa[old].exp \in 0 .. Lifetime
  BY <1>1 DEF Entry, Contexts
<1>3. PICK x \in 0 .. Lifetime : u = [t EXCEPT !.pmksa = f(x)]
  BY <1>2 DEF pmksa_cache_clone_entry
<1> HIDE DEF k, net
<1>4. Grown(s, t, aa) /\ HasKey(t, aa, k)
  BY <1>2, AddOK
<1> HIDE DEF t
<1>5. copy \in Entries(t)
  BY <1>4, GetOK DEF Grown, HasKey
<1> HIDE DEF copy
<1>6. t \in SmType /\ Shape(t)
  BY <1>4 DEF Grown, Shape
<1>7. \A i \in Entries(t) : t.pmksa[i] \in Entry /\ t.pmksa[i] # None
  BY <1>6 DEF Entries, SmType, Caches
<1>8. Guess(t.pmksa[copy], x) \in Entry
      /\ Guess(t.pmksa[copy], x).aa = t.pmksa[copy].aa
      /\ Guess(t.pmksa[copy], x).pmk = t.pmksa[copy].pmk
  BY <1>5, <1>7 DEF Guess, Entry
<1> DEFINE g == f(x)
<1>9. /\ g \in Caches
      /\ \A i \in Slots : g[i] = IF i = copy THEN Guess(t.pmksa[copy], x) ELSE t.pmksa[i]
  BY <1>6, <1>8 DEF SmType, Caches
<1>10. u = [t EXCEPT !.pmksa = g]
  BY <1>3
<1> HIDE DEF g
<1>11. u \in SmType /\ u.pmksa = g /\ u.before = t.before /\ u.cur_pmksa = t.cur_pmksa
  BY <1>6, <1>9, <1>10 DEF SmType
<1>12. u.expire = t.expire /\ SameRest(t, u) /\ SameKey(t, u)
  BY <1>6, <1>10 DEF SmType, SameRest, SameKey
<1>13. Alike(t, u)
  BY <1>5, <1>7, <1>8, <1>9, <1>11, CacheBounds DEF Alike
<1>14. /\ Shape(u) /\ Entries(u) = Entries(t)
       /\ \A i \in Entries(t) : /\ u.pmksa[i].aa = t.pmksa[i].aa
                                /\ u.pmksa[i].pmk = t.pmksa[i].pmk
  BY <1>6, <1>11, <1>13, AlikeOK
<1>15. Scheduled(u)
  BY <1>4, <1>12, <1>14 DEF Grown, Scheduled
<1>16. SameRest(s, u) /\ (Ended(t) => Ended(u)) /\ (SameKey(s, t) => SameKey(s, u))
  BY <1>4, <1>11, <1>12 DEF Grown, SameRest, SameKey, Ended
<1> QED BY <1>4, <1>11, <1>14, <1>15, <1>16 DEF Grown

LEMMA OpportunisticOK ==
    ASSUME NEW s, Shape(s), Scheduled(s), NEW net, NEW aa \in APs,
           NEW new \in Slots, new \notin Entries(s),
           NEW u \in pmksa_cache_get_opportunistic(s, net, aa, new)
    PROVE  Grown(s, u, aa)
<1> DEFINE M == {i \in Entries(s) : s.pmksa[i].net = net}
           first == Find(s, M)
<1>1. M \in SUBSET Entries(s)
  OBVIOUS
<1>2. pmksa_cache_get_opportunistic(s, net, aa, new) =
        IF net = None \/ first = None THEN {s} ELSE pmksa_cache_clone_entry(s, first, aa, new)
  BY DEF pmksa_cache_get_opportunistic
<1> HIDE DEF M
<1>3. first # None => first \in Entries(s)
  BY <1>1, FindOK
<1> HIDE DEF first
<1>4. CASE net = None \/ first = None
  BY <1>2, <1>4, GrownSame
<1>5. CASE ~(net = None \/ first = None)
  BY <1>2, <1>3, <1>5, CloneOK
<1> QED BY <1>4, <1>5

-----------------------------------------------------------------------------
\* The cache and the connection

LEMMA GrownLink ==
    ASSUME NEW s, NEW t, NEW aa, NEW tgt, Shape(s), LinkOK(s, tgt), Grown(s, t, aa),
           s.bssid # None => aa # s.bssid \/ ReportsCurrent
    PROVE  LinkOK(t, tgt)
<1>1. SameRest(s, t) /\ Shape(t)
  BY DEF Grown
<1>2. CASE Ended(t)
  BY <1>1, <1>2 DEF LinkOK, Ended, SameRest, Up, InUseAt
<1>3. CASE ~Ended(t)
  <2>1. SameKey(s, t)
    BY <1>3 DEF Grown
  <2>2. t.cur_pmksa # None => /\ t.cur_pmksa = s.cur_pmksa
                              /\ t.pmksa[t.cur_pmksa].aa = s.pmksa[s.cur_pmksa].aa
                              /\ t.pmksa[t.cur_pmksa].pmk = s.pmksa[s.cur_pmksa].pmk
    BY DEF Grown, Shape
  <2>3. aa # s.bssid /\ HasKey(s, s.bssid, s.pmk) => HasKey(t, s.bssid, s.pmk)
    BY <1>3 DEF Grown, HasKey
  <2> QED BY <1>1, <2>1, <2>2, <2>3, CacheBounds DEF LinkOK, SameKey, SameRest, Up, InUseAt
<1> QED BY <1>2, <1>3

LEMMA GrownServed ==
    ASSUME NEW s, NEW t, NEW aa, Served(s), Grown(s, t, aa)
    PROVE  Served(t)
BY DEF Served, Grown, SameRest, SameKey, Ended

LEMMA CandidateType ==
    ASSUME NEW cs \in Candidates, NEW i \in 1 .. Len(cs)
    PROVE  /\ cs[i] \in Candidate
           /\ cs[i].bssid \in APs /\ cs[i].prio \in 0 .. ScanPriority
<1>1. cs[i] \in Candidate
  BY ElementOfSeq DEF Candidates
<1> QED BY <1>1 DEF Candidate

LEMMA EnlistOK ==
    ASSUME NEW s, Shape(s), NEW aa \in APs, NEW prio \in 0 .. ScanPriority
    PROVE  LET t == Enlist(s, aa, prio) IN
           /\ t \in SmType
           /\ t = [s EXCEPT !.candidates = t.candidates]
<1> DEFINE cs == s.candidates
           known == {i \in DOMAIN cs : cs[i].bssid = aa}
           rest == IF known = {} THEN cs ELSE RemoveAt(cs, Least(known))
           p == IF known # {} /\ prio = ScanPriority THEN cs[Least(known)].prio ELSE prio
           cand == [bssid |-> aa, prio |-> p]
           after == {i \in DOMAIN rest : cand.prio <= rest[i].prio}
           at == IF after = {} THEN Len(rest) + 1 ELSE Least(after)
           new == InsertAt(rest, at, cand)
<1>1. Enlist(s, aa, prio) = [s EXCEPT !.candidates = new]
  BY DEF Enlist
<1>2. s \in SmType
  BY DEF Shape
<1>3. cs \in Candidates /\ cs \in Seq(Candidate)
  BY <1>2 DEF SmType, Candidates
<1>4. known # {} => Least(known) \in 1 .. Len(cs)
  <2>1. known \in SUBSET Nat /\ known \in SUBSET (1 .. Len(cs))
    BY <1>3
  <2> HIDE DEF known
  <2> QED BY <2>1, LeastElement
<1>5. p \in 0 .. ScanPriority
  <2>1. \A i \in 1 .. Len(cs) : cs[i].prio \in 0 .. ScanPriority
    BY <1>3, CandidateType
  <2> HIDE DEF known, cs
  <2>2. known # {} => cs[Least(known)].prio \in 0 .. ScanPriority
    BY <1>4, <2>1
  <2> QED BY <2>2
<1>6. rest \in Seq(Candidate)
  <2>1. \A i \in 1 .. Len(cs) : cs[i] \in Candidate
    BY <1>3, CandidateType
  <2> HIDE DEF known, cs
  <2> DEFINE n == Least(known)
  <2>2. known # {} => n \in 1 .. Len(cs)
    BY <1>4
  <2> HIDE DEF n
  <2>3. known # {} => /\ SubSeq(cs, 1, n - 1) \in Seq(Candidate)
                      /\ SubSeq(cs, n + 1, Len(cs)) \in Seq(Candidate)
    BY <1>3, <2>1, <2>2, SubSeqProperties
  <2>4. known # {} => RemoveAt(cs, n) \in Seq(Candidate)
    BY <2>3, ConcatProperties DEF RemoveAt
  <2> QED BY <1>3, <2>4 DEF n
<1>7. cand \in Candidate
  BY <1>5 DEF Candidate
<1> HIDE DEF rest, p, cand
<1>8. at \in 1 .. Len(rest) + 1
  <2>1. after \in SUBSET Nat /\ after \in SUBSET (1 .. Len(rest))
    BY <1>6
  <2>2. after # {} => Least(after) \in 1 .. Len(rest)
    <3> HIDE DEF after
    <3> QED BY <2>1, LeastElement
  <2> QED BY <1>6, <2>2
<1> HIDE DEF at
<1>9. new \in Seq(Candidate)
  BY <1>6, <1>7, <1>8, SubSeqProperties, ConcatProperties DEF InsertAt
<1> HIDE DEF new
<1>10. new \in Candidates
  BY <1>9 DEF Candidates
<1> QED BY <1>1, <1>2, <1>10 DEF SmType

LEMMA SmallerGrown ==
    ASSUME NEW s, NEW t, NEW aa, Shape(t), Scheduled(t), Smaller(s, t, aa)
    PROVE  Grown(s, t, aa)
BY DEF Smaller, Grown

LEMMA GrownGood ==
    ASSUME NEW s, NEW t, NEW aa, NEW tgt, Good(s, tgt), Grown(s, t, aa),
           s.bssid # None => aa # s.bssid \/ ReportsCurrent
    PROVE  Good(t, tgt)
BY GrownLink DEF Good, Grown

\* Changes of preauthentication alone.
Preauth(s, cs, a, b) == [s EXCEPT !.candidates = cs, !.preauth = a, !.start_preauth = b]

LEMMA PreauthGood ==
    ASSUME NEW s, NEW tgt, Good(s, tgt), NEW cs \in Candidates, NEW a \in Addresses,
           NEW b \in BOOLEAN, a # None => a # s.bssid
    PROVE  LET t == Preauth(s, cs, a, b) IN
           /\ Good(t, tgt)
           /\ t.candidates = cs /\ t.preauth = a /\ t.start_preauth = b
           /\ t.state = s.state /\ t.bssid = s.bssid
<1> DEFINE t == Preauth(s, cs, a, b)
<1>1. s \in SmType
  BY DEF Good, Shape
<1>2. /\ t \in SmType /\ t.pmksa = s.pmksa /\ t.before = s.before
      /\ t.cur_pmksa = s.cur_pmksa /\ t.expire = s.expire
  BY <1>1 DEF SmType, Preauth
<1>3. /\ t.candidates = cs /\ t.preauth = a /\ t.start_preauth = b
      /\ t.state = s.state /\ t.bssid = s.bssid /\ t.ie = s.ie /\ t.pmk = s.pmk
  BY <1>1 DEF SmType, Preauth
<1> HIDE DEF t
<1>4. Shape(t) /\ Entries(t) = Entries(s)
  BY <1>2, SameCacheOK DEF Good, Shape
<1>5. Scheduled(t)
  BY <1>2, <1>4 DEF Good, Scheduled
<1>6. LinkOK(t, tgt)
  BY <1>2, <1>3, <1>4 DEF Good, LinkOK, Up, InUseAt, HasKey
<1> QED BY <1>3, <1>4, <1>5, <1>6 DEF Good, t

\* The fields of preauthentication have their types.
LEMMA PreauthType ==
    ASSUME NEW s, Shape(s)
    PROVE  /\ s.candidates \in Candidates /\ s.preauth \in Addresses
           /\ s.start_preauth \in BOOLEAN /\ s.bssid \in Addresses
           /\ <<>> \in Candidates /\ None \in Addresses
BY DEF Shape, SmType, Candidates, Addresses

LEMMA DeinitOK ==
    ASSUME NEW s, NEW tgt, Good(s, tgt)
    PROVE  LET t == rsn_preauth_deinit(s)
           IN  Good(t, tgt) /\ t.preauth = None /\ t.state = s.state /\ t.bssid = s.bssid
<1> DEFINE t == rsn_preauth_deinit(s)
<1>1. s \in SmType /\ Shape(s)
  BY DEF Good, Shape
<1>2. t = Preauth(s, s.candidates, None, s.start_preauth)
  BY <1>1 DEF rsn_preauth_deinit, SmType, Preauth
<1> HIDE DEF t
<1>3. Good(t, tgt) /\ t.preauth = None /\ t.state = s.state /\ t.bssid = s.bssid
  BY <1>1, <1>2, PreauthType, PreauthGood
<1> QED BY <1>3 DEF t

LEMMA DeauthenticateOK ==
    ASSUME NEW s, NEW tgt, Good(s, tgt)
    PROVE  LET t == Deauthenticate(s) IN Good(t, tgt) /\ t.state = "disconnected"
<1> DEFINE t == Deauthenticate(s)
<1>1. s \in SmType
  BY DEF Good, Shape
<1>2. "disconnected" \in States /\ None \in Contexts
  BY DEF States, Contexts
<1>3. /\ t \in SmType /\ t.pmksa = s.pmksa /\ t.before = s.before
      /\ t.cur_pmksa = s.cur_pmksa /\ t.expire = s.expire
  BY <1>1, <1>2 DEF SmType, Deauthenticate
<1>4. t.state = "disconnected" /\ t.pmk = s.pmk /\ t.preauth = s.preauth /\ t.bssid = s.bssid
  BY <1>1 DEF SmType, Deauthenticate
<1> HIDE DEF t
<1>5. Shape(t) /\ Entries(t) = Entries(s)
  BY <1>3, SameCacheOK DEF Good, Shape
<1>6. Scheduled(t)
  BY <1>3, <1>5 DEF Good, Scheduled
<1>7. LinkOK(t, tgt)
  BY <1>3, <1>4 DEF Good, LinkOK, Up
<1> QED BY <1>4, <1>5, <1>6, <1>7 DEF Good, t

\* rsn_preauth_candidate_process() leaves no candidate waiting for nothing.
LEMMA ProcessOK ==
    ASSUME NEW s, NEW tgt, Good(s, tgt)
    PROVE  LET t == rsn_preauth_candidate_process(s) IN Good(t, tgt) /\ Served(t)
<1> DEFINE cs == s.candidates
           need == {i \in DOMAIN cs : NeedsPreauth(s, cs[i])}
           rest == SubSeq(cs, Least(need) + 1, Len(cs))
           a == cs[Least(need)].bssid
           t == rsn_preauth_candidate_process(s)
<1>1. s \in SmType /\ Shape(s)
  BY DEF Good, Shape
<1>2. cs \in Candidates /\ s.start_preauth \in BOOLEAN /\ <<>> \in Candidates /\ None \in Addresses
  BY <1>1, PreauthType
<1>3. CASE s.preauth # None \/ s.state # "completed"
  <2>1. t = s
    BY <1>3 DEF rsn_preauth_candidate_process
  <2> QED BY <1>3, <2>1 DEF Served
<1>4. CASE ~(s.preauth # None \/ s.state # "completed") /\ need = {}
  <2>1. t = Preauth(s, <<>>, None, s.start_preauth)
    BY <1>1, <1>4 DEF rsn_preauth_candidate_process, SmType, Preauth
  <2> HIDE DEF t
  <2>2. Good(t, tgt) /\ t.candidates = <<>>
    BY <1>2, <2>1, PreauthGood
  <2>3. Good(t, tgt) /\ Served(t)
    BY <2>2 DEF Served
  <2> QED BY <2>3 DEF t
<1>5. CASE ~(s.preauth # None \/ s.state # "completed") /\ need # {}
  <2>1. t = Preauth(s, rest, a, s.start_preauth)
    BY <1>1, <1>5 DEF rsn_preauth_candidate_process, rsn_preauth_init, SmType, Preauth
  <2>2. need \in SUBSET Nat /\ need \in SUBSET (1 .. Len(cs))
    BY <1>2 DEF Candidates
  <2>3. Least(need) \in need
    <3> HIDE DEF need
    <3> QED BY <1>5, <2>2, LeastElement
  <2>4. Least(need) \in 1 .. Len(cs) /\ NeedsPreauth(s, cs[Least(need)])
    BY <2>2, <2>3
  <2> DEFINE n == Least(need)
  <2>5. /\ n \in 1 .. Len(cs) /\ cs[n].bssid # s.bssid
        /\ rest = SubSeq(cs, n + 1, Len(cs)) /\ a = cs[n].bssid
    BY <2>4 DEF NeedsPreauth
  <2> HIDE DEF n, t, rest, a
  <2>6. /\ cs \in Seq(Candidate)
        /\ \A i \in 1 .. Len(cs) : cs[i] \in Candidate /\ cs[i].bssid \in APs
    BY <1>2, CandidateType DEF Candidates
  <2> HIDE DEF cs
  <2>7. a \in Addresses /\ a # None /\ a # s.bssid
    BY <2>5, <2>6, CacheBounds DEF Addresses
  <2>8. rest \in Candidates
    BY <2>5, <2>6, SubSeqProperties DEF Candidates
  <2>9. Good(t, tgt) /\ t.preauth = a
    BY <1>2, <2>1, <2>7, <2>8, PreauthGood
  <2>10. Good(t, tgt) /\ Served(t)
    BY <2>7, <2>9 DEF Served
  <2> QED BY <2>10 DEF t
<1> QED BY <1>3, <1>4, <1>5

LEMMA CandidateAddOK ==
    ASSUME NEW s, NEW tgt, Good(s, tgt), Served(s), NEW aa \in APs,
           aa # s.bssid \/ ReportsCurrent, NEW prio \in 0 .. ScanPriority,
           NEW preauth \in BOOLEAN, NEW new \in Slots, new \notin Entries(s),
           NEW u \in pmksa_candidate_add(s, aa, prio, preauth, new)
    PROVE  Good(u, tgt) /\ Served(u)
<1> DEFINE T == IF s.network_ctx \in Proactive
                THEN pmksa_cache_get_opportunistic(s, s.network_ctx, aa, new) ELSE {s}
<1>1. PICK t \in T : u = IF preauth THEN rsn_preauth_candidate_process(Enlist(t, aa, prio))
                         ELSE t
  BY DEF pmksa_candidate_add
<1>2. Grown(s, t, aa)
  BY OpportunisticOK, GrownSame DEF Good
<1>3. Good(t, tgt) /\ Served(t)
  BY <1>2, GrownGood, GrownServed
<1> HIDE DEF T
<1>4. CASE preauth
  <2> DEFINE c == Enlist(t, aa, prio)
  <2>1. t \in SmType /\ Shape(t)
    BY <1>3 DEF Good, Shape
  <2>2. c \in SmType /\ c = [t EXCEPT !.candidates = c.candidates]
    BY <2>1, EnlistOK
  <2> HIDE DEF c
  <2>3. c.candidates \in Candidates
    BY <2>2 DEF SmType
  <2>4. c = Preauth(t, c.candidates, t.preauth, t.start_preauth)
    BY <2>1, <2>2 DEF SmType, Preauth
  <2>5. Good(c, tgt)
    <3>1. t.preauth # None => t.preauth # t.bssid
      BY <1>3 DEF Good, LinkOK
    <3> QED BY <1>3, <2>1, <2>3, <2>4, <3>1, PreauthType, PreauthGood
  <2> QED BY <1>1, <1>4, <2>5, ProcessOK DEF c
<1>5. CASE ~preauth
  BY <1>1, <1>3, <1>5
<1> QED BY <1>4, <1>5

-----------------------------------------------------------------------------
\* The handlers

LEMMA InitInv == Init => Inv
<1> SUFFICES ASSUME Init PROVE Inv
  OBVIOUS
<1>1. sm \in SmType
  BY DEF Init, SmType, Caches, Orders, Pointers, Addresses, KeyOrNone, Contexts, Timers,
         Candidates, States
<1>2. Entries(sm) = {}
  BY DEF Init, Entries
<1>3. InLine(sm.before, Entries(sm))
  BY <1>2 DEF Init, InLine
<1>4. IsFiniteSet(Entries(sm)) /\ Cardinality(Entries(sm)) <= MaxEntries
  BY <1>2, FS_EmptySet, CacheBounds
<1>5. Shape(sm) /\ Scheduled(sm)
  BY <1>1, <1>2, <1>3, <1>4 DEF Shape, Scheduled, OnePerAddress, Init
<1>6. LinkOK(sm, target) /\ Served(sm)
  BY DEF Init, LinkOK, Served, Up
<1> QED BY <1>5, <1>6 DEF Inv, Good, Init, KeyOrNone, Addresses

\* A place for a new entry holds none.
LEMMA FreePlace ==
    ASSUME NEW new \in Free
    PROVE  new \in Slots /\ new \notin Entries(sm)
BY DEF Free, Entries

\* The types of the fields that handlers read.
LEMMA SmFields ==
    ASSUME NEW s, Shape(s)
    PROVE  /\ s \in SmType
           /\ s.cur_pmksa \in Entries(s) \cup {None}
           /\ \A i \in Entries(s) : s.pmksa[i] \in Entry /\ s.pmksa[i].pmk \in Keys
                                    /\ s.pmksa[i].aa \in APs /\ i \in Slots /\ i # None
BY CacheBounds DEF Shape, SmType, Entries, Caches, Entry

\* The AP of an association under way, with the entry c or none.
LEMMA AssociatingOK ==
    ASSUME NEW s, Shape(s), Scheduled(s), s.preauth # None => s.preauth # s.bssid,
           NEW aa \in APs, NEW net \in Networks, NEW c \in Entries(s) \cup {None},
           c # None => s.pmksa[c].aa = aa,
           NEW k, k = IF c = None THEN None ELSE s.pmksa[c].pmk
    PROVE  LET t == [s EXCEPT !.cur_pmksa = c, !.state = "associating",
                              !.network_ctx = net, !.pmk = k, !.ie = k]
           IN  Good(t, aa) /\ Served(t)
<1> DEFINE t == [s EXCEPT !.cur_pmksa = c, !.state = "associating",
                          !.network_ctx = net, !.pmk = k, !.ie = k]
<1>1. s \in SmType
  BY DEF Shape
<1>2. c \in Pointers /\ k \in KeyOrNone /\ net \in Contexts /\ "associating" \in States
  BY SmFields DEF Pointers, KeyOrNone, Contexts, States
<1>3. /\ t \in SmType /\ t.pmksa = s.pmksa /\ t.before = s.before
      /\ t.cur_pmksa = c /\ t.expire = s.expire
  BY <1>1, <1>2 DEF SmType
<1>4. /\ t.state = "associating" /\ t.pmk = k /\ t.ie = k /\ t.preauth = s.preauth
      /\ t.bssid = s.bssid
  BY <1>1 DEF SmType
<1> HIDE DEF t
<1>5. Shape(t) /\ Entries(t) = Entries(s)
  BY <1>3, SameCacheOK
<1>6. Scheduled(t)
  BY <1>3, <1>5 DEF Scheduled
<1>7. LinkOK(t, aa)
  BY <1>3, <1>4, CacheBounds DEF LinkOK, Up, InUseAt
<1>8. Served(t)
  BY <1>4 DEF Served
<1> QED BY <1>5, <1>6, <1>7, <1>8 DEF Good, t

LEMMA AssociateInv ==
    ASSUME Inv, NEW aa \in Homes, NEW net \in Networks, NEW new \in Free,
           Associate(aa, net, new)
    PROVE  Inv'
<1> DEFINE t == [sm EXCEPT !.cur_pmksa = None]
<1>1. sm \in SmType /\ Shape(sm) /\ Scheduled(sm) /\ LinkOK(sm, target)
  BY DEF Inv, Good, Shape
<1>2. aa \in APs
  BY CacheBounds
<1>3. /\ t \in SmType /\ t.pmksa = sm.pmksa /\ t.before = sm.before
      /\ t.cur_pmksa = None /\ t.expire = sm.expire
      /\ t.preauth = sm.preauth /\ t.bssid = sm.bssid
  BY <1>1 DEF SmType, Pointers
<1>4. Shape(t) /\ Entries(t) = Entries(sm) /\ Scheduled(t)
  <2>1. Shape(t) /\ Entries(t) = Entries(sm)
    BY <1>1, <1>3, SameCacheOK
  <2> QED BY <1>1, <1>3, <2>1 DEF Scheduled
<1>5. PICK u \in IF pmksa_cache_get(t, aa) = None /\ net \in Proactive
                 THEN pmksa_cache_get_opportunistic(t, net, aa, new) ELSE {t} :
        LET s == [u EXCEPT !.cur_pmksa = pmksa_cache_get(u, aa)]
            k == IF s.cur_pmksa = None THEN None ELSE s.pmksa[s.cur_pmksa].pmk
        IN  sm' = [s EXCEPT !.state = "associating", !.network_ctx = net,
                            !.pmk = k, !.ie = k]
  BY DEF Associate, pmksa_cache_set_current
<1> HIDE DEF t
<1>6. Grown(t, u, aa)
  BY <1>2, <1>4, FreePlace, OpportunisticOK, GrownSame
<1>7. Shape(u) /\ Scheduled(u) /\ u \in SmType /\ (u.preauth # None => u.preauth # u.bssid)
  BY <1>1, <1>3, <1>6 DEF Grown, SameRest, LinkOK, Shape
<1> DEFINE c == pmksa_cache_get(u, aa)
           k == IF c = None THEN None ELSE u.pmksa[c].pmk
<1>8. c \in Entries(u) \cup {None} /\ (c # None => u.pmksa[c].aa = aa)
  BY <1>7, GetOK
<1>9. sm' = [u EXCEPT !.cur_pmksa = c, !.state = "associating",
                      !.network_ctx = net, !.pmk = k, !.ie = k]
  BY <1>5, <1>7 DEF SmType
<1> HIDE DEF c
<1>10. Good(sm', aa) /\ Served(sm')
  BY <1>2, <1>7, <1>8, <1>9, AssociatingOK
<1>11. target' = aa /\ eapol' = eapol /\ scanning' = scanning
  BY DEF Associate
<1> QED BY <1>2, <1>10, <1>11 DEF Inv, Addresses

LEMMA EventAssocInv ==
    ASSUME Inv, EventAssoc
    PROVE  Inv'
<1>1. sm \in SmType /\ Shape(sm) /\ Scheduled(sm) /\ LinkOK(sm, target)
  BY DEF Inv, Good, Shape
<1>2. /\ sm.state = "associating" /\ sm.ie = sm.pmk /\ InUseAt(sm, target)
      /\ target # None /\ target \in Addresses
  BY <1>1 DEF EventAssoc, LinkOK, Inv
<1>3. PICK reported \in BOOLEAN :
        LET c == IF reported /\ sm.ie # None
                 THEN GetByPmkid(sm, target, sm.ie) ELSE sm.cur_pmksa
            s == [sm EXCEPT !.state = "associated", !.bssid = target,
                            !.cur_pmksa = c, !.ie = None]
        IN  sm' = IF sm.preauth = target THEN rsn_preauth_deinit(s) ELSE s
  BY DEF EventAssoc
<1> DEFINE c == IF reported /\ sm.ie # None
                THEN GetByPmkid(sm, target, sm.ie) ELSE sm.cur_pmksa
           p == IF sm.preauth = target THEN None ELSE sm.preauth
<1>4. sm' = [sm EXCEPT !.state = "associated", !.bssid = target,
                       !.cur_pmksa = c, !.ie = None, !.preauth = p]
  BY <1>1, <1>3 DEF SmType, rsn_preauth_deinit
<1>5. /\ c \in Entries(sm) \cup {None}
      /\ c # None => sm.pmksa[c].aa = target /\ sm.pmksa[c].pmk = sm.pmk
  <2>1. CASE reported /\ sm.ie # None
    BY <1>1, <1>2, <2>1, GetByPmkidOK
  <2>2. CASE ~(reported /\ sm.ie # None)
    BY <1>1, <1>2, <2>2, SmFields DEF InUseAt, LinkOK
  <2> QED BY <2>1, <2>2
<1>6. p \in Addresses /\ (p # None => p # target)
  BY <1>1, PreauthType
<1> HIDE DEF c, p
<1>7. c \in Pointers /\ None \in KeyOrNone /\ "associated" \in States
  BY <1>5 DEF Pointers, KeyOrNone, States, Entries
<1>8. /\ sm' \in SmType /\ sm'.pmksa = sm.pmksa /\ sm'.before = sm.before
      /\ sm'.cur_pmksa = c /\ sm'.expire = sm.expire
  BY <1>1, <1>2, <1>4, <1>6, <1>7 DEF SmType
<1>9. /\ sm'.state = "associated" /\ sm'.pmk = sm.pmk /\ sm'.preauth = p
      /\ sm'.bssid = target
  BY <1>1, <1>4 DEF SmType
<1>10. Shape(sm') /\ Entries(sm') = Entries(sm)
  BY <1>1, <1>5, <1>8, SameCacheOK
<1>11. Scheduled(sm')
  BY <1>1, <1>8, <1>10 DEF Scheduled
<1>12. LinkOK(sm', None) /\ Served(sm')
  BY <1>2, <1>5, <1>6, <1>8, <1>9 DEF LinkOK, Served, Up, InUseAt
<1>13. target' = None /\ eapol' = None /\ scanning' = scanning
  BY DEF EventAssoc
<1> QED BY <1>10, <1>11, <1>12, <1>13 DEF Inv, Good, Addresses, KeyOrNone

\* The entry in use is forgotten, and perhaps a timer.
LEMMA ForgetCurrent ==
    ASSUME NEW s, NEW tgt, Good(s, tgt), Served(s), NEW r \in Timers
    PROVE  LET t == [s EXCEPT !.reauth = r, !.cur_pmksa = None]
           IN  Good(t, tgt) /\ Served(t)
<1> DEFINE t == [s EXCEPT !.reauth = r, !.cur_pmksa = None]
<1>1. s \in SmType /\ Shape(s)
  BY DEF Good, Shape
<1>2. /\ t \in SmType /\ t.pmksa = s.pmksa /\ t.before = s.before
      /\ t.cur_pmksa = None /\ t.expire = s.expire
  BY <1>1 DEF SmType, Pointers
<1>3. /\ t.state = s.state /\ t.pmk = s.pmk /\ t.preauth = s.preauth /\ t.bssid = s.bssid
      /\ t.ie = s.ie /\ t.candidates = s.candidates /\ t.start_preauth = s.start_preauth
  BY <1>1 DEF SmType
<1> HIDE DEF t
<1>4. Shape(t) /\ Entries(t) = Entries(s)
  BY <1>1, <1>2, SameCacheOK
<1>5. Scheduled(t) /\ Served(t)
  BY <1>2, <1>3, <1>4 DEF Good, Scheduled, Served
<1>6. LinkOK(t, tgt)
  BY <1>2, <1>3, <1>4 DEF Good, LinkOK, Up, InUseAt, HasKey
<1> QED BY <1>4, <1>5, <1>6 DEF Good, t

LEMMA ForgetInv ==
    ASSUME Inv, wpa_sm_aborted_cached \/ pmksa_cache_reauth
    PROVE  Inv'
<1>1. sm \in SmType /\ Good(sm, target) /\ Served(sm)
  BY DEF Inv, Good, Shape
<1>2. sm.reauth \in Timers /\ None \in Timers
  BY <1>1 DEF SmType, Timers
<1>3. PICK r \in Timers : sm' = [sm EXCEPT !.reauth = r, !.cur_pmksa = None]
  <2>1. CASE wpa_sm_aborted_cached
    <3>1. sm' = [sm EXCEPT !.reauth = sm.reauth, !.cur_pmksa = None]
      BY <1>1, <2>1 DEF wpa_sm_aborted_cached, SmType
    <3> QED BY <1>2, <3>1
  <2>2. CASE pmksa_cache_reauth
    BY <1>2, <2>2 DEF pmksa_cache_reauth
  <2> QED BY <2>1, <2>2
<1>4. Good(sm', target) /\ Served(sm')
  BY <1>1, <1>3, ForgetCurrent
<1>5. target' = target /\ eapol' = eapol /\ scanning' = scanning
  BY DEF wpa_sm_aborted_cached, pmksa_cache_reauth
<1> QED BY <1>4, <1>5 DEF Inv

\* Message 1/4 takes the handshake to another state, unless the connection was
\* ended on the way.
LEMMA AdvanceGood ==
    ASSUME NEW s, NEW tgt, Shape(s), Scheduled(s), Up(s) \/ s.state = "disconnected",
           s.cur_pmksa # None => s.pmksa[s.cur_pmksa].pmk = s.pmk,
           s.preauth # None => s.preauth # s.bssid,
           Up(s) => s.bssid # None /\ InUseAt(s, s.bssid),
           NEW state \in {"handshake", "associated"},
           Up(s) /\ state = "handshake" => HasKey(s, s.bssid, s.pmk)
    PROVE  LET t == Advance(s, state) IN Good(t, tgt) /\ Served(t)
<1> DEFINE q == IF s.state = "disconnected" THEN "disconnected" ELSE state
           t == [s EXCEPT !.state = q]
<1>1. s \in SmType
  BY DEF Shape
<1>2. t = Advance(s, state)
  BY DEF Advance
<1>3. q \in States /\ q \notin {"completed", "associating"}
  BY DEF States
<1>4. q # "disconnected" => q = state /\ Up(s)
  OBVIOUS
<1> HIDE DEF q
<1>5. /\ t \in SmType /\ t.pmksa = s.pmksa /\ t.before = s.before
      /\ t.cur_pmksa = s.cur_pmksa /\ t.expire = s.expire
  BY <1>1, <1>3 DEF SmType
<1>6. t.state = q /\ t.pmk = s.pmk /\ t.preauth = s.preauth /\ t.bssid = s.bssid
  BY <1>1 DEF SmType
<1> HIDE DEF t
<1>7. Shape(t) /\ Entries(t) = Entries(s)
  BY <1>5, SameCacheOK DEF Shape
<1>8. Scheduled(t) /\ Served(t)
  BY <1>3, <1>5, <1>6, <1>7 DEF Scheduled, Served
<1>9. LinkOK(t, tgt)
  BY <1>3, <1>4, <1>5, <1>6, <1>7 DEF LinkOK, Up, InUseAt, HasKey
<1> QED BY <1>2, <1>7, <1>8, <1>9 DEF Good

\* What wpa_supplicant_get_pmk() finds in the cache is the entry of the AP.
LEMMA LookedUp ==
    ASSUME NEW s, NEW tgt, Good(s, tgt), Up(s), NEW k
    PROVE  LET c == IF k # None /\ s.cur_pmksa = None
                    THEN GetByPmkid(s, s.bssid, k) ELSE s.cur_pmksa
           IN  /\ c \in Entries(s) \cup {None}
               /\ c # None => s.pmksa[c].aa = s.bssid
<1>1. Shape(s) /\ InUseAt(s, s.bssid)
  BY DEF Good, LinkOK
<1>2. CASE k # None /\ s.cur_pmksa = None
  BY <1>1, <1>2, GetByPmkidOK
<1>3. CASE ~(k # None /\ s.cur_pmksa = None)
  BY <1>1, <1>3, SmFields DEF InUseAt
<1> QED BY <1>2, <1>3

LEMMA Process1Of4Inv ==
    ASSUME Inv, NEW k \in Keys \cup {None}, NEW new \in Free,
           wpa_supplicant_process_1_of_4(k, new)
    PROVE  Inv'
<1> DEFINE c == IF k # None /\ sm.cur_pmksa = None
                THEN GetByPmkid(sm, sm.bssid, k) ELSE sm.cur_pmksa
           with(d, pmk) == [sm EXCEPT !.cur_pmksa = d, !.pmk = pmk]
<1>1. sm \in SmType /\ Shape(sm) /\ Scheduled(sm) /\ LinkOK(sm, target) /\ Good(sm, target)
  BY DEF Inv, Good, Shape
<1>2. Up(sm)
  BY DEF wpa_supplicant_process_1_of_4, Connected, Up
<1>3. c \in Entries(sm) \cup {None} /\ (c # None => sm.pmksa[c].aa = sm.bssid)
  BY <1>1, <1>2, LookedUp
<1>4. /\ sm.bssid # None /\ sm.bssid \in APs /\ sm.network_ctx \in Contexts
      /\ sm.pmk \in KeyOrNone
  BY <1>1, <1>2 DEF LinkOK, SmType, Addresses
<1>5. sm.preauth # None => sm.preauth # sm.bssid
  BY <1>1 DEF LinkOK
<1>6. target' = target /\ eapol' = eapol /\ scanning' = scanning
  BY DEF wpa_supplicant_process_1_of_4
<1>7. ASSUME NEW d \in Entries(sm) \cup {None}, NEW pmk \in KeyOrNone
      PROVE  /\ Shape(with(d, pmk)) /\ Scheduled(with(d, pmk))
             /\ Entries(with(d, pmk)) = Entries(sm) /\ with(d, pmk).pmksa = sm.pmksa
             /\ with(d, pmk).cur_pmksa = d /\ with(d, pmk).pmk = pmk
             /\ with(d, pmk).state = sm.state /\ with(d, pmk).bssid = sm.bssid
             /\ with(d, pmk).preauth = sm.preauth
  <2> DEFINE t == [sm EXCEPT !.cur_pmksa = d, !.pmk = pmk]
  <2>1. d \in Pointers
    BY DEF Pointers, Entries
  <2>2. /\ t \in SmType /\ t.pmksa = sm.pmksa /\ t.before = sm.before
        /\ t.cur_pmksa = d /\ t.expire = sm.expire /\ t.pmk = pmk
        /\ t.state = sm.state /\ t.bssid = sm.bssid /\ t.preauth = sm.preauth
    BY <1>1, <1>7, <2>1 DEF SmType
  <2> HIDE DEF t
  <2>3. Shape(t) /\ Entries(t) = Entries(sm)
    BY <1>1, <1>7, <2>2, SameCacheOK
  <2>4. Scheduled(t)
    BY <1>1, <2>2, <2>3 DEF Scheduled
  <2> QED BY <2>2, <2>3, <2>4 DEF t
<1>8. sm' = LET g == GetPmk(sm, k, new)
            IN  CASE g.result = "answer" -> Advance(g.sm, "handshake")
                  [] g.result = "start" -> Advance(g.sm, "associated")
                  [] g.result = "fail" -> Deauthenticate(g.sm)
  BY DEF wpa_supplicant_process_1_of_4
<1>9. CASE k # None /\ c # None /\ sm.pmksa[c].pmk = k /\ sm.pmksa[c].aa = sm.bssid
  <2>1. GetPmk(sm, k, new) = [sm |-> with(c, k), result |-> "answer"]
    BY <1>1, <1>9 DEF GetPmk, SmType
  <2>2. sm' = Advance(with(c, k), "handshake")
    BY <1>8, <2>1
  <2>3. k \in KeyOrNone /\ HasKey(sm, sm.bssid, k)
    BY <1>3, <1>9 DEF KeyOrNone, HasKey
  <2> HIDE DEF c
  <2>4. /\ Shape(with(c, k)) /\ Scheduled(with(c, k))
        /\ Entries(with(c, k)) = Entries(sm) /\ with(c, k).pmksa = sm.pmksa
        /\ with(c, k).cur_pmksa = c /\ with(c, k).pmk = k
        /\ with(c, k).state = sm.state /\ with(c, k).bssid = sm.bssid
        /\ with(c, k).preauth = sm.preauth
    BY <1>3, <1>7, <2>3
  <2> DEFINE s == with(c, k)
  <2> HIDE DEF s
  <2>5. /\ Shape(s) /\ Scheduled(s) /\ Up(s) /\ s.bssid # None /\ InUseAt(s, s.bssid)
        /\ s.cur_pmksa # None => s.pmksa[s.cur_pmksa].pmk = s.pmk
        /\ s.preauth # None => s.preauth # s.bssid
        /\ HasKey(s, s.bssid, s.pmk)
    BY <1>2, <1>4, <1>5, <1>9, <2>3, <2>4 DEF s, Up, InUseAt, HasKey
  <2>6. Good(sm', target) /\ Served(sm')
    BY <2>2, <2>5, AdvanceGood DEF s
  <2> QED BY <1>6, <2>6 DEF Inv
<1>10. CASE /\ ~(k # None /\ c # None /\ sm.pmksa[c].pmk = k /\ sm.pmksa[c].aa = sm.bssid)
            /\ eapol # None
  <2> DEFINE s == with(c, eapol)
             u == pmksa_cache_add(s, eapol, sm.bssid, sm.network_ctx, new)
  <2>1. PICK state \in {"handshake", "associated"} : sm' = Advance(u, state)
    <3> DEFINE q == IF (k # None /\ c = None) /\ GetByPmkid(u, sm.bssid, k) = None
                    THEN "start" ELSE "answer"
    <3>1. GetPmk(sm, k, new) = [sm |-> u, result |-> q]
      BY <1>1, <1>10 DEF GetPmk, SmType
    <3> HIDE DEF u, q
    <3>2. q \in {"start", "answer"}
      BY DEF q
    <3> QED BY <1>8, <3>1, <3>2
  <2>2. eapol \in Keys /\ eapol \in KeyOrNone
    BY <1>10 DEF Inv, KeyOrNone
  <2> HIDE DEF c
  <2>3. /\ Shape(s) /\ Scheduled(s)
        /\ Entries(s) = Entries(sm) /\ s.pmksa = sm.pmksa
        /\ s.cur_pmksa = c /\ s.pmk = eapol
        /\ s.state = sm.state /\ s.bssid = sm.bssid /\ s.preauth = sm.preauth
    BY <1>3, <1>7, <2>2
  <2> HIDE DEF s
  <2>4. Grown(s, u, sm.bssid) /\ HasKey(u, sm.bssid, eapol)
    BY <1>4, <2>2, <2>3, FreePlace, AddOK
  <2> HIDE DEF u
  <2>5. Shape(u) /\ Scheduled(u) /\ u.preauth = sm.preauth /\ u.bssid = sm.bssid
    BY <2>3, <2>4 DEF Grown, SameRest
  <2>6. CASE Ended(u)
    <3>1. u.cur_pmksa = None /\ u.state = "disconnected" /\ ~Up(u)
      BY <2>6 DEF Ended, Up
    <3>2. Good(sm', target) /\ Served(sm')
      BY <1>5, <2>1, <2>5, <3>1, AdvanceGood
    <3> QED BY <1>6, <3>2 DEF Inv
  <2>7. CASE ~Ended(u)
    <3>1. u.state = sm.state /\ u.pmk = eapol /\ Up(u)
      BY <1>2, <2>3, <2>4, <2>7 DEF Grown, SameKey, Up
    <3>2. u.cur_pmksa # None => /\ u.cur_pmksa \in Entries(u)
                                /\ u.pmksa[u.cur_pmksa].aa = sm.bssid
      BY <1>3, <2>3, <2>4 DEF Grown, Shape
    <3>3. u.cur_pmksa # None => u.pmksa[u.cur_pmksa].pmk = eapol
      BY <2>4, <2>5, <3>2 DEF HasKey, Shape, OnePerAddress
    <3>4. /\ u.bssid # None /\ InUseAt(u, u.bssid) /\ HasKey(u, u.bssid, u.pmk)
          /\ u.cur_pmksa # None => u.pmksa[u.cur_pmksa].pmk = u.pmk
          /\ u.preauth # None => u.preauth # u.bssid
      BY <1>4, <1>5, <2>4, <2>5, <3>1, <3>2, <3>3 DEF InUseAt
    <3>5. Good(sm', target) /\ Served(sm')
      BY <2>1, <2>5, <3>1, <3>4, AdvanceGood
    <3> QED BY <1>6, <3>5 DEF Inv
  <2> QED BY <2>6, <2>7
<1>11. CASE /\ ~(k # None /\ c # None /\ sm.pmksa[c].pmk = k /\ sm.pmksa[c].aa = sm.bssid)
            /\ eapol = None
  <2> DEFINE s == with(None, sm.pmk)
             q == IF c # None \/ (k # None /\ c = None) THEN "start" ELSE "fail"
  <2>1. GetPmk(sm, k, new) = [sm |-> s, result |-> q]
    BY <1>1, <1>11 DEF GetPmk, SmType
  <2>2. /\ Shape(s) /\ Scheduled(s)
        /\ Entries(s) = Entries(sm) /\ s.pmksa = sm.pmksa
        /\ s.cur_pmksa = None /\ s.pmk = sm.pmk
        /\ s.state = sm.state /\ s.bssid = sm.bssid /\ s.preauth = sm.preauth
    BY <1>4, <1>7
  <2>3. s = [sm EXCEPT !.reauth = sm.reauth, !.cur_pmksa = None]
    BY <1>1 DEF SmType
  <2>4. Good(s, target)
    BY <1>1, <2>3, ForgetCurrent DEF Inv, SmType
  <2> HIDE DEF s, q
  <2>5. CASE q = "start"
    <3>1. sm' = Advance(s, "associated")
      BY <1>8, <2>1, <2>5
    <3>2. Up(s) /\ InUseAt(s, s.bssid)
      BY <1>2, <2>2 DEF Up, InUseAt
    <3>3. Good(sm', target) /\ Served(sm')
      BY <1>4, <1>5, <2>2, <3>1, <3>2, AdvanceGood
    <3> QED BY <1>6, <3>3 DEF Inv
  <2>6. CASE q = "fail"
    <3>1. sm' = Deauthenticate(s)
      BY <1>8, <2>1, <2>6
    <3>2. Good(sm', target) /\ sm'.state = "disconnected"
      BY <2>4, <3>1, DeauthenticateOK
    <3> QED BY <1>6, <3>2 DEF Inv, Served
  <2> QED BY <2>5, <2>6 DEF q
<1> QED BY <1>9, <1>10, <1>11

\* Entries and timers may change in other respects than address and key.
LEMMA AlikeGood ==
    ASSUME NEW s, NEW tgt, Good(s, tgt), NEW t \in SmType, t.before = s.before,
           t.cur_pmksa = s.cur_pmksa, Alike(s, t), s.expire # None => t.expire # None,
           t.bssid = s.bssid, t.ie = s.ie, t.pmk = s.pmk, t.preauth = s.preauth,
           \/ t.state = s.state
           \/ s.state = "handshake" /\ t.state = "completed"
    PROVE  Good(t, tgt)
<1>1. /\ Shape(t) /\ Entries(t) = Entries(s)
      /\ \A i \in Entries(s) : /\ t.pmksa[i].aa = s.pmksa[i].aa
                               /\ t.pmksa[i].pmk = s.pmksa[i].pmk
  BY AlikeOK DEF Good
<1>2. Scheduled(t)
  BY <1>1 DEF Good, Scheduled
<1>3. s.cur_pmksa # None => s.cur_pmksa \in Entries(s)
  BY DEF Good, Shape
<1>4. \A aa, k : HasKey(s, aa, k) => HasKey(t, aa, k)
  BY <1>1 DEF HasKey
<1>5. LinkOK(t, tgt)
  BY <1>1, <1>3, <1>4 DEF Good, LinkOK, Up, InUseAt
<1> QED BY <1>1, <1>2, <1>5 DEF Good

LEMMA KeyNegCompleteInv ==
    ASSUME Inv, wpa_supplicant_key_neg_complete
    PROVE  Inv'
<1> DEFINE f == [i \in Slots |-> IF i = sm.cur_pmksa
                                 THEN [sm.pmksa[i] EXCEPT !.opportunistic = FALSE]
                                 ELSE sm.pmksa[i]]
<1>1. sm \in SmType /\ Shape(sm) /\ Good(sm, target)
  BY DEF Inv, Good, Shape
<1>2. sm' = [sm EXCEPT !.state = "completed", !.start_preauth = TRUE, !.pmksa = f]
  BY DEF wpa_supplicant_key_neg_complete
<1>3. \A i \in Entries(sm) :
        LET e == [sm.pmksa[i] EXCEPT !.opportunistic = FALSE]
        IN  e \in Entry /\ e # None /\ e.aa = sm.pmksa[i].aa /\ e.pmk = sm.pmksa[i].pmk
  <2> SUFFICES ASSUME NEW i \in Entries(sm)
               PROVE  LET e == [sm.pmksa[i] EXCEPT !.opportunistic = FALSE]
                      IN  /\ e \in Entry /\ e # None
                          /\ e.aa = sm.pmksa[i].aa /\ e.pmk = sm.pmksa[i].pmk
    OBVIOUS
  <2>1. sm.pmksa[i] \in Entry
    BY <1>1, SmFields
  <2> DEFINE e == [sm.pmksa[i] EXCEPT !.opportunistic = FALSE]
  <2>2. e \in Entry /\ e.aa = sm.pmksa[i].aa /\ e.pmk = sm.pmksa[i].pmk
    BY <2>1 DEF Entry
  <2> HIDE DEF e
  <2>3. e # None
    BY <2>2, CacheBounds
  <2> QED BY <2>2, <2>3 DEF e
<1>4. /\ f \in Caches
      /\ \A i \in Slots : /\ f[i] = None <=> sm.pmksa[i] = None
                          /\ sm.pmksa[i] # None => /\ f[i].aa = sm.pmksa[i].aa
                                                   /\ f[i].pmk = sm.pmksa[i].pmk
  <2> SUFFICES ASSUME NEW i \in Slots
               PROVE  /\ f[i] \in Entry \cup {None}
                      /\ f[i] = None <=> sm.pmksa[i] = None
                      /\ sm.pmksa[i] # None => /\ f[i].aa = sm.pmksa[i].aa
                                               /\ f[i].pmk = sm.pmksa[i].pmk
    BY DEF Caches
  <2>1. sm.pmksa[i] \in Entry \cup {None}
    BY <1>1 DEF SmType, Caches
  <2>2. i = sm.cur_pmksa => i \in Entries(sm) /\ sm.pmksa[i] # None
    BY <1>1, SmFields, CacheBounds DEF Entries
  <2> QED BY <1>3, <2>1, <2>2
<1> HIDE DEF f
<1>5. "completed" \in States
  BY DEF States
<1>6. /\ sm' \in SmType /\ sm'.pmksa = f /\ sm'.before = sm.before
      /\ sm'.cur_pmksa = sm.cur_pmksa /\ sm'.expire = sm.expire
  BY <1>1, <1>2, <1>4, <1>5 DEF SmType
<1>7. /\ sm'.state = "completed" /\ sm'.pmk = sm.pmk /\ sm'.preauth = sm.preauth
      /\ sm'.bssid = sm.bssid /\ sm'.ie = sm.ie /\ sm'.start_preauth = TRUE
  BY <1>1, <1>2 DEF SmType
<1>8. Alike(sm, sm')
  BY <1>4, <1>6 DEF Alike
<1>9. sm.state = "handshake"
  BY DEF wpa_supplicant_key_neg_complete
<1>10. Good(sm', target)
  BY <1>1, <1>6, <1>7, <1>8, <1>9, AlikeGood
<1>11. Served(sm')
  BY <1>7 DEF Served
<1>12. target' = target /\ eapol' = eapol /\ scanning' = scanning
  BY DEF wpa_supplicant_key_neg_complete
<1> QED BY <1>10, <1>11, <1>12 DEF Inv

LEMMA TickInv ==
    ASSUME Inv, Tick
    PROVE  Inv'
<1> DEFINE f == [i \in Slots |-> IF sm.pmksa[i] = None THEN None ELSE Older(sm.pmksa[i])]
           x == Less(sm.expire)
           y == Less(sm.reauth)
<1>1. sm \in SmType /\ Shape(sm) /\ Good(sm, target)
  BY DEF Inv, Good, Shape
<1>2. sm' = [sm EXCEPT !.expire = x, !.reauth = y, !.pmksa = f]
  BY DEF Tick
<1>3. /\ x \in Timers /\ y \in Timers /\ (sm.expire # None => x # None)
  BY <1>1, CacheBounds DEF SmType, Timers, Timer, Less
<1>4. ASSUME NEW e \in Entry
      PROVE  Older(e) \in Entry /\ Older(e).aa = e.aa /\ Older(e).pmk = e.pmk
  <2>1. e.exp \in 0 .. Lifetime /\ e.reauth \in 0 .. Lifetime
    BY DEF Entry
  <2>2. Less(e.exp) \in 0 .. Lifetime /\ Less(e.reauth) \in 0 .. Lifetime
    BY <2>1, CacheBounds DEF Less
  <2> QED BY <2>2 DEF Older, Entry
<1>5. /\ f \in Caches
      /\ \A i \in Slots : /\ f[i] = None <=> sm.pmksa[i] = None
                          /\ sm.pmksa[i] # None => /\ f[i].aa = sm.pmksa[i].aa
                                                   /\ f[i].pmk = sm.pmksa[i].pmk
  <2> SUFFICES ASSUME NEW i \in Slots
               PROVE  /\ f[i] \in Entry \cup {None}
                      /\ f[i] = None <=> sm.pmksa[i] = None
                      /\ sm.pmksa[i] # None => /\ f[i].aa = sm.pmksa[i].aa
                                               /\ f[i].pmk = sm.pmksa[i].pmk
    BY DEF Caches
  <2>1. sm.pmksa[i] \in Entry \cup {None}
    BY <1>1 DEF SmType, Caches
  <2>2. \A e \in Entry : e # None
    BY CacheBounds
  <2> QED BY <1>4, <2>1, <2>2
<1> HIDE DEF f, x, y
<1>6. /\ sm' \in SmType /\ sm'.pmksa = f /\ sm'.before = sm.before
      /\ sm'.cur_pmksa = sm.cur_pmksa /\ sm'.expire = x
  BY <1>1, <1>2, <1>3, <1>5 DEF SmType
<1>7. /\ sm'.state = sm.state /\ sm'.pmk = sm.pmk /\ sm'.preauth = sm.preauth
      /\ sm'.bssid = sm.bssid /\ sm'.ie = sm.ie /\ sm'.start_preauth = sm.start_preauth
      /\ sm'.candidates = sm.candidates
  BY <1>1, <1>2 DEF SmType
<1>8. Alike(sm, sm')
  BY <1>5, <1>6 DEF Alike
<1>9. Good(sm', target)
  BY <1>1, <1>3, <1>6, <1>7, <1>8, AlikeGood
<1>10. Served(sm')
  BY <1>7 DEF Served, Inv
<1>11. target' = target /\ eapol' = eapol /\ scanning' = scanning
  BY DEF Tick
<1> QED BY <1>9, <1>10, <1>11 DEF Inv

LEMMA StartPreauthInv ==
    ASSUME Inv, wpa_sm_start_preauth
    PROVE  Inv'
<1> DEFINE s == [sm EXCEPT !.start_preauth = FALSE]
<1>1. sm \in SmType /\ Shape(sm) /\ Good(sm, target) /\ LinkOK(sm, target)
  BY DEF Inv, Good, Shape
<1>2. s = Preauth(sm, sm.candidates, sm.preauth, FALSE)
  BY <1>1 DEF SmType, Preauth
<1>3. sm' = rsn_preauth_candidate_process(s)
  BY DEF wpa_sm_start_preauth
<1> HIDE DEF s
<1>4. sm.preauth # None => sm.preauth # sm.bssid
  BY <1>1 DEF LinkOK
<1>5. Good(s, target)
  BY <1>1, <1>2, <1>4, PreauthType, PreauthGood
<1>6. Good(sm', target) /\ Served(sm')
  BY <1>3, <1>5, ProcessOK
<1>7. target' = target /\ eapol' = eapol /\ scanning' = scanning
  BY DEF wpa_sm_start_preauth
<1> QED BY <1>6, <1>7 DEF Inv

LEMMA EventPmkidCandidateInv ==
    ASSUME Inv, NEW aa \in Neighbours, NEW prio \in Priorities, NEW preauth \in BOOLEAN,
           NEW new \in Free, EventPmkidCandidate(aa, prio, preauth, new)
    PROVE  Inv'
<1>1. Good(sm, target) /\ Served(sm)
  BY DEF Inv
<1>2. aa \in APs /\ prio \in 0 .. ScanPriority
  BY CacheBounds
<1>3. /\ aa # sm.bssid \/ ReportsCurrent
      /\ sm' \in pmksa_candidate_add(sm, aa, prio, preauth, new)
      /\ target' = target /\ eapol' = eapol /\ scanning' = scanning
  BY DEF EventPmkidCandidate
<1>4. Good(sm', target) /\ Served(sm')
  BY <1>1, <1>2, <1>3, FreePlace, CandidateAddOK
<1> QED BY <1>3, <1>4 DEF Inv

LEMMA ScanResultInv ==
    ASSUME Inv, NEW aa \in Neighbours, NEW preauth \in BOOLEAN, NEW new \in Free,
           rsn_preauth_scan_result(aa, preauth, new)
    PROVE  Inv'
<1>1. Good(sm, target) /\ Served(sm)
  BY DEF Inv
<1>2. aa \in APs /\ ScanPriority \in 0 .. ScanPriority
  BY CacheBounds
<1>3. /\ aa # sm.bssid
      /\ sm' \in pmksa_candidate_add(sm, aa, ScanPriority, preauth, new)
      /\ target' = target /\ eapol' = eapol /\ scanning' = scanning
  BY DEF rsn_preauth_scan_result
<1>4. Good(sm', target) /\ Served(sm')
  BY <1>1, <1>2, <1>3, FreePlace, CandidateAddOK
<1> QED BY <1>3, <1>4 DEF Inv

LEMMA ScanResultsInv ==
    ASSUME Inv, rsn_preauth_scan_results
    PROVE  Inv'
<1>1. sm \in SmType /\ Shape(sm) /\ Good(sm, target) /\ LinkOK(sm, target)
  BY DEF Inv, Good, Shape
<1>2. sm' = Preauth(sm, <<>>, sm.preauth, sm.start_preauth)
  BY <1>1 DEF rsn_preauth_scan_results, SmType, Preauth
<1>3. sm.preauth # None => sm.preauth # sm.bssid
  BY <1>1 DEF LinkOK
<1>4. Good(sm', target) /\ sm'.candidates = <<>>
  BY <1>1, <1>2, <1>3, PreauthType, PreauthGood
<1>5. Served(sm')
  BY <1>4 DEF Served
<1>6. target' = target /\ eapol' = eapol /\ scanning' = TRUE
  BY DEF rsn_preauth_scan_results
<1> QED BY <1>4, <1>5, <1>6 DEF Inv

LEMMA PreauthEapolInv ==
    ASSUME Inv, NEW k \in Unused \cup {None}, NEW new \in Free,
           rsn_preauth_eapol_cb(k, new)
    PROVE  Inv'
<1> DEFINE s == IF k = None THEN sm
                ELSE pmksa_cache_add(sm, k, sm.preauth, sm.network_ctx, new)
<1>1. sm \in SmType /\ Shape(sm) /\ Scheduled(sm) /\ Good(sm, target) /\ LinkOK(sm, target)
  BY DEF Inv, Good, Shape
<1>2. /\ sm.preauth \in APs /\ sm.preauth # sm.bssid /\ sm.network_ctx \in Contexts
  BY <1>1 DEF rsn_preauth_eapol_cb, LinkOK, SmType, Addresses
<1>3. sm' = rsn_preauth_candidate_process(rsn_preauth_deinit(s))
  BY DEF rsn_preauth_eapol_cb
<1>4. Good(s, target)
  <2>1. CASE k = None
    BY <1>1, <2>1
  <2>2. CASE k # None
    <3>1. k \in Keys
      BY <2>2 DEF Unused
    <3>2. Grown(sm, s, sm.preauth)
      BY <1>1, <1>2, <2>2, <3>1, FreePlace, AddOK
    <3> HIDE DEF s
    <3> QED BY <1>1, <1>2, <3>2, GrownGood
  <2> QED BY <2>1, <2>2
<1> HIDE DEF s
<1>5. Good(rsn_preauth_deinit(s), target)
  BY <1>4, DeinitOK
<1>6. Good(sm', target) /\ Served(sm')
  BY <1>3, <1>5, ProcessOK
<1>7. target' = target /\ eapol' = eapol /\ scanning' = scanning
  BY DEF rsn_preauth_eapol_cb
<1> QED BY <1>6, <1>7 DEF Inv

LEMMA PreauthTimeoutInv ==
    ASSUME Inv, rsn_preauth_timeout
    PROVE  Inv'
<1>1. Good(rsn_preauth_deinit(sm), target)
  BY DeinitOK DEF Inv
<1>2. Good(sm', target) /\ Served(sm')
  BY <1>1, ProcessOK DEF rsn_preauth_timeout
<1>3. target' = target /\ eapol' = eapol /\ scanning' = scanning
  BY DEF rsn_preauth_timeout
<1> QED BY <1>2, <1>3 DEF Inv

LEMMA CtrlPreauthInv ==
    ASSUME Inv, NEW aa \in Neighbours, CtrlPreauth(aa)
    PROVE  Inv'
<1>1. sm \in SmType /\ Shape(sm) /\ Good(sm, target)
  BY DEF Inv, Good, Shape
<1>2. aa \in Addresses /\ aa # None /\ aa # sm.bssid
  BY CacheBounds DEF Addresses, CtrlPreauth
<1>3. sm' = Preauth(sm, sm.candidates, aa, sm.start_preauth)
  BY <1>1 DEF CtrlPreauth, rsn_preauth_init, rsn_preauth_deinit, SmType, Preauth
<1>4. Good(sm', target) /\ sm'.preauth = aa
  BY <1>1, <1>2, <1>3, PreauthType, PreauthGood
<1>5. Served(sm')
  BY <1>2, <1>4 DEF Served
<1>6. target' = target /\ eapol' = eapol /\ scanning' = scanning
  BY DEF CtrlPreauth
<1> QED BY <1>4, <1>5, <1>6 DEF Inv

LEMMA FlushGood ==
    ASSUME NEW s, NEW tgt, Good(s, tgt), NEW net
    PROVE  LET t == pmksa_cache_flush(s, net)
           IN  Good(t, tgt) /\ Grown(s, t, None)
<1> DEFINE t == pmksa_cache_flush(s, net)
<1>1. Shape(t) /\ Scheduled(t) /\ Smaller(s, t, None)
  BY FlushOK DEF Good
<1> HIDE DEF t
<1>2. Grown(s, t, None)
  BY <1>1, SmallerGrown
<1>3. Good(t, tgt)
  BY <1>2, GrownGood
<1> QED BY <1>2, <1>3 DEF t

LEMMA FlushNetworkInv ==
    ASSUME Inv, NEW net \in Networks, FlushNetwork(net)
    PROVE  Inv'
<1>1. Good(sm', target) /\ Grown(sm, sm', None)
  BY FlushGood DEF FlushNetwork, Inv
<1>2. Served(sm')
  BY <1>1, GrownServed DEF Inv
<1>3. target' = target /\ eapol' = eapol /\ scanning' = scanning
  BY DEF FlushNetwork
<1> QED BY <1>1, <1>2, <1>3 DEF Inv

LEMMA ReconfigureInv ==
    ASSUME Inv, Reconfigure
    PROVE  Inv'
<1> DEFINE s == Deauthenticate(sm)
           t == pmksa_cache_flush(s, None)
<1>1. Good(s, target) /\ s.state = "disconnected"
  BY DeauthenticateOK DEF Inv
<1>2. sm' = rsn_preauth_deinit(t)
  BY DEF Reconfigure
<1> HIDE DEF s
<1>3. Good(t, target) /\ Grown(s, t, None)
  BY <1>1, FlushGood
<1> HIDE DEF t
<1>4. t.state = "disconnected"
  BY <1>1, <1>3 DEF Grown, Ended, SameKey
<1>5. Good(sm', target) /\ sm'.state = "disconnected"
  BY <1>2, <1>3, <1>4, DeinitOK
<1>6. target' = target /\ eapol' = eapol /\ scanning' = scanning
  BY DEF Reconfigure
<1> QED BY <1>5, <1>6 DEF Inv, Served

LEMMA DisconnectInv ==
    ASSUME Inv, Disconnect
    PROVE  Inv'
<1>1. Good(sm', target) /\ sm'.state = "disconnected"
  BY DeauthenticateOK DEF Inv, Disconnect
<1>2. target' = target /\ eapol' = eapol /\ scanning' = scanning
  BY DEF Disconnect
<1> QED BY <1>1, <1>2 DEF Inv, Served

LEMMA EventDisassocInv ==
    ASSUME Inv, EventDisassoc
    PROVE  Inv'
<1> DEFINE s == rsn_preauth_deinit(sm)
<1>1. Good(s, target)
  BY DeinitOK DEF Inv
<1>2. sm' = [s EXCEPT !.state = "disconnected"]
  BY DEF EventDisassoc
<1> HIDE DEF s
<1>3. s \in SmType /\ Shape(s) /\ Scheduled(s) /\ LinkOK(s, target)
  BY <1>1 DEF Good, Shape
<1>4. "disconnected" \in States
  BY DEF States
<1>5. /\ sm' \in SmType /\ sm'.pmksa = s.pmksa /\ sm'.before = s.before
      /\ sm'.cur_pmksa = s.cur_pmksa /\ sm'.expire = s.expire
      /\ sm'.state = "disconnected" /\ sm'.pmk = s.pmk /\ sm'.preauth = s.preauth
      /\ sm'.bssid = s.bssid
  BY <1>2, <1>3, <1>4 DEF SmType
<1>6. Shape(sm') /\ Entries(sm') = Entries(s)
  BY <1>3, <1>5, SameCacheOK DEF Shape
<1>7. Scheduled(sm') /\ LinkOK(sm', target) /\ Served(sm')
  BY <1>3, <1>5, <1>6 DEF Scheduled, LinkOK, Up, Served
<1>8. target' = target /\ eapol' = eapol /\ scanning' = scanning
  BY DEF EventDisassoc
<1> QED BY <1>6, <1>7, <1>8 DEF Inv, Good

LEMMA ExpireInv ==
    ASSUME Inv, pmksa_cache_expire
    PROVE  Inv'
<1> DEFINE s == [sm EXCEPT !.expire = None]
           D == ExpiredPrefix(sm)
<1>1. sm \in SmType /\ Shape(sm) /\ LinkOK(sm, target) /\ Served(sm)
  BY DEF Inv, Good, Shape
<1>2. /\ s \in SmType /\ s.pmksa = sm.pmksa /\ s.before = sm.before
      /\ s.cur_pmksa = sm.cur_pmksa
      /\ s.state = sm.state /\ s.pmk = sm.pmk /\ s.preauth = sm.preauth
      /\ s.bssid = sm.bssid /\ s.ie = sm.ie
      /\ s.candidates = sm.candidates /\ s.start_preauth = sm.start_preauth
  BY <1>1 DEF SmType, Timers
<1>3. sm' = pmksa_cache_set_expiration(pmksa_cache_free_entry(s, D, FALSE))
  BY DEF pmksa_cache_expire
<1> HIDE DEF s
<1>4. Shape(s) /\ Entries(s) = Entries(sm)
  BY <1>1, <1>2, SameCacheOK DEF Shape
<1>5. LinkOK(s, target) /\ Served(s)
  BY <1>1, <1>2, <1>4 DEF LinkOK, Up, InUseAt, HasKey, Served
<1>6. D \in SUBSET Entries(s)
  BY <1>4 DEF ExpiredPrefix
<1> HIDE DEF D
<1>7. Shape(sm') /\ Scheduled(sm') /\ Smaller(s, sm', None)
  BY <1>3, <1>4, <1>6, FreeAllOK
<1>8. Grown(s, sm', None)
  BY <1>7, SmallerGrown
<1>9. LinkOK(sm', target) /\ Served(sm')
  BY <1>4, <1>5, <1>8, GrownLink, GrownServed
<1>10. target' = target /\ eapol' = eapol /\ scanning' = scanning
  BY DEF pmksa_cache_expire
<1> QED BY <1>7, <1>9, <1>10 DEF Inv, Good

-----------------------------------------------------------------------------

\* Nothing a handler or a step of the scan loop does breaks the invariant.
LEMMA NextInv ==
    ASSUME Inv, [Next]_vars
    PROVE  Inv'
<1>1. CASE scanning /\ ScanLoop
  <2>1. ASSUME NEW aa \in Neighbours, NEW preauth \in BOOLEAN, NEW new \in Free,
               rsn_preauth_scan_result(aa, preauth, new)
        PROVE  Inv'
    BY <2>1, ScanResultInv, CacheBounds
  <2>2. CASE ScanResultsEnd
    BY <2>2 DEF ScanResultsEnd, Inv
  <2> QED BY <1>1, <2>1, <2>2 DEF ScanLoop
<1>2. CASE ~scanning /\ Handler
  <2>1. CASE EapolSuccess
    <3>1. eapol' \in Keys /\ sm' = sm /\ target' = target /\ scanning' = scanning
      BY <2>1 DEF EapolSuccess, Unused
    <3> QED BY <3>1 DEF Inv, KeyOrNone
  <2> QED BY <1>2, <2>1, AssociateInv, EventAssocInv, ForgetInv, Process1Of4Inv,
             KeyNegCompleteInv, StartPreauthInv, EventPmkidCandidateInv,
             ScanResultsInv, PreauthEapolInv, PreauthTimeoutInv, CtrlPreauthInv,
             FlushNetworkInv, ReconfigureInv, DisconnectInv, EventDisassocInv,
             ExpireInv, TickInv DEF Handler
<1>3. CASE UNCHANGED vars
  BY <1>3 DEF vars, Inv
<1> QED BY <1>1, <1>2, <1>3 DEF Next

\* The cache, its current entry, its timers and the candidates stay consistent
\* under every sequence of handlers.
THEOREM Invariance == Spec => []Inv
BY InitInv, NextInv, PTL DEF Spec

\* Types; the number of entries never exceeds pmksa_cache_max_entries.
THEOREM TypeCorrect == Spec => []TypeOK
<1>1. Inv => TypeOK
  BY DEF Inv, Good, Shape, SmType, TypeOK, Caches, Orders, Pointers, Addresses, KeyOrNone,
         Contexts, Timers, Candidates, Candidate
<1> QED BY <1>1, Invariance, PTL

\* pmksa_cache_add() never leaves two entries for one authenticator.
THEOREM EntriesDistinct == Spec => []OneEntryPerAuthenticator
<1>1. Inv => OneEntryPerAuthenticator
  BY DEF Inv, Good, Shape, OnePerAddress, OneEntryPerAuthenticator
<1> QED BY <1>1, Invariance, PTL

\* cur_pmksa never dangles, and its key is the one in use.
THEOREM CurrentNeverDangles == Spec => []CurrentIsCached
<1>1. Inv => CurrentIsCached
  BY DEF Inv, Good, Shape, LinkOK, CurrentIsCached
<1> QED BY <1>1, Invariance, PTL

\* While there are entries, pmksa_cache_expire() is scheduled.
THEOREM ExpiryNeverLost == Spec => []ExpiryScheduled
<1>1. Inv => ExpiryScheduled
  BY DEF Inv, Good, Scheduled, ExpiryScheduled
<1> QED BY <1>1, Invariance, PTL

\* A completed connection has the key it uses in the cache, unless the driver
\* reports the AP of the connection as a candidate.
THEOREM KeyOutlivesConnection == ReportsCurrent = FALSE => (Spec => []KeyInUseIsCached)
<1> SUFFICES ASSUME ReportsCurrent = FALSE PROVE Spec => []KeyInUseIsCached
  OBVIOUS
<1>1. Inv => KeyInUseIsCached
  BY DEF Inv, Good, LinkOK, HasKey, KeyInUseIsCached
<1> QED BY <1>1, Invariance, PTL

\* No candidate for preauthentication waits for nothing.
THEOREM CandidatesNeverWait == Spec => []CandidatesAreServed
<1>1. Inv => CandidatesAreServed
  BY DEF Inv, Served, CandidatesAreServed
<1> QED BY <1>1, Invariance, PTL

=============================================================================
