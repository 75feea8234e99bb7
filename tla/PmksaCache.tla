----------------------------- MODULE PmksaCache -----------------------------
(***************************************************************************)
(* The cache of pairwise master keys of the supplicant                     *)
(* (src/rsn_supp/pmksa_cache.c), preauthentication, which fills it ahead   *)
(* of time (src/rsn_supp/preauth.c), and what src/rsn_supp/wpa.c does with *)
(* a key: it takes it from the cache or from EAPOL when message 1/4        *)
(* arrives and ends the connection when its entry leaves the cache.        *)
(*                                                                         *)
(* The variable sm is struct wpa_sm.  A handler is the composition of the  *)
(* functions it calls, each of which maps one value of sm to the next, so  *)
(* that the callback of a removal runs in the middle of the handler, as in *)
(* the code.  An entry is named by where it lies in memory; the order of   *)
(* the list is a set of pairs <<i, j>>, "i comes before j".  Times are     *)
(* seconds that remain: an entry with exp = 0 has expired, a timer at 0 is *)
(* due.  A PMKID stands for an address and a key.                          *)
(***************************************************************************)
EXTENDS Naturals, FiniteSets, Sequences, SequencesExt

CONSTANTS
    APs,            \* authenticator addresses
    Keys,           \* pairwise master keys of 256 bits
    Networks,       \* configured networks
    Proactive,      \* networks with proactive_key_caching
    Slots,          \* places in memory where an entry may lie
    MaxEntries,     \* pmksa_cache_max_entries
    Lifetime,       \* dot11RSNAConfigPMKLifetime
    Threshold,      \* dot11RSNAConfigPMKReauthThreshold, in percent
    Priorities,     \* priorities of candidates the driver reports
    ScanPriority,   \* PMKID_CANDIDATE_PRIO_SCAN
    Homes,          \* APs that are selected for a connection
    Neighbours,     \* APs that scans, the driver and PREAUTH name
    ReportsCurrent, \* the driver reports the AP of the connection, too
    None            \* NULL, and a key of zeros

\* struct rsn_pmksa_cache_entry.
Entry == [aa : APs, pmk : Keys, net : Networks \cup {None},
          exp : 0 .. Lifetime, reauth : 0 .. Lifetime, opportunistic : BOOLEAN]

ASSUME CacheBounds == /\ MaxEntries \in Nat \ {0}
                      /\ Lifetime \in Nat \ {0}
                      /\ Proactive \subseteq Networks
                      /\ Threshold \in 0 .. 100
                      /\ ScanPriority \in Nat
                      /\ Priorities \subseteq 0 .. ScanPriority
                      /\ Homes \cup Neighbours \subseteq APs
                      /\ ReportsCurrent \in BOOLEAN
                      /\ None \notin APs \cup Keys \cup Networks \cup Slots
                                   \cup Nat \cup Entry

VARIABLES
    sm,         \* struct wpa_sm
    eapol,      \* the key the EAPOL state machines hold
    target,     \* the AP of the association that is under way
    scanning    \* scan results are being handled

vars == <<sm, eapol, target, scanning>>

Timer == 0 .. Lifetime + 1

Init ==
    /\ sm = [pmksa |-> [i \in Slots |-> None], before |-> {}, cur_pmksa |-> None,
             pmk |-> None, bssid |-> None, network_ctx |-> None,
             state |-> "disconnected", ie |-> None, expire |-> None, reauth |-> None,
             preauth |-> None, candidates |-> <<>>, start_preauth |-> FALSE]
    /\ eapol = None
    /\ target = None
    /\ scanning = FALSE

----------------------------------------------------------------------------
(* Looking up entries.                                                     *)

Entries(s) == {i \in Slots : s.pmksa[i] # None}

First(s, S) == CHOOSE i \in S : \A j \in S \ {i} : <<i, j>> \in s.before

\* The first of the entries that match, or NULL.
Find(s, matching) == IF matching = {} THEN None ELSE First(s, matching)

\* pmksa_cache_get() by address, and by a PMKID built for address aa and key k.
pmksa_cache_get(s, aa) == Find(s, {i \in Entries(s) : s.pmksa[i].aa = aa})

GetByPmkid(s, aa, k) ==
    Find(s, {i \in Entries(s) : s.pmksa[i].aa = aa /\ s.pmksa[i].pmk = k})

----------------------------------------------------------------------------
(* Removing entries.                                                       *)

\* wpa_sm_deauthenticate(): the connection is cleared; the configuration of
\* the network goes with it.  A preauthentication goes on until the driver
\* reports the end of the association.
Deauthenticate(s) == [s EXCEPT !.state = "disconnected", !.network_ctx = None]

\* One of the entries D is in use, or has the key in use.
InUse(s, D) == \E i \in D : s.cur_pmksa = i \/ s.pmk = s.pmksa[i].pmk

\* Mutants of the callback: one leaves the pointer, one does not compare keys.
wpa_sm_pmksa_free_cb_dangling(s, D, replace) ==
    IF InUse(s, D)
    THEN IF replace THEN [s EXCEPT !.cur_pmksa = None]
         ELSE Deauthenticate([s EXCEPT !.pmk = None])
    ELSE s

wpa_sm_pmksa_free_cb_by_entry(s, D, replace) ==
    IF s.cur_pmksa \in D
    THEN IF replace THEN [s EXCEPT !.cur_pmksa = None]
         ELSE Deauthenticate([s EXCEPT !.cur_pmksa = None, !.pmk = None])
    ELSE s

\* wpa_sm_pmksa_free_cb() for the entries D, one after the other: once the
\* connection was ended, there is nothing left for the next one to match.
wpa_sm_pmksa_free_cb(s, D, replace) ==
    IF InUse(s, D)
    THEN IF replace THEN [s EXCEPT !.cur_pmksa = None]
         ELSE Deauthenticate([s EXCEPT !.cur_pmksa = None, !.pmk = None])
    ELSE s

\* The entries D are taken out of the list.
Unlink(s, D) ==
    [s EXCEPT !.pmksa = [i \in Slots |-> IF i \in D THEN None ELSE s.pmksa[i]],
              !.before = {p \in s.before : p[1] \notin D /\ p[2] \notin D}]

\* pmksa_cache_free_entry() for each of D.
pmksa_cache_free_entry(s, D, replace) ==
    Unlink(wpa_sm_pmksa_free_cb(s, D, replace), D)

\* Both timers are computed from the first entry of the list.
pmksa_cache_set_expiration(s) ==
    LET first == s.pmksa[First(s, Entries(s))]
    IN IF Entries(s) = {} THEN [s EXCEPT !.expire = None, !.reauth = None]
       ELSE [s EXCEPT
               !.expire = first.exp + 1,
               !.reauth = IF \/ s.cur_pmksa # None
                             \/ pmksa_cache_get(s, s.bssid) # None
                          THEN first.reauth ELSE None]

Belonging(s, net) == {i \in Entries(s) : net = None \/ s.pmksa[i].net = net}

pmksa_cache_flush(s, net) ==
    IF Belonging(s, net) = {} THEN s
    ELSE pmksa_cache_set_expiration(
            pmksa_cache_free_entry(s, Belonging(s, net), FALSE))

\* The entries at the head of the list that have expired, up to the first
\* that has not.
ExpiredPrefix(s) ==
    {i \in Entries(s) : \A j \in Entries(s) :
                            j = i \/ <<j, i>> \in s.before => s.pmksa[j].exp = 0}

----------------------------------------------------------------------------
(* Adding entries.  A new entry lies at new, where no entry was when the   *)
(* handler started.                                                        *)

Free == {i \in Slots : sm.pmksa[i] = None}

NewEntry(k, aa, net) ==
    [aa |-> aa, pmk |-> k, net |-> net, exp |-> Lifetime,
     reauth |-> (Lifetime * Threshold) \div 100, opportunistic |-> FALSE]

\* Mutant: only an entry of the same network makes way.
Replace_in_network(s, aa, net) ==
    LET old == Find(s, {i \in Entries(s) : s.pmksa[i].aa = aa /\ s.pmksa[i].net = net})
    IN IF old = None THEN s
       ELSE pmksa_cache_flush(pmksa_cache_free_entry(s, {old}, TRUE), net)

\* An entry for the same AP with another key makes way, and with it every
\* entry of the network.
Replace(s, aa, net) ==
    LET old == pmksa_cache_get(s, aa)
    IN IF old = None THEN s
       ELSE pmksa_cache_flush(pmksa_cache_free_entry(s, {old}, TRUE), net)

\* Mutant: room is made one entry too late.
MakeRoom_late(s) ==
    IF Cardinality(Entries(s)) > MaxEntries
    THEN pmksa_cache_free_entry(s, {First(s, Entries(s))}, FALSE) ELSE s

\* A full list loses its first entry, whether it is in use or not.
MakeRoom(s) ==
    IF Cardinality(Entries(s)) >= MaxEntries
    THEN pmksa_cache_free_entry(s, {First(s, Entries(s))}, FALSE) ELSE s

\* The entries before the first one that expires later than e.
Ahead(s, e) ==
    LET later == {i \in Entries(s) : s.pmksa[i].exp > e.exp}
    IN IF later = {} THEN Entries(s)
       ELSE {i \in Entries(s) : <<i, First(s, later)>> \in s.before}

Link(s, e, new) ==
    [s EXCEPT !.pmksa = [s.pmksa EXCEPT ![new] = e],
              !.before = s.before \cup (Ahead(s, e) \X {new})
                            \cup ({new} \X (Entries(s) \ Ahead(s, e)))]

\* Mutant: the timers are set only when an entry is ahead of others.
Insert_lone_unscheduled(s, e, new) ==
    IF Ahead(s, e) = {} /\ Entries(s) # {}
    THEN pmksa_cache_set_expiration(Link(s, e, new)) ELSE Link(s, e, new)

\* The new entry goes before the first one that expires later.
Insert(s, e, new) ==
    IF Ahead(s, e) = {} THEN pmksa_cache_set_expiration(Link(s, e, new))
    ELSE Link(s, e, new)

pmksa_cache_add(s, k, aa, net, new) ==
    IF GetByPmkid(s, aa, k) # None THEN s
    ELSE Insert(MakeRoom(Replace(s, aa, net)), NewEntry(k, aa, net), new)

Guess(e, x) == [e EXCEPT !.exp = x, !.opportunistic = TRUE]

\* pmksa_cache_clone_entry(): the copy expires with the original; its place
\* in the list stays.  The original may have been freed to make room, then
\* the time read from it is arbitrary.  The set of possible results.
pmksa_cache_clone_entry(s, old, aa, new) ==
    LET t == pmksa_cache_add(s, s.pmksa[old].pmk, aa, s.pmksa[old].net, new)
        copy == pmksa_cache_get(t, aa)
        times == IF t.pmksa[old] # None THEN {s.pmksa[old].exp} ELSE 0 .. Lifetime
    IN {[t EXCEPT !.pmksa = [i \in Slots |-> IF i = copy THEN Guess(t.pmksa[i], x)
                                             ELSE t.pmksa[i]]] : x \in times}

pmksa_cache_get_opportunistic(s, net, aa, new) ==
    LET first == Find(s, {i \in Entries(s) : s.pmksa[i].net = net})
    IN IF net = None \/ first = None THEN {s}
       ELSE pmksa_cache_clone_entry(s, first, aa, new)

\* pmksa_cache_set_current() by address.
pmksa_cache_set_current(s, aa, net, try_opportunistic, new) ==
    LET t == [s EXCEPT !.cur_pmksa = None]
    IN {[u EXCEPT !.cur_pmksa = pmksa_cache_get(u, aa)] :
            u \in IF pmksa_cache_get(t, aa) = None /\ try_opportunistic
                  THEN pmksa_cache_get_opportunistic(t, net, aa, new) ELSE {t}}

----------------------------------------------------------------------------
(* Preauthentication and its candidates.                                   *)

rsn_preauth_init(s, aa) == IF s.preauth # None THEN s ELSE [s EXCEPT !.preauth = aa]
rsn_preauth_deinit(s) == [s EXCEPT !.preauth = None]

NeedsPreauth(s, c) ==
    LET p == pmksa_cache_get(s, c.bssid)
    IN c.bssid # s.bssid /\ (p = None \/ s.pmksa[p].opportunistic)

Least(I) == CHOOSE i \in I : \A j \in I : i <= j

\* Candidates are dropped up to and including the first that needs
\* preauthentication, which is started for it.
rsn_preauth_candidate_process(s) ==
    LET need == {i \in DOMAIN s.candidates : NeedsPreauth(s, s.candidates[i])}
    IN IF s.preauth # None \/ s.state # "completed" THEN s
       ELSE IF need = {} THEN [s EXCEPT !.candidates = <<>>]
       ELSE rsn_preauth_init(
                [s EXCEPT !.candidates =
                            SubSeq(s.candidates, Least(need) + 1, Len(s.candidates))],
                s.candidates[Least(need)].bssid)

\* The list is ordered by priority; a candidate that is known keeps its
\* priority unless the driver reported it.
Enlist(s, aa, prio) ==
    LET known == {i \in DOMAIN s.candidates : s.candidates[i].bssid = aa}
        rest == IF known = {} THEN s.candidates
                ELSE RemoveAt(s.candidates, Least(known))
        cand == [bssid |-> aa,
                 prio |-> IF known # {} /\ prio = ScanPriority
                          THEN s.candidates[Least(known)].prio ELSE prio]
        after == {i \in DOMAIN rest : cand.prio <= rest[i].prio}
        at == IF after = {} THEN Len(rest) + 1 ELSE Least(after)
    IN [s EXCEPT !.candidates = InsertAt(rest, at, cand)]

\* The key of the network is first offered to the new AP (proactive key
\* caching), whatever entry the AP has.  The set of possible results.
pmksa_candidate_add(s, aa, prio, preauth, new) ==
    {IF preauth THEN rsn_preauth_candidate_process(Enlist(t, aa, prio)) ELSE t :
        t \in IF s.network_ctx \in Proactive
              THEN pmksa_cache_get_opportunistic(s, s.network_ctx, aa, new) ELSE {s}}

----------------------------------------------------------------------------
(* The handlers.                                                           *)

Connected == sm.state \in {"associated", "handshake", "completed"}

\* Each full EAP authentication derives a key that was never used before.
Unused == {k \in Keys : /\ k # eapol /\ k # sm.pmk
                        /\ \A i \in Entries(sm) : sm.pmksa[i].pmk # k}

\* wpa_supplicant_associate() or sme_authenticate(): the entry for the AP is
\* selected, its PMKID goes into the request and its key into the state
\* machine; then the configuration of the network is set.
Associate(aa, net, new) ==
    /\ \E s \in pmksa_cache_set_current(sm, aa, net, net \in Proactive, new) :
         LET k == IF s.cur_pmksa = None THEN None ELSE s.pmksa[s.cur_pmksa].pmk
         IN sm' = [s EXCEPT !.state = "associating", !.network_ctx = net,
                            !.pmk = k, !.ie = k]
    /\ target' = aa
    /\ UNCHANGED <<eapol, scanning>>

\* wpa_supplicant_event_assoc(): with a driver that reports the elements of
\* the request, the entry is looked up again by the PMKID in them.  EAPOL
\* starts anew.
EventAssoc ==
    /\ sm.state = "associating"
    /\ \E reported \in BOOLEAN :
         LET c == IF reported /\ sm.ie # None
                  THEN GetByPmkid(sm, target, sm.ie) ELSE sm.cur_pmksa
             s == [sm EXCEPT !.state = "associated", !.bssid = target,
                             !.cur_pmksa = c, !.ie = None]
         IN sm' = IF sm.preauth = target THEN rsn_preauth_deinit(s) ELSE s
    /\ eapol' = None
    /\ target' = None
    /\ UNCHANGED scanning

\* Full EAP authentication with the AP.
EapolSuccess ==
    /\ Connected
    /\ \E k \in Unused : eapol' = k
    /\ UNCHANGED <<sm, target, scanning>>

\* wpa_sm_aborted_cached(): the AP answers with EAP although a PMKID was sent.
wpa_sm_aborted_cached ==
    /\ Connected
    /\ sm.cur_pmksa # None
    /\ sm' = [sm EXCEPT !.cur_pmksa = None]
    /\ UNCHANGED <<eapol, target, scanning>>

\* wpa_supplicant_get_pmk() for message 1/4 that names key k, or no key.
\* The result is a value of sm and whether the message is answered, dropped
\* or ends the connection.
GetPmk(s, k, new) ==
    LET c == IF k # None /\ s.cur_pmksa = None
             THEN GetByPmkid(s, s.bssid, k) ELSE s.cur_pmksa
        t == [s EXCEPT !.cur_pmksa = c]
        unknown == k # None /\ c = None
    IN IF k # None /\ c # None /\ s.pmksa[c].pmk = k /\ s.pmksa[c].aa = s.bssid
       THEN [sm |-> [t EXCEPT !.pmk = k], result |-> "answer"]
       ELSE IF eapol # None
       THEN LET u == pmksa_cache_add([t EXCEPT !.pmk = eapol], eapol, s.bssid,
                                     s.network_ctx, new)
            IN [sm |-> u,
                result |-> IF unknown /\ GetByPmkid(u, s.bssid, k) = None
                           THEN "start" ELSE "answer"]
       ELSE [sm |-> [t EXCEPT !.cur_pmksa = None],
             result |-> IF c # None \/ unknown THEN "start" ELSE "fail"]

Advance(s, state) ==
    [s EXCEPT !.state = IF s.state = "disconnected" THEN "disconnected" ELSE state]

\* wpa_supplicant_process_1_of_4().
wpa_supplicant_process_1_of_4(k, new) ==
    /\ Connected
    /\ LET g == GetPmk(sm, k, new)
       IN sm' = CASE g.result = "answer" -> Advance(g.sm, "handshake")
                  [] g.result = "start" -> Advance(g.sm, "associated")
                  [] g.result = "fail" -> Deauthenticate(g.sm)
    /\ UNCHANGED <<eapol, target, scanning>>

\* wpa_supplicant_key_neg_complete(): the handshake is over; an entry that
\* was a guess is one the AP accepted.
wpa_supplicant_key_neg_complete ==
    /\ sm.state = "handshake"
    /\ sm' = [sm EXCEPT !.state = "completed", !.start_preauth = TRUE,
                !.pmksa = [i \in Slots |->
                    IF i = sm.cur_pmksa
                    THEN [sm.pmksa[i] EXCEPT !.opportunistic = FALSE]
                    ELSE sm.pmksa[i]]]
    /\ UNCHANGED <<eapol, target, scanning>>

wpa_sm_start_preauth ==
    /\ sm.start_preauth
    /\ sm' = rsn_preauth_candidate_process([sm EXCEPT !.start_preauth = FALSE])
    /\ UNCHANGED <<eapol, target, scanning>>

\* A driver reports a candidate (EVENT_PMKID_CANDIDATE).
EventPmkidCandidate(aa, prio, preauth, new) ==
    /\ aa # sm.bssid \/ ReportsCurrent
    /\ sm' \in pmksa_candidate_add(sm, aa, prio, preauth, new)
    /\ UNCHANGED <<eapol, target, scanning>>

\* wpa_supplicant_rsn_preauth_scan_results(): the list of candidates is built
\* anew in a loop over the results, between the steps of which nothing else
\* runs.
rsn_preauth_scan_results ==
    /\ sm.network_ctx # None
    /\ sm' = [sm EXCEPT !.candidates = <<>>]
    /\ scanning' = TRUE
    /\ UNCHANGED <<eapol, target>>

\* rsn_preauth_scan_result() for an AP of the network of the connection.  In
\* every other case it does nothing.
rsn_preauth_scan_result(aa, preauth, new) ==
    /\ sm.network_ctx # None
    /\ aa # sm.bssid
    /\ LET p == pmksa_cache_get(sm, aa)
       IN p # None => sm.pmksa[p].opportunistic /\ preauth
    /\ sm' \in pmksa_candidate_add(sm, aa, ScanPriority, preauth, new)
    /\ UNCHANGED <<eapol, target, scanning>>

ScanResultsEnd ==
    /\ scanning' = FALSE
    /\ UNCHANGED <<sm, eapol, target>>

\* rsn_preauth_eapol_cb(), with the key of the preauthentication or without.
rsn_preauth_eapol_cb(k, new) ==
    /\ sm.preauth # None
    /\ LET s == IF k = None THEN sm
                ELSE pmksa_cache_add(sm, k, sm.preauth, sm.network_ctx, new)
       IN sm' = rsn_preauth_candidate_process(rsn_preauth_deinit(s))
    /\ UNCHANGED <<eapol, target, scanning>>

\* Mutant: the next candidate is not taken after a timeout.
rsn_preauth_timeout_last ==
    /\ sm.preauth # None
    /\ sm' = rsn_preauth_deinit(sm)
    /\ UNCHANGED <<eapol, target, scanning>>

\* rsn_preauth_timeout(): dot11RSNAConfigSATimeout after the start.
rsn_preauth_timeout ==
    /\ sm.preauth # None
    /\ sm' = rsn_preauth_candidate_process(rsn_preauth_deinit(sm))
    /\ UNCHANGED <<eapol, target, scanning>>

\* The command PREAUTH, for an AP other than the one of the connection.
CtrlPreauth(aa) ==
    /\ aa # sm.bssid
    /\ sm' = rsn_preauth_init(rsn_preauth_deinit(sm), aa)
    /\ UNCHANGED <<eapol, target, scanning>>

\* The commands SET_NETWORK and REMOVE_NETWORK.
FlushNetwork(net) ==
    /\ sm' = pmksa_cache_flush(sm, net)
    /\ UNCHANGED <<eapol, target, scanning>>

\* wpa_supplicant_reload_configuration().
Reconfigure ==
    /\ sm' = rsn_preauth_deinit(pmksa_cache_flush(Deauthenticate(sm), None))
    /\ UNCHANGED <<eapol, target, scanning>>

\* The command DISCONNECT, and every other end that starts on this side.
Disconnect ==
    /\ sm.state # "disconnected"
    /\ sm' = Deauthenticate(sm)
    /\ UNCHANGED <<eapol, target, scanning>>

\* wpa_supplicant_event_disassoc(): the configuration of the network stays.
EventDisassoc ==
    /\ sm' = [rsn_preauth_deinit(sm) EXCEPT !.state = "disconnected"]
    /\ UNCHANGED <<eapol, target, scanning>>

pmksa_cache_expire ==
    /\ sm.expire = 0
    /\ sm' = pmksa_cache_set_expiration(
                pmksa_cache_free_entry([sm EXCEPT !.expire = None], ExpiredPrefix(sm), FALSE))
    /\ UNCHANGED <<eapol, target, scanning>>

\* The key of the connection is about to expire: EAPOL is asked for a new
\* one.
pmksa_cache_reauth ==
    /\ sm.reauth = 0
    /\ sm' = [sm EXCEPT !.reauth = None, !.cur_pmksa = None]
    /\ UNCHANGED <<eapol, target, scanning>>

\* A second passes.
Less(t) == IF t \in {0, None} THEN t ELSE t - 1

Older(e) == [e EXCEPT !.exp = Less(e.exp), !.reauth = Less(e.reauth)]

Tick ==
    /\ Entries(sm) # {}
    /\ sm' = [sm EXCEPT !.expire = Less(sm.expire), !.reauth = Less(sm.reauth),
                !.pmksa = [i \in Slots |->
                    IF sm.pmksa[i] = None THEN None ELSE Older(sm.pmksa[i])]]
    /\ UNCHANGED <<eapol, target, scanning>>

ScanLoop ==
    \/ \E aa \in Neighbours, preauth \in BOOLEAN, new \in Free :
            rsn_preauth_scan_result(aa, preauth, new)
    \/ ScanResultsEnd

Handler ==
    \/ \E aa \in Homes, net \in Networks, new \in Free : Associate(aa, net, new)
    \/ EventAssoc
    \/ EapolSuccess
    \/ wpa_sm_aborted_cached
    \/ \E k \in Keys \cup {None}, new \in Free : wpa_supplicant_process_1_of_4(k, new)
    \/ wpa_supplicant_key_neg_complete
    \/ wpa_sm_start_preauth
    \/ \E aa \in Neighbours, prio \in Priorities, preauth \in BOOLEAN, new \in Free :
            EventPmkidCandidate(aa, prio, preauth, new)
    \/ rsn_preauth_scan_results
    \/ \E k \in Unused \cup {None}, new \in Free : rsn_preauth_eapol_cb(k, new)
    \/ rsn_preauth_timeout
    \/ \E aa \in Neighbours : CtrlPreauth(aa)
    \/ \E net \in Networks : FlushNetwork(net)
    \/ Reconfigure
    \/ Disconnect
    \/ EventDisassoc
    \/ pmksa_cache_expire
    \/ pmksa_cache_reauth
    \/ Tick

Next ==
    \/ scanning /\ ScanLoop
    \/ ~scanning /\ Handler

Spec == Init /\ [][Next]_vars

----------------------------------------------------------------------------
(* Properties.                                                             *)

States == {"disconnected", "associating", "associated", "handshake", "completed"}

\* Types.  The count of entries never exceeds the limit of the cache.
TypeOK ==
    /\ sm.pmksa \in [Slots -> Entry \cup {None}]
    /\ Cardinality(Entries(sm)) <= MaxEntries
    /\ sm.before \subseteq Slots \X Slots
    /\ sm.cur_pmksa \in Slots \cup {None}
    /\ sm.pmk \in Keys \cup {None}
    /\ sm.ie \in Keys \cup {None}
    /\ sm.bssid \in APs \cup {None}
    /\ sm.network_ctx \in Networks \cup {None}
    /\ sm.state \in States
    /\ sm.expire \in Timer \cup {None}
    /\ sm.reauth \in Timer \cup {None}
    /\ sm.preauth \in APs \cup {None}
    /\ sm.candidates \in Seq([bssid : APs, prio : 0 .. ScanPriority])
    /\ sm.start_preauth \in BOOLEAN
    /\ eapol \in Keys \cup {None}
    /\ target \in APs \cup {None}
    /\ scanning \in BOOLEAN

\* The cache never holds two entries for one authenticator, whatever mix of
\* full authentications, preauthentications and guesses filled it: the search
\* by address in pmksa_cache_get() has one answer.
OneEntryPerAuthenticator ==
    \A i, j \in Entries(sm) : sm.pmksa[i].aa = sm.pmksa[j].aa => i = j

\* cur_pmksa never points to an entry that was freed by replacement, by a
\* flush, by the limit or by expiry, and the key in the state machine is the
\* key of that entry.
CurrentIsCached ==
    sm.cur_pmksa # None =>
        /\ sm.cur_pmksa \in Entries(sm)
        /\ sm.pmksa[sm.cur_pmksa].pmk = sm.pmk

\* As long as the cache holds an entry, pmksa_cache_expire() is scheduled,
\* although most changes of the list leave the timer alone.
ExpiryScheduled == Entries(sm) # {} => sm.expire # None

\* A connection does not outlive its key: while it is up, an entry with the
\* key in use is cached, because the removal of the last one ends it.
KeyInUseIsCached ==
    sm.state = "completed" =>
        \E i \in Entries(sm) : sm.pmksa[i].pmk = sm.pmk

\* Candidates never wait for nothing: while the connection is up and the list
\* is not empty, a preauthentication is under way, the end of which takes the
\* next one, or the timer of the first one is running.
CandidatesAreServed ==
    sm.state = "completed" /\ sm.candidates # <<>> =>
        sm.preauth # None \/ sm.start_preauth

=============================================================================
