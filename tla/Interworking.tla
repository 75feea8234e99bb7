---------------------------- MODULE Interworking ----------------------------
(***************************************************************************)
(* Network selection with ANQP information: wpa_supplicant/interworking.c, *)
(* the arbiter that roams after a disconnection (arbiter/arbiter.c and     *)
(* arbiter/filter.c), the scan machinery of scan.c and events.c that both  *)
(* of them depend on, and the attempts of sme.c that a selection ends in.  *)
(*                                                                         *)
(* A BSS entry is identified with its BSSID, and every access point has an *)
(* SSID of its own.  The order of the BSS list is the order of the signal  *)
(* levels in the last scans, which is arbitrary, so that the table is a    *)
(* set and a walk that stops at the first match may stop at any match.     *)
(* GAS queries are used through what GasService promises: a request is     *)
(* refused, or it is reported exactly once.  Every handler of the event    *)
(* loop is one action.                                                     *)
(***************************************************************************)
EXTENDS Integers, FiniteSets

CONSTANTS
    Bss,         \* access points
    NoBss,       \* the all-zero BSSID
    Capable,     \* access points that advertise Interworking in an ESS
    FreePublic,  \* access network type 3 in the Interworking element
    Internet,    \* the Internet bit of the Interworking element is set
    Hidden,      \* beacons carry an empty SSID
    Configured,  \* access points of the networks of the configuration file
    Reliable,    \* always in range and always answering with the home realm
    Faults,      \* what may fail: "send", "scan", "memory", "driver", "reject"
    Commands,    \* control interface commands that are used
    TokenLimit,  \* GAS queries that can be open with one access point
    MaxEvents    \* bound on commands and connection losses

ASSUME ApAssumption ==
    /\ NoBss \notin Bss
    /\ Capable \subseteq Bss
    /\ Configured \subseteq Bss \ Hidden
    /\ Reliable \subseteq Bss

ASSUME LimitAssumption ==
    /\ TokenLimit \in Nat \ {0}
    /\ MaxEvents \in Nat

VARIABLES
    bss,                     \* entries of wpa_s->bss
    tried,                   \* entries with WPA_BSS_ANQP_FETCH_TRIED
    fetched,                 \* entries with bss->fetched
    nai_realm,               \* bss->anqp_nai_realm names the home realm, or does not
    fetch_anqp_in_progress,
    network_select,
    auto_select,
    arbiter,                 \* arbiter->state and arbiter->set_auto
    scan_res_handler,        \* interworking_scan_res_handler is installed
    scan_timer,              \* wpa_supplicant_scan is registered
    scan_req,                \* wpa_s->scan_req is not 0
    scanning,                \* the driver runs a scan
    disconnected,            \* wpa_s->disconnected
    networks,                \* access points whose SSID is an enabled network
    bssid,                   \* the access point of the current association
    pending_bssid,           \* the access point of an attempt
    wpa_state,               \* the states before WPA_AUTHENTICATING, and those after
                             \* WPA_ASSOCIATING, are not told apart
    sme_timer,               \* sme_auth_timer or sme_assoc_timer is registered
    driver,                  \* what the driver does, and with which access point
    reassociate,             \* wpa_s->reassociate
    blacklist,               \* failed attempts: none, one, or more
    deauth_event,            \* the driver still has to report our own deauthentication
    fetches,                 \* open queries with interworking_anqp_resp_cb, per AP
    gets,                    \* open queries with anqp_resp_cb, per AP
    phase,                   \* "running" or, after a null pointer is used, "crashed"
    told_to_wait,            \* the user's last word was to disconnect and wait
    events                   \* commands and losses left

table == <<bss, tried, fetched, nai_realm>>
fetch == <<fetch_anqp_in_progress, network_select, auto_select>>
scan == <<scan_res_handler, scan_timer, scan_req, scanning>>
attempt == <<bssid, pending_bssid, wpa_state, sme_timer, driver>>
link == <<attempt, reassociate, blacklist, deauth_event>>
queries == <<fetches, gets>>

vars == <<table, fetch, arbiter, scan, disconnected, networks, link, queries,
          phase, told_to_wait, events>>

Realm == {"none", "home"}

\* What an answer says of the NAI realms; it may say nothing.
Element == Realm \cup {"absent"}

\* The driver neither authenticates nor associates.
Idle == [op |-> "idle", ap |-> NoBss]

Init ==
    /\ bss = {} /\ tried = {} /\ fetched = {}
    /\ nai_realm = [b \in Bss |-> "none"]
    /\ fetch_anqp_in_progress = FALSE
    /\ network_select = FALSE
    /\ auto_select = FALSE
    /\ arbiter = [state |-> "IDLE", set_auto |-> FALSE]
    /\ scan_res_handler = FALSE
    /\ scan_timer = TRUE          \* wpa_supplicant_driver_init() requests a scan
    /\ scan_req = FALSE
    /\ scanning = FALSE
    /\ disconnected = FALSE
    /\ networks = Configured
    /\ bssid = NoBss
    /\ pending_bssid = NoBss
    /\ wpa_state = "DISCONNECTED"
    /\ sme_timer = FALSE
    /\ driver = Idle
    /\ reassociate = FALSE
    /\ blacklist = [b \in Bss |-> 0]
    /\ deauth_event = FALSE
    /\ fetches = [b \in Bss |-> 0]
    /\ gets = [b \in Bss |-> 0]
    /\ phase = "running"
    /\ told_to_wait = FALSE
    /\ events = MaxEvents

\* A command of the control interface, or a loss of the connection.
Event ==
    /\ phase = "running"
    /\ events > 0
    /\ events' = events - 1

Command(c) == Event /\ c \in Commands

\* An event of the driver.  It reports in order: the report of the station's
\* own deauthentication, which is queued with the request, comes before the
\* answer to any later request.
DriverEvent == phase = "running" /\ ~deauth_event

-----------------------------------------------------------------------------
\* Choosing a network.

\* interworking_credentials_available(): an EAP method of the home realm.
Credentials(realm) == {b \in bss' : realm[b] = "home"}

\* Faulty variant: the second filter sees the unfiltered list.
Filtered_internet_only(candidates) == candidates \cap Internet

\* free_public_filter() and access_internet_filter(), in this order.
Filtered(candidates) == (candidates \cap FreePublic) \cap Internet

\* interworking_connect(): without an SSID, a credential or memory nothing
\* happens, otherwise a temporary network is added and a scan requested.
interworking_connect(b, realm) ==
    \/ /\ b \notin Hidden
       /\ realm[b] = "home"
       /\ networks' = networks \cup {b}
       /\ disconnected' = FALSE
       /\ reassociate' = TRUE
       /\ scan_timer' = TRUE
    \/ /\ b \in Hidden \/ realm[b] # "home" \/ "memory" \in Faults
       /\ UNCHANGED <<networks, disconnected, reassociate, scan_timer>>

\* random_filter() keeps one of the candidates, arbiter_select() returns it.
ConnectToOne(candidates, realm) ==
    \/ \E b \in candidates : interworking_connect(b, realm)
    \/ candidates = {} /\ UNCHANGED <<networks, disconnected, reassociate, scan_timer>>

\* Faulty variant: the arbiter is left in the state it was in.
interworking_select_network_keeps_state(realm) ==
    /\ network_select' = FALSE
    /\ UNCHANGED arbiter
    /\ LET found == IF auto_select THEN Credentials(realm) ELSE {}
       IN  ConnectToOne(Filtered(found), realm)

\* interworking_select_network() with arbiter_select(), which passes through
\* ARBITER_DECIDING to ARBITER_IDLE.  Without memory a candidate is skipped.
interworking_select_network(realm) ==
    /\ network_select' = FALSE
    /\ arbiter' = [arbiter EXCEPT !.state = "IDLE"]
    /\ LET found == IF auto_select THEN Credentials(realm) ELSE {}
       IN  \E candidates \in IF "memory" \in Faults THEN SUBSET found ELSE {found} :
               ConnectToOne(Filtered(candidates), realm)

-----------------------------------------------------------------------------
\* Fetching ANQP information.

\* gas_query_req() for b with the callback interworking_anqp_resp_cb; n is the
\* number of such queries before.  The result is not looked at.
interworking_anqp_send_req(b, n) ==
    \/ /\ n[b] + gets[b] < TokenLimit
       /\ fetches' = [n EXCEPT ![b] = @ + 1]
    \/ /\ n[b] + gets[b] = TokenLimit \/ "send" \in Faults
       /\ fetches' = n

\* Faulty variant: access points of configured networks are not asked.
Untried_unconfigured(t, f) == (bss' \cap Capable) \ (f \cup t \cup networks)

\* Entries that interworking_next_anqp_fetch() still has to query, when the
\* flags are t and f.
Untried(t, f) == (bss' \cap Capable) \ (f \cup t)

\* Faulty variant: the fetch goes on after the last answer.
NextFetch_unfinished(t, n) ==
    \/ \E b \in Untried(t, fetched') :
          /\ tried' = t \cup {b}
          /\ interworking_anqp_send_req(b, n)
          /\ fetch_anqp_in_progress' = TRUE
          /\ UNCHANGED <<network_select, arbiter, networks, disconnected, reassociate,
                         scan_timer>>
    \/ /\ Untried(t, fetched') = {}
       /\ tried' = t
       /\ fetches' = n
       /\ fetch_anqp_in_progress' = TRUE
       /\ \/ network_select /\ interworking_select_network(nai_realm')
          \/ ~network_select
             /\ UNCHANGED <<network_select, arbiter, networks, disconnected, reassociate,
                         scan_timer>>

\* interworking_next_anqp_fetch() with the flags t, the open queries n and
\* fetch_anqp_in_progress set.
NextFetch(t, n) ==
    \/ \E b \in Untried(t, fetched') :
          /\ tried' = t \cup {b}
          /\ interworking_anqp_send_req(b, n)
          /\ fetch_anqp_in_progress' = TRUE
          /\ UNCHANGED <<network_select, arbiter, networks, disconnected, reassociate,
                         scan_timer>>
    \/ /\ Untried(t, fetched') = {}
       /\ tried' = t
       /\ fetches' = n
       /\ fetch_anqp_in_progress' = FALSE
       /\ \/ network_select /\ interworking_select_network(nai_realm')
          \/ ~network_select
             /\ UNCHANGED <<network_select, arbiter, networks, disconnected, reassociate,
                         scan_timer>>

interworking_next_anqp_fetch(t, n) ==
    \/ fetch_anqp_in_progress /\ NextFetch(t, n)
    \/ /\ ~fetch_anqp_in_progress
       /\ tried' = t
       /\ fetches' = n
       /\ UNCHANGED <<fetch_anqp_in_progress, network_select, arbiter,
                      networks, disconnected, reassociate, scan_timer>>

\* interworking_start_fetch_anqp() clears all flags first.
interworking_start_fetch_anqp == NextFetch({}, fetches)

\* FETCH_ANQP
interworking_fetch_anqp ==
    /\ Command("FETCH_ANQP")
    /\ ~fetch_anqp_in_progress
    /\ ~network_select
    /\ UNCHANGED <<bss, fetched, nai_realm>>
    /\ interworking_start_fetch_anqp
    /\ UNCHANGED <<auto_select, scan_res_handler, scan_req, scanning, attempt,
                   blacklist, deauth_event, gets, phase, told_to_wait>>

\* STOP_FETCH_ANQP; network_select keeps its value.
interworking_stop_fetch_anqp ==
    /\ Command("STOP_FETCH_ANQP")
    /\ fetch_anqp_in_progress
    /\ fetch_anqp_in_progress' = FALSE
    /\ UNCHANGED <<table, network_select, auto_select, arbiter, scan, disconnected,
                   networks, link, queries, phase, told_to_wait>>

\* interworking_select(): any fetch is stopped and a scan is requested whose
\* results start the next one.
interworking_select(auto) ==
    /\ fetch_anqp_in_progress' = FALSE
    /\ network_select' = TRUE
    /\ auto_select' = auto
    /\ scan_res_handler' = TRUE
    /\ scan_req' = TRUE
    /\ scan_timer' = TRUE
    /\ UNCHANGED scanning

\* INTERWORKING_SELECT [auto]; with auto it is a wish to be connected.
InterworkingSelect(auto) ==
    /\ Command("INTERWORKING_SELECT")
    /\ interworking_select(auto)
    /\ told_to_wait' = (told_to_wait /\ ~auto)
    /\ UNCHANGED <<table, arbiter, disconnected, networks, link, queries, phase>>

\* INTERWORKING_CONNECT, which is also a wish to be connected.
ctrl_interworking_connect(b) ==
    /\ Command("INTERWORKING_CONNECT")
    /\ b \in bss
    /\ interworking_connect(b, nai_realm)
    /\ told_to_wait' = FALSE
    /\ UNCHANGED <<table, fetch, arbiter, scan_res_handler, scan_req, scanning,
                   attempt, blacklist, deauth_event, queries, phase>>

\* ANQP_GET: the frequency comes from the entry or from the association.
anqp_send_req(b) ==
    /\ Command("ANQP_GET")
    /\ b \in bss \/ bssid # NoBss
    /\ fetches[b] + gets[b] < TokenLimit
    /\ gets' = [gets EXCEPT ![b] = @ + 1]
    /\ UNCHANGED <<table, fetch, arbiter, scan, disconnected, networks, link,
                   fetches, phase, told_to_wait>>

\* anqp_resp_cb() for an answer of b with an element for the NAI realms or
\* none of them, for an entry that exists.
Answered(b, element) ==
    /\ fetched' = fetched \cup {b}
    /\ nai_realm' = [nai_realm EXCEPT ![b] = IF element = "absent" THEN @ ELSE element]

\* anqp_resp_cb() after a failed query, or one with another protocol.
Unanswered == UNCHANGED <<fetched, nai_realm>>

\* anqp_resp_cb() for an answer of b whose entry is gone: the elements are
\* dropped, then bss->fetched is set through a null pointer.
NullEntry == phase' = "crashed"

\* The report of a query with interworking_anqp_resp_cb.
interworking_anqp_resp_cb(b) ==
    /\ phase = "running"
    /\ fetches[b] > 0
    /\ LET n == [fetches EXCEPT ![b] = @ - 1] IN
       \/ /\ b \in bss
          /\ \E element \in IF b \in Reliable THEN {"home"} ELSE Element :
                Answered(b, element)
          /\ UNCHANGED <<bss, phase>>
          /\ interworking_next_anqp_fetch(tried, n)
       \/ /\ b \notin Reliable
          /\ Unanswered
          /\ UNCHANGED <<bss, phase>>
          /\ interworking_next_anqp_fetch(tried, n)
       \/ /\ b \notin bss
          /\ NullEntry
          /\ UNCHANGED <<table, fetch_anqp_in_progress, network_select, arbiter,
                         disconnected, networks, reassociate, scan_timer, fetches>>
    /\ UNCHANGED <<auto_select, scan_res_handler, scan_req, scanning, attempt,
                   blacklist, deauth_event, gets, told_to_wait, events>>

\* The report of a query with anqp_resp_cb, from ANQP_GET.
anqp_resp_cb(b) ==
    /\ phase = "running"
    /\ gets[b] > 0
    /\ gets' = [gets EXCEPT ![b] = @ - 1]
    /\ \/ b \in bss /\ (\E element \in Element : Answered(b, element)) /\ UNCHANGED phase
       \/ Unanswered /\ UNCHANGED phase
       \/ b \notin bss /\ NullEntry /\ UNCHANGED <<fetched, nai_realm>>
    /\ UNCHANGED <<bss, tried, fetch, arbiter, scan, disconnected, networks,
                   link, fetches, told_to_wait, events>>

-----------------------------------------------------------------------------
\* Scanning and the BSS table.

\* wpa_supplicant_scan(): the timer of the next scan.  scan_req is forgotten
\* before the driver is asked, which refuses while it runs a scan.
wpa_supplicant_scan ==
    /\ phase = "running"
    /\ scan_timer
    /\ \/ /\ ~scan_req
          /\ disconnected \/ networks = {}
          /\ scan_timer' = FALSE
          /\ wpa_state' = "DISCONNECTED"
          /\ sme_timer' = FALSE
          /\ UNCHANGED <<scan_req, scanning>>
       \/ /\ scan_req \/ (~disconnected /\ networks # {})
          /\ scan_req' = FALSE
          /\ \/ ~scanning /\ scanning' = TRUE /\ scan_timer' = FALSE
             \/ (scanning \/ "scan" \in Faults) /\ UNCHANGED <<scanning, scan_timer>>
          /\ UNCHANGED <<wpa_state, sme_timer>>
    /\ UNCHANGED <<table, fetch, arbiter, scan_res_handler, disconnected, networks,
                   bssid, pending_bssid, driver, reassociate, blacklist,
                   deauth_event, queries, phase, told_to_wait, events>>

\* Entries that wpa_bss_in_use() protects, and those always seen.
Kept == {bssid, pending_bssid} \cup Reliable

\* Faulty variant: an entry that is removed leaves its information behind.
TableUpdate_keeps_fetched(seen, gone) ==
    /\ bss' = (bss \cup seen) \ gone
    /\ UNCHANGED <<fetched, nai_realm>>

\* The BSS table after a scan saw the entries seen and the entries gone were
\* expired; a new entry starts without information.
TableUpdate(seen, gone) ==
    /\ bss' = (bss \cup seen) \ gone
    /\ fetched' = fetched \ gone
    /\ nai_realm' = [b \in Bss |-> IF b \in gone THEN "none" ELSE nai_realm[b]]

\* EVENT_SCAN_RESULTS when the results could not be read.
ScanResultsUnavailable ==
    /\ DriverEvent
    /\ scanning
    /\ "scan" \in Faults
    /\ scanning' = FALSE
    /\ scan_timer' = (scan_timer \/ networks # {})
    /\ UNCHANGED <<table, fetch, arbiter, scan_res_handler, scan_req, disconnected,
                   networks, link, queries, phase, told_to_wait, events>>

\* Faulty variant: the association is not forgotten.
sme_authenticate_keeps_bssid(b) ==
    /\ pending_bssid' = b
    /\ wpa_state' = "AUTHENTICATING"
    /\ driver' = [op |-> "auth", ap |-> b]
    /\ sme_timer' = TRUE
    /\ reassociate' = FALSE
    /\ scan_timer' = FALSE
    /\ UNCHANGED bssid

\* sme_authenticate(): the attempt replaces the association and the next scan.
\* A driver that refuses leaves it pending with nothing under way.
sme_authenticate(b) ==
    /\ bssid' = NoBss
    /\ pending_bssid' = b
    /\ wpa_state' = "AUTHENTICATING"
    /\ reassociate' = FALSE
    /\ \/ /\ driver' = [op |-> "auth", ap |-> b]
          /\ sme_timer' = TRUE
          /\ scan_timer' = FALSE
       \/ /\ "driver" \in Faults
          /\ driver' \in {driver, Idle}
          /\ sme_timer' = (sme_timer /\ wpa_state = "AUTHENTICATING")
          /\ scan_timer' = TRUE

\* wpa_supplicant_connect(); wpa_supplicant_need_to_roam() lets everything pass
\* but the network in use, which is not changed here either.
wpa_supplicant_connect(b) ==
    LET new == \/ reassociate
               \/ /\ b # bssid
                  /\ wpa_state \notin {"AUTHENTICATING", "ASSOCIATING"} \/ b # pending_bssid
    IN  \/ new /\ sme_authenticate(b)
        \/ ~new /\ UNCHANGED <<attempt, reassociate, scan_timer>>

\* wpa_supplicant_pick_network() among the enabled networks that were seen:
\* listed access points are skipped, until all of them are; then the list is
\* cleared.  A single network is skipped after one failure; temporary networks
\* of the same SSID count as several.
pick_network(seen, b) ==
    \E limit \in IF Cardinality(networks) = 1 THEN {0, 1} ELSE {1} :
       LET usable == {c \in seen \cap networks : blacklist[c] <= limit} IN
       \/ b \in usable /\ UNCHANGED blacklist
       \/ /\ usable = {}
          /\ b \in seen \cap networks
          /\ blacklist' = [c \in Bss |-> 0]

\* The rest of _wpa_supplicant_event_scan_results() without a handler.
ConnectToSeen(seen) ==
    \/ /\ disconnected
       /\ wpa_state' = "DISCONNECTED"
       /\ sme_timer' = FALSE
       /\ UNCHANGED <<scan_timer, bssid, pending_bssid, driver, reassociate, blacklist>>
    \/ /\ ~disconnected
       /\ \E b \in Bss : pick_network(seen, b) /\ wpa_supplicant_connect(b)
    \/ /\ ~disconnected
       /\ seen \cap networks = {}
       /\ scan_timer' = (scan_timer \/ networks # {})
       /\ blacklist' = [b \in Bss |-> 0]
       /\ UNCHANGED <<attempt, reassociate>>

\* EVENT_SCAN_RESULTS: the table is updated, then a handler that is installed
\* is removed and called instead of everything else.  The flags of an entry
\* that was seen are those of the scan result, without the tried flag.
ScanResults(seen) ==
    /\ DriverEvent
    /\ scanning
    /\ scanning' = FALSE
    /\ Reliable \subseteq seen
    /\ \E gone \in SUBSET (bss \ (seen \cup Kept)) : TableUpdate(seen, gone)
    /\ \/ /\ scan_res_handler
          /\ scan_res_handler' = FALSE
          /\ interworking_start_fetch_anqp
          /\ UNCHANGED <<attempt, blacklist>>
       \/ /\ ~scan_res_handler
          /\ tried' = (tried \cap bss') \ seen
          /\ ConnectToSeen(seen)
          /\ UNCHANGED <<scan_res_handler, fetch_anqp_in_progress, network_select,
                         arbiter, networks, disconnected, fetches>>
    /\ UNCHANGED <<auto_select, scan_req, deauth_event, gets, phase, told_to_wait,
                   events>>

\* wpa_bss_timeout(): an entry that was not updated for bss_expiration_age.
ExpireByAge(b) ==
    /\ phase = "running"
    /\ b \in bss \ Kept
    /\ TableUpdate({}, {b})
    /\ tried' = tried \ {b}
    /\ UNCHANGED <<fetch, arbiter, scan, disconnected, networks, link, queries,
                   phase, told_to_wait, events>>

-----------------------------------------------------------------------------
\* The connection.

\* wpa_blacklist_add(); nothing distinguishes counts above one.
wpa_blacklist_add(b) ==
    blacklist' = IF b = NoBss THEN blacklist
                 ELSE [blacklist EXCEPT ![b] = IF @ = 2 THEN 2 ELSE @ + 1]

\* wpas_connection_failed(): the access point is listed and a scan requested.
wpas_connection_failed(b) ==
    /\ wpa_blacklist_add(b)
    /\ scan_timer' = TRUE

\* Faulty variant: the new state cancels no timer.
wpa_supplicant_mark_disassoc_keeps_timer ==
    /\ bssid' = NoBss
    /\ pending_bssid' = NoBss
    /\ wpa_state' = "DISCONNECTED"
    /\ UNCHANGED sme_timer

\* wpa_supplicant_mark_disassoc(), whose new state cancels the timers of SME.
wpa_supplicant_mark_disassoc ==
    /\ bssid' = NoBss
    /\ pending_bssid' = NoBss
    /\ wpa_state' = "DISCONNECTED"
    /\ sme_timer' = FALSE

\* sme_deauth(); the driver may report this deauthentication as well.
sme_deauth ==
    /\ wpas_connection_failed(pending_bssid)
    /\ wpa_supplicant_mark_disassoc
    /\ driver' = Idle
    /\ deauth_event' \in {deauth_event, TRUE}

\* Faulty variant: no timer is registered.
sme_associate_untimed(b) ==
    /\ wpa_state' = "ASSOCIATING"
    /\ driver' = [op |-> "assoc", ap |-> b]
    /\ sme_timer' = FALSE
    /\ UNCHANGED <<pending_bssid, blacklist, scan_timer>>

\* sme_associate(); the state stays when the driver refuses.
sme_associate(b) ==
    /\ wpa_state' = "ASSOCIATING"
    /\ \/ /\ driver' = [op |-> "assoc", ap |-> b]
          /\ sme_timer' = TRUE
          /\ UNCHANGED <<pending_bssid, blacklist, scan_timer>>
       \/ /\ "driver" \in Faults
          /\ driver' = Idle
          /\ sme_timer' = FALSE
          /\ wpas_connection_failed(pending_bssid)
          /\ pending_bssid' = NoBss

\* EVENT_AUTH.  An answer nobody waits for is ignored; after a rejection the
\* state and pending_bssid stay.  The retry with another authentication
\* algorithm is the same attempt.
sme_event_auth ==
    /\ DriverEvent
    /\ driver.op = "auth"
    /\ \/ /\ wpa_state # "AUTHENTICATING" \/ pending_bssid # driver.ap
          /\ driver' = Idle
          /\ UNCHANGED <<pending_bssid, wpa_state, sme_timer, blacklist, scan_timer>>
       \/ /\ wpa_state = "AUTHENTICATING" /\ pending_bssid = driver.ap
          /\ \/ sme_associate(driver.ap)
             \/ /\ "reject" \in Faults /\ driver.ap \notin Reliable
                /\ sme_timer' = FALSE
                /\ driver' = Idle
                /\ wpas_connection_failed(pending_bssid)
                /\ UNCHANGED <<pending_bssid, wpa_state>>
    /\ UNCHANGED <<table, fetch, arbiter, scan_res_handler, scan_req, scanning,
                   disconnected, networks, bssid, reassociate, deauth_event, queries,
                   phase, told_to_wait, events>>

\* EVENT_AUTH_TIMED_OUT; sme_auth_timer goes on.
sme_event_auth_timed_out ==
    /\ DriverEvent
    /\ driver.op = "auth" /\ driver.ap \notin Reliable
    /\ driver' = Idle
    /\ wpas_connection_failed(pending_bssid)
    /\ UNCHANGED <<table, fetch, arbiter, scan_res_handler, scan_req, scanning,
                   disconnected, networks, bssid, pending_bssid, wpa_state, sme_timer,
                   reassociate, deauth_event, queries, phase, told_to_wait, events>>

\* EVENT_ASSOC, which cancels a scan that was requested, and the end of the
\* key handshake, which takes the access point off the blacklist.
wpa_supplicant_event_assoc ==
    /\ DriverEvent
    /\ driver.op = "assoc"
    /\ bssid' = driver.ap
    /\ pending_bssid' = NoBss
    /\ wpa_state' = "ASSOCIATED"
    /\ sme_timer' = FALSE
    /\ driver' = Idle
    /\ blacklist' = [blacklist EXCEPT ![driver.ap] = 0]
    /\ scan_timer' = FALSE
    /\ UNCHANGED <<table, fetch, arbiter, scan_res_handler, scan_req, scanning,
                   disconnected, networks, reassociate, deauth_event, queries, phase,
                   told_to_wait, events>>

\* EVENT_ASSOC_REJECT and EVENT_ASSOC_TIMED_OUT.
AssociationFailed ==
    /\ DriverEvent
    /\ driver.op = "assoc" /\ driver.ap \notin Reliable
    /\ \/ sme_deauth
       \/ /\ wpas_connection_failed(pending_bssid)
          /\ wpa_supplicant_mark_disassoc
          /\ driver' = Idle
          /\ UNCHANGED deauth_event
    /\ UNCHANGED <<table, fetch, arbiter, scan_res_handler, scan_req, scanning,
                   disconnected, networks, reassociate, queries, phase, told_to_wait,
                   events>>

\* sme_auth_timer() and sme_assoc_timer().
SmeTimeout ==
    /\ phase = "running"
    /\ sme_timer
    /\ driver.ap \notin Reliable
    /\ sme_deauth
    /\ UNCHANGED <<table, fetch, arbiter, scan_res_handler, scan_req, scanning,
                   disconnected, networks, reassociate, queries, phase, told_to_wait,
                   events>>

\* Faulty variant: automatic selection is not asked for.
arbiter_disconnect_occur_manual ==
    \/ /\ arbiter.set_auto
       /\ arbiter' = [arbiter EXCEPT !.state = "QUERYING"]
       /\ interworking_select(FALSE)
    \/ /\ ~arbiter.set_auto
       /\ scan_timer' = TRUE
       /\ UNCHANGED <<arbiter, fetch, scan_res_handler, scan_req, scanning>>

\* arbiter_disconnect_occur(), after wpas_connection_failed() requested a scan.
arbiter_disconnect_occur ==
    \/ /\ arbiter.set_auto
       /\ arbiter' = [arbiter EXCEPT !.state = "QUERYING"]
       /\ interworking_select(TRUE)
    \/ /\ ~arbiter.set_auto
       /\ scan_timer' = TRUE
       /\ UNCHANGED <<arbiter, fetch, scan_res_handler, scan_req, scanning>>

\* EVENT_DISASSOC and EVENT_DEAUTH: wpa_supplicant_event_disassoc(), which lets
\* an authentication go on (sme_disassoc_while_authenticating), then the arbiter.
Disassociated ==
    /\ wpa_blacklist_add(IF bssid = NoBss THEN pending_bssid ELSE bssid)
    /\ bssid' = NoBss
    /\ \/ wpa_state = "AUTHENTICATING" /\ sme_timer' = TRUE
          /\ UNCHANGED <<pending_bssid, wpa_state>>
       \/ wpa_state # "AUTHENTICATING" /\ wpa_supplicant_mark_disassoc
    /\ arbiter_disconnect_occur
    /\ UNCHANGED <<table, disconnected, networks, reassociate, queries, phase,
                   told_to_wait>>

\* The access point or the driver ends the connection or an attempt.  After
\* EVENT_DISASSOC, sme_event_disassoc() deauthenticates as well.
ConnectionLost ==
    /\ Event
    /\ DriverEvent
    /\ bssid # NoBss \/ driver.op # "idle"
    /\ Disassociated
    /\ driver' \in {Idle} \cup {d \in {driver} : d.op = "auth"}
    /\ deauth_event' \in {deauth_event, TRUE}

\* The driver reports the deauthentication that the station itself sent.
OwnDeauthReported ==
    /\ phase = "running"
    /\ deauth_event
    /\ deauth_event' = FALSE
    /\ Disassociated
    /\ UNCHANGED <<driver, events>>

\* DISCONNECT: wpa_supplicant_deauthenticate() tells the driver only if there
\* is an association; an attempt goes on there.
Disconnect ==
    /\ Command("DISCONNECT")
    /\ disconnected' = TRUE
    /\ reassociate' = FALSE
    /\ deauth_event' = (deauth_event \/ bssid # NoBss)
    /\ wpa_supplicant_mark_disassoc
    /\ told_to_wait' = TRUE
    /\ UNCHANGED <<table, fetch, arbiter, scan, networks, driver, blacklist, queries,
                   phase>>

\* REASSOCIATE, and RECONNECT after DISCONNECT.
Reassociate ==
    /\ Command("REASSOCIATE")
    /\ disconnected' = FALSE
    /\ reassociate' = TRUE
    /\ scan_timer' = TRUE
    /\ told_to_wait' = FALSE
    /\ UNCHANGED <<table, fetch, arbiter, scan_res_handler, scan_req, scanning,
                   networks, attempt, blacklist, deauth_event, queries, phase>>

\* SCAN
Scan ==
    /\ Command("SCAN")
    /\ ~scanning
    /\ wpa_state \in {"DISCONNECTED", "ASSOCIATED"}
    /\ scan_req' = TRUE
    /\ scan_timer' = TRUE
    /\ UNCHANGED <<table, fetch, arbiter, scan_res_handler, scanning, disconnected,
                   networks, link, queries, phase, told_to_wait>>

\* SET_AUTO_INTERWORKING_SELECT, which costs no event.
arbiter_set_auto(set) ==
    /\ phase = "running"
    /\ "SET_AUTO" \in Commands
    /\ arbiter' = [arbiter EXCEPT !.set_auto = set]
    /\ UNCHANGED <<table, fetch, scan, disconnected, networks, link, queries, phase,
                   told_to_wait, events>>

-----------------------------------------------------------------------------
Next ==
    \/ interworking_fetch_anqp
    \/ interworking_stop_fetch_anqp
    \/ \E auto \in BOOLEAN : InterworkingSelect(auto)
    \/ \E b \in Bss : ctrl_interworking_connect(b)
    \/ \E b \in Bss : anqp_send_req(b)
    \/ \E b \in Bss : interworking_anqp_resp_cb(b)
    \/ \E b \in Bss : anqp_resp_cb(b)
    \/ wpa_supplicant_scan
    \/ ScanResultsUnavailable
    \/ \E seen \in SUBSET Bss : ScanResults(seen)
    \/ \E b \in Bss : ExpireByAge(b)
    \/ wpa_supplicant_event_assoc
    \/ sme_event_auth
    \/ sme_event_auth_timed_out
    \/ AssociationFailed
    \/ SmeTimeout
    \/ ConnectionLost
    \/ OwnDeauthReported
    \/ Disconnect
    \/ Reassociate
    \/ Scan
    \/ \E set \in BOOLEAN : arbiter_set_auto(set)

Spec == Init /\ [][Next]_vars

\* The event loop runs a timer that is due, the driver reports the end of a
\* scan and of an association attempt, and GasQuery reports every query.
Fairness ==
    /\ WF_vars(wpa_supplicant_scan)
    /\ WF_vars(ScanResultsUnavailable \/ \E seen \in SUBSET Bss : ScanResults(seen))
    /\ WF_vars(sme_event_auth \/ sme_event_auth_timed_out)
    /\ WF_vars(wpa_supplicant_event_assoc \/ AssociationFailed)
    /\ WF_vars(SmeTimeout)
    /\ WF_vars(OwnDeauthReported)
    /\ \A b \in Bss : WF_vars(interworking_anqp_resp_cb(b))

FairSpec == Spec /\ Fairness

-----------------------------------------------------------------------------
\* Types of the variables; the flags and the information belong to entries.
TypeOK ==
    /\ bss \subseteq Bss
    /\ tried \subseteq bss /\ fetched \subseteq bss
    /\ nai_realm \in [Bss -> Realm]
    /\ \A b \in Bss \ bss : nai_realm[b] = "none"
    /\ fetch_anqp_in_progress \in BOOLEAN
    /\ network_select \in BOOLEAN
    /\ auto_select \in BOOLEAN
    /\ arbiter \in [state : {"IDLE", "QUERYING"}, set_auto : BOOLEAN]
    /\ scan_res_handler \in BOOLEAN /\ scan_timer \in BOOLEAN
    /\ scan_req \in BOOLEAN /\ scanning \in BOOLEAN
    /\ disconnected \in BOOLEAN
    /\ networks \subseteq Bss
    /\ bssid \in Bss \cup {NoBss} /\ pending_bssid \in Bss \cup {NoBss}
    /\ wpa_state \in {"DISCONNECTED", "AUTHENTICATING", "ASSOCIATING", "ASSOCIATED"}
    /\ sme_timer \in BOOLEAN
    /\ driver \in [op : {"idle", "auth", "assoc"}, ap : Bss \cup {NoBss}]
    /\ driver.op # "idle" => driver.ap \in Bss
    /\ reassociate \in BOOLEAN
    /\ blacklist \in [Bss -> 0 .. 2]
    /\ deauth_event \in BOOLEAN
    /\ fetches \in [Bss -> Nat] /\ gets \in [Bss -> Nat]
    /\ \A b \in Bss : fetches[b] + gets[b] <= TokenLimit
    /\ phase \in {"running", "crashed"}
    /\ told_to_wait \in BOOLEAN
    /\ events \in Nat

\* A selection is in one phase at a time: interworking_select() waits for its
\* scan with no fetch running, then the fetch runs; the arbiter is querying
\* only during a selection.  Only STOP_FETCH_ANQP can leave a selection that
\* is in neither phase, because it does not reset network_select.
OnePhase ==
    /\ scan_res_handler => network_select /\ ~fetch_anqp_in_progress
    /\ arbiter.state = "QUERYING" => network_select
    /\ "STOP_FETCH_ANQP" \notin Commands =>
           (network_select => scan_res_handler \/ fetch_anqp_in_progress)

\* The station uses one access point or tries to reach one, never both; the
\* state says ASSOCIATED only of the former.
OneConnection ==
    /\ bssid # NoBss => pending_bssid = NoBss /\ driver.op = "idle"
    /\ wpa_state = "ASSOCIATED" => bssid # NoBss

Attempting == wpa_state \in {"AUTHENTICATING", "ASSOCIATING"}

\* The timers of SME belong to the attempt under way: none is left to strike a
\* connection or a later attempt down.
TimerOfAttempt == sme_timer => Attempting /\ pending_bssid # NoBss

\* An attempt that wpa_supplicant_connect() will not repeat has a timer that
\* ends it, provided that the driver takes every request and no access point
\* rejects an authentication.
AttemptWatched ==
    Faults \cap {"driver", "reject"} = {} => (Attempting => sme_timer)

\* A fetch goes on only from the report of one of its queries, so that one is
\* always open, provided that sending does not fail and the dialog tokens are
\* not used up by ANQP_GET.
FetchHasQuery ==
    "send" \notin Faults /\ "ANQP_GET" \notin Commands =>
        (fetch_anqp_in_progress => \E b \in Bss : fetches[b] > 0)

Selecting == network_select /\ ~network_select'

\* When interworking_select_network() chooses, every Interworking access point
\* in the table has its information or was asked for it.
AskedBeforeSelecting ==
    [][Selecting => bss' \cap Capable \subseteq fetched' \cup tried']_vars

\* The network that a selection adds passed the credential check and all of
\* the filters, with the information that is in the table at that moment.
SelectedSuitable ==
    [][Selecting => \A b \in networks' \ networks :
           /\ b \in bss' /\ nai_realm'[b] = "home"
           /\ b \in FreePublic /\ b \in Internet]_vars

\* The arbiter's roaming after a disconnection leads to a new association.
RoamingReconnects ==
    (arbiter.state = "QUERYING") ~> (bssid # NoBss \/ phase = "crashed")

\* After the command DISCONNECT (wpa_supplicant_ctrl_iface_process()) the client
\* stays disconnected until the user commands it to connect, as the help of
\* wpa_cli says (wpa_cli.c:3045).
DisconnectHonoured == told_to_wait => disconnected
=============================================================================
