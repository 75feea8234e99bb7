------------------------- MODULE InterworkingProofs -------------------------
(***************************************************************************)
(* Safety of network selection for every set of access points, commands    *)
(* and faults, and for every number of dialog tokens and events.           *)
(***************************************************************************)
EXTENDS Interworking, TLAPS

\* Queries of ANQP_GET exist only where the command is used.
GetsAreCommands == "ANQP_GET" \notin Commands => \A b \in Bss : gets[b] = 0

\* The inductive invariant.  FetchHasQuery is not inductive alone: a refused
\* query of the fetch shows that another one is open only if the tokens are
\* not held by ANQP_GET, and the bound on the tokens is part of TypeOK.
Inv ==
    /\ TypeOK
    /\ OnePhase
    /\ FetchHasQuery
    /\ GetsAreCommands

-----------------------------------------------------------------------------
\* What a call of interworking_connect() may change.
Connected ==
    /\ networks' \subseteq Bss
    /\ disconnected' \in BOOLEAN
    /\ reassociate' \in BOOLEAN
    /\ scan_timer' \in BOOLEAN

\* Networks that a selection adds are suitable.
Suitable ==
    \A b \in networks' \ networks :
        /\ b \in bss' /\ nai_realm'[b] = "home"
        /\ b \in FreePublic /\ b \in Internet

\* What interworking_select_network() and all it calls leave behind.
LEMMA SelectNetwork ==
    ASSUME TypeOK, bss' \subseteq Bss, interworking_select_network(nai_realm')
    PROVE  /\ ~network_select'
           /\ arbiter' = [arbiter EXCEPT !.state = "IDLE"]
           /\ Connected
           /\ Suitable
<1> DEFINE found == IF auto_select THEN Credentials(nai_realm') ELSE {}
<1>1. PICK candidates \in IF "memory" \in Faults THEN SUBSET found ELSE {found} :
          ConnectToOne(Filtered(candidates), nai_realm')
  BY DEF interworking_select_network
<1>2. candidates \subseteq bss' /\ \A b \in candidates : nai_realm'[b] = "home"
  BY <1>1 DEF Credentials
<1>3. CASE Filtered(candidates) = {} /\ UNCHANGED <<networks, disconnected, reassociate, scan_timer>>
  BY <1>3 DEF TypeOK, interworking_select_network, Connected, Suitable
<1>4. CASE \E b \in Filtered(candidates) : interworking_connect(b, nai_realm')
  <2>1. PICK b \in Filtered(candidates) : interworking_connect(b, nai_realm')
    BY <1>4
  <2>2. b \in bss' /\ nai_realm'[b] = "home" /\ b \in FreePublic /\ b \in Internet
    BY <1>2, <2>1 DEF Filtered
  <2>3. Connected /\ Suitable
    BY <2>1, <2>2 DEF TypeOK, interworking_connect, Connected, Suitable
  <2> QED BY <2>3 DEF interworking_select_network
<1> QED BY <1>1, <1>3, <1>4 DEF ConnectToOne

-----------------------------------------------------------------------------
\* A step of the fetch, for the flags t and the open queries n it starts from:
\* flags stay with entries and tokens within their bound, a fetch that goes on
\* has a query, and a fetch that ends has asked everybody before it selects.
FetchStep(t) ==
    /\ tried' \subseteq t \cup bss'
    /\ fetches' \in [Bss -> Nat]
    /\ \A b \in Bss : fetches'[b] + gets[b] <= TokenLimit
    /\ fetch_anqp_in_progress' \in BOOLEAN
    /\ network_select' \in BOOLEAN
    /\ \/ arbiter' = arbiter /\ network_select' = network_select
       \/ arbiter' = [arbiter EXCEPT !.state = "IDLE"] /\ ~network_select'
    /\ Connected
    /\ fetch_anqp_in_progress' /\ "send" \notin Faults /\ "ANQP_GET" \notin Commands =>
           \E b \in Bss : fetches'[b] > 0
    /\ network_select' => network_select
    /\ Selecting => bss' \cap Capable \subseteq fetched' \cup tried'
    /\ Selecting => Suitable

\* interworking_next_anqp_fetch() makes such a step.
LEMMA FetchGoesOn ==
    ASSUME Inv, bss' \subseteq Bss, NEW t,
           NEW n \in [Bss -> Nat], \A b \in Bss : n[b] + gets[b] <= TokenLimit,
           NextFetch(t, n)
    PROVE  /\ FetchStep(t)
           /\ network_select' => fetch_anqp_in_progress'
<1>1. ASSUME NEW b \in Untried(t, fetched'),
             tried' = t \cup {b},
             interworking_anqp_send_req(b, n),
             fetch_anqp_in_progress' = TRUE,
             UNCHANGED <<network_select, arbiter, networks, disconnected, reassociate,
                         scan_timer>>
      PROVE  /\ FetchStep(t)
             /\ network_select' => fetch_anqp_in_progress'
  <2>1. b \in bss' /\ b \in Bss
    BY <1>1 DEF Untried
  <2>2. gets[b] \in Nat /\ n[b] \in Nat /\ TokenLimit \in Nat \ {0}
    BY <2>1, LimitAssumption DEF Inv, TypeOK
  <2>3. /\ fetches' \in [Bss -> Nat]
        /\ \A c \in Bss : fetches'[c] + gets[c] <= TokenLimit
    BY <1>1, <2>1, <2>2 DEF interworking_anqp_send_req, Inv, TypeOK
  <2>4. "send" \notin Faults /\ "ANQP_GET" \notin Commands => fetches'[b] > 0
    BY <1>1, <2>1, <2>2 DEF interworking_anqp_send_req, Inv, GetsAreCommands
  <2>5. ~Selecting /\ Connected
    BY <1>1 DEF Selecting, Connected, Inv, TypeOK
  <2> QED BY <1>1, <2>1, <2>3, <2>4, <2>5 DEF FetchStep, Inv, TypeOK
<1>2. ASSUME Untried(t, fetched') = {},
             tried' = t,
             fetches' = n,
             fetch_anqp_in_progress' = FALSE,
             network_select /\ interworking_select_network(nai_realm')
      PROVE  /\ FetchStep(t)
             /\ network_select' => fetch_anqp_in_progress'
  <2>1. /\ ~network_select'
        /\ arbiter' = [arbiter EXCEPT !.state = "IDLE"]
        /\ Connected
        /\ Suitable
    BY <1>2, SelectNetwork DEF Inv
  <2>2. bss' \cap Capable \subseteq fetched' \cup tried'
    BY <1>2 DEF Untried
  <2>3. network_select' \in BOOLEAN
    BY <1>2 DEF interworking_select_network
  <2> QED BY <1>2, <2>1, <2>2, <2>3 DEF FetchStep
<1>3. ASSUME tried' = t,
             fetches' = n,
             fetch_anqp_in_progress' = FALSE,
             ~network_select,
             UNCHANGED <<network_select, arbiter, networks, disconnected, reassociate,
                         scan_timer>>
      PROVE  /\ FetchStep(t)
             /\ network_select' => fetch_anqp_in_progress'
  BY <1>3 DEF FetchStep, Selecting, Connected, Inv, TypeOK
<1> QED BY <1>1, <1>2, <1>3 DEF NextFetch

-----------------------------------------------------------------------------
\* The invariant holds initially.
LEMMA Initially == Init => Inv
<1> SUFFICES ASSUME Init PROVE Inv
  OBVIOUS
<1>1. TypeOK
  <2>1. networks \subseteq Bss
    BY ApAssumption DEF Init
  <2>2. /\ arbiter \in [state : {"IDLE", "QUERYING"}, set_auto : BOOLEAN]
        /\ nai_realm \in [Bss -> Realm] /\ blacklist \in [Bss -> 0 .. 2]
        /\ fetches \in [Bss -> Nat] /\ gets \in [Bss -> Nat]
    BY DEF Init, Realm
  <2>3. \A b \in Bss : nai_realm[b] = "none" /\ fetches[b] + gets[b] <= TokenLimit
    BY LimitAssumption DEF Init
  <2> QED BY <2>1, <2>2, <2>3, ApAssumption, LimitAssumption DEF Init, Idle, TypeOK
<1>2. OnePhase
  BY DEF Init, OnePhase
<1>3. FetchHasQuery /\ GetsAreCommands
  BY DEF Init, FetchHasQuery, GetsAreCommands
<1> QED BY <1>1, <1>2, <1>3 DEF Inv

\* The table after a step.
TableOK ==
    /\ bss \subseteq Bss
    /\ fetched \subseteq bss
    /\ nai_realm \in [Bss -> Realm]
    /\ \A b \in Bss \ bss : nai_realm[b] = "none"

\* The other parts of the type invariant.
LinkOK ==
    /\ bssid \in Bss \cup {NoBss} /\ pending_bssid \in Bss \cup {NoBss}
    /\ wpa_state \in {"DISCONNECTED", "AUTHENTICATING", "ASSOCIATING", "ASSOCIATED"}
    /\ sme_timer \in BOOLEAN
    /\ driver \in [op : {"idle", "auth", "assoc"}, ap : Bss \cup {NoBss}]
    /\ driver.op # "idle" => driver.ap \in Bss
    /\ blacklist \in [Bss -> 0 .. 2]

QueriesOK ==
    /\ fetches \in [Bss -> Nat] /\ gets \in [Bss -> Nat]
    /\ \A b \in Bss : fetches[b] + gets[b] <= TokenLimit

ControlOK ==
    /\ fetch_anqp_in_progress \in BOOLEAN
    /\ network_select \in BOOLEAN
    /\ auto_select \in BOOLEAN
    /\ arbiter \in [state : {"IDLE", "QUERYING"}, set_auto : BOOLEAN]
    /\ scan_res_handler \in BOOLEAN /\ scan_timer \in BOOLEAN
    /\ scan_req \in BOOLEAN /\ scanning \in BOOLEAN
    /\ disconnected \in BOOLEAN /\ reassociate \in BOOLEAN
    /\ networks \subseteq Bss
    /\ deauth_event \in BOOLEAN
    /\ phase \in {"running", "crashed"}
    /\ told_to_wait \in BOOLEAN

\* A step of the fetch inside an action keeps the invariant.
LEMMA FetchStepKeepsInv ==
    ASSUME Inv, NEW t, t \subseteq bss', TableOK', FetchStep(t),
           UNCHANGED <<auto_select, scan_req, deauth_event, gets, told_to_wait>>,
           scanning' \in BOOLEAN, scan_res_handler' \in BOOLEAN, events' \in Nat,
           UNCHANGED <<attempt, blacklist>>,
           phase' \in {"running", "crashed"},
           scan_res_handler' => network_select' /\ ~fetch_anqp_in_progress',
           "STOP_FETCH_ANQP" \notin Commands =>
               (network_select' => scan_res_handler' \/ fetch_anqp_in_progress')
    PROVE  Inv'
<1>1. tried' \subseteq bss'
  BY DEF FetchStep
<1>2. arbiter' \in [state : {"IDLE", "QUERYING"}, set_auto : BOOLEAN]
  BY DEF FetchStep, Inv, TypeOK
<1>3. TypeOK'
  BY <1>1, <1>2 DEF FetchStep, TableOK, Connected, Inv, TypeOK, attempt
<1>4. arbiter'.state = "QUERYING" => network_select'
  BY DEF FetchStep, Inv, TypeOK, OnePhase
<1>5. OnePhase'
  BY <1>4 DEF OnePhase
<1>6. FetchHasQuery'
  BY DEF FetchStep, FetchHasQuery
<1>7. GetsAreCommands'
  BY DEF Inv, GetsAreCommands
<1> QED BY <1>3, <1>5, <1>6, <1>7 DEF Inv

\* An open query less, or one more within the tokens, keeps their bound.
LEMMA QueryCount ==
    ASSUME NEW f \in [Bss -> Nat], NEW g \in [Bss -> Nat], NEW b \in Bss,
           \A c \in Bss : f[c] + g[c] <= TokenLimit
    PROVE  /\ f[b] > 0 => /\ [f EXCEPT ![b] = @ - 1] \in [Bss -> Nat]
                          /\ \A c \in Bss : [f EXCEPT ![b] = @ - 1][c] + g[c] <= TokenLimit
           /\ f[b] + g[b] < TokenLimit =>
                 /\ [f EXCEPT ![b] = @ + 1] \in [Bss -> Nat]
                 /\ \A c \in Bss : [f EXCEPT ![b] = @ + 1][c] + g[c] <= TokenLimit
<1>1. TokenLimit \in Nat /\ \A c \in Bss : f[c] \in Nat /\ g[c] \in Nat
  BY LimitAssumption
<1>2. ASSUME f[b] > 0
      PROVE  /\ [f EXCEPT ![b] = @ - 1] \in [Bss -> Nat]
             /\ \A c \in Bss : [f EXCEPT ![b] = @ - 1][c] + g[c] <= TokenLimit
  <2>1. f[b] - 1 \in Nat
    BY <1>1, <1>2
  <2>2. [f EXCEPT ![b] = @ - 1] \in [Bss -> Nat]
    BY <2>1
  <2>3. ASSUME NEW c \in Bss
        PROVE  [f EXCEPT ![b] = @ - 1][c] + g[c] <= TokenLimit
    <3>1. CASE c = b
      BY <1>1, <3>1
    <3>2. CASE c # b
      BY <3>2
    <3> QED BY <3>1, <3>2
  <2> QED BY <2>2, <2>3
<1>3. ASSUME f[b] + g[b] < TokenLimit
      PROVE  /\ [f EXCEPT ![b] = @ + 1] \in [Bss -> Nat]
             /\ \A c \in Bss : [f EXCEPT ![b] = @ + 1][c] + g[c] <= TokenLimit
  <2>1. [f EXCEPT ![b] = @ + 1] \in [Bss -> Nat]
    BY <1>1
  <2>2. ASSUME NEW c \in Bss
        PROVE  [f EXCEPT ![b] = @ + 1][c] + g[c] <= TokenLimit
    <3>1. CASE c = b
      BY <1>1, <1>3, <3>1
    <3>2. CASE c # b
      BY <3>2
    <3> QED BY <3>1, <3>2
  <2> QED BY <2>1, <2>2
<1> QED BY <1>2, <1>3

\* The table update of a scan or of an expiry keeps information with entries.
LEMMA TableUpdateOK ==
    ASSUME TypeOK, NEW seen \in SUBSET Bss, NEW gone \in SUBSET Bss,
           TableUpdate(seen, gone), gone \cap seen = {}
    PROVE  TableOK' /\ bss \ gone \subseteq bss'
<1>1. bss' \subseteq Bss /\ fetched' \subseteq bss'
  BY DEF TypeOK, TableUpdate
<1>2. nai_realm' \in [Bss -> Realm]
  BY DEF TypeOK, TableUpdate, Realm
<1>3. \A b \in Bss \ bss' : nai_realm'[b] = "none"
  BY DEF TypeOK, TableUpdate
<1>4. bss \ gone \subseteq bss'
  BY DEF TableUpdate
<1> QED BY <1>1, <1>2, <1>3, <1>4 DEF TableOK

\* Steps that leave the selection alone keep what is known of it.
LEMMA Elsewhere ==
    ASSUME Inv, LinkOK', UNCHANGED <<table, fetch, arbiter, scan_res_handler, networks, queries>>,
           scan_timer' \in BOOLEAN, scan_req' \in BOOLEAN, scanning' \in BOOLEAN,
           disconnected' \in BOOLEAN, reassociate' \in BOOLEAN,
           deauth_event' \in BOOLEAN, told_to_wait' \in BOOLEAN,
           phase' \in {"running", "crashed"}, events' \in Nat
    PROVE  Inv'
<1>1. TypeOK'
  BY DEF Inv, TypeOK, LinkOK, table, fetch, queries
<1>2. OnePhase' /\ FetchHasQuery' /\ GetsAreCommands'
  BY DEF Inv, OnePhase, FetchHasQuery, GetsAreCommands, fetch, queries
<1> QED BY <1>1, <1>2 DEF Inv

\* What the driver can be asked to do.
LEMMA DriverOK ==
    ASSUME TypeOK
    PROVE  \A d \in {driver, Idle} \cup [op : {"auth", "assoc"}, ap : Bss] :
               /\ d \in [op : {"idle", "auth", "assoc"}, ap : Bss \cup {NoBss}]
               /\ d.op # "idle" => d.ap \in Bss
BY DEF TypeOK, Idle

\* The blacklist counts to two.
LEMMA BlacklistOK ==
    ASSUME TypeOK, NEW b \in Bss \cup {NoBss}, wpa_blacklist_add(b)
    PROVE  blacklist' \in [Bss -> 0 .. 2]
<1>1. CASE b = NoBss
  BY <1>1 DEF TypeOK, wpa_blacklist_add
<1>2. CASE b \in Bss
  <2>1. (IF blacklist[b] = 2 THEN 2 ELSE blacklist[b] + 1) \in 0 .. 2
    BY <1>2 DEF TypeOK
  <2> QED BY <1>2, <2>1, ApAssumption DEF TypeOK, wpa_blacklist_add
<1> QED BY <1>1, <1>2

\* What the results of an ordinary scan may start.
LEMMA ScanConnects ==
    ASSUME TypeOK, NEW seen \in SUBSET Bss, ConnectToSeen(seen)
    PROVE  LinkOK' /\ scan_timer' \in BOOLEAN /\ reassociate' \in BOOLEAN
<1>1. ASSUME NEW b \in Bss, pick_network(seen, b), wpa_supplicant_connect(b)
      PROVE  LinkOK' /\ scan_timer' \in BOOLEAN /\ reassociate' \in BOOLEAN
  <2>1. blacklist' = blacklist \/ blacklist' = [c \in Bss |-> 0]
    BY <1>1, Zenon DEF pick_network
  <2>2. blacklist' \in [Bss -> 0 .. 2]
    BY <2>1 DEF TypeOK
  <2>3. CASE sme_authenticate(b)
    <3>1. driver' \in {driver, Idle} \cup [op : {"auth", "assoc"}, ap : Bss]
      BY <2>3 DEF sme_authenticate
    <3> QED BY <2>2, <2>3, <3>1, DriverOK DEF sme_authenticate, TypeOK, LinkOK
  <2>4. CASE UNCHANGED <<attempt, reassociate, scan_timer>>
    BY <2>2, <2>4 DEF attempt, TypeOK, LinkOK
  <2> QED BY <1>1, <2>3, <2>4 DEF wpa_supplicant_connect
<1>2. ASSUME /\ wpa_state' = "DISCONNECTED"
             /\ sme_timer' = FALSE
             /\ UNCHANGED <<scan_timer, bssid, pending_bssid, driver, reassociate, blacklist>>
      PROVE  LinkOK' /\ scan_timer' \in BOOLEAN /\ reassociate' \in BOOLEAN
  BY <1>2 DEF TypeOK, LinkOK
<1>3. ASSUME /\ scan_timer' = (scan_timer \/ networks # {})
             /\ blacklist' = [b \in Bss |-> 0]
             /\ UNCHANGED <<attempt, reassociate>>
      PROVE  LinkOK' /\ scan_timer' \in BOOLEAN /\ reassociate' \in BOOLEAN
  <2>1. blacklist' \in [Bss -> 0 .. 2]
    BY <1>3
  <2> QED BY <1>3, <2>1 DEF attempt, TypeOK, LinkOK
<1> QED BY <1>1, <1>2, <1>3, Zenon DEF ConnectToSeen

\* The handlers of a failed attempt leave a well-formed link.
LEMMA FailureOK ==
    ASSUME TypeOK
    PROVE  /\ \A b \in Bss \cup {NoBss} :
                 wpas_connection_failed(b) => blacklist' \in [Bss -> 0 .. 2] /\ scan_timer' = TRUE
           /\ sme_deauth => LinkOK' /\ scan_timer' = TRUE /\ deauth_event' \in BOOLEAN
<1>1. ASSUME NEW b \in Bss \cup {NoBss}, wpas_connection_failed(b)
      PROVE  blacklist' \in [Bss -> 0 .. 2] /\ scan_timer' = TRUE
  BY <1>1, BlacklistOK DEF wpas_connection_failed
<1>2. ASSUME sme_deauth
      PROVE  LinkOK' /\ scan_timer' = TRUE /\ deauth_event' \in BOOLEAN
  <2>1. pending_bssid \in Bss \cup {NoBss}
    BY DEF TypeOK
  <2>2. blacklist' \in [Bss -> 0 .. 2] /\ scan_timer' = TRUE
    BY <1>1, <1>2, <2>1 DEF sme_deauth
  <2> QED BY <1>2, <2>2, DriverOK DEF sme_deauth, wpa_supplicant_mark_disassoc, LinkOK,
                                      TypeOK
<1> QED BY <1>1, <1>2

\* So does the handler of a lost connection, which may start a selection.
LEMMA DisassociatedOK ==
    ASSUME TypeOK, Disassociated,
           driver' \in {driver, Idle}
    PROVE  LinkOK'
<1>1. (IF bssid = NoBss THEN pending_bssid ELSE bssid) \in Bss \cup {NoBss}
  BY DEF TypeOK
<1>2. blacklist' \in [Bss -> 0 .. 2]
  BY <1>1, BlacklistOK DEF Disassociated
<1> QED BY <1>2, DriverOK DEF Disassociated, wpa_supplicant_mark_disassoc, LinkOK, TypeOK

\* Every step keeps the invariant.
LEMMA StepKeepsInv == Inv /\ [Next]_vars => Inv'
<1> SUFFICES ASSUME Inv, [Next]_vars PROVE Inv'
  OBVIOUS
<1> USE DEF Inv
<1>1. CASE interworking_fetch_anqp
  <2>1. \A b \in Bss : fetches[b] \in Nat /\ fetches[b] + gets[b] <= TokenLimit
    BY DEF TypeOK
  <2>2. bss' \subseteq Bss /\ TableOK' /\ events' \in Nat
    BY <1>1 DEF interworking_fetch_anqp, TypeOK, TableOK, Command, Event
  <2>3. FetchStep({}) /\ (network_select' => fetch_anqp_in_progress')
    BY <1>1, <2>1, <2>2, FetchGoesOn
       DEF interworking_fetch_anqp, interworking_start_fetch_anqp, TypeOK
  <2>4. /\ UNCHANGED <<auto_select, scan_req, deauth_event, gets, told_to_wait>>
        /\ UNCHANGED <<scanning, scan_res_handler, attempt, blacklist, phase>>
    BY <1>1 DEF interworking_fetch_anqp
  <2>5. ~scan_res_handler'
    BY <1>1, <2>4 DEF interworking_fetch_anqp, OnePhase
  <2>6. scanning' \in BOOLEAN /\ scan_res_handler' \in BOOLEAN
        /\ phase' \in {"running", "crashed"}
    BY <2>4 DEF TypeOK
  <2> QED BY <2>2, <2>3, <2>4, <2>5, <2>6, FetchStepKeepsInv
<1>2. CASE \E b \in Bss : interworking_anqp_resp_cb(b)
  <2>1. PICK b \in Bss : interworking_anqp_resp_cb(b)
    BY <1>2
  <2> DEFINE n == [fetches EXCEPT ![b] = @ - 1]
  <2>2. /\ UNCHANGED <<auto_select, scan_req, deauth_event, gets, told_to_wait>>
        /\ UNCHANGED <<scanning, scan_res_handler, attempt, blacklist, events>>
    BY <2>1 DEF interworking_anqp_resp_cb
  <2>3. scanning' \in BOOLEAN /\ scan_res_handler' \in BOOLEAN /\ events' \in Nat
    BY <2>2 DEF TypeOK
  <2>4. n \in [Bss -> Nat] /\ \A c \in Bss : n[c] + gets[c] <= TokenLimit
    <3>1. fetches[b] \in Nat /\ fetches[b] > 0
      BY <2>1 DEF interworking_anqp_resp_cb, TypeOK
    <3>2. gets \in [Bss -> Nat] /\ fetches \in [Bss -> Nat]
          /\ \A c \in Bss : fetches[c] + gets[c] <= TokenLimit
      BY DEF TypeOK
    <3> QED BY <3>1, <3>2, QueryCount
  <2> HIDE DEF n
  <2>5. ASSUME interworking_next_anqp_fetch(tried, n), UNCHANGED <<bss, phase>>, TableOK'
        PROVE  Inv'
    <3>1. bss' \subseteq Bss /\ tried \subseteq bss' /\ phase' \in {"running", "crashed"}
      BY <2>5 DEF TypeOK
    <3>2. CASE fetch_anqp_in_progress /\ NextFetch(tried, n)
      <4>1. FetchStep(tried) /\ (network_select' => fetch_anqp_in_progress')
        BY <2>4, <3>1, <3>2, FetchGoesOn
      <4>2. ~scan_res_handler'
        BY <2>2, <3>2 DEF OnePhase
      <4> QED BY <2>2, <2>3, <2>5, <3>1, <4>1, <4>2, FetchStepKeepsInv
    <3>3. CASE ~fetch_anqp_in_progress
      <4>1. /\ tried' = tried /\ fetches' = n
            /\ UNCHANGED <<fetch_anqp_in_progress, network_select, arbiter, networks,
                           disconnected, reassociate, scan_timer>>
        BY <2>5, <3>3 DEF interworking_next_anqp_fetch
      <4>2. FetchStep(tried)
        BY <2>4, <3>3, <4>1 DEF FetchStep, Connected, Selecting, TypeOK
      <4>3. /\ scan_res_handler' => network_select' /\ ~fetch_anqp_in_progress'
            /\ "STOP_FETCH_ANQP" \notin Commands =>
                   (network_select' => scan_res_handler' \/ fetch_anqp_in_progress')
        BY <2>2, <4>1 DEF OnePhase
      <4> QED BY <2>2, <2>3, <2>5, <3>1, <4>2, <4>3, FetchStepKeepsInv
    <3> QED BY <2>5, <3>2, <3>3 DEF interworking_next_anqp_fetch
  <2>6. CASE b \in bss /\ (\E element \in Element : Answered(b, element))
             /\ UNCHANGED <<bss, phase>>
             /\ interworking_next_anqp_fetch(tried, n)
    <3>1. TableOK'
      BY <2>6 DEF TypeOK, TableOK, Answered, Element
    <3> QED BY <2>5, <2>6, <3>1
  <2>7. CASE Unanswered /\ UNCHANGED <<bss, phase>>
             /\ interworking_next_anqp_fetch(tried, n)
    <3>1. TableOK'
      BY <2>7 DEF TypeOK, TableOK, Unanswered
    <3> QED BY <2>5, <2>7, <3>1
  <2>8. CASE NullEntry /\ UNCHANGED <<table, fetch_anqp_in_progress, network_select, arbiter,
                                      disconnected, networks, reassociate, scan_timer,
                                      fetches>>
    <3>1. TypeOK'
      BY <2>2, <2>8 DEF TypeOK, NullEntry, table, attempt
    <3>2. OnePhase' /\ FetchHasQuery' /\ GetsAreCommands'
      BY <2>2, <2>8 DEF OnePhase, FetchHasQuery, GetsAreCommands
    <3> QED BY <3>1, <3>2
  <2>9. {"home"} \subseteq Element
    BY DEF Element, Realm
  <2> QED BY <2>1, <2>6, <2>7, <2>8, <2>9 DEF interworking_anqp_resp_cb, n
<1>3. CASE \E seen \in SUBSET Bss : ScanResults(seen)
  <2>1. PICK seen \in SUBSET Bss : ScanResults(seen)
    BY <1>3
  <2>2. PICK gone \in SUBSET (bss \ (seen \cup Kept)) : TableUpdate(seen, gone)
    BY <2>1 DEF ScanResults
  <2>3. TableOK' /\ bss' \subseteq Bss
    BY <2>2, TableUpdateOK DEF TypeOK, TableOK
  <2>4. /\ UNCHANGED <<auto_select, scan_req, deauth_event, gets, phase, told_to_wait, events>>
        /\ scanning' = FALSE
    BY <2>1 DEF ScanResults
  <2>5. CASE /\ scan_res_handler
             /\ scan_res_handler' = FALSE
             /\ interworking_start_fetch_anqp
             /\ UNCHANGED <<attempt, blacklist>>
    <3>1. fetches \in [Bss -> Nat] /\ \A b \in Bss : fetches[b] + gets[b] <= TokenLimit
      BY DEF TypeOK
    <3>2. FetchStep({}) /\ (network_select' => fetch_anqp_in_progress')
      BY <2>3, <2>5, <3>1, FetchGoesOn DEF interworking_start_fetch_anqp
    <3>3. phase' \in {"running", "crashed"} /\ events' \in Nat
      BY <2>4 DEF TypeOK
    <3> QED BY <2>3, <2>4, <2>5, <3>2, <3>3, FetchStepKeepsInv
  <2>6. CASE /\ tried' = (tried \cap bss') \ seen
             /\ ConnectToSeen(seen)
             /\ UNCHANGED <<scan_res_handler, fetch_anqp_in_progress, network_select,
                            arbiter, networks, disconnected, fetches>>
    <3>1. LinkOK' /\ scan_timer' \in BOOLEAN /\ reassociate' \in BOOLEAN
      BY <2>6, ScanConnects
    <3>2. TypeOK'
      <4>1. tried' \subseteq bss' /\ QueriesOK' /\ ControlOK'
        BY <2>4, <2>6, <3>1 DEF TypeOK, QueriesOK, ControlOK
      <4>2. events' \in Nat
        BY <2>4 DEF TypeOK
      <4> QED BY <2>3, <3>1, <4>1, <4>2 DEF TypeOK, TableOK, LinkOK, QueriesOK, ControlOK
    <3>3. OnePhase' /\ FetchHasQuery' /\ GetsAreCommands'
      BY <2>4, <2>6 DEF OnePhase, FetchHasQuery, GetsAreCommands
    <3> QED BY <3>2, <3>3
  <2> QED BY <2>1, <2>5, <2>6 DEF ScanResults
<1>4. CASE interworking_stop_fetch_anqp
  <2>1. TableOK' /\ tried' \subseteq bss'
    BY <1>4 DEF TypeOK, TableOK, interworking_stop_fetch_anqp, Command, Event, table, scan,
                attempt, link, queries
  <2>2. LinkOK'
    BY <1>4 DEF TypeOK, LinkOK, interworking_stop_fetch_anqp, Command, Event, table, scan,
                attempt, link, queries
  <2>3. QueriesOK'
    BY <1>4 DEF TypeOK, QueriesOK, interworking_stop_fetch_anqp, Command, Event, table,
                scan, attempt, link, queries
  <2>4. ControlOK'
    <3>1. /\ fetch_anqp_in_progress' = FALSE
          /\ UNCHANGED <<network_select, auto_select, arbiter, scan_res_handler, scan_timer,
                         scan_req, scanning, disconnected, networks, reassociate,
                         deauth_event, phase, told_to_wait>>
      BY <1>4 DEF interworking_stop_fetch_anqp, scan, link
    <3>2. ControlOK
      BY DEF TypeOK, ControlOK
    <3>3. fetch_anqp_in_progress' \in BOOLEAN
      BY <3>1
    <3>4. arbiter' \in [state : {"IDLE", "QUERYING"}, set_auto : BOOLEAN]
      BY <3>1, <3>2 DEF ControlOK
    <3> QED BY <3>1, <3>2, <3>3, <3>4 DEF ControlOK
  <2>5. events' \in Nat
    BY <1>4 DEF TypeOK, interworking_stop_fetch_anqp, Command, Event
  <2>6. TypeOK'
    BY <2>1, <2>2, <2>3, <2>4, <2>5 DEF TypeOK, TableOK, LinkOK, QueriesOK, ControlOK
  <2>7. OnePhase' /\ FetchHasQuery' /\ GetsAreCommands'
    BY <1>4 DEF TypeOK, OnePhase, FetchHasQuery, GetsAreCommands,
                interworking_stop_fetch_anqp, Command, Event, table, scan, attempt, link,
                queries
  <2> QED BY <2>6, <2>7
<1>5. CASE \E auto \in BOOLEAN : InterworkingSelect(auto)
  <2>1. TableOK' /\ tried' \subseteq bss'
    BY <1>5 DEF TypeOK, TableOK, InterworkingSelect, interworking_select, Command, Event,
                table, attempt, link, queries
  <2>2. LinkOK'
    BY <1>5 DEF TypeOK, LinkOK, InterworkingSelect, interworking_select, Command, Event,
                table, attempt, link, queries
  <2>3. QueriesOK'
    BY <1>5 DEF TypeOK, QueriesOK, InterworkingSelect, interworking_select, Command, Event,
                table, attempt, link, queries
  <2>4. ControlOK'
    BY <1>5 DEF TypeOK, ControlOK, InterworkingSelect, interworking_select, link
  <2>5. events' \in Nat
    BY <1>5 DEF TypeOK, InterworkingSelect, Command, Event
  <2>6. TypeOK'
    BY <2>1, <2>2, <2>3, <2>4, <2>5 DEF TypeOK, TableOK, LinkOK, QueriesOK, ControlOK
  <2>7. OnePhase' /\ FetchHasQuery' /\ GetsAreCommands'
    BY <1>5 DEF TypeOK, OnePhase, FetchHasQuery, GetsAreCommands, InterworkingSelect,
                interworking_select, Command, Event, table, attempt, link, queries
  <2> QED BY <2>6, <2>7
<1>6. CASE \E b \in Bss : ctrl_interworking_connect(b)
  <2>1. TableOK' /\ tried' \subseteq bss'
    BY <1>6 DEF TypeOK, TableOK, ctrl_interworking_connect, interworking_connect, Command,
                Event, table, fetch, attempt, queries
  <2>2. LinkOK'
    BY <1>6 DEF TypeOK, LinkOK, ctrl_interworking_connect, interworking_connect, Command,
                Event, table, fetch, attempt, queries
  <2>3. QueriesOK'
    BY <1>6 DEF TypeOK, QueriesOK, ctrl_interworking_connect, interworking_connect, Command,
                Event, table, fetch, attempt, queries
  <2>4. ControlOK'
    BY <1>6 DEF TypeOK, ControlOK, ctrl_interworking_connect, interworking_connect, fetch,
                attempt
  <2>5. events' \in Nat
    BY <1>6 DEF TypeOK, ctrl_interworking_connect, Command, Event
  <2>6. TypeOK'
    BY <2>1, <2>2, <2>3, <2>4, <2>5 DEF TypeOK, TableOK, LinkOK, QueriesOK, ControlOK
  <2>7. OnePhase' /\ FetchHasQuery' /\ GetsAreCommands'
    BY <1>6 DEF TypeOK, OnePhase, FetchHasQuery, GetsAreCommands, ctrl_interworking_connect,
                interworking_connect, Command, Event, table, fetch, attempt, queries
  <2> QED BY <2>6, <2>7
<1>7. CASE \E b \in Bss : anqp_send_req(b)
  <2>1. TableOK' /\ tried' \subseteq bss'
    BY <1>7 DEF TypeOK, TableOK, anqp_send_req, Command, Event, table, fetch, scan, attempt,
                link
  <2>2. LinkOK'
    BY <1>7 DEF TypeOK, LinkOK, anqp_send_req, Command, Event, table, fetch, scan, attempt,
                link
  <2>3. QueriesOK'
    <3>1. PICK b \in Bss : anqp_send_req(b)
      BY <1>7
    <3>2. gets \in [Bss -> Nat] /\ fetches \in [Bss -> Nat]
          /\ \A c \in Bss : gets[c] + fetches[c] <= TokenLimit
      BY DEF TypeOK
    <3>3. gets[b] + fetches[b] < TokenLimit
      BY <3>1, <3>2 DEF anqp_send_req
    <3>4. gets' \in [Bss -> Nat] /\ \A c \in Bss : gets'[c] + fetches[c] <= TokenLimit
      BY <3>1, <3>2, <3>3, QueryCount DEF anqp_send_req
    <3> QED BY <3>1, <3>2, <3>4 DEF QueriesOK, anqp_send_req
  <2>4. ControlOK'
    BY <1>7 DEF TypeOK, ControlOK, anqp_send_req, fetch, scan, link
  <2>5. events' \in Nat
    BY <1>7 DEF TypeOK, anqp_send_req, Command, Event
  <2>6. TypeOK'
    BY <2>1, <2>2, <2>3, <2>4, <2>5 DEF TypeOK, TableOK, LinkOK, QueriesOK, ControlOK
  <2>7. OnePhase' /\ FetchHasQuery' /\ GetsAreCommands'
    BY <1>7 DEF TypeOK, OnePhase, FetchHasQuery, GetsAreCommands, anqp_send_req, Command,
                Event, table, fetch, scan, attempt, link
  <2> QED BY <2>6, <2>7
<1>8. CASE \E b \in Bss : anqp_resp_cb(b)
  <2>1. TableOK' /\ tried' \subseteq bss'
    BY <1>8 DEF TypeOK, TableOK, anqp_resp_cb, Answered, Unanswered, NullEntry, Element,
                fetch, scan, attempt, link
  <2>2. LinkOK'
    BY <1>8 DEF TypeOK, LinkOK, anqp_resp_cb, Answered, Unanswered, NullEntry, Element,
                fetch, scan, attempt, link
  <2>3. QueriesOK'
    <3>1. PICK b \in Bss : anqp_resp_cb(b)
      BY <1>8
    <3>2. gets \in [Bss -> Nat] /\ fetches \in [Bss -> Nat]
          /\ \A c \in Bss : gets[c] + fetches[c] <= TokenLimit
      BY DEF TypeOK
    <3>3. gets[b] > 0
      BY <3>1, <3>2 DEF anqp_resp_cb
    <3>4. gets' \in [Bss -> Nat] /\ \A c \in Bss : gets'[c] + fetches[c] <= TokenLimit
      BY <3>1, <3>2, <3>3, QueryCount DEF anqp_resp_cb
    <3> QED BY <3>1, <3>2, <3>4 DEF QueriesOK, anqp_resp_cb
  <2>4. ControlOK'
    BY <1>8 DEF TypeOK, ControlOK, anqp_resp_cb, Answered, Unanswered, NullEntry, Element,
                fetch, scan, link
  <2>5. events' \in Nat
    BY <1>8 DEF TypeOK, anqp_resp_cb
  <2>6. TypeOK'
    BY <2>1, <2>2, <2>3, <2>4, <2>5 DEF TypeOK, TableOK, LinkOK, QueriesOK, ControlOK
  <2>7. OnePhase' /\ FetchHasQuery' /\ GetsAreCommands'
    BY <1>8 DEF TypeOK, OnePhase, FetchHasQuery, GetsAreCommands, anqp_resp_cb, Answered,
                Unanswered, NullEntry, Element, fetch, scan, attempt, link
  <2> QED BY <2>6, <2>7
<1>9. CASE \E b \in Bss : ExpireByAge(b)
  <2>1. TableOK' /\ tried' \subseteq bss'
    <3>1. PICK b \in Bss : ExpireByAge(b)
      BY <1>9
    <3>2. TableOK' /\ bss \ {b} \subseteq bss'
      BY <3>1, TableUpdateOK DEF ExpireByAge
    <3> QED BY <3>1, <3>2 DEF ExpireByAge, TypeOK
  <2>2. LinkOK'
    BY <1>9 DEF TypeOK, LinkOK, ExpireByAge, TableUpdate, fetch, scan, attempt, link,
                queries
  <2>3. QueriesOK'
    BY <1>9 DEF TypeOK, QueriesOK, ExpireByAge, TableUpdate, fetch, scan, attempt, link,
                queries
  <2>4. ControlOK'
    BY <1>9 DEF TypeOK, ControlOK, ExpireByAge, TableUpdate, fetch, scan, link
  <2>5. events' \in Nat
    BY <1>9 DEF TypeOK, ExpireByAge
  <2>6. TypeOK'
    BY <2>1, <2>2, <2>3, <2>4, <2>5 DEF TypeOK, TableOK, LinkOK, QueriesOK, ControlOK
  <2>7. OnePhase' /\ FetchHasQuery' /\ GetsAreCommands'
    BY <1>9 DEF TypeOK, OnePhase, FetchHasQuery, GetsAreCommands, ExpireByAge, TableUpdate,
                fetch, scan, attempt, link, queries
  <2> QED BY <2>6, <2>7
<1>10. CASE ConnectionLost
  <2>1. TableOK' /\ tried' \subseteq bss'
    BY <1>10 DEF TypeOK, TableOK, ConnectionLost, Disassociated, arbiter_disconnect_occur,
                 interworking_select, Event, table, fetch, queries
  <2>2. LinkOK'
    <3>1. driver' \in {driver, Idle} /\ deauth_event' \in BOOLEAN
      BY <1>10 DEF ConnectionLost, TypeOK
    <3> QED BY <1>10, <3>1, DisassociatedOK DEF ConnectionLost
  <2>3. QueriesOK'
    BY <1>10 DEF TypeOK, QueriesOK, ConnectionLost, Disassociated, arbiter_disconnect_occur,
                 interworking_select, Event, table, fetch, queries
  <2>4. ControlOK'
    BY <1>10 DEF TypeOK, ControlOK, ConnectionLost, Disassociated, arbiter_disconnect_occur,
                 interworking_select, fetch
  <2>5. events' \in Nat
    BY <1>10 DEF TypeOK, ConnectionLost, Event
  <2>6. TypeOK'
    BY <2>1, <2>2, <2>3, <2>4, <2>5 DEF TypeOK, TableOK, LinkOK, QueriesOK, ControlOK
  <2>7. OnePhase' /\ FetchHasQuery' /\ GetsAreCommands'
    BY <1>10 DEF TypeOK, OnePhase, FetchHasQuery, GetsAreCommands, ConnectionLost,
                 Disassociated, arbiter_disconnect_occur, interworking_select, Event, table,
                 fetch, queries
  <2> QED BY <2>6, <2>7
<1>11. CASE OwnDeauthReported
  <2>1. TableOK' /\ tried' \subseteq bss'
    BY <1>11 DEF TypeOK, TableOK, OwnDeauthReported, Disassociated,
                 arbiter_disconnect_occur, interworking_select, table, fetch, queries
  <2>2. LinkOK'
    <3>1. driver' \in {driver, Idle} /\ deauth_event' \in BOOLEAN
      BY <1>11 DEF OwnDeauthReported, TypeOK
    <3> QED BY <1>11, <3>1, DisassociatedOK DEF OwnDeauthReported
  <2>3. QueriesOK'
    BY <1>11 DEF TypeOK, QueriesOK, OwnDeauthReported, Disassociated,
                 arbiter_disconnect_occur, interworking_select, table, fetch, queries
  <2>4. ControlOK'
    BY <1>11 DEF TypeOK, ControlOK, OwnDeauthReported, Disassociated,
                 arbiter_disconnect_occur, interworking_select, fetch
  <2>5. events' \in Nat
    BY <1>11 DEF TypeOK, OwnDeauthReported
  <2>6. TypeOK'
    BY <2>1, <2>2, <2>3, <2>4, <2>5 DEF TypeOK, TableOK, LinkOK, QueriesOK, ControlOK
  <2>7. OnePhase' /\ FetchHasQuery' /\ GetsAreCommands'
    BY <1>11 DEF TypeOK, OnePhase, FetchHasQuery, GetsAreCommands, OwnDeauthReported,
                 Disassociated, arbiter_disconnect_occur, interworking_select, table, fetch,
                 queries
  <2> QED BY <2>6, <2>7
<1>12. CASE \E set \in BOOLEAN : arbiter_set_auto(set)
  <2>1. TableOK' /\ tried' \subseteq bss'
    BY <1>12 DEF TypeOK, TableOK, arbiter_set_auto, table, fetch, scan, attempt, link,
                 queries
  <2>2. LinkOK'
    BY <1>12 DEF TypeOK, LinkOK, arbiter_set_auto, table, fetch, scan, attempt, link,
                 queries
  <2>3. QueriesOK'
    BY <1>12 DEF TypeOK, QueriesOK, arbiter_set_auto, table, fetch, scan, attempt, link,
                 queries
  <2>4. ControlOK'
    BY <1>12 DEF TypeOK, ControlOK, arbiter_set_auto, fetch, scan, link
  <2>5. events' \in Nat
    BY <1>12 DEF TypeOK, arbiter_set_auto
  <2>6. TypeOK'
    BY <2>1, <2>2, <2>3, <2>4, <2>5 DEF TypeOK, TableOK, LinkOK, QueriesOK, ControlOK
  <2>7. OnePhase' /\ FetchHasQuery' /\ GetsAreCommands'
    BY <1>12 DEF TypeOK, OnePhase, FetchHasQuery, GetsAreCommands, arbiter_set_auto, table,
                 fetch, scan, attempt, link, queries
  <2> QED BY <2>6, <2>7
<1>13. CASE wpa_supplicant_scan
  <2>1. LinkOK' /\ scan_timer' \in BOOLEAN /\ deauth_event' \in BOOLEAN
    BY <1>13 DEF TypeOK, LinkOK, wpa_supplicant_scan
  <2>2. /\ UNCHANGED <<table, fetch, arbiter, scan_res_handler, networks, queries>>
        /\ scan_req' \in BOOLEAN /\ scanning' \in BOOLEAN
        /\ disconnected' \in BOOLEAN /\ reassociate' \in BOOLEAN
        /\ told_to_wait' \in BOOLEAN /\ phase' \in {"running", "crashed"}
    BY <1>13 DEF TypeOK, wpa_supplicant_scan
  <2>3. events' \in Nat
    BY <1>13 DEF TypeOK, wpa_supplicant_scan
  <2> QED BY <2>1, <2>2, <2>3, Elsewhere
<1>14. CASE ScanResultsUnavailable
  <2>1. LinkOK' /\ scan_timer' \in BOOLEAN /\ deauth_event' \in BOOLEAN
    BY <1>14 DEF TypeOK, LinkOK, ScanResultsUnavailable, attempt, link
  <2>2. /\ UNCHANGED <<table, fetch, arbiter, scan_res_handler, networks, queries>>
        /\ scan_req' \in BOOLEAN /\ scanning' \in BOOLEAN
        /\ disconnected' \in BOOLEAN /\ reassociate' \in BOOLEAN
        /\ told_to_wait' \in BOOLEAN /\ phase' \in {"running", "crashed"}
    BY <1>14 DEF TypeOK, ScanResultsUnavailable, attempt, link
  <2>3. events' \in Nat
    BY <1>14 DEF TypeOK, ScanResultsUnavailable
  <2> QED BY <2>1, <2>2, <2>3, Elsewhere
<1>15. CASE wpa_supplicant_event_assoc
  <2>1. LinkOK' /\ scan_timer' \in BOOLEAN /\ deauth_event' \in BOOLEAN
    <3>1. driver.ap \in Bss
      BY <1>15 DEF wpa_supplicant_event_assoc, TypeOK
    <3>2. blacklist' \in [Bss -> 0 .. 2]
      BY <1>15, <3>1 DEF wpa_supplicant_event_assoc, TypeOK
    <3> QED BY <1>15, <3>1, <3>2, DriverOK DEF wpa_supplicant_event_assoc, LinkOK, TypeOK
  <2>2. /\ UNCHANGED <<table, fetch, arbiter, scan_res_handler, networks, queries>>
        /\ scan_req' \in BOOLEAN /\ scanning' \in BOOLEAN
        /\ disconnected' \in BOOLEAN /\ reassociate' \in BOOLEAN
        /\ told_to_wait' \in BOOLEAN /\ phase' \in {"running", "crashed"}
    BY <1>15 DEF TypeOK, wpa_supplicant_event_assoc
  <2>3. events' \in Nat
    BY <1>15 DEF TypeOK, wpa_supplicant_event_assoc
  <2> QED BY <2>1, <2>2, <2>3, Elsewhere
<1>16. CASE sme_event_auth
  <2>1. LinkOK' /\ scan_timer' \in BOOLEAN /\ deauth_event' \in BOOLEAN
    <3>1. pending_bssid \in Bss \cup {NoBss} /\ driver.ap \in Bss
      BY <1>16 DEF sme_event_auth, TypeOK
    <3>2. driver' \in {Idle} \cup [op : {"auth", "assoc"}, ap : Bss]
      BY <1>16, <3>1 DEF sme_event_auth, sme_associate
    <3>3. blacklist' \in [Bss -> 0 .. 2] /\ scan_timer' \in BOOLEAN
      <4>1. CASE wpas_connection_failed(pending_bssid)
        BY <3>1, <4>1, FailureOK
      <4>2. CASE UNCHANGED <<blacklist, scan_timer>>
        BY <4>2 DEF TypeOK
      <4> QED BY <1>16, <4>1, <4>2 DEF sme_event_auth, sme_associate
    <3>4. /\ UNCHANGED <<bssid, deauth_event>> /\ sme_timer' \in BOOLEAN
          /\ pending_bssid' \in {pending_bssid, NoBss} /\ wpa_state' \in {wpa_state, "ASSOCIATING"}
      BY <1>16 DEF sme_event_auth, sme_associate, TypeOK
    <3> QED BY <3>1, <3>2, <3>3, <3>4, DriverOK DEF LinkOK, TypeOK
  <2>2. /\ UNCHANGED <<table, fetch, arbiter, scan_res_handler, networks, queries>>
        /\ scan_req' \in BOOLEAN /\ scanning' \in BOOLEAN
        /\ disconnected' \in BOOLEAN /\ reassociate' \in BOOLEAN
        /\ told_to_wait' \in BOOLEAN /\ phase' \in {"running", "crashed"}
    BY <1>16 DEF TypeOK, sme_event_auth
  <2>3. events' \in Nat
    BY <1>16 DEF TypeOK, sme_event_auth
  <2> QED BY <2>1, <2>2, <2>3, Elsewhere
<1>17. CASE sme_event_auth_timed_out
  <2>1. LinkOK' /\ scan_timer' \in BOOLEAN /\ deauth_event' \in BOOLEAN
    <3>1. pending_bssid \in Bss \cup {NoBss}
      BY DEF TypeOK
    <3>2. blacklist' \in [Bss -> 0 .. 2] /\ scan_timer' = TRUE
      BY <1>17, <3>1, FailureOK DEF sme_event_auth_timed_out
    <3> QED BY <1>17, <3>2, DriverOK DEF sme_event_auth_timed_out, LinkOK, TypeOK
  <2>2. /\ UNCHANGED <<table, fetch, arbiter, scan_res_handler, networks, queries>>
        /\ scan_req' \in BOOLEAN /\ scanning' \in BOOLEAN
        /\ disconnected' \in BOOLEAN /\ reassociate' \in BOOLEAN
        /\ told_to_wait' \in BOOLEAN /\ phase' \in {"running", "crashed"}
    BY <1>17 DEF TypeOK, sme_event_auth_timed_out
  <2>3. events' \in Nat
    BY <1>17 DEF TypeOK, sme_event_auth_timed_out
  <2> QED BY <2>1, <2>2, <2>3, Elsewhere
<1>18. CASE AssociationFailed
  <2>1. LinkOK' /\ scan_timer' \in BOOLEAN /\ deauth_event' \in BOOLEAN
    <3>1. CASE sme_deauth
      BY <3>1, FailureOK
    <3>2. CASE ~sme_deauth
      <4>1. pending_bssid \in Bss \cup {NoBss}
        BY DEF TypeOK
      <4>2. blacklist' \in [Bss -> 0 .. 2] /\ scan_timer' = TRUE
        BY <1>18, <3>2, <4>1, FailureOK DEF AssociationFailed
      <4> QED BY <1>18, <3>2, <4>2, DriverOK
              DEF AssociationFailed, wpa_supplicant_mark_disassoc, LinkOK, TypeOK
    <3> QED BY <3>1, <3>2
  <2>2. /\ UNCHANGED <<table, fetch, arbiter, scan_res_handler, networks, queries>>
        /\ scan_req' \in BOOLEAN /\ scanning' \in BOOLEAN
        /\ disconnected' \in BOOLEAN /\ reassociate' \in BOOLEAN
        /\ told_to_wait' \in BOOLEAN /\ phase' \in {"running", "crashed"}
    BY <1>18 DEF TypeOK, AssociationFailed
  <2>3. events' \in Nat
    BY <1>18 DEF TypeOK, AssociationFailed
  <2> QED BY <2>1, <2>2, <2>3, Elsewhere
<1>19. CASE SmeTimeout
  <2>1. LinkOK' /\ scan_timer' \in BOOLEAN /\ deauth_event' \in BOOLEAN
    BY <1>19, FailureOK DEF SmeTimeout
  <2>2. /\ UNCHANGED <<table, fetch, arbiter, scan_res_handler, networks, queries>>
        /\ scan_req' \in BOOLEAN /\ scanning' \in BOOLEAN
        /\ disconnected' \in BOOLEAN /\ reassociate' \in BOOLEAN
        /\ told_to_wait' \in BOOLEAN /\ phase' \in {"running", "crashed"}
    BY <1>19 DEF TypeOK, SmeTimeout
  <2>3. events' \in Nat
    BY <1>19 DEF TypeOK, SmeTimeout
  <2> QED BY <2>1, <2>2, <2>3, Elsewhere
<1>20. CASE Disconnect
  <2>1. LinkOK' /\ scan_timer' \in BOOLEAN /\ deauth_event' \in BOOLEAN
    BY <1>20 DEF TypeOK, LinkOK, Disconnect, wpa_supplicant_mark_disassoc, Command, Event,
                 scan
  <2>2. /\ UNCHANGED <<table, fetch, arbiter, scan_res_handler, networks, queries>>
        /\ scan_req' \in BOOLEAN /\ scanning' \in BOOLEAN
        /\ disconnected' \in BOOLEAN /\ reassociate' \in BOOLEAN
        /\ told_to_wait' \in BOOLEAN /\ phase' \in {"running", "crashed"}
    BY <1>20 DEF TypeOK, Disconnect, wpa_supplicant_mark_disassoc, Command, scan
  <2>3. events' \in Nat
    BY <1>20 DEF TypeOK, Disconnect, Command, Event
  <2> QED BY <2>1, <2>2, <2>3, Elsewhere
<1>21. CASE Reassociate
  <2>1. LinkOK' /\ scan_timer' \in BOOLEAN /\ deauth_event' \in BOOLEAN
    BY <1>21 DEF TypeOK, LinkOK, Reassociate, Command, Event, attempt
  <2>2. /\ UNCHANGED <<table, fetch, arbiter, scan_res_handler, networks, queries>>
        /\ scan_req' \in BOOLEAN /\ scanning' \in BOOLEAN
        /\ disconnected' \in BOOLEAN /\ reassociate' \in BOOLEAN
        /\ told_to_wait' \in BOOLEAN /\ phase' \in {"running", "crashed"}
    BY <1>21 DEF TypeOK, Reassociate, Command, attempt
  <2>3. events' \in Nat
    BY <1>21 DEF TypeOK, Reassociate, Command, Event
  <2> QED BY <2>1, <2>2, <2>3, Elsewhere
<1>22. CASE Scan
  <2>1. LinkOK' /\ scan_timer' \in BOOLEAN /\ deauth_event' \in BOOLEAN
    BY <1>22 DEF TypeOK, LinkOK, Scan, Command, Event, attempt, link
  <2>2. /\ UNCHANGED <<table, fetch, arbiter, scan_res_handler, networks, queries>>
        /\ scan_req' \in BOOLEAN /\ scanning' \in BOOLEAN
        /\ disconnected' \in BOOLEAN /\ reassociate' \in BOOLEAN
        /\ told_to_wait' \in BOOLEAN /\ phase' \in {"running", "crashed"}
    BY <1>22 DEF TypeOK, Scan, Command, attempt, link
  <2>3. events' \in Nat
    BY <1>22 DEF TypeOK, Scan, Command, Event
  <2> QED BY <2>1, <2>2, <2>3, Elsewhere
<1>23. CASE UNCHANGED vars
  <2>1. LinkOK' /\ scan_timer' \in BOOLEAN /\ deauth_event' \in BOOLEAN
    BY <1>23 DEF TypeOK, LinkOK, vars, scan, attempt, link
  <2>2. /\ UNCHANGED <<table, fetch, arbiter, scan_res_handler, networks, queries>>
        /\ scan_req' \in BOOLEAN /\ scanning' \in BOOLEAN
        /\ disconnected' \in BOOLEAN /\ reassociate' \in BOOLEAN
        /\ told_to_wait' \in BOOLEAN /\ phase' \in {"running", "crashed"}
    BY <1>23 DEF TypeOK, vars, scan, attempt, link
  <2>3. events' \in Nat
    BY <1>23 DEF TypeOK, vars
  <2> QED BY <2>1, <2>2, <2>3, Elsewhere
<1> QED BY <1>1, <1>2, <1>3, <1>4, <1>5, <1>6, <1>7, <1>8, <1>9, <1>10, <1>11, <1>12,
       <1>13, <1>14, <1>15, <1>16, <1>17, <1>18, <1>19, <1>20, <1>21, <1>22, <1>23 DEF
       Next

\* A step that ends a selection is a step of a fetch that has nobody left to ask.
LEMMA SelectingStep ==
    ASSUME Inv, [Next]_vars, Selecting
    PROVE  bss' \cap Capable \subseteq fetched' \cup tried' /\ Suitable
<1>1. fetches \in [Bss -> Nat] /\ \A b \in Bss : fetches[b] + gets[b] <= TokenLimit
  BY DEF Inv, TypeOK
<1>2. CASE interworking_fetch_anqp
  <2>1. bss' \subseteq Bss
    BY <1>2 DEF interworking_fetch_anqp, Inv, TypeOK
  <2>2. FetchStep({})
    BY <1>1, <1>2, <2>1, FetchGoesOn
       DEF interworking_fetch_anqp, interworking_start_fetch_anqp
  <2> QED BY <2>2 DEF FetchStep
<1>3. CASE \E b \in Bss : interworking_anqp_resp_cb(b)
  <2>1. PICK b \in Bss : interworking_anqp_resp_cb(b)
    BY <1>3
  <2> DEFINE n == [fetches EXCEPT ![b] = @ - 1]
  <2>2. n \in [Bss -> Nat] /\ \A c \in Bss : n[c] + gets[c] <= TokenLimit
    BY <1>1, <2>1, QueryCount DEF interworking_anqp_resp_cb, Inv, TypeOK
  <2>3. /\ bss' = bss
        /\ \/ interworking_next_anqp_fetch(tried, n)
           \/ UNCHANGED network_select
    BY <2>1 DEF interworking_anqp_resp_cb, table
  <2> HIDE DEF n
  <2>4. NextFetch(tried, n) /\ bss' \subseteq Bss
    BY <2>3 DEF Selecting, interworking_next_anqp_fetch, Inv, TypeOK
  <2>5. FetchStep(tried)
    BY <2>2, <2>4, FetchGoesOn
  <2> QED BY <2>5 DEF FetchStep
<1>4. CASE \E seen \in SUBSET Bss : ScanResults(seen)
  <2>1. PICK seen \in SUBSET Bss : ScanResults(seen)
    BY <1>4
  <2>2. bss' \subseteq Bss /\ interworking_start_fetch_anqp
    BY <2>1 DEF ScanResults, TableUpdate, Selecting, Inv, TypeOK
  <2>3. FetchStep({})
    BY <1>1, <2>2, FetchGoesOn DEF interworking_start_fetch_anqp
  <2> QED BY <2>3 DEF FetchStep
<1>5. CASE \/ interworking_stop_fetch_anqp \/ \E auto \in BOOLEAN : InterworkingSelect(auto)
           \/ \E b \in Bss : ctrl_interworking_connect(b)
           \/ \E b \in Bss : anqp_send_req(b) \/ anqp_resp_cb(b) \/ ExpireByAge(b)
           \/ \E set \in BOOLEAN : arbiter_set_auto(set)
  BY <1>5 DEF Selecting, interworking_stop_fetch_anqp, InterworkingSelect, interworking_select,
              ctrl_interworking_connect, anqp_send_req, anqp_resp_cb, ExpireByAge,
              arbiter_set_auto, fetch
<1>6. CASE wpa_supplicant_scan \/ ScanResultsUnavailable \/ wpa_supplicant_event_assoc
           \/ sme_event_auth \/ sme_event_auth_timed_out
           \/ AssociationFailed \/ SmeTimeout \/ Disconnect \/ Reassociate \/ Scan \/ UNCHANGED vars
  BY <1>6 DEF Selecting, wpa_supplicant_scan, ScanResultsUnavailable,
              wpa_supplicant_event_assoc, sme_event_auth,
              sme_event_auth_timed_out, AssociationFailed, SmeTimeout, Disconnect, Reassociate, Scan,
              vars, fetch
<1>7. CASE ConnectionLost \/ OwnDeauthReported
  BY <1>7 DEF Selecting, ConnectionLost, OwnDeauthReported, Disassociated,
              arbiter_disconnect_occur, interworking_select, fetch
<1> QED BY <1>2, <1>3, <1>4, <1>5, <1>6, <1>7 DEF Next

-----------------------------------------------------------------------------
\* The connection.  An authentication always has an access point: without this
\* sme_disassoc_while_authenticating() could arm a timer for nothing.
LinkInv ==
    /\ OneConnection
    /\ TimerOfAttempt
    /\ AttemptWatched
    /\ wpa_state = "AUTHENTICATING" => pending_bssid \in Bss

\* The invariant of the connection holds initially.
LEMMA LinkInitially == Init => LinkInv
BY DEF Init, Idle, LinkInv, OneConnection, TimerOfAttempt, AttemptWatched, Attempting

\* A new attempt.
LEMMA NewAttempt ==
    ASSUME TypeOK, LinkInv, NEW b \in Bss, sme_authenticate(b)
    PROVE  LinkInv'
<1>1. bssid' = NoBss /\ pending_bssid' = b /\ wpa_state' = "AUTHENTICATING"
  BY DEF sme_authenticate
<1>2. OneConnection'
  BY <1>1 DEF OneConnection
<1>3. Attempting' /\ pending_bssid' # NoBss
  BY <1>1, ApAssumption DEF Attempting
<1>4. "driver" \notin Faults => sme_timer'
  BY DEF sme_authenticate
<1> QED BY <1>1, <1>2, <1>3, <1>4 DEF LinkInv, TimerOfAttempt, AttemptWatched

\* The end of a connection or of an attempt, whatever the driver still does.
LEMMA EndOfAttempt ==
    ASSUME wpa_supplicant_mark_disassoc
    PROVE  LinkInv'
BY DEF wpa_supplicant_mark_disassoc, LinkInv, OneConnection, TimerOfAttempt, AttemptWatched,
       Attempting

\* A loss of the connection, which lets an authentication go on.
LEMMA DisassociatedLink ==
    ASSUME TypeOK, LinkInv, Disassociated
    PROVE  LinkInv'
<1>1. CASE wpa_supplicant_mark_disassoc
  BY <1>1, EndOfAttempt
<1>2. CASE ~wpa_supplicant_mark_disassoc
  <2>1. /\ bssid' = NoBss
        /\ wpa_state = "AUTHENTICATING" /\ sme_timer' = TRUE
        /\ UNCHANGED <<pending_bssid, wpa_state>>
    BY <1>2 DEF Disassociated
  <2> QED BY <2>1, ApAssumption
          DEF LinkInv, OneConnection, TimerOfAttempt, AttemptWatched, Attempting
<1> QED BY <1>1, <1>2

\* Every step keeps the invariant of the connection.
LEMMA StepKeepsLink == TypeOK /\ LinkInv /\ [Next]_vars => LinkInv'
<1> SUFFICES ASSUME TypeOK, LinkInv, [Next]_vars PROVE LinkInv'
  OBVIOUS
<1>1. ASSUME UNCHANGED attempt PROVE LinkInv'
  BY <1>1 DEF attempt, LinkInv, OneConnection, TimerOfAttempt, AttemptWatched, Attempting
<1>2. ASSUME wpa_state' = "DISCONNECTED", sme_timer' = FALSE,
             UNCHANGED <<bssid, pending_bssid, driver>>
      PROVE  LinkInv'
  BY <1>2 DEF LinkInv, OneConnection, TimerOfAttempt, AttemptWatched, Attempting
<1>3. CASE wpa_supplicant_scan
  BY <1>1, <1>2, <1>3 DEF wpa_supplicant_scan, attempt
<1>4. CASE \E seen \in SUBSET Bss : ScanResults(seen)
  <2>1. PICK seen \in SUBSET Bss : UNCHANGED attempt \/ ConnectToSeen(seen)
    BY <1>4 DEF ScanResults
  <2>2. CASE UNCHANGED attempt
    BY <1>1, <2>2
  <2>3. CASE \E b \in Bss : wpa_supplicant_connect(b)
    BY <1>1, <2>3, NewAttempt DEF wpa_supplicant_connect
  <2>4. CASE /\ wpa_state' = "DISCONNECTED" /\ sme_timer' = FALSE
             /\ UNCHANGED <<bssid, pending_bssid, driver>>
    BY <1>2, <2>4
  <2> QED BY <2>1, <2>2, <2>3, <2>4 DEF ConnectToSeen
<1>5. CASE sme_event_auth
  <2>1. bssid = NoBss /\ bssid' = NoBss /\ driver.ap \in Bss
    BY <1>5 DEF sme_event_auth, LinkInv, OneConnection, TypeOK
  <2>2. CASE UNCHANGED <<pending_bssid, wpa_state, sme_timer>>
    BY <2>1, <2>2 DEF LinkInv, OneConnection, TimerOfAttempt, AttemptWatched, Attempting
  <2>3. CASE sme_associate(driver.ap) /\ pending_bssid = driver.ap
    BY <2>1, <2>3, ApAssumption
       DEF sme_associate, LinkInv, OneConnection, TimerOfAttempt, AttemptWatched, Attempting
  <2>4. CASE "reject" \in Faults /\ sme_timer' = FALSE /\ UNCHANGED <<pending_bssid, wpa_state>>
    BY <2>1, <2>4 DEF LinkInv, OneConnection, TimerOfAttempt, AttemptWatched, Attempting
  <2> QED BY <1>5, <2>2, <2>3, <2>4 DEF sme_event_auth
<1>6. CASE sme_event_auth_timed_out
  <2>1. bssid = NoBss /\ UNCHANGED <<bssid, pending_bssid, wpa_state, sme_timer>>
    BY <1>6 DEF sme_event_auth_timed_out, LinkInv, OneConnection
  <2> QED BY <2>1 DEF LinkInv, OneConnection, TimerOfAttempt, AttemptWatched, Attempting
<1>7. CASE wpa_supplicant_event_assoc
  <2>1. driver.ap \in Bss
    BY <1>7 DEF wpa_supplicant_event_assoc, TypeOK
  <2> QED BY <1>7, <2>1, ApAssumption
          DEF wpa_supplicant_event_assoc, Idle, LinkInv, OneConnection, TimerOfAttempt,
              AttemptWatched, Attempting
<1>8. CASE AssociationFailed \/ SmeTimeout \/ Disconnect
  BY <1>8, EndOfAttempt DEF AssociationFailed, SmeTimeout, Disconnect, sme_deauth
<1>9. CASE ConnectionLost \/ OwnDeauthReported
  BY <1>9, DisassociatedLink DEF ConnectionLost, OwnDeauthReported
<1>10. CASE \/ interworking_fetch_anqp \/ interworking_stop_fetch_anqp
            \/ \E auto \in BOOLEAN : InterworkingSelect(auto)
            \/ \E b \in Bss : \/ ctrl_interworking_connect(b) \/ anqp_send_req(b)
                              \/ interworking_anqp_resp_cb(b) \/ anqp_resp_cb(b)
                              \/ ExpireByAge(b)
            \/ ScanResultsUnavailable \/ Reassociate \/ Scan
            \/ \E set \in BOOLEAN : arbiter_set_auto(set)
            \/ UNCHANGED vars
  <2>1. UNCHANGED attempt
    BY <1>10
       DEF interworking_fetch_anqp, interworking_stop_fetch_anqp, InterworkingSelect,
           ctrl_interworking_connect, anqp_send_req, interworking_anqp_resp_cb, anqp_resp_cb,
           ExpireByAge, ScanResultsUnavailable, Reassociate, Scan, arbiter_set_auto, vars, link
  <2> QED BY <1>1, <2>1
<1> QED BY <1>3, <1>4, <1>5, <1>6, <1>7, <1>8, <1>9, <1>10 DEF Next

-----------------------------------------------------------------------------
\* The invariant holds in every reachable state.
THEOREM Invariance == Spec => []Inv
<1>1. Init => Inv
  BY Initially
<1>2. Inv /\ [Next]_vars => Inv'
  BY StepKeepsInv
<1> QED BY <1>1, <1>2, PTL DEF Spec

\* The variables of the selection keep their types, flags and information stay
\* with entries of the table, and the dialog tokens are never exceeded.
THEOREM TypeCorrect == Spec => []TypeOK
<1>1. Inv => TypeOK
  BY DEF Inv
<1> QED BY <1>1, Invariance, PTL

\* interworking_select(), its scan and its fetch exclude each other, and the
\* arbiter waits only for a selection that is under way.
THEOREM SelectionInOnePhase == Spec => []OnePhase
<1>1. Inv => OnePhase
  BY DEF Inv
<1> QED BY <1>1, Invariance, PTL

\* A running fetch always has a query whose report will continue it, if sending
\* does not fail and ANQP_GET is not used.
THEOREM FetchAlwaysDriven == Spec => []FetchHasQuery
<1>1. Inv => FetchHasQuery
  BY DEF Inv
<1> QED BY <1>1, Invariance, PTL

\* interworking_select_network() runs only when every Interworking access point
\* of the table has answered or was asked.
THEOREM EverybodyAsked == Spec => AskedBeforeSelecting
<1>1. Inv /\ [Next]_vars =>
          [Selecting => bss' \cap Capable \subseteq fetched' \cup tried']_vars
  BY SelectingStep
<1> QED BY <1>1, Invariance, PTL DEF Spec, AskedBeforeSelecting

\* A network that a selection adds passed the credential check and every filter
\* of the arbiter.
THEOREM OnlySuitable == Spec => SelectedSuitable
<1>1. Inv /\ [Next]_vars =>
          [Selecting => \A b \in networks' \ networks :
               /\ b \in bss' /\ nai_realm'[b] = "home"
               /\ b \in FreePublic /\ b \in Internet]_vars
  BY SelectingStep DEF Suitable
<1> QED BY <1>1, Invariance, PTL DEF Spec, SelectedSuitable

\* The invariant of the connection holds in every reachable state.
THEOREM LinkInvariance == Spec => []LinkInv
<1>1. Init => LinkInv
  BY LinkInitially
<1>2. TypeOK /\ LinkInv /\ [Next]_vars => LinkInv'
  BY StepKeepsLink
<1> QED BY <1>1, <1>2, TypeCorrect, PTL DEF Spec

\* The station is associated with an access point or attempts one, never both,
\* however scans, commands, timers and events of the driver interleave.
THEOREM NeverTwoConnections == Spec => []OneConnection
<1>1. LinkInv => OneConnection
  BY DEF LinkInv
<1> QED BY <1>1, LinkInvariance, PTL

\* No timer of SME outlives the attempt it belongs to.
THEOREM NoStrayTimer == Spec => []TimerOfAttempt
<1>1. LinkInv => TimerOfAttempt
  BY DEF LinkInv
<1> QED BY <1>1, LinkInvariance, PTL

\* Every attempt is watched by a timer, unless the driver refuses a request or
\* an access point rejects an authentication.
THEOREM EveryAttemptWatched == Spec => []AttemptWatched
<1>1. LinkInv => AttemptWatched
  BY DEF LinkInv
<1> QED BY <1>1, LinkInvariance, PTL
=============================================================================
