---------------------------- MODULE KeyHandshake ----------------------------
(***************************************************************************)
(* The 4-way handshake between the authenticator of the access point       *)
(* (src/ap/wpa_auth.c, state machine WPA_PTK of one station) and the       *)
(* supplicant (src/rsn_supp/wpa.c), RSN with a preshared key, the group    *)
(* key riding in message 3/4.  Rekeying by the authenticator's timer and   *)
(* at the supplicant's request, and reassociation, are included.           *)
(*                                                                         *)
(* wpa_sm_step() runs its machine until nothing changes, so the states     *)
(* AUTHENTICATION, AUTHENTICATION2, INITPSK, PTKCALCNEGOTIATING2,          *)
(* DISCONNECT and DISCONNECTED are passed within a handler and the machine *)
(* rests in the other five.  Each direction of the link keeps the order of *)
(* its frames and may lose any of them; a frame that a handler would drop  *)
(* without a trace counts as lost.  A pairwise key is the triple of what   *)
(* it is derived from, a MIC is the key it was made with.                  *)
(***************************************************************************)
EXTENDS Naturals, FiniteSets, Sequences

CONSTANTS
    UpdateCount,        \* dot11RSNAConfigPairwiseUpdateCount
    ReplayWindow,       \* RSNA_MAX_EAPOL_RETRIES
    Setups,             \* which configurations to start from, see Init
    MaxAssociations,    \* bound on associations
    MaxRekeys,          \* bound on expiries of the rekeying timer
    MaxRequests         \* bound on EAPOL-Key requests of the supplicant

ASSUME HandshakeBounds ==
    /\ UpdateCount \in Nat \ {0} /\ ReplayWindow \in Nat \ {0}
    /\ MaxAssociations \in Nat /\ MaxRekeys \in Nat /\ MaxRequests \in Nat
    /\ Setups \subseteq {"good", "psk", "station_ie", "beacon_ie"}

VARIABLES
    auth,   \* struct wpa_state_machine and the flags of struct sta_info
    group,  \* the part of struct wpa_group that guards the first handshake
    sup,    \* struct wpa_sm of the supplicant
    down,   \* frames on their way to the supplicant
    up,     \* frames on their way to the authenticator
    setup,  \* good, or what the two ends disagree about
    used    \* how much of the three bounds is used up

vars == <<auth, group, sup, down, up, setup, used>>

NoKey == <<0, 0, "none">>
Key == {NoKey} \cup (Nat \X Nat \X {"ap", "sta"})     \* ANonce, SNonce, PSK

\* The preshared key the supplicant was configured with.
Psk == IF setup = "psk" THEN "sta" ELSE "ap"

Frame(msg, ctr, nonce, mic) == [msg |-> msg, ctr |-> ctr, nonce |-> nonce, mic |-> mic]

\* os_zalloc() in wpa_auth_sta_init().
wpa_auth_sta_init ==
    [state |-> "INITIALIZE", started |-> FALSE, assoc |-> FALSE,
     PTK |-> NoKey, PTK_valid |-> FALSE, ANonce |-> 0, TimeoutCtr |-> 0,
     key_replay |-> {}, counter |-> 0, req_counter |-> 0, timers |-> 0,
     pending_1_of_4 |-> FALSE, rekey_timer |-> FALSE, pairwise |-> NoKey]

Init ==
    /\ setup \in Setups
    /\ auth = wpa_auth_sta_init
    /\ group \in [first_sta_seen : {FALSE}, reject : {FALSE}, pool_ready : BOOLEAN]
    /\ sup = [assoc |-> FALSE, ptk |-> NoKey, tptk |-> NoKey, snonce |-> 0,
              anonce |-> 0, renew_snonce |-> TRUE, rx_counter |-> 0,
              pairwise |-> NoKey, completed |-> FALSE]
    /\ down = <<>> /\ up = <<>>
    /\ used = [assoc |-> 0, rekey |-> 0, request |-> 0]

-----------------------------------------------------------------------------
\* The authenticator.

wpa_remove_ptk(a) ==
    [a EXCEPT !.PTK_valid = FALSE, !.PTK = NoKey, !.pairwise = NoKey,
              !.rekey_timer = FALSE]

\* State INITIALIZE.  The timers of frames already sent keep running.
INITIALIZE(a) == [wpa_remove_ptk(a) EXCEPT !.state = "INITIALIZE", !.TimeoutCtr = 0]

\* wpa_sta_disconnect(): the station is told and loses its association;
\* hostapd frees it later.
wpa_sta_disconnect(a) == [a EXCEPT !.assoc = FALSE]

\* DISCONNECT, DISCONNECTED, INITIALIZE.
DISCONNECT(a) == INITIALIZE(wpa_sta_disconnect(a))

\* Mutant: the retransmission of message 3/4 is not scheduled.
wpa_send_eapol_unwatched(a, pairwise1) ==
    [a EXCEPT !.counter = @ + 1,
              !.key_replay = {c \in @ \cup {a.counter + 1} :
                                 c + ReplayWindow > a.counter + 1},
              !.timers = IF pairwise1 THEN @ + 1 ELSE @]

\* The replay counters of the last frames stay acceptable until one of them
\* is answered; a frame always gets a timer of its own.
wpa_send_eapol(a, pairwise1) ==
    [a EXCEPT !.counter = @ + 1,
              !.key_replay = {c \in @ \cup {a.counter + 1} :
                                 c + ReplayWindow > a.counter + 1},
              !.timers = @ + 1,
              !.pending_1_of_4 = @ \/ (pairwise1 /\ a.TimeoutCtr = 1)]

\* Mutant: the limit is compared before the transmission is counted.
PTKSTART_one_more(a) ==
    LET b == [a EXCEPT !.state = "PTKSTART", !.TimeoutCtr = @ + 1]
    IN  IF a.TimeoutCtr > UpdateCount
        THEN auth' = DISCONNECT(b) /\ UNCHANGED down
        ELSE /\ auth' = wpa_send_eapol(b, TRUE)
             /\ down' = Append(down, Frame("1/4", b.counter + 1, b.ANonce, NoKey))

\* The step into PTKSTART: message 1/4, or the end of the retries.
PTKSTART(a) ==
    LET b == [a EXCEPT !.state = "PTKSTART", !.TimeoutCtr = @ + 1]
    IN  IF b.TimeoutCtr > UpdateCount
        THEN auth' = DISCONNECT(b) /\ UNCHANGED down
        ELSE /\ auth' = wpa_send_eapol(b, TRUE)
             /\ down' = Append(down, Frame("1/4", b.counter + 1, b.ANonce, NoKey))

\* The step into PTKINITNEGOTIATING: message 3/4, or the end of the retries.
PTKINITNEGOTIATING(a) ==
    LET b == [a EXCEPT !.state = "PTKINITNEGOTIATING", !.TimeoutCtr = @ + 1]
    IN  IF b.TimeoutCtr > UpdateCount
        THEN auth' = DISCONNECT(b) /\ UNCHANGED down
        ELSE /\ auth' = wpa_send_eapol(b, FALSE)
             /\ down' = Append(down, Frame("3/4", b.counter + 1, b.ANonce, b.PTK))

\* wpa_request_new_ptk() and the step that follows.  TimeoutCtr keeps what the
\* transmissions of the last message 3/4 left in it.
wpa_request_new_ptk(a) == PTKSTART([a EXCEPT !.PTK_valid = FALSE])

\* AUTHENTICATION2 and INITPSK: the first station of the group renews its
\* keys, and is turned away once if there was too little entropy for it.
AUTHENTICATION2 ==
    /\ group' = [group EXCEPT !.first_sta_seen = TRUE,
                              !.reject = @ \/ (~group.first_sta_seen /\ ~group.pool_ready)]

\* hostapd_new_assoc_sta() after the event WPA_ASSOC: a station hostapd still
\* took for associated is reauthenticated (event WPA_REAUTH), any other gets
\* wpa_auth_sta_associated(), which forgets the replay counters.  The supplicant
\* gets its association event, wpa_sm_notify_assoc().
Associate ==
    /\ used.assoc < MaxAssociations
    /\ used' = [used EXCEPT !.assoc = @ + 1]
    /\ LET a == wpa_remove_ptk(auth)
           b == IF auth.assoc
                THEN a
                ELSE [a EXCEPT !.key_replay = {}, !.counter = 0]
           n == used.assoc + 1
           m == Frame("1/4", b.counter + 1, n, NoKey)
       IN  /\ auth' = wpa_send_eapol([b EXCEPT !.started = TRUE, !.assoc = TRUE,
                                               !.ANonce = n, !.req_counter = 0,
                                               !.TimeoutCtr = 1, !.state = "PTKSTART"], TRUE)
           /\ down' = <<m>> /\ up' = <<>>
    /\ AUTHENTICATION2
    /\ sup' = [sup EXCEPT !.assoc = TRUE, !.rx_counter = 0, !.renew_snonce = TRUE,
                          !.ptk = NoKey, !.tptk = NoKey, !.pairwise = NoKey,
                          !.completed = FALSE]
    /\ UNCHANGED setup

\* The i-th frame on its way is the next to arrive.
After(link, i) == SubSeq(link, i + 1, Len(link))

\* A frame reaches wpa_receive() only from a station that is associated.
Receives(i, msg) == auth.assoc /\ up[i].msg = msg /\ up' = After(up, i)

\* A message 2/4 whose MIC does not fit, because the station uses another key,
\* leaves the machine here until the timer; one that fits leads on.
PTKCALCNEGOTIATING(a, m) ==
    LET k == <<a.ANonce, m.nonce, "ap">>
        b == [a EXCEPT !.state = "PTKCALCNEGOTIATING"]
    IN  \/ /\ m.mic # k
           /\ auth' = b
           /\ UNCHANGED down
        \/ /\ m.mic = k
           /\ PTKINITNEGOTIATING([b EXCEPT !.timers = 0, !.pending_1_of_4 = FALSE,
                                           !.PTK = k, !.PTK_valid = TRUE,
                                           !.TimeoutCtr = 0])

\* wpa_receive(), message 2/4.
rx_2_of_4(i) ==
    /\ Receives(i, "2/4")
    /\ up[i].ctr \in auth.key_replay
    /\ auth.state \in {"PTKSTART", "PTKCALCNEGOTIATING"}
    /\ \/ /\ group.reject
          /\ group' = [first_sta_seen |-> FALSE, reject |-> FALSE, pool_ready |-> TRUE]
          /\ auth' = wpa_sta_disconnect(auth)
          /\ UNCHANGED down
       \/ /\ ~group.reject /\ setup = "station_ie"
          /\ auth' = wpa_sta_disconnect(auth)
          /\ UNCHANGED <<group, down>>
       \/ /\ ~group.reject /\ setup # "station_ie"
          /\ PTKCALCNEGOTIATING([auth EXCEPT !.key_replay = {}], up[i])
          /\ UNCHANGED group
    /\ UNCHANGED <<sup, setup, used>>

\* ok tells whether the driver takes the key.
PTKINITDONE(a, ok) ==
    LET b == [a EXCEPT !.state = "PTKINITDONE", !.timers = 0, !.pending_1_of_4 = FALSE]
    IN  IF ok THEN [b EXCEPT !.pairwise = a.PTK, !.rekey_timer = TRUE]
              ELSE wpa_sta_disconnect(b)

\* wpa_receive(), message 4/4.
rx_4_of_4(i, ok) ==
    /\ Receives(i, "4/4")
    /\ up[i].ctr \in auth.key_replay
    /\ auth.state = "PTKINITNEGOTIATING" /\ auth.PTK_valid
    /\ up[i].mic = auth.PTK
    /\ auth' = PTKINITDONE([auth EXCEPT !.key_replay = {}], ok)
    /\ UNCHANGED <<group, sup, down, setup, used>>

\* wpa_receive(), a request for a new key or the report of a MIC failure.
rx_request(i) ==
    /\ Receives(i, "request")
    /\ up[i].ctr > auth.req_counter
    /\ auth.PTK_valid /\ up[i].mic = auth.PTK
    /\ wpa_request_new_ptk([auth EXCEPT !.timers = 0, !.pending_1_of_4 = FALSE,
                                        !.req_counter = up[i].ctr])
    /\ UNCHANGED <<group, sup, setup, used>>

\* wpa_send_eapol_timeout()
wpa_send_eapol_timeout ==
    /\ auth.timers > 0
    /\ LET a == [auth EXCEPT !.timers = @ - 1, !.pending_1_of_4 = FALSE]
       IN  \/ /\ auth.state \in {"PTKSTART", "PTKCALCNEGOTIATING"}
              /\ PTKSTART(a)
           \/ /\ auth.state = "PTKINITNEGOTIATING"
              /\ PTKINITNEGOTIATING(a)
           \/ /\ auth.state \in {"INITIALIZE", "PTKINITDONE"}
              /\ auth' = a
              /\ UNCHANGED down
    /\ UNCHANGED <<group, sup, up, setup, used>>

\* The driver reports that the station acknowledged the first message 1/4: one
\* timer, set anew, takes the place of all.
wpa_auth_eapol_key_tx_status ==
    /\ auth.pending_1_of_4
    /\ auth' = [auth EXCEPT !.timers = 1]
    /\ UNCHANGED <<group, sup, down, up, setup, used>>

\* The timer of conf.wpa_ptk_rekey.
wpa_rekey_ptk ==
    /\ auth.rekey_timer
    /\ used.rekey < MaxRekeys
    /\ used' = [used EXCEPT !.rekey = @ + 1]
    /\ wpa_request_new_ptk([auth EXCEPT !.rekey_timer = FALSE])
    /\ UNCHANGED <<group, sup, up, setup>>

\* The station's disassociation reaches the access point: DISCONNECTED, then
\* INITIALIZE.
handle_disassoc ==
    /\ auth.assoc /\ ~sup.assoc
    /\ auth' = [INITIALIZE(auth) EXCEPT !.assoc = FALSE]
    /\ UNCHANGED <<group, sup, down, up, setup, used>>

\* ap_free_sta() after a deauthentication by either side.
ap_free_sta ==
    /\ auth.started
    /\ ~auth.assoc \/ ~sup.assoc
    /\ auth' = wpa_auth_sta_init
    /\ UNCHANGED <<group, sup, down, up, setup, used>>

-----------------------------------------------------------------------------
\* The supplicant.

\* The connection is cleared and the driver forgets its key.
clear_connection(s) == [s EXCEPT !.assoc = FALSE, !.pairwise = NoKey, !.completed = FALSE]

\* wpa_sm_rx_eapol(): a frame with a new replay counter arrives.
Hears(i, msg) == /\ sup.assoc /\ down[i].msg = msg
                 /\ down[i].ctr > sup.rx_counter
                 /\ down' = After(down, i)

\* Mutant: every message 1/4 gets a new SNonce.
process_1_of_4_always_renews(i) ==
    /\ Hears(i, "1/4")
    /\ LET m == down[i]
           n == sup.snonce + 1
           k == <<m.nonce, n, Psk>>
       IN  /\ sup' = [sup EXCEPT !.snonce = n, !.renew_snonce = FALSE, !.tptk = k,
                                 !.anonce = m.nonce, !.completed = FALSE]
           /\ up' = Append(up, Frame("2/4", m.ctr, n, k))
    /\ UNCHANGED <<auth, group, setup, used>>

\* wpa_sm_rx_eapol(), message 1/4.  It carries no MIC, so the replay counter
\* is compared but not remembered.
process_1_of_4(i) ==
    /\ Hears(i, "1/4")
    /\ LET m == down[i]
           n == IF sup.renew_snonce THEN sup.snonce + 1 ELSE sup.snonce
           k == <<m.nonce, n, Psk>>
       IN  /\ sup' = [sup EXCEPT !.snonce = n, !.renew_snonce = FALSE, !.tptk = k,
                                 !.anonce = m.nonce, !.completed = FALSE]
           /\ up' = Append(up, Frame("2/4", m.ctr, n, k))
    /\ UNCHANGED <<auth, group, setup, used>>

\* wpa_supplicant_verify_eapol_key_mic(): the temporary key is tried first, and
\* takes the place of the other one if it fits.
verify_eapol_key_mic(m) ==
    IF sup.tptk # NoKey /\ m.mic = sup.tptk
    THEN [ok |-> TRUE, s |-> [sup EXCEPT !.ptk = sup.tptk, !.tptk = NoKey,
                                         !.rx_counter = m.ctr]]
    ELSE [ok |-> sup.ptk # NoKey /\ m.mic = sup.ptk,
          s |-> [sup EXCEPT !.rx_counter = m.ctr]]

\* Mutant: a key is configured only if there is none.
process_3_of_4_installs_once(i, ok) ==
    /\ Hears(i, "3/4")
    /\ LET m == down[i]
           v == verify_eapol_key_mic(m)
       IN  /\ v.ok /\ v.s.anonce = m.nonce
           /\ sup' = [v.s EXCEPT !.renew_snonce = TRUE, !.completed = TRUE,
                                 !.pairwise = IF @ = NoKey THEN v.s.ptk ELSE @]
           /\ up' = Append(up, Frame("4/4", m.ctr, 0, v.s.ptk))
    /\ UNCHANGED <<auth, group, setup, used>>

\* wpa_sm_rx_eapol(), message 3/4: ok tells whether the driver takes the key,
\* which is configured after message 4/4 has been sent.
process_3_of_4(i, ok) ==
    /\ Hears(i, "3/4")
    /\ LET m == down[i]
           v == verify_eapol_key_mic(m)
       IN  /\ v.ok
           /\ \/ /\ setup = "beacon_ie" \/ v.s.anonce # m.nonce
                 /\ sup' = clear_connection(v.s)
                 /\ UNCHANGED up
              \/ /\ setup # "beacon_ie" /\ v.s.anonce = m.nonce
                 /\ sup' = IF ok THEN [v.s EXCEPT !.renew_snonce = TRUE,
                                                  !.pairwise = v.s.ptk,
                                                  !.completed = TRUE]
                                 ELSE clear_connection([v.s EXCEPT !.renew_snonce = TRUE])
                 /\ up' = Append(up, Frame("4/4", m.ctr, 0, v.s.ptk))
    /\ UNCHANGED <<auth, group, setup, used>>

\* wpa_sm_rekey_ptk() and the report of a Michael MIC failure.  A request
\* without a key has no MIC and is dropped at the other end.
wpa_sm_key_request ==
    /\ sup.assoc /\ sup.ptk # NoKey
    /\ used.request < MaxRequests
    /\ used' = [used EXCEPT !.request = @ + 1]
    /\ up' = Append(up, Frame("request", used.request + 1, 0, sup.ptk))
    /\ UNCHANGED <<auth, group, sup, down, setup>>

\* The supplicant leaves, or learns that the access point dropped it.
Leave ==
    /\ sup.assoc
    /\ sup' = clear_connection(sup)
    /\ UNCHANGED <<auth, group, down, up, setup, used>>

Next ==
    \/ Associate
    \/ \E i \in DOMAIN up : \/ rx_2_of_4(i)
                            \/ \E ok \in BOOLEAN : rx_4_of_4(i, ok)
                            \/ rx_request(i)
    \/ wpa_send_eapol_timeout
    \/ wpa_auth_eapol_key_tx_status
    \/ wpa_rekey_ptk
    \/ handle_disassoc
    \/ ap_free_sta
    \/ \E i \in DOMAIN down : \/ process_1_of_4(i)
                              \/ \E ok \in BOOLEAN : process_3_of_4(i, ok)
    \/ wpa_sm_key_request
    \/ Leave

\* The event loop of the access point runs the timers that are due.
Spec == Init /\ [][Next]_vars /\ WF_vars(wpa_send_eapol_timeout)

-----------------------------------------------------------------------------
Negotiating == auth.state \in {"PTKSTART", "PTKCALCNEGOTIATING", "PTKINITNEGOTIATING"}

\* Types, and what the retries and the window of replay counters promise: no
\* state is entered more often than UpdateCount allows without a disconnection
\* (TimeoutCtr in SM_STEP(WPA_PTK)), __wpa_send_eapol() keeps at most
\* ReplayWindow counters, all of them sent, and a valid PTK is a key.
TypeOK ==
    /\ auth.state \in {"INITIALIZE", "PTKSTART", "PTKCALCNEGOTIATING",
                       "PTKINITNEGOTIATING", "PTKINITDONE"}
    /\ auth.PTK \in Key /\ auth.pairwise \in Key
    /\ auth.TimeoutCtr \in 0 .. UpdateCount
    /\ auth.key_replay \subseteq 1 .. auth.counter
    /\ Cardinality(auth.key_replay) <= ReplayWindow
    /\ auth.PTK_valid => auth.PTK # NoKey
    /\ sup.ptk \in Key /\ sup.tptk \in Key /\ sup.pairwise \in Key

\* Once message 4/4 has completed the handshake, both drivers use the same key,
\* whatever was lost, repeated or delayed on the way.
KeysAgree ==
    auth.state = "PTKINITDONE" /\ auth.assoc /\ sup.assoc
        => auth.pairwise # NoKey /\ sup.pairwise = auth.pairwise

\* While the authenticator waits for message 4/4 the supplicant can verify
\* message 3/4: it holds the key that message 2/4 was made with, be it as the
\* temporary key or, when a later message 1/4 has replaced that one, as the
\* installed one (the two keys wpa_supplicant_verify_eapol_key_mic() tries).
NegotiatedKeyHeld ==
    auth.state = "PTKINITNEGOTIATING" /\ auth.assoc /\ sup.assoc
        => auth.PTK \in {sup.tptk, sup.ptk}

\* A handshake ends: message 4/4 arrives, or the retries run out and the station
\* is disconnected.  No exchange leaves a negotiating machine without a timer.
HandshakeEnds == Negotiating ~> ~Negotiating
=============================================================================
