----------------------------- MODULE GroupRekey -----------------------------
(***************************************************************************)
(* The group key of an access point and its renewal (src/ap/wpa_auth.c):   *)
(* the group state machine, and for every station the state machines       *)
(* WPA_PTK and WPA_PTK_GROUP, which share one timer mechanism, one set of  *)
(* replay counters and the event TimeoutEvt.                               *)
(*                                                                         *)
(* The 4-way handshake is reduced to what the group key depends on: its    *)
(* nonces, MICs and the supplicant are in KeyHandshake.  Frames carry no   *)
(* replay counter; when the authenticator invalidates its counters, the    *)
(* replies under way are dropped, and the frames still to be heard are     *)
(* marked so that the supplicant takes their key but its reply is void.    *)
(*                                                                         *)
(* A handler is a composition of functions on the pair [t, g] of a station *)
(* and the group, in the order of the loop of wpa_sm_step(): WPA_PTK,      *)
(* WPA_PTK_GROUP, group.                                                   *)
(***************************************************************************)
EXTENDS Naturals, FiniteSets, Sequences

CONSTANTS
    Stations,       \* addresses
    UpdateCount,    \* dot11RSNAConfigPairwiseUpdateCount and ...GroupUpdateCount
    MaxRekeys,      \* bound on group rekeyings
    MaxPtkRekeys,   \* bound on renewals of pairwise keys
    MaxAssociations \* bound on associations

ASSUME RekeyBounds == /\ IsFiniteSet(Stations)
                      /\ UpdateCount \in Nat \ {0}
                      /\ MaxRekeys \in Nat /\ MaxPtkRekeys \in Nat
                      /\ MaxAssociations \in Nat

VARIABLES
    sta,    \* per address: struct wpa_state_machine, the link and the supplicant
    group,  \* struct wpa_group and the group key the driver transmits with
    used    \* how much of the bounds is used up

vars == <<sta, group, used>>

Version == 0 .. MaxRekeys + 1       \* group keys in the order they are made
Index == 1 .. 2                     \* key indexes

wpa_auth_sta_init ==
    [ptk |-> "INITIALIZE", grp |-> "IDLE", started |-> FALSE, assoc |-> FALSE,
     PTK_valid |-> FALSE, TimeoutCtr |-> 0, GTimeoutCtr |-> 0,
     GUpdateStationKeys |-> FALSE, timers |-> 0, down |-> <<>>, up |-> {},
     held |-> [i \in Index |-> 0], raced |-> FALSE]

\* wpa_init() has made the first key and configured it.
Init ==
    /\ sta = [s \in Stations |-> wpa_auth_sta_init]
    /\ group = [state |-> "SETKEYSDONE", GN |-> 1, GTK |-> [i \in Index |-> 2 - i],
                GKeyDoneStations |-> 0, tx |-> [idx |-> 1, gtk |-> 1]]
    /\ used = [rekey |-> 0, ptk |-> 0, assoc |-> 0]

-----------------------------------------------------------------------------
\* What a handler of a station works on, the station being t.
Of(t) == [t |-> t, g |-> group]

\* A frame on its way to t, and its timer.
Sent(t, m) == [t EXCEPT !.timers = @ + 1, !.down = Append(@, m)]

\* Mutant: the key of the other index is sent (GTK[GN] for GTK[GN - 1]).
wpa_send_eapol_other_index(x, msg) ==
    LET m == [msg |-> msg, valid |-> TRUE, idx |-> x.g.GN,
              gtk |-> IF msg = "1/4" THEN 0 ELSE x.g.GTK[3 - x.g.GN]]
    IN  [x EXCEPT !.t = Sent(@, m)]

\* The current group key is that of index GN.
wpa_send_eapol(x, msg) ==
    LET m == [msg |-> msg, valid |-> TRUE, idx |-> x.g.GN,
              gtk |-> IF msg = "1/4" THEN 0 ELSE x.g.GTK[x.g.GN]]
    IN  [x EXCEPT !.t = Sent(@, m)]

\* key_replay[0].valid = FALSE: nothing sent so far can be answered any more.
Invalidate(t) ==
    [t EXCEPT !.up = {},
              !.down = [i \in DOMAIN t.down |-> [t.down[i] EXCEPT !.valid = FALSE]]]

\* hostapd takes the station off; what is on the link is lost.
Unlink(t) == [t EXCEPT !.assoc = FALSE, !.down = <<>>, !.up = {},
                       !.held = [i \in Index |-> 0]]

\* GKeyDoneStations-- for a station that is waited for.
GKeyDone(x) ==
    IF x.t.GUpdateStationKeys
    THEN [x EXCEPT !.t = [@ EXCEPT !.GUpdateStationKeys = FALSE],
                   !.g = [@ EXCEPT !.GKeyDoneStations = x.g.GKeyDoneStations - 1]]
    ELSE x

\* Mutant: a station that goes away is forgotten but not counted.
INITIALIZE_uncounted(x) ==
    [x EXCEPT !.t = [@ EXCEPT !.ptk = "INITIALIZE", !.PTK_valid = FALSE, !.TimeoutCtr = 0,
                              !.GUpdateStationKeys = FALSE]]

\* State INITIALIZE; WPA_PTK_GROUP stays where it is.
INITIALIZE(x) ==
    GKeyDone([x EXCEPT !.t = [@ EXCEPT !.ptk = "INITIALIZE", !.PTK_valid = FALSE,
                                       !.TimeoutCtr = 0]])

\* DISCONNECT, DISCONNECTED, INITIALIZE.
DISCONNECT(x) == INITIALIZE([x EXCEPT !.t = Unlink(@)])

\* WPA_PTK enters a state that sends a message, for the first time or again.
Attempt(t, state) == [t EXCEPT !.ptk = state, !.TimeoutCtr = @ + 1]

PTKSTART(x) ==
    LET y == [x EXCEPT !.t = [Attempt(@, "PTKSTART") EXCEPT !.raced = FALSE]]
    IN  IF y.t.TimeoutCtr > UpdateCount THEN DISCONNECT(y) ELSE wpa_send_eapol(y, "1/4")

\* Message 3/4 carries the group key of the moment it is sent.
PTKINITNEGOTIATING(x) ==
    LET y == [x EXCEPT !.t = Attempt(@, "PTKINITNEGOTIATING")]
    IN  IF y.t.TimeoutCtr > UpdateCount THEN DISCONNECT(y) ELSE wpa_send_eapol(y, "3/4")

\* State IDLE of WPA_PTK_GROUP.
IDLE(t) == [t EXCEPT !.grp = "IDLE", !.GTimeoutCtr = 0]

\* KEYERROR ends the negotiation and the association, then IDLE.
KEYERROR(x) == DISCONNECT(GKeyDone([x EXCEPT !.t = IDLE(@)]))

\* Message 1/2; without a valid pairwise key the frame is discarded after
\* everything else is done.
REKEYNEGOTIATING(x) ==
    LET y == [x EXCEPT !.t = [@ EXCEPT !.grp = "REKEYNEGOTIATING",
                                       !.GTimeoutCtr = x.t.GTimeoutCtr + 1]]
    IN  IF y.t.GTimeoutCtr > UpdateCount THEN KEYERROR(y)
        ELSE IF y.t.PTK_valid THEN wpa_send_eapol(y, "1/2")
        ELSE [y EXCEPT !.t = [@ EXCEPT !.timers = y.t.timers + 1]]

\* REKEYESTABLISHED, then IDLE.
REKEYESTABLISHED(x) == GKeyDone([x EXCEPT !.t = IDLE(@)])

\* wpa_group_sm_step() at the end of the loop.  GTKReKey is set only by
\* wpa_rekey_gtk(), which does not return before it is cleared.
wpa_group_sm_step(g) ==
    IF g.state = "SETKEYS" /\ g.GKeyDoneStations = 0
    THEN [g EXCEPT !.state = "SETKEYSDONE", !.tx = [idx |-> g.GN, gtk |-> g.GTK[g.GN]]]
    ELSE g

\* Mutant: the loop of wpa_sm_step() leaves the group out.
Settle_without_group(s, x) == /\ sta' = [sta EXCEPT ![s] = x.t]
                              /\ group' = x.g

\* The end of a handler of station s.
Settle(s, x) == /\ sta' = [sta EXCEPT ![s] = x.t]
                /\ group' = wpa_group_sm_step(x.g)

-----------------------------------------------------------------------------
\* hostapd_new_assoc_sta() after WPA_ASSOC.  A station that is still associated
\* is reauthenticated, which withdraws it from a group rekeying; any other goes
\* through wpa_auth_sta_associated(), which does not look at WPA_PTK_GROUP.
Associate(s) ==
    /\ used.assoc < MaxAssociations
    /\ used' = [used EXCEPT !.assoc = @ + 1]
    /\ LET t == [Unlink(sta[s]) EXCEPT !.PTK_valid = FALSE, !.TimeoutCtr = 0,
                                       !.assoc = TRUE, !.started = TRUE]
       IN  Settle(s, PTKSTART(IF sta[s].assoc /\ sta[s].GUpdateStationKeys
                              THEN GKeyDone(Of(IDLE(t))) ELSE Of(t)))

\* wpa_receive(): messages 2/4, 4/4 and 2/2.
rx_2_of_4(s) ==
    /\ sta[s].assoc /\ "2/4" \in sta[s].up
    /\ sta[s].ptk = "PTKSTART"
    /\ Settle(s, PTKINITNEGOTIATING(Of(
          [Invalidate(sta[s]) EXCEPT !.timers = 0, !.PTK_valid = TRUE, !.TimeoutCtr = 0])))
    /\ UNCHANGED used

rx_4_of_4(s) ==
    /\ sta[s].assoc /\ "4/4" \in sta[s].up
    /\ sta[s].ptk = "PTKINITNEGOTIATING" /\ sta[s].PTK_valid
    /\ Settle(s, Of([Invalidate(sta[s]) EXCEPT !.timers = 0, !.ptk = "PTKINITDONE"]))
    /\ UNCHANGED used

rx_2_of_2(s) ==
    /\ sta[s].assoc /\ "2/2" \in sta[s].up
    /\ sta[s].grp = "REKEYNEGOTIATING" /\ sta[s].PTK_valid
    /\ Settle(s, REKEYESTABLISHED(Of([Invalidate(sta[s]) EXCEPT !.timers = 0])))
    /\ UNCHANGED used

\* wpa_request_new_ptk(), by the timer of conf.wpa_ptk_rekey or at the request
\* of the station, whose MIC cancels the timers of earlier frames.
wpa_request_new_ptk(s, request) ==
    /\ used.ptk < MaxPtkRekeys
    /\ used' = [used EXCEPT !.ptk = @ + 1]
    /\ sta[s].ptk = "PTKINITDONE"
    /\ Settle(s, PTKSTART(Of([sta[s] EXCEPT !.PTK_valid = FALSE,
                                            !.timers = IF request THEN 0 ELSE @])))

\* wpa_send_eapol_timeout(): WPA_PTK sees TimeoutEvt first and clears it when it
\* repeats its message, so WPA_PTK_GROUP sees it only if WPA_PTK has no use for it.
wpa_send_eapol_timeout(s) ==
    /\ sta[s].timers > 0
    /\ LET x == Of([sta[s] EXCEPT !.timers = @ - 1])
       IN  Settle(s, CASE x.t.ptk = "PTKSTART" -> PTKSTART(x)
                       [] x.t.ptk = "PTKINITNEGOTIATING" -> PTKINITNEGOTIATING(x)
                       [] x.t.ptk \notin {"PTKSTART", "PTKINITNEGOTIATING"}
                          /\ x.t.grp = "REKEYNEGOTIATING" -> REKEYNEGOTIATING(x)
                       [] OTHER -> x)
    /\ UNCHANGED used

-----------------------------------------------------------------------------
\* wpa_group_update_sta(): t after a rekeying to the group g has begun.  A
\* station in the middle of its 4-way handshake is passed over.  The field raced
\* records, for the properties, that the rekeying met the station in the middle
\* of a handshake: with message 3/4 or an older message 1/2 unanswered.
wpa_group_update_sta(t, g) ==
    LET u == [t EXCEPT !.GUpdateStationKeys = t.ptk = "PTKINITDONE",
                       !.raced = \/ t.ptk = "PTKINITNEGOTIATING"
                                 \/ t.grp = "REKEYNEGOTIATING"]
    IN  IF t.ptk = "PTKINITDONE" /\ t.grp = "IDLE"
        THEN REKEYNEGOTIATING([t |-> u, g |-> g]).t
        ELSE u

\* wpa_group_setkeys(): the other index gets a new key, GKeyDoneStations is
\* counted anew.
wpa_group_setkeys(g) ==
    [g EXCEPT !.state = "SETKEYS", !.GN = 3 - @,
              !.GTK = [@ EXCEPT ![3 - g.GN] = used.rekey + 2],
              !.GKeyDoneStations = Cardinality({s \in Stations : sta[s].ptk = "PTKINITDONE"})]

\* wpa_rekey_gtk(): the timer of conf.wpa_group_rekey, a station that leaves
\* under wpa_strict_rekey.  A rekeying that waits only for its last step gets it
\* first.
wpa_rekey_gtk ==
    /\ used.rekey < MaxRekeys
    /\ used' = [used EXCEPT !.rekey = @ + 1]
    /\ LET g == wpa_group_setkeys(wpa_group_sm_step(group))
       IN  /\ sta' = [s \in Stations |-> wpa_group_update_sta(sta[s], g)]
           /\ group' = wpa_group_sm_step(g)

\* The station's deauthentication: the event WPA_DEAUTH, then ap_free_sta().
handle_deauth(s) ==
    /\ sta[s].assoc
    /\ Settle(s, [INITIALIZE(Of(sta[s])) EXCEPT !.t = wpa_auth_sta_init])
    /\ UNCHANGED used

\* The station's disassociation: the state machines stay.
handle_disassoc(s) ==
    /\ sta[s].assoc
    /\ Settle(s, INITIALIZE(Of(Unlink(sta[s]))))
    /\ UNCHANGED used

\* ap_free_sta() and wpa_free_sta_sm() of a station that is not associated any
\* more.  Nobody steps the group.
ap_free_sta(s) ==
    /\ sta[s].started /\ ~sta[s].assoc
    /\ sta' = [sta EXCEPT ![s] = wpa_auth_sta_init]
    /\ group' = GKeyDone(Of(sta[s])).g
    /\ UNCHANGED used

Reply(msg) == CASE msg = "1/4" -> "2/4" [] msg = "3/4" -> "4/4" [] msg = "1/2" -> "2/2"

\* The supplicant of t hears the i-th frame on its way, the earlier ones are
\* lost; it takes the group key and answers.
Heard(t, i) ==
    LET m == t.down[i]
    IN  [t EXCEPT !.down = SubSeq(@, i + 1, Len(@)),
                  !.up = IF m.valid THEN @ \cup {Reply(m.msg)} ELSE @,
                  !.held = IF m.msg # "1/4" THEN [t.held EXCEPT ![m.idx] = m.gtk] ELSE @]

Hear(s, i) == /\ sta[s].assoc
              /\ sta' = [sta EXCEPT ![s] = Heard(@, i)]
              /\ UNCHANGED <<group, used>>

Next ==
    \/ wpa_rekey_gtk
    \/ \E s \in Stations :
          \/ Associate(s)
          \/ rx_2_of_4(s) \/ rx_4_of_4(s) \/ rx_2_of_2(s)
          \/ \E request \in BOOLEAN : wpa_request_new_ptk(s, request)
          \/ wpa_send_eapol_timeout(s)
          \/ handle_deauth(s) \/ handle_disassoc(s) \/ ap_free_sta(s)
          \/ \E i \in DOMAIN sta[s].down : Hear(s, i)

\* The event loop of the access point runs the timers that are due.
Spec == /\ Init /\ [][Next]_vars
        /\ \A s \in Stations : WF_vars(wpa_send_eapol_timeout(s))

-----------------------------------------------------------------------------
\* Types, and the ranges of the counters: GKeyDoneStations never goes below
\* zero, where wpa_group_sm_step() would wait for ever, or above the number of
\* stations, and neither TimeoutCtr nor GTimeoutCtr passes its limit.
TypeOK ==
    /\ group.state \in {"SETKEYS", "SETKEYSDONE"} /\ group.GN \in Index
    /\ group.GKeyDoneStations \in 0 .. Cardinality(Stations)
    /\ group.GTK \in [Index -> Version] /\ group.tx \in [idx : Index, gtk : Version]
    /\ \A s \in Stations :
          /\ sta[s].ptk \in {"INITIALIZE", "PTKSTART", "PTKINITNEGOTIATING", "PTKINITDONE"}
          /\ sta[s].grp \in {"IDLE", "REKEYNEGOTIATING"}
          /\ sta[s].TimeoutCtr \in 0 .. UpdateCount
          /\ sta[s].GTimeoutCtr \in 0 .. UpdateCount
          /\ sta[s].up \subseteq {"2/4", "4/4", "2/2"}
          /\ sta[s].held \in [Index -> Version]

\* GKeyDoneStations, decremented in five places of the code, is the number of
\* stations that still owe an answer; a finished rekeying waits for nobody.
CountExact ==
    /\ group.GKeyDoneStations = Cardinality({s \in Stations : sta[s].GUpdateStationKeys})
    /\ group.state = "SETKEYSDONE" => group.GKeyDoneStations = 0

\* A station with a completed handshake.
Up(s) == sta[s].ptk = "PTKINITDONE" /\ sta[s].assoc

HoldsTxKey(s) == sta[s].held[group.tx.idx] = group.tx.gtk

\* After a rekeying every connected station can read what the access point sends
\* to the group, unless the rekeying met it in the middle of a handshake.
GroupKeyReached ==
    group.state = "SETKEYSDONE"
        => \A s \in Stations : Up(s) /\ ~sta[s].raced => HoldsTxKey(s)

\* A station that negotiates a group key while no timer will repeat message 1/2.
Stranded(s) == Up(s) /\ sta[s].grp = "REKEYNEGOTIATING" /\ sta[s].timers = 0

\* A rekeying ends as long as no station is stranded: the stations answer, or
\* the retries run out and they are disconnected.
RekeyEnds ==
    group.state = "SETKEYS" ~> (group.state = "SETKEYSDONE" \/ \E s \in Stations : Stranded(s))
=============================================================================
