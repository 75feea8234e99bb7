------------------------ MODULE GoNegotiationProofs ------------------------
(***************************************************************************)
(* Proofs about GoNegotiation: a negotiation under way is never left       *)
(* without something that takes it further, and two ends that both come to *)
(* provisioning have the roles their intents ask for.                      *)
(*                                                                         *)
(* The two hold for any number of commands of the users, of one kind only  *)
(* if given in time: p2p_authorize() forgets the outcome of a negotiation  *)
(* that is under way (go_state, status), so the peer must not be           *)
(* authorized anew in the middle of one.                                   *)
(***************************************************************************)
EXTENDS GoNegotiation, SequenceTheorems, TLAPS

\* A user authorizes the peer only while the device is idle.
AuthorizedWhenIdle == \A d \in Devices : p2p_authorize(d) => p2p[d].state = "IDLE"

Underway(p) == p.state \notin {"IDLE", "PROVISIONING"}

\* The status of the last frame, rep, will end or prolong the negotiation.
StatusAwaited(p, rep) ==
  /\ p.pending_action_tx /\ rep # "none"
  /\ \/ p.pending_action_state \in {"RESP", "CONF"}
     \/ p.pending_action_state = "RESP_FAILURE" /\ p.status # "success"

\* NegotiationWatched for the record of one device, and what it takes to stay so.
Watched(p, rep) ==
  \/ p.state = "GO_NEG" /\ p.pending_action_state = "NO"
  \/ p.timeout \/ p.roc = "asked"
  \/ p.roc \in {"on", "ending"} /\ p.state = "CONNECT_LISTEN"
  \/ StatusAwaited(p, rep)
  \/ p.pending_action_tx /\ rep # "none" /\ p.pending_action_state = "REQ"

WatchOK(p, rep) ==
  /\ Underway(p) => Watched(p, rep)
  /\ p.state = "GO_NEG" => p.pending_action_state = "NO" \/ StatusAwaited(p, rep)

\* The radio and the timeout that goes with listening.
ListenOK(p) ==
  /\ p.drv_in_listen => p.roc # "none"
  /\ p.state = "CONNECT_LISTEN" /\ p.in_listen => p.timeout

\* A negotiation that goes on without its peer is about to end, and the frames
\* whose status is awaited belong to the state they were sent in.
PeerOK(p) ==
  /\ Underway(p) /\ ~p.go_neg_peer
       => \/ p.state = "CONNECT" /\ p.timeout
          \/ p.state = "CONNECT_LISTEN" /\ (p.timeout \/ p.roc = "asked")
  /\ p.pending_action_state = "RESP" /\ p.pending_action_tx => p.state \in {"GO_NEG", "IDLE"}
  /\ p.pending_action_state = "CONF" /\ p.pending_action_tx =>
       IF p.go_neg_peer THEN p.state \in {"GO_NEG", "PROVISIONING"} /\ p.go_state # "UNKNOWN"
                        ELSE ~Underway(p)

\* The roles: own and peer are the two users' settings.
RoleOK(role, own, peer) ==
  /\ role \in {"LOCAL", "go"} => own >= peer
  /\ role \in {"REMOTE", "client"} => own <= peer

IntentOK(p, peer) ==
  /\ p.wps_ready \/ p.go_neg_peer => p.go_intent = p.p2p_go_intent
  /\ RoleOK(p.go_state, p.p2p_go_intent, peer)
  /\ p.state = "PROVISIONING" /\ p.go_neg_peer
       => p.result \in {"go", "client"} /\ RoleOK(p.result, p.p2p_go_intent, peer)

\* A frame from a device whose setting is own.
FrameOK(m, own, peer) ==
  /\ m.type = "REQ" => m.intent = own
  /\ m.type = "RESP" /\ m.status = "success"
       => m.intent = own /\ ~(own = P2P_MAX_GO_INTENT /\ peer = P2P_MAX_GO_INTENT)

DeviceOK(p, rep, peer) ==
  WatchOK(p, rep) /\ ListenOK(p) /\ PeerOK(p) /\ IntentOK(p, peer)

\* The periods of waiting are counted from the answer that asks for them.
WaitOK(p) == p.state \in {"WAIT_PEER_IDLE", "WAIT_PEER_CONNECT"} => p.wait_count < WaitLimit

TypeInv == TypeOK /\ \A d \in Devices : WaitOK(p2p[d])

Inv ==
  \A d \in Devices :
    /\ DeviceOK(p2p[d], report[d], p2p[Peer(d)].p2p_go_intent)
    /\ \A i \in 1 .. Len(inbox[d]) :
         FrameOK(inbox[d][i], p2p[Peer(d)].p2p_go_intent, p2p[d].p2p_go_intent)

-----------------------------------------------------------------------------
\* The record of a device, with names for the sets of its numbers and words.
Intents == 0 .. P2P_MAX_GO_INTENT
Requests == 0 .. ConnectLimit
Periods == 0 .. WaitLimit
Bits == {0, 1}
Pending == {"NO", "REQ", "RESP", "RESP_FAILURE", "CONF"}
GoStates == {"UNKNOWN", "LOCAL", "REMOTE"}
Radio == {"none", "asked", "on", "ending"}
Results == {"none", "go", "client", "failed"}

Data ==
  [state : States, timeout : BOOLEAN, go_neg_peer : BOOLEAN,
   pending_action_state : Pending, pending_action_tx : BOOLEAN,
   next_tie_breaker : Bits, go_intent : Intents, p2p_go_intent : Intents,
   wps_ready : BOOLEAN, user_rejected : BOOLEAN, wait_response : BOOLEAN,
   wait_confirm : BOOLEAN, connect_reqs : Requests, go_neg_req_sent : BOOLEAN,
   go_state : GoStates, dialog_token : Tokens, status : Statuses,
   wait_count : Periods, in_listen : BOOLEAN, drv_in_listen : BOOLEAN,
   roc : Radio, formation : BOOLEAN, result : Results]

LEMMA DataType == P2pData = Data
  BY DEF P2pData, Data, Intents, Requests, Periods, Bits, Pending, GoStates, Radio, Results

LEMMA WordType ==
  /\ \A w \in {"IDLE", "CONNECT", "CONNECT_LISTEN", "GO_NEG", "WAIT_PEER_CONNECT",
              "WAIT_PEER_IDLE", "PROVISIONING"} : w \in States
  /\ \A w \in {"NO", "REQ", "RESP", "RESP_FAILURE", "CONF"} : w \in Pending
  /\ \A w \in {"UNKNOWN", "LOCAL", "REMOTE"} : w \in GoStates
  /\ \A w \in {"none", "asked", "on", "ending"} : w \in Radio
  /\ \A w \in {"none", "go", "client", "failed"} : w \in Results
  /\ \A w \in {"success", "unavailable", "fail"} : w \in Statuses
  BY DEF States, Pending, GoStates, Radio, Results, Statuses

\* What a helper leaves alone of the fields the invariant is about.
SameFrame(p, q) ==
  q.pending_action_state = p.pending_action_state /\ q.pending_action_tx = p.pending_action_tx
SameIntent(p, q) ==
  q.go_intent = p.go_intent /\ q.p2p_go_intent = p.p2p_go_intent /\ q.go_state = p.go_state
SameRadio(p, q) ==
  /\ q.drv_in_listen = p.drv_in_listen /\ q.in_listen = p.in_listen
  /\ q.roc = "none" <=> p.roc = "none"

LEMMA StopListenEffect ==
  ASSUME NEW p \in Data
  PROVE  LET q == StopListen(p)
         IN  /\ q \in Data /\ q.state = p.state /\ q.timeout = p.timeout
             /\ q.go_neg_peer = p.go_neg_peer /\ q.wps_ready = p.wps_ready
             /\ q.status = p.status /\ q.wait_count = p.wait_count /\ q.result = p.result
             /\ SameFrame(p, q) /\ SameIntent(p, q) /\ SameRadio(p, q)
  <1>1. "ending" \in Radio
    BY WordType
  <1>2. StopListen(p) \in Data
    BY <1>1 DEF StopListen, Data
  <1> QED BY <1>2 DEF StopListen, Data, SameFrame, SameIntent, SameRadio

LEMMA DoneEffect ==
  ASSUME NEW p \in Data
  PROVE  LET q == send_action_done(p)
         IN  /\ q \in Data /\ q.state = p.state /\ q.timeout = p.timeout
             /\ q.go_neg_peer = p.go_neg_peer /\ q.wps_ready = p.wps_ready
             /\ q.status = p.status /\ q.wait_count = p.wait_count /\ q.result = p.result
             /\ q.pending_action_state = p.pending_action_state /\ ~q.pending_action_tx
             /\ SameIntent(p, q) /\ SameRadio(p, q)
  <1> DEFINE c == [p EXCEPT !.pending_action_tx = FALSE]
  <1>1. c \in Data
    BY DEF Data
  <1>2. /\ c.state = p.state /\ c.timeout = p.timeout
        /\ c.go_neg_peer = p.go_neg_peer /\ c.wps_ready = p.wps_ready
        /\ c.status = p.status /\ c.wait_count = p.wait_count /\ c.result = p.result
        /\ c.pending_action_state = p.pending_action_state /\ ~c.pending_action_tx
        /\ SameIntent(p, c) /\ SameRadio(p, c)
    BY DEF Data, SameIntent, SameRadio
  <1>3. send_action_done(p) = StopListen(c)
    BY DEF send_action_done
  <1> HIDE DEF c
  <1> QED BY <1>1, <1>2, <1>3, StopListenEffect DEF SameFrame, SameIntent, SameRadio

LEMMA FailedEffect ==
  ASSUME NEW p \in Data
  PROVE  LET q == p2p_go_neg_failed(p)
         IN  /\ q \in Data /\ q.state = "IDLE" /\ ~q.timeout /\ ~q.go_neg_peer
             /\ q.wps_ready => p.wps_ready
             /\ SameFrame(p, q) /\ SameIntent(p, q) /\ SameRadio(p, q)
  <1> DEFINE w == p.wps_ready /\ ~p.go_neg_peer
             c == [p EXCEPT !.timeout = FALSE, !.state = "IDLE", !.wps_ready = w,
                            !.go_neg_peer = FALSE, !.result = "failed"]
  <1>1. "IDLE" \in States /\ "failed" \in Results /\ w \in BOOLEAN /\ (w => p.wps_ready)
    BY WordType
  <1>2. p2p_go_neg_failed(p) = StopListen(c)
    BY DEF p2p_go_neg_failed, Data
  <1> HIDE DEF w
  <1>3. c \in Data
    BY <1>1 DEF Data
  <1>4. /\ c.state = "IDLE" /\ ~c.timeout /\ ~c.go_neg_peer /\ (c.wps_ready => p.wps_ready)
        /\ SameFrame(p, c) /\ SameIntent(p, c) /\ SameRadio(p, c)
    BY <1>1 DEF Data, SameFrame, SameIntent, SameRadio
  <1> HIDE DEF c
  <1> QED BY <1>2, <1>3, <1>4, StopListenEffect DEF SameFrame, SameIntent, SameRadio

LEMMA CompleteEffect ==
  ASSUME NEW p \in Data
  PROVE  LET q == p2p_go_complete(p)
         IN  /\ q \in Data /\ q.state = "PROVISIONING" /\ ~q.wps_ready
             /\ q.go_neg_peer = p.go_neg_peer
             /\ q.result = (IF p.go_state = "LOCAL" THEN "go" ELSE "client")
             /\ SameFrame(p, q) /\ SameIntent(p, q) /\ SameRadio(p, q)
  <1> DEFINE w == IF p.go_state = "LOCAL" THEN "go" ELSE "client"
             c == [p EXCEPT !.timeout = FALSE, !.go_neg_req_sent = FALSE,
                            !.wps_ready = FALSE, !.state = "PROVISIONING",
                            !.formation = TRUE, !.result = w]
  <1>1. "PROVISIONING" \in States /\ w \in Results
    BY WordType
  <1>2. p2p_go_complete(p) = StopListen(c)
    BY DEF p2p_go_complete
  <1> HIDE DEF w
  <1>3. c \in Data
    BY <1>1 DEF Data
  <1>4. /\ c.state = "PROVISIONING" /\ ~c.wps_ready /\ c.go_neg_peer = p.go_neg_peer
        /\ c.result = w /\ SameFrame(p, c) /\ SameIntent(p, c) /\ SameRadio(p, c)
    BY <1>1 DEF Data, SameFrame, SameIntent, SameRadio
  <1> HIDE DEF c
  <1> QED BY <1>2, <1>3, <1>4, StopListenEffect DEF SameFrame, SameIntent, SameRadio, w

LEMMA StopFindEffect ==
  ASSUME NEW p \in Data, NEW keep \in BOOLEAN
  PROVE  LET q == p2p_stop_find_for_freq(p, keep)
         IN  /\ q \in Data /\ q.state = "IDLE" /\ ~q.timeout /\ ~q.go_neg_peer
             /\ q.wps_ready = p.wps_ready /\ SameFrame(p, q) /\ SameIntent(p, q)
             /\ q.drv_in_listen => p.drv_in_listen
             /\ q.roc = "none" <=> p.roc = "none"
  <1> DEFINE c == [p EXCEPT !.timeout = FALSE, !.state = "IDLE", !.go_neg_peer = FALSE]
             b == [c EXCEPT !.drv_in_listen = FALSE]
  <1>1. "IDLE" \in States
    BY WordType
  <1>2. p2p_stop_find_for_freq(p, keep) \in {c, StopListen(b)}
    BY DEF p2p_stop_find_for_freq
  <1>3. c \in Data
    BY <1>1 DEF Data
  <1>4. /\ c.state = "IDLE" /\ ~c.timeout /\ ~c.go_neg_peer
        /\ c.wps_ready = p.wps_ready /\ SameFrame(p, c) /\ SameIntent(p, c)
        /\ c.drv_in_listen = p.drv_in_listen /\ c.roc = p.roc
    BY <1>1 DEF Data, SameFrame, SameIntent
  <1> HIDE DEF c
  <1>5. b \in Data
    BY <1>3 DEF Data
  <1>6. /\ b.state = c.state /\ b.timeout = c.timeout /\ b.go_neg_peer = c.go_neg_peer
        /\ b.wps_ready = c.wps_ready /\ SameFrame(c, b) /\ SameIntent(c, b)
        /\ ~b.drv_in_listen /\ b.roc = c.roc
    BY <1>3 DEF Data, SameFrame, SameIntent
  <1> HIDE DEF b
  <1>7. CASE p2p_stop_find_for_freq(p, keep) = c
    BY <1>3, <1>4, <1>7
  <1>8. CASE p2p_stop_find_for_freq(p, keep) = StopListen(b)
    BY <1>4, <1>5, <1>6, <1>8, StopListenEffect DEF SameFrame, SameIntent, SameRadio
  <1> QED BY <1>2, <1>7, <1>8

\* What a handler leaves: a record, and at most one frame.
Outcome == [p : Data, out : {<<>>} \cup {<<f>> : f \in Frames}]

LEMMA QuietEffect ==
  ASSUME NEW p \in Data
  PROVE  Quiet(p) \in Outcome /\ Quiet(p).p = p /\ Quiet(p).out = <<>>
  BY DEF Quiet, Outcome

LEMMA SendsEffect ==
  ASSUME NEW p \in Data, NEW f \in Frames
  PROVE  LET r == Sends(p, f) q == Sends(p, f).p
         IN  /\ r \in Outcome /\ r.out = <<f>>
             /\ q.state = p.state /\ q.timeout = p.timeout
             /\ q.go_neg_peer = p.go_neg_peer /\ q.wps_ready = p.wps_ready
             /\ q.status = p.status /\ q.wait_count = p.wait_count /\ q.result = p.result
             /\ q.pending_action_state = p.pending_action_state /\ q.pending_action_tx
             /\ SameIntent(p, q) /\ SameRadio(p, q) /\ q.roc = p.roc
  <1> DEFINE c == [p EXCEPT !.pending_action_tx = TRUE]
  <1>1. c \in Data
    BY DEF Data
  <1>2. /\ c.state = p.state /\ c.timeout = p.timeout
        /\ c.go_neg_peer = p.go_neg_peer /\ c.wps_ready = p.wps_ready
        /\ c.status = p.status /\ c.wait_count = p.wait_count /\ c.result = p.result
        /\ c.pending_action_state = p.pending_action_state /\ c.pending_action_tx
        /\ SameIntent(p, c) /\ SameRadio(p, c) /\ c.roc = p.roc
    BY DEF Data, SameIntent, SameRadio
  <1>3. Sends(p, f) = [p |-> c, out |-> <<f>>]
    BY DEF Sends
  <1> HIDE DEF c
  <1>4. Sends(p, f) \in Outcome
    BY <1>1, <1>3 DEF Outcome
  <1> QED BY <1>2, <1>3, <1>4

LEMMA ConnectEffect ==
  ASSUME NEW p \in Data, p.connect_reqs < ConnectLimit
  PROVE  LET r == p2p_connect_send(p) q == p2p_connect_send(p).p
         IN  /\ r \in Outcome
             /\ \E f \in Frames : /\ r.out = <<f>> /\ f.type = "REQ" /\ f.intent = p.go_intent
             /\ q.state = "CONNECT" /\ q.go_neg_peer /\ q.timeout = p.timeout
             /\ q.pending_action_state = "REQ" /\ q.pending_action_tx
             /\ SameIntent(p, q) /\ SameRadio(p, q)
  <1> DEFINE token == IF p.dialog_token = MaxToken THEN 1 ELSE p.dialog_token + 1
             tie == 1 - p.next_tie_breaker
             reqs == p.connect_reqs + 1
             f == [type |-> "REQ", token |-> token, intent |-> p.go_intent,
                   tie |-> p.next_tie_breaker]
             c == [p EXCEPT !.dialog_token = token, !.next_tie_breaker = tie,
                            !.state = "CONNECT", !.pending_action_state = "REQ",
                            !.go_neg_peer = TRUE, !.wait_response = TRUE,
                            !.connect_reqs = reqs]
  <1>1. "CONNECT" \in States /\ "REQ" \in Pending
    BY WordType
  <1>2. p.dialog_token \in Tokens /\ p.connect_reqs \in Requests /\ p.next_tie_breaker \in Bits
        /\ p.go_intent \in Intents
    BY DEF Data
  <1>3. token \in Tokens /\ tie \in Bits /\ reqs \in Requests
    BY <1>2, ConstantsAssumption DEF Tokens, Bits, Requests
  <1>4. p2p_connect_send(p) = Sends(c, f)
    BY DEF p2p_connect_send, Data
  <1> HIDE DEF token, tie, reqs
  <1>5. f \in Frames /\ f.type = "REQ" /\ f.intent = p.go_intent
    BY <1>2, <1>3 DEF Frames, Intents, Bits
  <1>6. c \in Data
    BY <1>1, <1>3 DEF Data
  <1>7. /\ c.state = "CONNECT" /\ c.go_neg_peer /\ c.timeout = p.timeout
        /\ c.pending_action_state = "REQ" /\ SameIntent(p, c) /\ SameRadio(p, c)
    BY <1>1, <1>3 DEF Data, SameIntent, SameRadio
  <1> HIDE DEF c, f
  <1> QED BY <1>4, <1>5, <1>6, <1>7, SendsEffect DEF SameIntent, SameRadio

-----------------------------------------------------------------------------
\* The parts of the invariant that hold in every state, handlers included.
BaseOK(p, peer) ==
  /\ p.drv_in_listen => p.roc # "none"
  /\ p.wps_ready \/ p.go_neg_peer => p.go_intent = p.p2p_go_intent
  /\ RoleOK(p.go_state, p.p2p_go_intent, peer)

\* What a handler started in p owes: its record, and the frame it sends.
Good(r, p, rep, peer) ==
  /\ r.out = <<>> => DeviceOK(r.p, rep, peer)
  /\ \A f \in Frames : r.out = <<f>>
       => /\ FrameOK(f, p.p2p_go_intent, peer)
          /\ DeviceOK(r.p, "ack", peer) /\ DeviceOK(r.p, "no_ack", peer)

Sound(r, p) == r \in Outcome /\ WaitOK(r.p) /\ r.p.p2p_go_intent = p.p2p_go_intent

LEMMA BaseFacts ==
  ASSUME NEW p, NEW rep, NEW peer, DeviceOK(p, rep, peer)
  PROVE  BaseOK(p, peer)
  BY DEF DeviceOK, ListenOK, IntentOK, BaseOK

\* A device that is idle and has no peer owes nothing else.
LEMMA IdleOK ==
  ASSUME NEW q \in Data, NEW rep, NEW peer, q.state = "IDLE", ~q.go_neg_peer, BaseOK(q, peer)
  PROVE  DeviceOK(q, rep, peer) /\ WaitOK(q)
  BY DEF DeviceOK, WatchOK, ListenOK, PeerOK, IntentOK, BaseOK, Underway, WaitOK

LEMMA FailedOK ==
  ASSUME NEW p \in Data, NEW rep, NEW peer, BaseOK(p, peer)
  PROVE  DeviceOK(p2p_go_neg_failed(p), rep, peer)
  <1> DEFINE q == p2p_go_neg_failed(p)
  <1>1. /\ q \in Data /\ q.state = "IDLE" /\ ~q.go_neg_peer
        /\ q.wps_ready => p.wps_ready
        /\ SameIntent(p, q) /\ SameRadio(p, q)
    BY FailedEffect
  <1> HIDE DEF q
  <1>2. BaseOK(q, peer)
    BY <1>1 DEF BaseOK, SameIntent, SameRadio
  <1>3. DeviceOK(q, rep, peer)
    BY <1>1, <1>2, IdleOK
  <1> QED BY <1>3 DEF q

LEMMA CompleteOK ==
  ASSUME NEW p \in Data, NEW rep, NEW peer, BaseOK(p, peer), p.go_state # "UNKNOWN",
         ~(p.pending_action_state = "RESP" /\ p.pending_action_tx)
  PROVE  DeviceOK(p2p_go_complete(p), rep, peer) /\ WaitOK(p2p_go_complete(p))
  <1> DEFINE q == p2p_go_complete(p)
  <1>1. /\ q \in Data /\ q.state = "PROVISIONING" /\ ~q.wps_ready
        /\ q.go_neg_peer = p.go_neg_peer
        /\ q.result = (IF p.go_state = "LOCAL" THEN "go" ELSE "client")
        /\ SameFrame(p, q) /\ SameIntent(p, q) /\ SameRadio(p, q)
    BY CompleteEffect
  <1> HIDE DEF q
  <1>2. p.go_state \in {"LOCAL", "REMOTE"}
    BY DEF Data, GoStates
  <1>3. BaseOK(q, peer)
    BY <1>1 DEF BaseOK, SameIntent, SameRadio
  <1>4. q.result \in {"go", "client"} /\ RoleOK(q.result, q.p2p_go_intent, peer)
    BY <1>1, <1>2 DEF BaseOK, SameIntent, RoleOK
  <1>5. IntentOK(q, peer)
    BY <1>3, <1>4 DEF IntentOK, BaseOK
  <1>6. PeerOK(q)
    BY <1>1 DEF PeerOK, Underway, SameFrame, SameIntent
  <1>7. WatchOK(q, rep) /\ ListenOK(q) /\ WaitOK(q)
    BY <1>1, <1>3 DEF WatchOK, Underway, ListenOK, BaseOK, WaitOK
  <1>8. DeviceOK(q, rep, peer) /\ WaitOK(q)
    BY <1>5, <1>6, <1>7 DEF DeviceOK
  <1> QED BY <1>8 DEF q

LEMMA ConnectOK ==
  ASSUME NEW p \in Data, NEW rep, NEW peer, p.connect_reqs < ConnectLimit
  PROVE  LET r == p2p_connect_send(p)
         IN  /\ r \in Outcome /\ WaitOK(r.p) /\ r.p.p2p_go_intent = p.p2p_go_intent
             /\ BaseOK(p, peer) /\ p.go_intent = p.p2p_go_intent => Good(r, p, rep, peer)
  <1> DEFINE r == p2p_connect_send(p)
             q == p2p_connect_send(p).p
  <1>1. /\ r \in Outcome /\ q = r.p
        /\ \E f \in Frames : r.out = <<f>> /\ f.type = "REQ" /\ f.intent = p.go_intent
        /\ q.state = "CONNECT" /\ q.go_neg_peer /\ q.timeout = p.timeout
        /\ q.pending_action_state = "REQ" /\ q.pending_action_tx
        /\ SameIntent(p, q) /\ SameRadio(p, q)
    BY ConnectEffect
  <1> HIDE DEF r, q
  <1>2. WaitOK(q) /\ q.p2p_go_intent = p.p2p_go_intent
    BY <1>1 DEF WaitOK, SameIntent
  <1>3. ASSUME BaseOK(p, peer), p.go_intent = p.p2p_go_intent
        PROVE  Good(r, p, rep, peer)
    <2>1. PICK f \in Frames : r.out = <<f>> /\ f.type = "REQ" /\ f.intent = p.go_intent
      BY <1>1
    <2>2. FrameOK(f, p.p2p_go_intent, peer)
      BY <1>3, <2>1 DEF FrameOK
    <2>3. IntentOK(q, peer) /\ ListenOK(q)
      BY <1>1, <1>3 DEF IntentOK, ListenOK, BaseOK, SameIntent, SameRadio
    <2>4. PeerOK(q)
      BY <1>1 DEF PeerOK
    <2>5. WatchOK(q, "ack") /\ WatchOK(q, "no_ack")
      BY <1>1 DEF WatchOK, Watched
    <2>6. DeviceOK(q, "ack", peer) /\ DeviceOK(q, "no_ack", peer)
      BY <2>3, <2>4, <2>5 DEF DeviceOK
    <2>7. r.out # <<>> /\ \A g \in Frames : r.out = <<g>> => g = f
      BY <2>1
    <2> QED BY <1>1, <2>2, <2>6, <2>7 DEF Good
  <1> QED BY <1>1, <1>2, <1>3 DEF r, q

\* What the invariant reads of a record, but for what sending a frame changes.
Alike(p, q) ==
  /\ q.state = p.state /\ q.timeout = p.timeout
  /\ q.go_neg_peer = p.go_neg_peer /\ q.wps_ready = p.wps_ready
  /\ q.status = p.status /\ q.wait_count = p.wait_count /\ q.result = p.result
  /\ q.pending_action_state = p.pending_action_state
  /\ SameIntent(p, q) /\ SameRadio(p, q) /\ q.roc = p.roc

LEMMA AlikeOK ==
  ASSUME NEW p, NEW q, NEW rep, NEW peer, Alike(p, q),
         q.pending_action_tx = p.pending_action_tx
  PROVE  (WaitOK(p) => WaitOK(q)) /\ (DeviceOK(p, rep, peer) => DeviceOK(q, rep, peer))
  <1>1. WaitOK(p) => WaitOK(q)
    BY DEF Alike, WaitOK
  <1>2. WatchOK(p, rep) => WatchOK(q, rep)
    BY DEF Alike, WatchOK, Watched, StatusAwaited, Underway
  <1>3. (ListenOK(p) => ListenOK(q)) /\ (PeerOK(p) => PeerOK(q))
    BY DEF Alike, ListenOK, PeerOK, Underway, SameIntent, SameRadio
  <1>4. IntentOK(p, peer) => IntentOK(q, peer)
    BY DEF Alike, IntentOK, SameIntent
  <1> QED BY <1>1, <1>2, <1>3, <1>4 DEF DeviceOK

\* A handler that sends nothing.
LEMMA QuietOK ==
  ASSUME NEW p, NEW q \in Data, NEW rep, NEW peer, WaitOK(q),
         q.p2p_go_intent = p.p2p_go_intent
  PROVE  /\ Sound(Quiet(q), p)
         /\ DeviceOK(q, rep, peer) => Good(Quiet(q), p, rep, peer)
  <1>1. Quiet(q) \in Outcome /\ Quiet(q).p = q /\ Quiet(q).out = <<>>
    BY QuietEffect
  <1>2. \A f \in Frames : Quiet(q).out # <<f>>
    BY <1>1
  <1> QED BY <1>1, <1>2 DEF Sound, Good

\* A frame is sent from the record c.
Sendable(c, peer) ==
  \A q : Alike(c, q) /\ q.pending_action_tx =>
           DeviceOK(q, "ack", peer) /\ DeviceOK(q, "no_ack", peer)

LEMMA SendsOK ==
  ASSUME NEW p, NEW c \in Data, NEW f \in Frames, NEW rep, NEW peer, WaitOK(c),
         c.p2p_go_intent = p.p2p_go_intent
  PROVE  /\ Sound(Sends(c, f), p)
         /\ FrameOK(f, p.p2p_go_intent, peer) /\ Sendable(c, peer)
              => Good(Sends(c, f), p, rep, peer)
  <1> DEFINE r == Sends(c, f)
             q == Sends(c, f).p
  <1>1. /\ r \in Outcome /\ r.out = <<f>> /\ r.p = q
        /\ Alike(c, q) /\ q.pending_action_tx
    BY SendsEffect DEF Alike
  <1> HIDE DEF r, q
  <1>2. WaitOK(q) /\ q.p2p_go_intent = p.p2p_go_intent
    BY <1>1 DEF Alike, WaitOK, SameIntent
  <1>3. Sendable(c, peer) => DeviceOK(q, "ack", peer) /\ DeviceOK(q, "no_ack", peer)
    BY <1>1 DEF Sendable
  <1>4. r.out # <<>> /\ \A g \in Frames : r.out = <<g>> => g = f
    BY <1>1
  <1>5. Sound(r, p)
    BY <1>1, <1>2 DEF Sound
  <1>6. FrameOK(f, p.p2p_go_intent, peer) /\ Sendable(c, peer) => Good(r, p, rep, peer)
    BY <1>1, <1>3, <1>4 DEF Good
  <1> QED BY <1>5, <1>6 DEF r

-----------------------------------------------------------------------------
\* Received frames

LEMMA DetFacts ==
  ASSUME NEW own \in Intents, NEW peer \in Intents, NEW tie \in Bits
  PROVE  LET go == p2p_go_det(own, peer, tie)
         IN  /\ go = -1 <=> own = P2P_MAX_GO_INTENT /\ peer = P2P_MAX_GO_INTENT
             /\ go # -1 => /\ GoState(go) \in GoStates /\ GoState(go) # "UNKNOWN"
                           /\ RoleOK(GoState(go), own, peer)
  BY DEF p2p_go_det, GoState, RoleOK, Intents, Bits, GoStates, P2P_MAX_GO_INTENT

LEMMA FrameType ==
  ASSUME NEW m \in Frames
  PROVE  /\ m.type \in {"REQ", "RESP", "CONF"} /\ m.token \in Tokens
         /\ m.type \in {"REQ", "RESP"} => m.intent \in Intents /\ m.tie \in Bits
         /\ m.type \in {"RESP", "CONF"} => m.status \in Statuses
         /\ m.type = "REQ" => 1 - m.tie \in Bits
  BY DEF Frames, Intents, Bits

LEMMA ResponseType ==
  ASSUME NEW token \in Tokens, NEW intent \in Intents, NEW tie \in Bits, NEW status \in Statuses
  PROVE  LET f == [type |-> "RESP", token |-> token, intent |-> intent, tie |-> tie,
                   status |-> status]
         IN  f \in Frames /\ f.type = "RESP" /\ f.intent = intent /\ f.status = status
  BY DEF Frames, Intents, Bits

LEMMA ConfirmType ==
  ASSUME NEW token \in Tokens, NEW status \in Statuses
  PROVE  LET f == [type |-> "CONF", token |-> token, status |-> status]
         IN  f \in Frames /\ f.type = "CONF"
  BY DEF Frames

\* A Request is refused: the callback for the Response's status ends the negotiation.
LEMMA RefuseOK ==
  ASSUME NEW p \in Data, WaitOK(p), NEW rep, NEW peer, NEW f \in Frames,
         NEW status \in Statuses, status # "success", f.type = "RESP", f.status = status
  PROVE  LET c == [[p EXCEPT !.pending_action_state = "RESP_FAILURE"] EXCEPT !.status = status]
         IN  /\ Sound(Sends(c, f), p)
             /\ DeviceOK(p, rep, peer) => Good(Sends(c, f), p, rep, peer)
  <1> DEFINE b == [p EXCEPT !.pending_action_state = "RESP_FAILURE"]
             c == [b EXCEPT !.status = status]
  <1>1. "RESP_FAILURE" \in Pending
    BY WordType
  <1>2. b \in Data
    BY <1>1 DEF Data
  <1>3. c \in Data
    BY <1>2 DEF Data
  <1>4. /\ c.state = p.state /\ c.timeout = p.timeout
        /\ c.go_neg_peer = p.go_neg_peer /\ c.wps_ready = p.wps_ready
        /\ c.status = status /\ c.wait_count = p.wait_count /\ c.result = p.result
        /\ c.pending_action_state = "RESP_FAILURE"
        /\ SameIntent(p, c) /\ SameRadio(p, c) /\ c.roc = p.roc
    BY DEF Data, SameIntent, SameRadio
  <1> HIDE DEF b, c
  <1>5. WaitOK(c) /\ c.p2p_go_intent = p.p2p_go_intent
    BY <1>4 DEF WaitOK, SameIntent
  <1>6. FrameOK(f, p.p2p_go_intent, peer)
    BY DEF FrameOK
  <1>7. ASSUME DeviceOK(p, rep, peer)
        PROVE  Sendable(c, peer)
    <2> SUFFICES ASSUME NEW q, Alike(c, q), q.pending_action_tx
                 PROVE  DeviceOK(q, "ack", peer) /\ DeviceOK(q, "no_ack", peer)
      BY DEF Sendable
    <2>1. WatchOK(q, "ack") /\ WatchOK(q, "no_ack")
      BY <1>4 DEF Alike, WatchOK, Watched, StatusAwaited
    <2>2. ListenOK(q)
      BY <1>4, <1>7 DEF Alike, DeviceOK, ListenOK, SameRadio
    <2>3. PeerOK(q)
      BY <1>4, <1>7 DEF Alike, DeviceOK, PeerOK, Underway
    <2>4. IntentOK(q, peer)
      BY <1>4, <1>7 DEF Alike, DeviceOK, IntentOK, SameIntent
    <2> QED BY <2>1, <2>2, <2>3, <2>4 DEF DeviceOK
  <1>8. Sound(Sends(c, f), p) /\ (DeviceOK(p, rep, peer) => Good(Sends(c, f), p, rep, peer))
    BY <1>3, <1>5, <1>6, <1>7, SendsOK
  <1> QED BY <1>8 DEF b, c

\* A Request is accepted: whatever the device was doing is stopped.
Accepted(i, role, token) ==
  [[i EXCEPT !.go_state = role, !.state = "GO_NEG", !.timeout = FALSE,
             !.dialog_token = token, !.go_neg_peer = TRUE,
             !.pending_action_state = "RESP", !.wait_confirm = TRUE]
     EXCEPT !.status = "success"]

LEMMA AcceptOK ==
  ASSUME NEW p \in Data, NEW rep, NEW peer, NEW i \in Data, NEW f \in Frames,
         NEW token \in Tokens, NEW role \in GoStates, role # "UNKNOWN",
         p.wps_ready, i.wps_ready, SameIntent(p, i),
         BaseOK(p, peer) => (i.drv_in_listen => i.roc # "none")
  PROVE  LET c == Accepted(i, role, token)
         IN  /\ Sound(Sends(c, f), p)
             /\ /\ DeviceOK(p, rep, peer)
                /\ FrameOK(f, p.p2p_go_intent, peer)
                /\ RoleOK(role, p.p2p_go_intent, peer)
                => Good(Sends(c, f), p, rep, peer)
  <1> DEFINE b == [i EXCEPT !.go_state = role,
                             !.state = "GO_NEG", !.timeout = FALSE,
                             !.dialog_token = token,
                             !.go_neg_peer = TRUE,
                             !.pending_action_state = "RESP",
                             !.wait_confirm = TRUE]
             c == [b EXCEPT !.status = "success"]
  <1>1. "RESP" \in Pending /\ "GO_NEG" \in States /\ "success" \in Statuses
    BY WordType
  <1>2. b \in Data
    BY <1>1 DEF Data
  <1>3. /\ b.state = "GO_NEG" /\ ~b.timeout /\ b.go_neg_peer /\ b.wps_ready = i.wps_ready
        /\ b.pending_action_state = "RESP" /\ b.go_state = role
        /\ b.go_intent = i.go_intent /\ b.p2p_go_intent = i.p2p_go_intent
        /\ SameRadio(i, b)
    BY DEF Data, SameRadio
  <1> HIDE DEF b
  <1>4. c \in Data
    BY <1>1, <1>2 DEF Data
  <1>5. /\ c.state = b.state /\ c.timeout = b.timeout /\ c.go_neg_peer = b.go_neg_peer
        /\ c.wps_ready = b.wps_ready /\ c.pending_action_state = b.pending_action_state
        /\ SameIntent(b, c) /\ SameRadio(b, c)
    BY <1>2 DEF Data, SameIntent, SameRadio
  <1> HIDE DEF c
  <1>6. WaitOK(c) /\ c.p2p_go_intent = p.p2p_go_intent
    BY <1>3, <1>5 DEF WaitOK, SameIntent
  <1>7. ASSUME DeviceOK(p, rep, peer), RoleOK(role, p.p2p_go_intent, peer)
        PROVE  Sendable(c, peer)
    <2> SUFFICES ASSUME NEW q, Alike(c, q), q.pending_action_tx
                 PROVE  DeviceOK(q, "ack", peer) /\ DeviceOK(q, "no_ack", peer)
      BY DEF Sendable
    <2>1. BaseOK(p, peer)
      BY <1>7, BaseFacts
    <2>2. /\ q.state = "GO_NEG" /\ ~q.timeout /\ q.go_neg_peer
          /\ q.pending_action_state = "RESP" /\ q.go_state = role
          /\ q.go_intent = p.go_intent /\ q.p2p_go_intent = p.p2p_go_intent
          /\ q.drv_in_listen => q.roc # "none"
      BY <1>3, <1>5, <2>1 DEF Alike, SameIntent, SameRadio
    <2>3. WatchOK(q, "ack") /\ WatchOK(q, "no_ack") /\ ListenOK(q) /\ PeerOK(q)
      BY <2>2 DEF WatchOK, Watched, StatusAwaited, ListenOK, PeerOK, Underway
    <2>4. IntentOK(q, peer)
      BY <1>7, <2>1, <2>2 DEF IntentOK, BaseOK
    <2> QED BY <2>3, <2>4 DEF DeviceOK
  <1>8. Sound(Sends(c, f), p)
        /\ (DeviceOK(p, rep, peer) /\ FrameOK(f, p.p2p_go_intent, peer)
            /\ RoleOK(role, p.p2p_go_intent, peer) => Good(Sends(c, f), p, rep, peer))
    BY <1>4, <1>6, <1>7, SendsOK
  <1> QED BY <1>8 DEF b, c, Accepted

LEMMA RequestOK ==
  ASSUME NEW d \in Devices, NEW p \in Data, WaitOK(p), NEW rep, NEW peer \in Intents,
         NEW m \in Frames, m.type = "REQ"
  PROVE  LET r == p2p_process_go_neg_req(d, p, m)
         IN  /\ Sound(r, p)
             /\ DeviceOK(p, rep, peer) /\ FrameOK(m, peer, p.p2p_go_intent)
                  => Good(r, p, rep, peer)
  <1> DEFINE go == p2p_go_det(p.go_intent, m.intent, m.tie)
             F(q, status) == [type |-> "RESP", token |-> m.token, intent |-> q.go_intent,
                              tie |-> 1 - m.tie, status |-> status]
             c(status) == [[p EXCEPT !.pending_action_state = "RESP_FAILURE"]
                             EXCEPT !.status = status]
             i == IF p.state = "IDLE" THEN p ELSE p2p_stop_find_for_freq(p, TRUE)
             b == [i EXCEPT !.go_state = GoState(go),
                            !.state = "GO_NEG", !.timeout = FALSE,
                            !.dialog_token = m.token,
                            !.go_neg_peer = TRUE,
                            !.pending_action_state = "RESP",
                            !.wait_confirm = TRUE]
             a == [b EXCEPT !.status = "success"]
             R == p2p_process_go_neg_req(d, p, m)
  <1>1. /\ m.token \in Tokens /\ m.intent \in Intents /\ m.tie \in Bits /\ 1 - m.tie \in Bits
        /\ p.go_intent \in Intents
    BY FrameType DEF Data
  <1>2. \/ \E status \in {"fail", "unavailable"} :
              /\ R = Sends(c(status), F([p EXCEPT !.pending_action_state = "RESP_FAILURE"], status))
        \/ R = Quiet(p)
        \/ p.wps_ready /\ go # -1 /\ R = Sends(a, F(b, "success"))
    BY DEF p2p_process_go_neg_req
  <1> DEFINE Refused == \E status \in {"fail", "unavailable"} :
               R = Sends(c(status), F([p EXCEPT !.pending_action_state = "RESP_FAILURE"], status))
             Agreed == p.wps_ready /\ go # -1 /\ R = Sends(a, F(b, "success"))
  <1>3. ASSUME Refused
        PROVE  Sound(R, p) /\ (DeviceOK(p, rep, peer) => Good(R, p, rep, peer))
    <2>0. PICK status \in {"fail", "unavailable"} :
            R = Sends(c(status), F([p EXCEPT !.pending_action_state = "RESP_FAILURE"], status))
      BY <1>3
    <2> DEFINE f == F([p EXCEPT !.pending_action_state = "RESP_FAILURE"], status)
    <2>1. [p EXCEPT !.pending_action_state = "RESP_FAILURE"].go_intent = p.go_intent
      BY DEF Data
    <2>2. status \in Statuses /\ status # "success"
      BY WordType
    <2>3. f \in Frames /\ f.type = "RESP" /\ f.status = status
      BY <1>1, <2>1, <2>2, ResponseType
    <2> HIDE DEF f
    <2>4. R = Sends(c(status), f)
      BY <2>0 DEF f
    <2> HIDE DEF R
    <2> QED BY <2>2, <2>3, <2>4, RefuseOK
  <1>4. ASSUME R = Quiet(p)
        PROVE  Sound(R, p) /\ (DeviceOK(p, rep, peer) => Good(R, p, rep, peer))
    BY <1>4, QuietOK
  <1>5. ASSUME Agreed
        PROVE  Sound(R, p) /\ (DeviceOK(p, rep, peer) /\ FrameOK(m, peer, p.p2p_go_intent)
                                 => Good(R, p, rep, peer))
    <2>1. /\ i \in Data /\ i.wps_ready = p.wps_ready /\ SameIntent(p, i)
          /\ i.drv_in_listen => p.drv_in_listen
          /\ i.roc = "none" <=> p.roc = "none"
      BY StopFindEffect DEF SameIntent
    <2>2. BaseOK(p, peer) => (i.drv_in_listen => i.roc # "none")
      BY <2>1 DEF BaseOK
    <2> DEFINE role == GoState(go)
    <2>3. role \in GoStates /\ role # "UNKNOWN" /\ RoleOK(role, p.go_intent, m.intent)
          /\ ~(p.go_intent = P2P_MAX_GO_INTENT /\ m.intent = P2P_MAX_GO_INTENT)
      BY <1>1, <1>5, DetFacts
    <2>4. b.go_intent = p.go_intent
      BY <2>1 DEF Data, SameIntent
    <2> DEFINE f == F(b, "success")
    <2>5. f \in Frames /\ f.type = "RESP" /\ f.intent = p.go_intent
      BY <1>1, <2>4, WordType, ResponseType
    <2>6. R = Sends(Accepted(i, role, m.token), f)
      BY <1>5 DEF Accepted
    <2>7. DeviceOK(p, rep, peer) /\ FrameOK(m, peer, p.p2p_go_intent)
            => /\ RoleOK(role, p.p2p_go_intent, peer)
               /\ FrameOK(f, p.p2p_go_intent, peer)
      <3> HIDE DEF f, role
      <3> QED BY <1>5, <2>3, <2>5, BaseFacts DEF FrameOK, BaseOK
    <2>8. p.wps_ready /\ i.wps_ready /\ SameIntent(p, i)
      BY <1>5, <2>1
    <2> HIDE DEF f, role, i, R
    <2>9. LET c1 == Accepted(i, role, m.token)
          IN  /\ Sound(Sends(c1, f), p)
              /\ /\ DeviceOK(p, rep, peer)
                 /\ FrameOK(f, p.p2p_go_intent, peer)
                 /\ RoleOK(role, p.p2p_go_intent, peer)
                 => Good(Sends(c1, f), p, rep, peer)
      BY <1>1, <2>1, <2>2, <2>3, <2>5, <2>8, AcceptOK
    <2> QED BY <2>6, <2>7, <2>9
  <1>6. Refused \/ R = Quiet(p) \/ Agreed
    BY <1>2
  <1> HIDE DEF R, Refused, Agreed
  <1>7. Sound(R, p) /\ (DeviceOK(p, rep, peer) /\ FrameOK(m, peer, p.p2p_go_intent)
                          => Good(R, p, rep, peer))
    BY <1>3, <1>4, <1>5, <1>6
  <1> QED BY <1>7 DEF R

\* A Response is agreed to: the Confirm's status completes the negotiation.
LEMMA AgreeOK ==
  ASSUME NEW p \in Data, NEW rep, NEW peer, NEW f \in Frames, f.type = "CONF",
         NEW role \in GoStates, role # "UNKNOWN", p.go_neg_peer
  PROVE  LET c == [p EXCEPT !.state = "GO_NEG", !.timeout = FALSE,
                            !.pending_action_state = "CONF", !.go_state = role]
         IN  /\ Sound(Sends(c, f), p)
             /\ BaseOK(p, peer) /\ RoleOK(role, p.p2p_go_intent, peer)
                  => Good(Sends(c, f), p, rep, peer)
  <1> DEFINE c == [p EXCEPT !.state = "GO_NEG", !.timeout = FALSE,
                            !.pending_action_state = "CONF", !.go_state = role]
  <1>1. "CONF" \in Pending /\ "GO_NEG" \in States
    BY WordType
  <1>2. c \in Data
    BY <1>1 DEF Data
  <1>3. /\ c.state = "GO_NEG" /\ ~c.timeout /\ c.go_neg_peer
        /\ c.pending_action_state = "CONF" /\ c.go_state = role
        /\ c.go_intent = p.go_intent /\ c.p2p_go_intent = p.p2p_go_intent
        /\ SameRadio(p, c)
    BY DEF Data, SameRadio
  <1> HIDE DEF c
  <1>4. WaitOK(c) /\ FrameOK(f, p.p2p_go_intent, peer)
    BY <1>3 DEF WaitOK, FrameOK
  <1>5. ASSUME BaseOK(p, peer), RoleOK(role, p.p2p_go_intent, peer)
        PROVE  Sendable(c, peer)
    <2> SUFFICES ASSUME NEW q, Alike(c, q), q.pending_action_tx
                 PROVE  DeviceOK(q, "ack", peer) /\ DeviceOK(q, "no_ack", peer)
      BY DEF Sendable
    <2>1. /\ q.state = "GO_NEG" /\ ~q.timeout /\ q.go_neg_peer
          /\ q.pending_action_state = "CONF" /\ q.go_state = role
          /\ q.go_intent = p.go_intent /\ q.p2p_go_intent = p.p2p_go_intent
          /\ q.drv_in_listen => q.roc # "none"
      BY <1>3, <1>5 DEF Alike, SameIntent, SameRadio, BaseOK
    <2>2. WatchOK(q, "ack") /\ WatchOK(q, "no_ack") /\ ListenOK(q) /\ PeerOK(q)
      BY <2>1 DEF WatchOK, Watched, StatusAwaited, ListenOK, PeerOK, Underway
    <2>3. IntentOK(q, peer)
      BY <1>5, <2>1 DEF IntentOK, BaseOK
    <2> QED BY <2>2, <2>3 DEF DeviceOK
  <1>6. /\ Sound(Sends(c, f), p)
        /\ BaseOK(p, peer) /\ RoleOK(role, p.p2p_go_intent, peer)
             => Good(Sends(c, f), p, rep, peer)
    BY <1>2, <1>3, <1>4, <1>5, SendsOK
  <1> QED BY <1>6 DEF c

\* A Response asks to wait for the peer's user.
LEMMA WaitForPeerOK ==
  ASSUME NEW p \in Data, NEW rep, NEW peer, p.go_neg_peer
  PROVE  LET q == send_action_done([p EXCEPT !.go_neg_req_sent = FALSE, !.wait_count = 0,
                                             !.state = "WAIT_PEER_IDLE", !.timeout = TRUE])
         IN  /\ q \in Data /\ WaitOK(q) /\ q.p2p_go_intent = p.p2p_go_intent
             /\ BaseOK(p, peer) => DeviceOK(q, rep, peer)
  <1> DEFINE c == [p EXCEPT !.go_neg_req_sent = FALSE, !.wait_count = 0,
                            !.state = "WAIT_PEER_IDLE", !.timeout = TRUE]
             q == send_action_done(c)
  <1>1. "WAIT_PEER_IDLE" \in States /\ 0 \in Periods /\ 0 < WaitLimit
    BY WordType, ConstantsAssumption DEF Periods
  <1>2. c \in Data
    BY <1>1 DEF Data
  <1>3. /\ c.state = "WAIT_PEER_IDLE" /\ c.timeout /\ c.go_neg_peer /\ c.wait_count = 0
        /\ SameIntent(p, c) /\ SameRadio(p, c)
    BY DEF Data, SameIntent, SameRadio
  <1> HIDE DEF c
  <1>4. /\ q \in Data /\ q.state = "WAIT_PEER_IDLE" /\ q.timeout /\ q.go_neg_peer
        /\ q.wait_count = 0 /\ ~q.pending_action_tx
        /\ SameIntent(p, q) /\ SameRadio(p, q)
    BY <1>2, <1>3, DoneEffect DEF SameIntent, SameRadio
  <1> HIDE DEF q
  <1>5. WaitOK(q) /\ q.p2p_go_intent = p.p2p_go_intent
    BY <1>1, <1>4 DEF WaitOK, SameIntent
  <1>6. WatchOK(q, rep) /\ PeerOK(q)
    BY <1>4 DEF WatchOK, Watched, PeerOK
  <1>7. BaseOK(p, peer) => ListenOK(q) /\ IntentOK(q, peer)
    BY <1>4 DEF BaseOK, ListenOK, IntentOK, SameIntent, SameRadio
  <1>8. q \in Data /\ WaitOK(q) /\ q.p2p_go_intent = p.p2p_go_intent
        /\ (BaseOK(p, peer) => DeviceOK(q, rep, peer))
    BY <1>4, <1>5, <1>6, <1>7 DEF DeviceOK
  <1> QED BY <1>8 DEF q, c

\* A Response says that the negotiation failed.
LEMMA GiveUpOK ==
  ASSUME NEW p \in Data, NEW rep, NEW peer
  PROVE  LET q == send_action_done(p2p_go_neg_failed([p EXCEPT !.go_neg_req_sent = FALSE]))
         IN  /\ q \in Data /\ WaitOK(q) /\ q.p2p_go_intent = p.p2p_go_intent
             /\ BaseOK(p, peer) => DeviceOK(q, rep, peer)
  <1> DEFINE c == [p EXCEPT !.go_neg_req_sent = FALSE]
             b == p2p_go_neg_failed(c)
             q == send_action_done(b)
  <1>1. c \in Data /\ c.wps_ready = p.wps_ready /\ SameIntent(p, c) /\ SameRadio(p, c)
    BY DEF Data, SameIntent, SameRadio
  <1> HIDE DEF c
  <1>2. /\ b \in Data /\ b.state = "IDLE" /\ ~b.go_neg_peer /\ (b.wps_ready => p.wps_ready)
        /\ SameIntent(p, b) /\ SameRadio(p, b)
    BY <1>1, FailedEffect DEF SameIntent, SameRadio
  <1> HIDE DEF b
  <1>3. /\ q \in Data /\ q.state = "IDLE" /\ ~q.go_neg_peer /\ (q.wps_ready => p.wps_ready)
        /\ SameIntent(p, q) /\ SameRadio(p, q)
    BY <1>2, DoneEffect DEF SameIntent, SameRadio
  <1> HIDE DEF q
  <1>4. BaseOK(p, peer) => BaseOK(q, peer)
    BY <1>3 DEF BaseOK, SameIntent, SameRadio
  <1>5. WaitOK(q) /\ q.p2p_go_intent = p.p2p_go_intent
    BY <1>3 DEF WaitOK, SameIntent
  <1>6. q \in Data /\ WaitOK(q) /\ q.p2p_go_intent = p.p2p_go_intent
        /\ (BaseOK(p, peer) => DeviceOK(q, rep, peer))
    BY <1>3, <1>4, <1>5, IdleOK
  <1> QED BY <1>6 DEF q, b, c

LEMMA ResponseOK ==
  ASSUME NEW p \in Data, WaitOK(p), NEW rep, NEW peer \in Intents,
         NEW m \in Frames, m.type = "RESP"
  PROVE  LET r == p2p_process_go_neg_resp(p, m)
         IN  /\ Sound(r, p)
             /\ DeviceOK(p, rep, peer) /\ FrameOK(m, peer, p.p2p_go_intent)
                  => Good(r, p, rep, peer)
  <1> DEFINE go == p2p_go_det(p.go_intent, m.intent, m.tie)
             q == [p EXCEPT !.wait_response = FALSE]
             F(status) == [type |-> "CONF", token |-> m.token, status |-> status]
             waits == send_action_done([q EXCEPT !.go_neg_req_sent = FALSE, !.wait_count = 0,
                                                 !.state = "WAIT_PEER_IDLE", !.timeout = TRUE])
             ends == send_action_done(p2p_go_neg_failed([q EXCEPT !.go_neg_req_sent = FALSE]))
             none == [q EXCEPT !.pending_action_state = "NO"]
             agrees == [q EXCEPT !.state = "GO_NEG", !.timeout = FALSE,
                                 !.pending_action_state = "CONF", !.go_state = GoState(go)]
             R == p2p_process_go_neg_resp(p, m)
             OK == DeviceOK(p, rep, peer) /\ FrameOK(m, peer, p.p2p_go_intent)
             Goal == Sound(R, p) /\ (OK => Good(R, p, rep, peer))
  <1>1. /\ m.token \in Tokens /\ m.intent \in Intents /\ m.tie \in Bits
        /\ m.status \in {"success", "fail", "unavailable"} /\ p.go_intent \in Intents
    BY FrameType DEF Data, Statuses
  <1>2. /\ q \in Data /\ Alike(p, q) /\ q.pending_action_tx = p.pending_action_tx
    BY DEF Data, Alike, SameIntent, SameRadio
  <1>3. /\ \A status \in Statuses : F(status) \in Frames /\ F(status).type = "CONF"
        /\ "success" \in Statuses /\ "fail" \in Statuses /\ "NO" \in Pending
    BY <1>1, ConfirmType, WordType
  <1>4. \/ R = Quiet(p)
        \/ R = Quiet(q)
        \/ p.go_neg_peer /\ R = Quiet(waits)
        \/ R = Quiet(ends)
        \/ p.wps_ready /\ m.status = "success" /\ go = -1 /\ R = Sends(none, F("fail"))
        \/ p.wps_ready /\ p.go_neg_peer /\ m.status = "success" /\ go # -1
             /\ R = Sends(agrees, F("success"))
    BY <1>1 DEF p2p_process_go_neg_resp
  <1>5. WaitOK(q) /\ q.p2p_go_intent = p.p2p_go_intent /\ q.go_neg_peer = p.go_neg_peer
        /\ (OK => DeviceOK(q, rep, peer) /\ BaseOK(q, peer))
    <2> HIDE DEF q
    <2> QED BY <1>2, AlikeOK, BaseFacts DEF Alike, SameIntent
  <1>6. ASSUME R = Quiet(p) PROVE Goal
    BY <1>6, QuietOK
  <1>7. ASSUME R = Quiet(q) PROVE Goal
    <2> HIDE DEF R, q
    <2> QED BY <1>2, <1>5, <1>7, QuietOK
  <1>8. ASSUME p.go_neg_peer, R = Quiet(waits) PROVE Goal
    <2> HIDE DEF R, q
    <2>1. waits \in Data /\ WaitOK(waits) /\ waits.p2p_go_intent = p.p2p_go_intent
          /\ (OK => DeviceOK(waits, rep, peer))
      BY <1>2, <1>5, <1>8, WaitForPeerOK
    <2> HIDE DEF waits
    <2> QED BY <1>8, <2>1, QuietOK
  <1>9. ASSUME R = Quiet(ends) PROVE Goal
    <2> HIDE DEF R, q
    <2>1. ends \in Data /\ WaitOK(ends) /\ ends.p2p_go_intent = p.p2p_go_intent
          /\ (OK => DeviceOK(ends, rep, peer))
      BY <1>2, <1>5, GiveUpOK
    <2> HIDE DEF ends
    <2> QED BY <1>9, <2>1, QuietOK
  <1>10. ASSUME p.wps_ready, m.status = "success", go = -1, R = Sends(none, F("fail"))
         PROVE  Goal
    <2>1. ~OK
      <3>1. p.go_intent = P2P_MAX_GO_INTENT /\ m.intent = P2P_MAX_GO_INTENT
        BY <1>1, <1>10, DetFacts
      <3> QED BY <1>10, <3>1, BaseFacts DEF BaseOK, FrameOK
    <2> HIDE DEF R, q, OK, F
    <2>2. none \in Data /\ WaitOK(none) /\ none.p2p_go_intent = p.p2p_go_intent
      BY <1>2, <1>3, <1>5 DEF Data, WaitOK
    <2> HIDE DEF none
    <2> QED BY <1>3, <1>10, <2>1, <2>2, SendsOK
  <1>11. ASSUME p.wps_ready, p.go_neg_peer, m.status = "success", go # -1,
                R = Sends(agrees, F("success"))
         PROVE  Goal
    <2> DEFINE role == GoState(go)
    <2>1. role \in GoStates /\ role # "UNKNOWN" /\ RoleOK(role, p.go_intent, m.intent)
      BY <1>1, <1>11, DetFacts
    <2>2. OK => RoleOK(role, p.p2p_go_intent, peer)
      <3> HIDE DEF role
      <3> QED BY <1>11, <2>1, BaseFacts DEF BaseOK, FrameOK
    <2> DEFINE f == F("success")
    <2>3. f \in Frames /\ f.type = "CONF" /\ R = Sends(agrees, f)
      BY <1>3, <1>11
    <2> HIDE DEF R, q, OK, f, role
    <2>4. Sound(Sends(agrees, f), q) /\ (BaseOK(q, peer) /\ RoleOK(role, q.p2p_go_intent, peer)
             => Good(Sends(agrees, f), q, rep, peer))
      BY <1>2, <1>5, <1>11, <2>1, <2>3, AgreeOK DEF role
    <2> HIDE DEF agrees
    <2> QED BY <1>5, <2>2, <2>3, <2>4 DEF Sound, Good
  <1>12. Goal
    <2> HIDE DEF R, Goal, q, waits, ends, none, agrees, go, F
    <2> QED BY <1>4, <1>6, <1>7, <1>8, <1>9, <1>10, <1>11
  <1> QED BY <1>12 DEF R

LEMMA ConfirmOK ==
  ASSUME NEW p \in Data, WaitOK(p), NEW rep, NEW peer, NEW m
  PROVE  LET q == p2p_process_go_neg_conf(p, m)
         IN  /\ q \in Data /\ WaitOK(q) /\ q.p2p_go_intent = p.p2p_go_intent
             /\ DeviceOK(p, rep, peer) => DeviceOK(q, rep, peer)
  <1> DEFINE w == IF p.pending_action_state = "RESP" THEN "NO" ELSE p.pending_action_state
             q == [p EXCEPT !.pending_action_state = w]
             r == [q EXCEPT !.wait_confirm = FALSE]
             R == p2p_process_go_neg_conf(p, m)
             Goal(x) == /\ x \in Data /\ WaitOK(x) /\ x.p2p_go_intent = p.p2p_go_intent
                        /\ DeviceOK(p, rep, peer) => DeviceOK(x, rep, peer)
  <1>1. /\ w \in Pending /\ w # "RESP"
        /\ p.pending_action_state # "RESP" => w = p.pending_action_state
        /\ (p.pending_action_state = "RESP" => w = "NO")
    BY WordType DEF Data
  <1>2. \/ R = p
        \/ p.go_neg_peer /\ R \in {q, r}
        \/ p.go_neg_peer /\ p.go_state # "UNKNOWN" /\ R = p2p_go_complete(r)
    BY DEF p2p_process_go_neg_conf, Data
  <1> HIDE DEF w
  <1>3. q \in Data
    BY <1>1 DEF Data
  <1>4. /\ q.state = p.state /\ q.timeout = p.timeout
        /\ q.go_neg_peer = p.go_neg_peer /\ q.wps_ready = p.wps_ready
        /\ q.status = p.status /\ q.wait_count = p.wait_count /\ q.result = p.result
        /\ q.pending_action_state = w /\ q.pending_action_tx = p.pending_action_tx
        /\ SameIntent(p, q) /\ SameRadio(p, q) /\ q.roc = p.roc
    BY <1>1 DEF Data, SameIntent, SameRadio
  <1> HIDE DEF q
  <1>5. r \in Data /\ Alike(q, r) /\ r.pending_action_tx = q.pending_action_tx
    BY <1>3 DEF Data, Alike, SameIntent, SameRadio
  <1> HIDE DEF r
  <1>6. WaitOK(q) /\ q.p2p_go_intent = p.p2p_go_intent
    BY <1>4 DEF WaitOK, SameIntent
  <1>7. ASSUME p.go_neg_peer, DeviceOK(p, rep, peer)
        PROVE  DeviceOK(q, rep, peer)
    <2>1. ListenOK(q) /\ IntentOK(q, peer)
      BY <1>4, <1>7 DEF DeviceOK, ListenOK, IntentOK, SameIntent, SameRadio
    <2>2. PeerOK(q)
      BY <1>1, <1>4, <1>7 DEF DeviceOK, PeerOK, Underway, SameIntent
    <2>3. CASE p.pending_action_state # "RESP"
      BY <1>1, <1>4, <1>7, <2>1, <2>2, <2>3
         DEF DeviceOK, WatchOK, Watched, StatusAwaited, Underway
    <2>4. CASE p.pending_action_state = "RESP"
      BY <1>1, <1>4, <1>7, <2>1, <2>2, <2>4
         DEF DeviceOK, WatchOK, Watched, StatusAwaited, Underway, PeerOK
    <2> QED BY <2>3, <2>4
  <1>8. WaitOK(r) /\ r.p2p_go_intent = p.p2p_go_intent
        /\ (p.go_neg_peer /\ DeviceOK(p, rep, peer) => DeviceOK(r, rep, peer))
    BY <1>5, <1>6, <1>7, AlikeOK DEF Alike, SameIntent
  <1>9. ASSUME p.go_neg_peer, p.go_state # "UNKNOWN"
        PROVE  Goal(p2p_go_complete(r))
    <2>1. /\ p2p_go_complete(r) \in Data /\ p2p_go_complete(r).state = "PROVISIONING"
          /\ SameIntent(r, p2p_go_complete(r))
      BY <1>5, CompleteEffect
    <2>2. r.go_state # "UNKNOWN" /\ r.pending_action_state # "RESP"
      BY <1>1, <1>4, <1>5, <1>9 DEF Alike, SameIntent
    <2>3. DeviceOK(p, rep, peer) => BaseOK(r, peer)
      BY <1>8, <1>9, BaseFacts
    <2>4. DeviceOK(p, rep, peer) => DeviceOK(p2p_go_complete(r), rep, peer)
      BY <1>5, <2>2, <2>3, CompleteOK
    <2> QED BY <1>8, <2>1, <2>4 DEF WaitOK, SameIntent
  <1>10. Goal(R)
    <2>1. Goal(p)
      OBVIOUS
    <2>2. p.go_neg_peer => Goal(q) /\ Goal(r)
      BY <1>3, <1>5, <1>6, <1>7, <1>8
    <2> HIDE DEF Goal, R
    <2> QED BY <1>2, <1>9, <2>1, <2>2
  <1> QED BY <1>10 DEF R

-----------------------------------------------------------------------------
\* The status of the last frame

StatusHandled(p, rep) ==
  LET pending == p.pending_action_state
      c == [p EXCEPT !.pending_action_tx = FALSE, !.pending_action_state = "NO"]
  IN  CASE pending = "NO" -> c
        [] pending = "REQ" -> p2p_go_neg_req_cb(c, rep = "ack")
        [] pending = "RESP" -> p2p_go_neg_resp_cb(c)
        [] pending = "RESP_FAILURE" -> p2p_go_neg_resp_failure_cb(c)
        [] pending = "CONF" -> p2p_go_neg_conf_cb(c)

\* Without a frame in the buffer the state alone keeps a negotiation going.
Settled(q) ==
  /\ ~q.pending_action_tx
  /\ Underway(q) => \/ q.state = "GO_NEG" /\ q.pending_action_state = "NO"
                    \/ q.timeout \/ q.roc = "asked"
                    \/ q.roc \in {"on", "ending"} /\ q.state = "CONNECT_LISTEN"
  /\ Underway(q) /\ ~q.go_neg_peer
       => \/ q.state = "CONNECT" /\ q.timeout
          \/ q.state = "CONNECT_LISTEN" /\ (q.timeout \/ q.roc = "asked")
  /\ q.state = "GO_NEG" => q.pending_action_state = "NO"

LEMMA SettledOK ==
  ASSUME NEW q, NEW peer, NEW rep, Settled(q), ListenOK(q), IntentOK(q, peer)
  PROVE  DeviceOK(q, rep, peer)
  <1>1. WatchOK(q, rep) /\ PeerOK(q)
    BY DEF Settled, WatchOK, Watched, PeerOK
  <1> QED BY <1>1 DEF DeviceOK

\* The device returns to state w with the timeout set to t, or keeps both.
LEMMA GoesTo ==
  ASSUME NEW p \in Data, NEW w \in {"IDLE", "CONNECT"}, NEW t \in BOOLEAN,
         NEW s \in BOOLEAN, NEW peer, w = "CONNECT" => t, ~p.pending_action_tx
  PROVE  LET q == [p EXCEPT !.go_neg_req_sent = s, !.state = w, !.timeout = t]
         IN  /\ q \in Data /\ WaitOK(q) /\ q.p2p_go_intent = p.p2p_go_intent
             /\ BaseOK(p, peer) => DeviceOK(q, "none", peer)
  <1> DEFINE q == [p EXCEPT !.go_neg_req_sent = s, !.state = w, !.timeout = t]
  <1>1. w \in States
    BY WordType
  <1>2. /\ q \in Data /\ q.state = w /\ q.timeout = t /\ q.go_neg_peer = p.go_neg_peer
        /\ q.wps_ready = p.wps_ready /\ q.pending_action_tx = p.pending_action_tx
        /\ SameIntent(p, q) /\ SameRadio(p, q)
    BY <1>1 DEF Data, SameIntent, SameRadio
  <1> HIDE DEF q
  <1>3. WaitOK(q) /\ q.p2p_go_intent = p.p2p_go_intent
    BY <1>2 DEF WaitOK, SameIntent
  <1>4. Settled(q)
    BY <1>2 DEF Settled, Underway
  <1>5. BaseOK(p, peer) => ListenOK(q) /\ IntentOK(q, peer)
    BY <1>2 DEF BaseOK, ListenOK, IntentOK, SameIntent, SameRadio
  <1>6. q \in Data /\ WaitOK(q) /\ q.p2p_go_intent = p.p2p_go_intent
        /\ (BaseOK(p, peer) => DeviceOK(q, "none", peer))
    BY <1>2, <1>3, <1>4, <1>5, SettledOK
  <1> QED BY <1>6 DEF q

LEMMA StatusOK ==
  ASSUME NEW p \in Data, WaitOK(p), NEW rep, rep # "none", NEW peer, p.pending_action_tx
  PROVE  LET q == StatusHandled(p, rep)
         IN  /\ q \in Data /\ WaitOK(q) /\ q.p2p_go_intent = p.p2p_go_intent
             /\ DeviceOK(p, rep, peer) => DeviceOK(q, "none", peer)
  <1> DEFINE c == [p EXCEPT !.pending_action_tx = FALSE, !.pending_action_state = "NO"]
             R == StatusHandled(p, rep)
             OK == DeviceOK(p, rep, peer)
             Goal(x) == /\ x \in Data /\ WaitOK(x) /\ x.p2p_go_intent = p.p2p_go_intent
                        /\ OK => DeviceOK(x, "none", peer)
  <1>1. "NO" \in Pending /\ p.pending_action_state \in {"NO", "REQ", "RESP", "RESP_FAILURE", "CONF"}
    BY WordType DEF Data, Pending
  <1>2. c \in Data
    BY <1>1 DEF Data
  <1>3. /\ c.state = p.state /\ c.timeout = p.timeout
        /\ c.go_neg_peer = p.go_neg_peer /\ c.wps_ready = p.wps_ready
        /\ c.status = p.status /\ c.wait_count = p.wait_count /\ c.result = p.result
        /\ c.pending_action_state = "NO" /\ ~c.pending_action_tx
        /\ SameIntent(p, c) /\ SameRadio(p, c) /\ c.roc = p.roc
    BY <1>1 DEF Data, SameIntent, SameRadio
  <1> HIDE DEF c
  <1>4. WaitOK(c) /\ c.p2p_go_intent = p.p2p_go_intent
    BY <1>3 DEF WaitOK, SameIntent
  <1>5. OK => ListenOK(c) /\ IntentOK(c, peer) /\ BaseOK(c, peer)
    <2>1. OK => ListenOK(c) /\ IntentOK(c, peer)
      BY <1>3 DEF DeviceOK, ListenOK, IntentOK, SameIntent, SameRadio
    <2> QED BY <2>1 DEF ListenOK, IntentOK, BaseOK
  <1>6. ASSUME OK => ~Underway(p) \/ ~p.go_neg_peer \/ ~StatusAwaited(p, rep),
               OK => (p.pending_action_state \in {"REQ", "RESP", "CONF"} =>
                         ~Underway(p) \/ ~p.go_neg_peer)
        PROVE  Goal(c)
    <2>1. OK => Settled(c)
      BY <1>1, <1>3, <1>6 DEF Settled, DeviceOK, WatchOK, Watched, PeerOK, Underway, StatusAwaited
    <2> QED BY <1>2, <1>4, <1>5, <2>1, SettledOK
  <1>7. CASE p.pending_action_state = "NO"
    <2>1. R = c
      BY <1>7 DEF StatusHandled, c
    <2>2. Goal(c)
      BY <1>6, <1>7 DEF StatusAwaited
    <2> QED BY <2>1, <2>2
  <1>8. CASE p.pending_action_state = "REQ"
    <2>1. R = p2p_go_neg_req_cb(c, rep = "ack")
      BY <1>8 DEF StatusHandled, c
    <2>2. CASE ~c.go_neg_peer
      <3>1. R = c
        BY <2>1, <2>2 DEF p2p_go_neg_req_cb
      <3>2. Goal(c)
        BY <1>3, <1>6, <2>2 DEF StatusAwaited
      <3> QED BY <3>1, <3>2
    <2>3. CASE c.go_neg_peer
      <3> DEFINE s == c.go_neg_req_sent \/ rep = "ack"
                 x(w, t) == [c EXCEPT !.go_neg_req_sent = s, !.state = w, !.timeout = t]
      <3>1. s \in BOOLEAN /\ c.timeout \in BOOLEAN
        BY <1>2 DEF Data
      <3>2. R = x("IDLE", c.timeout) \/ R = x("CONNECT", TRUE)
        BY <1>2, <2>1, <2>3 DEF p2p_go_neg_req_cb, Data
      <3> HIDE DEF s, R
      <3>3. Goal(x("IDLE", c.timeout)) /\ Goal(x("CONNECT", TRUE))
        BY <1>2, <1>3, <1>4, <1>5, <3>1, GoesTo
      <3> HIDE DEF x, Goal
      <3>4. Goal(R)
        BY <3>2, <3>3
      <3> QED BY <3>4 DEF R, Goal
    <2> QED BY <1>2, <2>2, <2>3 DEF Data
  <1>9. CASE p.pending_action_state = "RESP"
    <2>1. R = p2p_go_neg_resp_cb(c)
      BY <1>9 DEF StatusHandled, c
    <2>2. CASE ~c.go_neg_peer /\ c.state = "PROVISIONING"
      <3>1. R = c
        BY <2>1, <2>2 DEF p2p_go_neg_resp_cb
      <3>2. Goal(c)
        BY <1>3, <1>6, <2>2 DEF Underway
      <3> QED BY <3>1, <3>2
    <2>3. CASE ~(~c.go_neg_peer /\ c.state = "PROVISIONING")
      <3> DEFINE x == [c EXCEPT !.go_neg_req_sent = c.go_neg_req_sent, !.state = "CONNECT",
                                !.timeout = TRUE]
      <3>1. c.go_neg_req_sent \in BOOLEAN
        BY <1>2 DEF Data
      <3>2. R = x
        BY <1>2, <2>1, <2>3 DEF p2p_go_neg_resp_cb, Data
      <3> HIDE DEF R
      <3>3. Goal(x)
        BY <1>2, <1>3, <1>4, <1>5, <3>1, GoesTo
      <3> HIDE DEF x, Goal
      <3>4. Goal(R)
        BY <3>2, <3>3
      <3> QED BY <3>4 DEF R, Goal
    <2> QED BY <2>2, <2>3
  <1>10. CASE p.pending_action_state = "RESP_FAILURE"
    <2>1. R = p2p_go_neg_resp_failure_cb(c)
      BY <1>10 DEF StatusHandled, c
    <2>2. CASE c.go_neg_peer /\ c.status # "success"
      <3>1. R = p2p_go_neg_failed(c)
        BY <2>1, <2>2 DEF p2p_go_neg_resp_failure_cb
      <3>2. R \in Data /\ R.state = "IDLE" /\ SameIntent(c, R)
        BY <1>2, <3>1, FailedEffect
      <3>3. OK => DeviceOK(R, "none", peer)
        BY <1>2, <1>5, <3>1, FailedOK
      <3> QED BY <1>4, <3>2, <3>3 DEF WaitOK, SameIntent
    <2>3. CASE ~(c.go_neg_peer /\ c.status # "success")
      <3>1. R = c
        BY <2>1, <2>3 DEF p2p_go_neg_resp_failure_cb
      <3>2. Goal(c)
        BY <1>3, <1>6, <1>10, <2>3 DEF StatusAwaited
      <3> QED BY <3>1, <3>2
    <2> QED BY <2>2, <2>3
  <1>11. CASE p.pending_action_state = "CONF"
    <2> DEFINE x == send_action_done(c)
    <2>1. R = p2p_go_neg_conf_cb(c)
      BY <1>11 DEF StatusHandled, c
    <2>2. /\ x \in Data /\ x.state = c.state /\ x.timeout = c.timeout
          /\ x.go_neg_peer = c.go_neg_peer /\ x.wps_ready = c.wps_ready
          /\ x.status = c.status /\ x.wait_count = c.wait_count /\ x.result = c.result
          /\ x.pending_action_state = c.pending_action_state /\ ~x.pending_action_tx
          /\ SameIntent(c, x) /\ SameRadio(c, x)
      BY <1>2, DoneEffect
    <2>3. R = IF c.go_neg_peer THEN p2p_go_complete(x) ELSE x
      BY <2>1 DEF p2p_go_neg_conf_cb
    <2> HIDE DEF x, R
    <2>4. WaitOK(x) /\ x.p2p_go_intent = p.p2p_go_intent
      BY <1>4, <2>2 DEF WaitOK, SameIntent
    <2>5. OK => ListenOK(x) /\ IntentOK(x, peer) /\ BaseOK(x, peer)
      BY <1>5, <2>2 DEF ListenOK, IntentOK, BaseOK, SameIntent, SameRadio
    <2>6. OK /\ c.go_neg_peer => x.go_state # "UNKNOWN"
      BY <1>3, <1>11, <2>2 DEF DeviceOK, PeerOK, SameIntent
    <2>7. CASE c.go_neg_peer
      <3>1. /\ R \in Data /\ R.state = "PROVISIONING" /\ SameIntent(x, R)
        BY <2>2, <2>3, <2>7, CompleteEffect
      <3>2. OK => DeviceOK(R, "none", peer)
        BY <2>2, <2>3, <2>5, <2>6, <2>7, CompleteOK
      <3>3. Goal(R)
        BY <2>4, <3>1, <3>2 DEF WaitOK, SameIntent
      <3> QED BY <3>3 DEF R
    <2>8. CASE ~c.go_neg_peer
      <3>1. OK => ~Underway(x)
        BY <1>3, <1>11, <2>2, <2>8 DEF DeviceOK, PeerOK, Underway
      <3>2. OK => Settled(x)
        BY <2>2, <3>1 DEF Settled, Underway
      <3>3. Goal(R)
        BY <2>2, <2>3, <2>4, <2>5, <2>8, <3>2, SettledOK
      <3> QED BY <3>3 DEF R
    <2> QED BY <2>7, <2>8
  <1> QED BY <1>1, <1>7, <1>8, <1>9, <1>10, <1>11

\* A status that comes when nothing is pending.
LEMMA LateStatusOK ==
  ASSUME NEW p, NEW rep, NEW peer, ~p.pending_action_tx, DeviceOK(p, rep, peer)
  PROVE  DeviceOK(p, "none", peer)
  BY DEF DeviceOK, WatchOK, Watched, StatusAwaited

-----------------------------------------------------------------------------
\* Timeouts and listening

\* A next Request, or the end of the device's patience: p is what is left of o.
LEMMA TryAgainOK ==
  ASSUME NEW o, NEW p \in Data, NEW rep, NEW peer, p.p2p_go_intent = o.p2p_go_intent
  PROVE  /\ Sound(TryAgain(p), o)
         /\ BaseOK(p, peer) /\ p.go_neg_peer => Good(TryAgain(p), o, rep, peer)
  <1>1. CASE p.connect_reqs >= ConnectLimit
    <2> DEFINE q == p2p_go_neg_failed(p)
    <2>1. TryAgain(p) = Quiet(q)
      BY <1>1 DEF TryAgain
    <2>2. q \in Data /\ q.state = "IDLE" /\ SameIntent(p, q)
      BY FailedEffect
    <2>3. BaseOK(p, peer) => DeviceOK(q, rep, peer)
      BY FailedOK
    <2> HIDE DEF q
    <2>4. WaitOK(q) /\ q.p2p_go_intent = o.p2p_go_intent
      BY <2>2 DEF WaitOK, SameIntent
    <2> QED BY <2>1, <2>2, <2>3, <2>4, QuietOK
  <1>2. CASE p.connect_reqs < ConnectLimit
    <2>1. TryAgain(p) = p2p_connect_send(p)
      BY <1>2, ConstantsAssumption DEF TryAgain, Data, Requests
    <2> DEFINE r == p2p_connect_send(p)
    <2>2. /\ r \in Outcome /\ WaitOK(r.p) /\ r.p.p2p_go_intent = p.p2p_go_intent
          /\ BaseOK(p, peer) /\ p.go_intent = p.p2p_go_intent => Good(r, p, rep, peer)
      BY <1>2, ConnectOK
    <2> HIDE DEF r
    <2>3. Sound(r, o)
      BY <2>2 DEF Sound
    <2>4. Good(r, p, rep, peer) => Good(r, o, rep, peer)
      BY DEF Good
    <2>5. BaseOK(p, peer) /\ p.go_neg_peer => Good(r, o, rep, peer)
      BY <2>2, <2>4 DEF BaseOK
    <2> QED BY <2>1, <2>3, <2>5 DEF r
  <1> QED BY <1>1, <1>2, ConstantsAssumption DEF Data, Requests

\* The device asks the driver to listen.
LEMMA ListensOK ==
  ASSUME NEW p \in Data, NEW w \in {"CONNECT_LISTEN", "WAIT_PEER_CONNECT"}, NEW rep, NEW peer,
         w = "WAIT_PEER_CONNECT" => p.wait_count < WaitLimit
  PROVE  LET q == p2p_listen_in_find([p EXCEPT !.state = w])
         IN  /\ q \in Data /\ WaitOK(q) /\ q.p2p_go_intent = p.p2p_go_intent
             /\ /\ BaseOK(p, peer) /\ ~p.in_listen
                /\ w = "WAIT_PEER_CONNECT" => p.go_neg_peer
                /\ p.pending_action_tx => p.pending_action_state \notin {"RESP", "CONF"}
                => DeviceOK(q, rep, peer)
  <1> DEFINE c == [p EXCEPT !.state = w]
             q == p2p_listen_in_find(c)
  <1>1. w \in States /\ "asked" \in Radio
    BY WordType
  <1>2. c \in Data
    BY <1>1 DEF Data
  <1>3. /\ c.state = w /\ c.timeout = p.timeout /\ c.go_neg_peer = p.go_neg_peer
        /\ c.wps_ready = p.wps_ready /\ c.wait_count = p.wait_count
        /\ SameFrame(p, c) /\ SameIntent(p, c)
        /\ c.drv_in_listen = p.drv_in_listen /\ c.in_listen = p.in_listen
    BY <1>1 DEF Data, SameFrame, SameIntent
  <1> HIDE DEF c
  <1>4. q \in Data
    BY <1>1, <1>2 DEF p2p_listen_in_find, Data
  <1>5. /\ q.state = w /\ q.go_neg_peer = p.go_neg_peer
        /\ q.wps_ready = p.wps_ready /\ q.wait_count = p.wait_count
        /\ SameFrame(p, q) /\ SameIntent(p, q)
        /\ q.in_listen = p.in_listen /\ q.roc = "asked"
    BY <1>1, <1>2, <1>3 DEF p2p_listen_in_find, Data, SameFrame, SameIntent
  <1> HIDE DEF q
  <1>6. WaitOK(q) /\ q.p2p_go_intent = p.p2p_go_intent
    BY <1>5 DEF WaitOK, SameIntent
  <1>7. ASSUME BaseOK(p, peer), ~p.in_listen, w = "WAIT_PEER_CONNECT" => p.go_neg_peer,
               p.pending_action_tx => p.pending_action_state \notin {"RESP", "CONF"}
        PROVE  DeviceOK(q, rep, peer)
    <2>1. WatchOK(q, rep)
      BY <1>5 DEF WatchOK, Watched
    <2>2. PeerOK(q)
      BY <1>5, <1>7 DEF PeerOK, SameFrame
    <2>3. ListenOK(q) /\ IntentOK(q, peer)
      BY <1>5, <1>7 DEF BaseOK, ListenOK, IntentOK, SameIntent
    <2> QED BY <2>1, <2>2, <2>3 DEF DeviceOK
  <1>8. /\ q \in Data /\ WaitOK(q) /\ q.p2p_go_intent = p.p2p_go_intent
        /\ /\ BaseOK(p, peer) /\ ~p.in_listen
           /\ w = "WAIT_PEER_CONNECT" => p.go_neg_peer
           /\ p.pending_action_tx => p.pending_action_state \notin {"RESP", "CONF"}
           => DeviceOK(q, rep, peer)
    BY <1>4, <1>6, <1>7
  <1> QED BY <1>8 DEF q, c

TimeoutHandled(p) ==
  CASE p.state = "CONNECT" -> p2p_timeout_connect(p)
    [] p.state = "CONNECT_LISTEN" -> p2p_timeout_connect_listen(p)
    [] p.state = "WAIT_PEER_CONNECT" ->
         Quiet([p EXCEPT !.state = "WAIT_PEER_IDLE", !.timeout = TRUE])
    [] p.state = "WAIT_PEER_IDLE" -> p2p_timeout_wait_peer_idle(p)
    [] p.state \in {"IDLE", "GO_NEG", "PROVISIONING"} -> Quiet(p)

LEMMA TimeoutOK ==
  ASSUME NEW o \in Data, WaitOK(o), NEW rep, NEW peer
  PROVE  LET r == TimeoutHandled([o EXCEPT !.timeout = FALSE, !.in_listen = FALSE])
         IN  Sound(r, o) /\ (DeviceOK(o, rep, peer) => Good(r, o, rep, peer))
  <1> DEFINE p == [o EXCEPT !.timeout = FALSE, !.in_listen = FALSE]
             R == TimeoutHandled(p)
             OK == DeviceOK(o, rep, peer)
             Goal == Sound(R, o) /\ (OK => Good(R, o, rep, peer))
  <1> SUFFICES Goal
    OBVIOUS
  <1>1. p \in Data
    BY DEF Data
  <1>2. /\ p.state = o.state /\ ~p.timeout /\ ~p.in_listen
        /\ p.go_neg_peer = o.go_neg_peer /\ p.wps_ready = o.wps_ready
        /\ p.status = o.status /\ p.wait_count = o.wait_count /\ p.result = o.result
        /\ SameFrame(o, p) /\ SameIntent(o, p)
        /\ p.drv_in_listen = o.drv_in_listen /\ p.roc = o.roc
    BY DEF Data, SameFrame, SameIntent
  <1> HIDE DEF p
  <1>3. WaitOK(p) /\ p.p2p_go_intent = o.p2p_go_intent
    BY <1>2 DEF WaitOK, SameIntent
  <1>4. OK => ListenOK(p) /\ IntentOK(p, peer) /\ BaseOK(p, peer)
    <2>1. OK => ListenOK(p) /\ IntentOK(p, peer)
      BY <1>2 DEF DeviceOK, ListenOK, IntentOK, SameIntent
    <2> QED BY <2>1 DEF ListenOK, IntentOK, BaseOK
  <1>5. OK => /\ p.pending_action_tx /\ p.pending_action_state \in {"RESP", "CONF"}
                   => p.state \in {"GO_NEG", "IDLE", "PROVISIONING"}
              /\ p.state \in {"GO_NEG", "WAIT_PEER_IDLE", "WAIT_PEER_CONNECT"} => p.go_neg_peer
    BY <1>2 DEF DeviceOK, PeerOK, Underway, SameFrame
  <1>6. ASSUME OK => WatchOK(p, rep) /\ PeerOK(p), R = Quiet(p)
        PROVE  Goal
    <2>1. OK => DeviceOK(p, rep, peer)
      BY <1>4, <1>6 DEF DeviceOK
    <2> HIDE DEF R
    <2> QED BY <1>1, <1>3, <1>6, <2>1, QuietOK
  <1>7. CASE p.state = "CONNECT"
    <2> DEFINE c == send_action_done(p)
               q == p2p_listen_in_find([c EXCEPT !.state = "CONNECT_LISTEN"])
    <2>1. R = Quiet(q)
      BY <1>7 DEF TimeoutHandled, p2p_timeout_connect
    <2>2. /\ c \in Data /\ c.go_neg_peer = p.go_neg_peer /\ c.wps_ready = p.wps_ready
          /\ ~c.pending_action_tx /\ SameIntent(p, c) /\ SameRadio(p, c)
      BY <1>1, DoneEffect
    <2> HIDE DEF c, R
    <2>3. OK => BaseOK(c, peer) /\ ~c.in_listen
      BY <1>2, <1>4, <2>2 DEF BaseOK, SameIntent, SameRadio
    <2>4. /\ q \in Data /\ WaitOK(q) /\ q.p2p_go_intent = c.p2p_go_intent
          /\ OK => DeviceOK(q, rep, peer)
      BY <2>2, <2>3, ListensOK
    <2> HIDE DEF q
    <2>5. Goal
      BY <1>3, <2>1, <2>2, <2>4, QuietOK DEF SameIntent
    <2> QED BY <2>5 DEF R
  <1>8. CASE p.state = "CONNECT_LISTEN"
    <2>1. R = p2p_timeout_connect_listen(p)
      BY <1>8 DEF TimeoutHandled
    <2>2. CASE ~p.go_neg_peer
      <3> DEFINE q == [p EXCEPT !.state = "IDLE"]
      <3>1. R = Quiet(q)
        BY <2>1, <2>2 DEF p2p_timeout_connect_listen
      <3>2. /\ q \in Data /\ q.state = "IDLE" /\ ~q.go_neg_peer /\ q.wps_ready = p.wps_ready
            /\ SameIntent(p, q) /\ SameRadio(p, q)
        BY <1>1, <2>2, WordType DEF Data, SameIntent, SameRadio
      <3> HIDE DEF q, R
      <3>3. OK => BaseOK(q, peer)
        BY <1>4, <3>2 DEF BaseOK, SameIntent, SameRadio
      <3>4. WaitOK(q) /\ q.p2p_go_intent = o.p2p_go_intent
        BY <1>3, <3>2 DEF WaitOK, SameIntent
      <3>5. Goal
        BY <3>1, <3>2, <3>3, <3>4, IdleOK, QuietOK
      <3> QED BY <3>5 DEF R
    <2>3. CASE p.go_neg_peer /\ p.drv_in_listen
      <3>1. R = Quiet(p)
        BY <2>1, <2>3 DEF p2p_timeout_connect_listen
      <3>2. p.roc \in {"none", "asked", "on", "ending"}
        BY <1>1 DEF Data, Radio
      <3>3. OK => WatchOK(p, rep) /\ PeerOK(p)
        BY <1>4, <1>5, <1>8, <2>3, <3>2 DEF BaseOK, WatchOK, Watched, PeerOK, Underway
      <3> QED BY <1>6, <3>1, <3>3
    <2>4. CASE p.go_neg_peer /\ ~p.drv_in_listen
      <3>1. R = TryAgain(p)
        BY <2>1, <2>4 DEF p2p_timeout_connect_listen
      <3> HIDE DEF R
      <3>2. Goal
        BY <1>1, <1>3, <1>4, <2>4, <3>1, TryAgainOK
      <3> QED BY <3>2 DEF R
    <2> QED BY <2>2, <2>3, <2>4
  <1>9. CASE p.state = "WAIT_PEER_CONNECT"
    <2> DEFINE q == [p EXCEPT !.state = "WAIT_PEER_IDLE", !.timeout = TRUE]
    <2>1. R = Quiet(q)
      BY <1>9 DEF TimeoutHandled
    <2>2. /\ q \in Data /\ q.state = "WAIT_PEER_IDLE" /\ q.timeout
          /\ q.go_neg_peer = p.go_neg_peer /\ q.wps_ready = p.wps_ready
          /\ q.wait_count = p.wait_count
          /\ SameFrame(p, q) /\ SameIntent(p, q) /\ SameRadio(p, q)
      BY <1>1, WordType DEF Data, SameFrame, SameIntent, SameRadio
    <2> HIDE DEF q, R
    <2>3. WaitOK(q) /\ q.p2p_go_intent = o.p2p_go_intent
      BY <1>3, <1>9, <2>2 DEF WaitOK, SameIntent
    <2>4. OK => WatchOK(q, rep) /\ PeerOK(q)
      BY <1>5, <1>9, <2>2 DEF WatchOK, Watched, PeerOK, SameFrame
    <2>5. OK => ListenOK(q) /\ IntentOK(q, peer)
      BY <1>4, <2>2 DEF BaseOK, ListenOK, IntentOK, SameIntent, SameRadio
    <2>6. Goal
      BY <2>1, <2>2, <2>3, <2>4, <2>5, QuietOK DEF DeviceOK
    <2> QED BY <2>6 DEF R
  <1>10. CASE p.state = "WAIT_PEER_IDLE"
    <2> DEFINE n == p.wait_count + 1
               c == [p EXCEPT !.wait_count = n]
    <2>1. R = p2p_timeout_wait_peer_idle(p)
      BY <1>10 DEF TimeoutHandled
    <2>2. n \in Periods /\ (~(n >= WaitLimit) => n < WaitLimit)
      BY <1>1, <1>3, <1>10, ConstantsAssumption DEF Data, Periods, WaitOK
    <2>3. \/ ~p.go_neg_peer /\ R = Quiet(p)
          \/ R = Quiet(p2p_go_neg_failed(c))
          \/ p.go_neg_peer /\ n < WaitLimit
               /\ R = Quiet(p2p_listen_in_find([c EXCEPT !.state = "WAIT_PEER_CONNECT"]))
      BY <1>1, <2>1, <2>2 DEF p2p_timeout_wait_peer_idle, Data
    <2> HIDE DEF n
    <2>4. /\ c \in Data /\ c.wait_count = n /\ c.in_listen = p.in_listen
          /\ c.go_neg_peer = p.go_neg_peer /\ c.wps_ready = p.wps_ready
          /\ SameFrame(p, c) /\ SameIntent(p, c) /\ SameRadio(p, c)
      BY <1>1, <2>2 DEF Data, SameFrame, SameIntent, SameRadio
    <2> HIDE DEF c
    <2>5. OK => BaseOK(c, peer)
      BY <1>4, <2>4 DEF BaseOK, SameIntent, SameRadio
    <2>6. CASE ~p.go_neg_peer /\ R = Quiet(p)
      BY <1>5, <1>6, <1>10, <2>6
    <2>7. CASE R = Quiet(p2p_go_neg_failed(c))
      <3> DEFINE q == p2p_go_neg_failed(c)
      <3>1. q \in Data /\ q.state = "IDLE" /\ SameIntent(c, q) /\ R = Quiet(q)
        BY <2>4, <2>7, FailedEffect
      <3>2. OK => DeviceOK(q, rep, peer)
        BY <2>4, <2>5, FailedOK
      <3> HIDE DEF q, R
      <3>3. WaitOK(q) /\ q.p2p_go_intent = o.p2p_go_intent
        BY <1>3, <2>4, <3>1 DEF WaitOK, SameIntent
      <3>4. Goal
        BY <3>1, <3>2, <3>3, QuietOK
      <3> QED BY <3>4 DEF R
    <2>8. CASE /\ p.go_neg_peer /\ n < WaitLimit
               /\ R = Quiet(p2p_listen_in_find([c EXCEPT !.state = "WAIT_PEER_CONNECT"]))
      <3> DEFINE q == p2p_listen_in_find([c EXCEPT !.state = "WAIT_PEER_CONNECT"])
      <3>1. R = Quiet(q)
        BY <2>8
      <3>2. OK => (c.pending_action_tx => c.pending_action_state \notin {"RESP", "CONF"})
        BY <1>5, <1>10, <2>4 DEF SameFrame
      <3> HIDE DEF R
      <3>3. ~c.in_listen /\ c.go_neg_peer /\ c.wait_count < WaitLimit
        BY <1>2, <2>4, <2>8
      <3>4. /\ q \in Data /\ WaitOK(q) /\ q.p2p_go_intent = c.p2p_go_intent
            /\ OK => DeviceOK(q, rep, peer)
        BY <2>4, <2>5, <3>2, <3>3, ListensOK
      <3> HIDE DEF q
      <3>5. Goal
        BY <1>3, <2>4, <3>1, <3>4, QuietOK DEF SameIntent
      <3> QED BY <3>5 DEF R
    <2> QED BY <2>3, <2>6, <2>7, <2>8
  <1>11. CASE p.state \in {"IDLE", "GO_NEG", "PROVISIONING"}
    <2>1. R = Quiet(p)
      BY <1>11 DEF TimeoutHandled
    <2>2. OK => WatchOK(p, rep)
      BY <1>2, <1>11 DEF DeviceOK, WatchOK, Watched, StatusAwaited, Underway, SameFrame
    <2>3. OK => PeerOK(p)
      BY <1>2, <1>5, <1>11 DEF DeviceOK, PeerOK, Underway, SameFrame, SameIntent
    <2> QED BY <1>6, <2>1, <2>2, <2>3
  <1>12. p.state \in {"CONNECT", "CONNECT_LISTEN", "WAIT_PEER_CONNECT", "WAIT_PEER_IDLE",
                      "IDLE", "GO_NEG", "PROVISIONING"}
    BY <1>1 DEF Data, States
  <1> QED BY <1>7, <1>8, <1>9, <1>10, <1>11, <1>12

LEMMA ListenStartOK ==
  ASSUME NEW p \in Data, WaitOK(p), NEW rep, NEW peer
  PROVE  LET q == [p EXCEPT !.roc = "on", !.in_listen = TRUE,
                            !.drv_in_listen = TRUE, !.timeout = TRUE]
         IN  /\ q \in Data /\ WaitOK(q) /\ q.p2p_go_intent = p.p2p_go_intent
             /\ DeviceOK(p, rep, peer) => DeviceOK(q, rep, peer)
  <1> DEFINE q == [p EXCEPT !.roc = "on", !.in_listen = TRUE,
                            !.drv_in_listen = TRUE, !.timeout = TRUE]
  <1>1. "on" \in Radio
    BY WordType
  <1>2. q \in Data
    BY <1>1 DEF Data
  <1>3. /\ q.state = p.state /\ q.timeout
        /\ q.go_neg_peer = p.go_neg_peer /\ q.wps_ready = p.wps_ready
        /\ q.status = p.status /\ q.wait_count = p.wait_count /\ q.result = p.result
        /\ SameFrame(p, q) /\ SameIntent(p, q) /\ q.roc = "on"
    BY <1>1 DEF Data, SameFrame, SameIntent
  <1> HIDE DEF q
  <1>4. WaitOK(q) /\ q.p2p_go_intent = p.p2p_go_intent
    BY <1>3 DEF WaitOK, SameIntent
  <1>5. ASSUME DeviceOK(p, rep, peer)
        PROVE  DeviceOK(q, rep, peer)
    <2>1. WatchOK(q, rep)
      BY <1>3, <1>5 DEF DeviceOK, WatchOK, Watched, StatusAwaited, SameFrame
    <2>2. PeerOK(q)
      BY <1>3, <1>5 DEF DeviceOK, PeerOK, Underway, SameFrame, SameIntent
    <2>3. ListenOK(q) /\ IntentOK(q, peer)
      BY <1>3, <1>5 DEF DeviceOK, ListenOK, IntentOK, SameIntent
    <2> QED BY <2>1, <2>2, <2>3 DEF DeviceOK
  <1>6. q \in Data /\ WaitOK(q) /\ q.p2p_go_intent = p.p2p_go_intent
        /\ (DeviceOK(p, rep, peer) => DeviceOK(q, rep, peer))
    BY <1>2, <1>4, <1>5
  <1> QED BY <1>6 DEF q

ListenEnded(p) ==
  IF ~p.in_listen /\ p.state = "CONNECT_LISTEN" /\ p.go_neg_peer THEN TryAgain(p) ELSE Quiet(p)

LEMMA ListenEndOK ==
  ASSUME NEW o \in Data, WaitOK(o), o.roc \in {"on", "ending"}, NEW rep, NEW peer
  PROVE  LET r == ListenEnded([o EXCEPT !.roc = "none", !.drv_in_listen = FALSE])
         IN  Sound(r, o) /\ (DeviceOK(o, rep, peer) => Good(r, o, rep, peer))
  <1> DEFINE p == [o EXCEPT !.roc = "none", !.drv_in_listen = FALSE]
             R == ListenEnded(p)
             OK == DeviceOK(o, rep, peer)
             Goal == Sound(R, o) /\ (OK => Good(R, o, rep, peer))
  <1> SUFFICES Goal
    OBVIOUS
  <1>1. "none" \in Radio
    BY WordType
  <1>2. p \in Data
    BY <1>1 DEF Data
  <1>3. /\ p.state = o.state /\ p.timeout = o.timeout /\ p.in_listen = o.in_listen
        /\ p.go_neg_peer = o.go_neg_peer /\ p.wps_ready = o.wps_ready
        /\ p.status = o.status /\ p.wait_count = o.wait_count /\ p.result = o.result
        /\ SameFrame(o, p) /\ SameIntent(o, p)
        /\ ~p.drv_in_listen /\ p.roc = "none"
    BY <1>1 DEF Data, SameFrame, SameIntent
  <1> HIDE DEF p
  <1>4. WaitOK(p) /\ p.p2p_go_intent = o.p2p_go_intent
    BY <1>3 DEF WaitOK, SameIntent
  <1>5. OK => ListenOK(p) /\ IntentOK(p, peer) /\ BaseOK(p, peer)
    <2>1. OK => ListenOK(p) /\ IntentOK(p, peer)
      BY <1>3 DEF DeviceOK, ListenOK, IntentOK, SameIntent
    <2> QED BY <2>1 DEF ListenOK, IntentOK, BaseOK
  <1>6. CASE ~p.in_listen /\ p.state = "CONNECT_LISTEN" /\ p.go_neg_peer
    <2>1. R = TryAgain(p)
      BY <1>6 DEF ListenEnded
    <2> HIDE DEF R
    <2> QED BY <1>2, <1>4, <1>5, <1>6, <2>1, TryAgainOK
  <1>7. CASE ~(~p.in_listen /\ p.state = "CONNECT_LISTEN" /\ p.go_neg_peer)
    <2>1. R = Quiet(p)
      BY <1>7 DEF ListenEnded
    <2>2. OK => PeerOK(p)
      BY <1>3 DEF DeviceOK, PeerOK, Underway, SameFrame, SameIntent
    <2>3. OK /\ p.state = "CONNECT_LISTEN" => p.timeout
      BY <1>3, <1>5, <1>7, <2>2 DEF ListenOK, PeerOK, Underway
    <2>4. OK => WatchOK(p, rep)
      BY <1>3, <2>3 DEF DeviceOK, WatchOK, Watched, StatusAwaited, Underway, SameFrame
    <2> HIDE DEF R
    <2>5. OK => DeviceOK(p, rep, peer)
      BY <1>5, <2>2, <2>4 DEF DeviceOK
    <2> QED BY <1>2, <1>4, <2>1, <2>5, QuietOK
  <1> QED BY <1>6, <1>7

-----------------------------------------------------------------------------
\* The commands of the users, and the end of a group's formation

ConnectCommand(o) ==
  LET p == IF o.state = "IDLE" THEN o ELSE p2p_stop_find_for_freq(o, FALSE)
  IN  p2p_connect_send(
       [p EXCEPT !.user_rejected = FALSE, !.wait_response = FALSE,
                 !.wait_confirm = FALSE, !.connect_reqs = 0,
                 !.go_neg_req_sent = FALSE, !.go_state = "UNKNOWN",
                 !.go_intent = p.p2p_go_intent, !.wps_ready = TRUE,
                 !.status = "success", !.result = "none"])

LEMMA ConnectCommandOK ==
  ASSUME NEW o \in Data, NEW rep, NEW peer
  PROVE  /\ Sound(ConnectCommand(o), o)
         /\ DeviceOK(o, rep, peer) => Good(ConnectCommand(o), o, rep, peer)
  <1> DEFINE p == IF o.state = "IDLE" THEN o ELSE p2p_stop_find_for_freq(o, FALSE)
             c == [p EXCEPT !.user_rejected = FALSE, !.wait_response = FALSE,
                 !.wait_confirm = FALSE, !.connect_reqs = 0,
                 !.go_neg_req_sent = FALSE, !.go_state = "UNKNOWN",
                 !.go_intent = p.p2p_go_intent, !.wps_ready = TRUE,
                 !.status = "success", !.result = "none"]
             r == p2p_connect_send(c)
  <1>1. ConnectCommand(o) = r
    BY DEF ConnectCommand
  <1>2. /\ p \in Data /\ p.p2p_go_intent = o.p2p_go_intent
        /\ p.drv_in_listen => o.drv_in_listen
        /\ p.roc = "none" <=> o.roc = "none"
    BY StopFindEffect DEF SameIntent
  <1> HIDE DEF p
  <1>3. /\ 0 \in Requests /\ 0 < ConnectLimit /\ "UNKNOWN" \in GoStates
        /\ "success" \in Statuses /\ "none" \in Results /\ p.p2p_go_intent \in Intents
    BY <1>2, WordType, ConstantsAssumption DEF Requests, Data
  <1>4. c \in Data
    BY <1>2, <1>3 DEF Data
  <1>5. /\ c.connect_reqs = 0 /\ c.go_state = "UNKNOWN" /\ c.go_intent = p.p2p_go_intent
        /\ c.p2p_go_intent = p.p2p_go_intent /\ SameRadio(p, c)
    BY <1>2, <1>3 DEF Data, SameRadio
  <1> HIDE DEF c
  <1>6. DeviceOK(o, rep, peer) => BaseOK(c, peer)
    BY <1>2, <1>5, BaseFacts DEF BaseOK, RoleOK, SameRadio
  <1>7. /\ r \in Outcome /\ WaitOK(r.p) /\ r.p.p2p_go_intent = c.p2p_go_intent
        /\ BaseOK(c, peer) /\ c.go_intent = c.p2p_go_intent => Good(r, c, rep, peer)
    BY <1>3, <1>4, <1>5, ConnectOK
  <1> HIDE DEF r
  <1>8. Sound(r, o) /\ (Good(r, c, rep, peer) => Good(r, o, rep, peer))
    BY <1>2, <1>5, <1>7 DEF Sound, Good
  <1> QED BY <1>1, <1>5, <1>6, <1>7, <1>8

AuthorizeCommand(p) ==
  [p EXCEPT !.user_rejected = FALSE, !.go_neg_req_sent = FALSE,
            !.go_state = "UNKNOWN", !.go_intent = p.p2p_go_intent,
            !.wps_ready = TRUE, !.status = "success", !.result = "none"]

LEMMA AuthorizeOK ==
  ASSUME NEW p \in Data, WaitOK(p), NEW rep, NEW peer
  PROVE  LET q == AuthorizeCommand(p)
         IN  /\ q \in Data /\ WaitOK(q) /\ q.p2p_go_intent = p.p2p_go_intent
             /\ p.state = "IDLE" /\ DeviceOK(p, rep, peer) => DeviceOK(q, rep, peer)
  <1> DEFINE q == AuthorizeCommand(p)
  <1>1. /\ "UNKNOWN" \in GoStates /\ "success" \in Statuses /\ "none" \in Results
        /\ p.p2p_go_intent \in Intents
    BY WordType DEF Data
  <1>2. q \in Data
    BY <1>1 DEF AuthorizeCommand, Data
  <1>3. /\ q.state = p.state /\ q.go_neg_peer = p.go_neg_peer /\ q.wait_count = p.wait_count
        /\ q.go_intent = p.p2p_go_intent /\ q.p2p_go_intent = p.p2p_go_intent
        /\ q.go_state = "UNKNOWN" /\ SameFrame(p, q) /\ SameRadio(p, q)
    BY <1>1 DEF AuthorizeCommand, Data, SameFrame, SameRadio
  <1> HIDE DEF q
  <1>4. WaitOK(q)
    BY <1>3 DEF WaitOK
  <1>5. ASSUME p.state = "IDLE", DeviceOK(p, rep, peer)
        PROVE  DeviceOK(q, rep, peer)
    <2>1. WatchOK(q, rep) /\ ListenOK(q)
      BY <1>3, <1>5 DEF DeviceOK, WatchOK, ListenOK, Underway, SameRadio
    <2>2. PeerOK(q) /\ IntentOK(q, peer)
      BY <1>3, <1>5 DEF DeviceOK, PeerOK, IntentOK, RoleOK, Underway, SameFrame
    <2> QED BY <2>1, <2>2 DEF DeviceOK
  <1>6. q \in Data /\ WaitOK(q) /\ q.p2p_go_intent = p.p2p_go_intent
        /\ (p.state = "IDLE" /\ DeviceOK(p, rep, peer) => DeviceOK(q, rep, peer))
    BY <1>2, <1>3, <1>4, <1>5
  <1> QED BY <1>6 DEF q

LEMMA RejectOK ==
  ASSUME NEW p \in Data, WaitOK(p), NEW rep, NEW peer
  PROVE  LET q == [p EXCEPT !.status = "fail", !.user_rejected = TRUE]
         IN  /\ q \in Data /\ WaitOK(q) /\ q.p2p_go_intent = p.p2p_go_intent
             /\ DeviceOK(p, rep, peer) => DeviceOK(q, rep, peer)
  <1> DEFINE q == [p EXCEPT !.status = "fail", !.user_rejected = TRUE]
  <1>1. "fail" \in Statuses
    BY WordType
  <1>2. q \in Data
    BY <1>1 DEF Data
  <1>3. /\ q.state = p.state /\ q.timeout = p.timeout
        /\ q.go_neg_peer = p.go_neg_peer /\ q.wps_ready = p.wps_ready
        /\ q.status = "fail" /\ q.wait_count = p.wait_count /\ q.result = p.result
        /\ SameFrame(p, q) /\ SameIntent(p, q) /\ SameRadio(p, q) /\ q.roc = p.roc
    BY <1>1 DEF Data, SameFrame, SameIntent, SameRadio
  <1> HIDE DEF q
  <1>4. WaitOK(q) /\ q.p2p_go_intent = p.p2p_go_intent
    BY <1>3 DEF WaitOK, SameIntent
  <1>5. ASSUME DeviceOK(p, rep, peer)
        PROVE  DeviceOK(q, rep, peer)
    <2>1. WatchOK(q, rep) /\ ListenOK(q)
      BY <1>3, <1>5 DEF DeviceOK, WatchOK, Watched, StatusAwaited, ListenOK, Underway,
                        SameFrame, SameRadio
    <2>2. PeerOK(q) /\ IntentOK(q, peer)
      BY <1>3, <1>5 DEF DeviceOK, PeerOK, IntentOK, Underway, SameFrame, SameIntent
    <2> QED BY <2>1, <2>2 DEF DeviceOK
  <1>6. q \in Data /\ WaitOK(q) /\ q.p2p_go_intent = p.p2p_go_intent
        /\ (DeviceOK(p, rep, peer) => DeviceOK(q, rep, peer))
    BY <1>2, <1>4, <1>5
  <1> QED BY <1>6 DEF q

CancelCommand(o) ==
  LET p == [o EXCEPT !.pending_action_tx = FALSE]
      q == IF p.go_neg_peer
           THEN [p EXCEPT !.go_neg_peer = FALSE, !.wps_ready = FALSE,
                          !.wait_response = FALSE, !.wait_confirm = FALSE]
           ELSE p
  IN  p2p_stop_find_for_freq(q, FALSE)

LEMMA CancelOK ==
  ASSUME NEW o \in Data, NEW rep, NEW peer
  PROVE  LET q == CancelCommand(o)
         IN  /\ q \in Data /\ WaitOK(q) /\ q.p2p_go_intent = o.p2p_go_intent
             /\ DeviceOK(o, rep, peer) => DeviceOK(q, rep, peer)
  <1> DEFINE p == [o EXCEPT !.pending_action_tx = FALSE]
             b == [p EXCEPT !.go_neg_peer = FALSE, !.wps_ready = FALSE,
                            !.wait_response = FALSE, !.wait_confirm = FALSE]
             c == IF p.go_neg_peer THEN b ELSE p
             q == p2p_stop_find_for_freq(c, FALSE)
  <1>1. CancelCommand(o) = q
    BY DEF CancelCommand
  <1>2. p \in Data /\ p.wps_ready = o.wps_ready /\ SameIntent(o, p) /\ SameRadio(o, p)
    BY DEF Data, SameIntent, SameRadio
  <1> HIDE DEF p
  <1>3. b \in Data /\ ~b.wps_ready /\ SameIntent(o, b) /\ SameRadio(o, b)
    BY <1>2 DEF Data, SameIntent, SameRadio
  <1> HIDE DEF b
  <1>4. c \in Data /\ (c.wps_ready => o.wps_ready) /\ SameIntent(o, c) /\ SameRadio(o, c)
    BY <1>2, <1>3
  <1> HIDE DEF c
  <1>5. /\ q \in Data /\ q.state = "IDLE" /\ ~q.go_neg_peer
        /\ q.wps_ready = c.wps_ready /\ SameIntent(c, q)
        /\ q.drv_in_listen => c.drv_in_listen
        /\ q.roc = "none" <=> c.roc = "none"
    BY <1>4, StopFindEffect
  <1> HIDE DEF q
  <1>6. DeviceOK(o, rep, peer) => BaseOK(q, peer)
    BY <1>4, <1>5, BaseFacts DEF BaseOK, SameIntent, SameRadio
  <1>7. WaitOK(q) /\ q.p2p_go_intent = o.p2p_go_intent
    BY <1>4, <1>5 DEF WaitOK, SameIntent
  <1> QED BY <1>1, <1>5, <1>6, <1>7, IdleOK

FormationEnded(o) ==
  LET p == [o EXCEPT !.formation = FALSE]
  IN  IF p.go_neg_peer
      THEN [p EXCEPT !.go_neg_peer = FALSE, !.timeout = FALSE, !.state = "IDLE"]
      ELSE p

LEMMA FormationOK ==
  ASSUME NEW o \in Data, WaitOK(o), NEW rep, NEW peer
  PROVE  LET q == FormationEnded(o)
         IN  /\ q \in Data /\ WaitOK(q) /\ q.p2p_go_intent = o.p2p_go_intent
             /\ DeviceOK(o, rep, peer) => DeviceOK(q, rep, peer)
  <1> DEFINE p == [o EXCEPT !.formation = FALSE]
             b == [p EXCEPT !.go_neg_peer = FALSE, !.timeout = FALSE, !.state = "IDLE"]
             q == FormationEnded(o)
  <1>1. q = p \/ q = b
    BY DEF FormationEnded
  <1>2. p \in Data /\ Alike(o, p) /\ p.pending_action_tx = o.pending_action_tx
    BY DEF Data, Alike, SameIntent, SameRadio
  <1>3. WaitOK(p) /\ p.p2p_go_intent = o.p2p_go_intent
        /\ (DeviceOK(o, rep, peer) => DeviceOK(p, rep, peer) /\ BaseOK(p, peer))
    <2> HIDE DEF p
    <2> QED BY <1>2, AlikeOK, BaseFacts DEF Alike, SameIntent
  <1> HIDE DEF p, q
  <1>4. /\ b \in Data /\ b.state = "IDLE" /\ ~b.go_neg_peer /\ b.wps_ready = p.wps_ready
        /\ SameIntent(p, b) /\ SameRadio(p, b)
    BY <1>2, WordType DEF Data, SameIntent, SameRadio
  <1> HIDE DEF b
  <1>5. WaitOK(b) /\ b.p2p_go_intent = o.p2p_go_intent
        /\ (DeviceOK(o, rep, peer) => BaseOK(b, peer))
    BY <1>3, <1>4 DEF WaitOK, BaseOK, SameIntent, SameRadio
  <1>6. DeviceOK(o, rep, peer) => DeviceOK(b, rep, peer)
    BY <1>4, <1>5, IdleOK
  <1>7. q \in Data /\ WaitOK(q) /\ q.p2p_go_intent = o.p2p_go_intent
        /\ (DeviceOK(o, rep, peer) => DeviceOK(q, rep, peer))
    BY <1>1, <1>2, <1>3, <1>4, <1>5, <1>6
  <1> QED BY <1>7 DEF q

-----------------------------------------------------------------------------
\* A handler's outcome applied to the system

LEMMA PeerFacts ==
  ASSUME NEW d \in Devices
  PROVE  /\ Peer(d) \in Devices /\ Peer(d) # d /\ Peer(Peer(d)) = d
         /\ \A e \in Devices : e = d \/ e = Peer(d)
  BY DEF Devices, Peer

Among(s, t) ==
  s \in Seq(Frames) /\ \A i \in 1 .. Len(s) : \E j \in 1 .. Len(t) : s[i] = t[j]

LEMMA TailAmong ==
  ASSUME NEW s \in Seq(Frames)
  PROVE  Among(s, s) /\ (s # <<>> => Among(Tail(s), s) /\ Head(s) = s[1] /\ 1 \in 1 .. Len(s))
  BY DEF Among

LEMMA OneMore ==
  ASSUME NEW s \in Seq(Frames), NEW f \in Frames
  PROVE  /\ s \o <<f>> \in Seq(Frames)
         /\ \A i \in 1 .. Len(s \o <<f>>) :
              (s \o <<f>>)[i] = f \/ \E j \in 1 .. Len(s) : (s \o <<f>>)[i] = s[j]
  <1>1. <<f>> \in Seq(Frames) /\ Len(<<f>>) = 1 /\ <<f>>[1] = f
    OBVIOUS
  <1>2. s \o <<f>> \in Seq(Frames) /\ Len(s \o <<f>>) = Len(s) + 1
    BY <1>1
  <1>3. ASSUME NEW i \in 1 .. Len(s \o <<f>>)
        PROVE  (s \o <<f>>)[i] = f \/ \E j \in 1 .. Len(s) : (s \o <<f>>)[i] = s[j]
    BY <1>1, <1>2
  <1> QED BY <1>2, <1>3

\* The record, the frames and the report that a step of d leaves.
Leaves(d, q, rep, rest, more) ==
  /\ p2p' = [p2p EXCEPT ![d] = q]
  /\ report' = [report EXCEPT ![d] = rep]
  /\ \/ inbox' = [inbox EXCEPT ![d] = rest]
     \/ \E f \in more : inbox' = [inbox EXCEPT ![d] = rest, ![Peer(d)] = @ \o <<f>>]

LEMMA ApplyLeaves ==
  ASSUME TypeInv, NEW d \in Devices, NEW STATE r, NEW STATE rest, r \in Outcome,
         Apply(d, r, rest)
  PROVE  \/ r.out = <<>> /\ Leaves(d, r.p, report[d], rest, {})
         \/ \E f \in Frames, rep \in {"ack", "no_ack"} :
              r.out = <<f>> /\ Leaves(d, r.p, rep, rest, {f})
  <1>1. r.out = <<>> \/ \E f \in Frames : r.out = <<f>>
    BY DEF Outcome
  <1>2. CASE r.out = <<>>
    BY <1>2 DEF Apply, Leaves, TypeInv, TypeOK
  <1>3. ASSUME NEW f \in Frames, r.out = <<f>>
        PROVE  \E rep \in {"ack", "no_ack"} : Leaves(d, r.p, rep, rest, {f})
    <2>1. r.out # <<>>
      BY <1>3
    <2>2. CASE inbox' = [inbox EXCEPT ![d] = rest, ![Peer(d)] = @ \o r.out]
               /\ \E status \in {"ack", "no_ack"} : report' = [report EXCEPT ![d] = status]
      BY <1>3, <2>2 DEF Apply, Leaves
    <2>3. CASE inbox' = [inbox EXCEPT ![d] = rest] /\ report' = [report EXCEPT ![d] = "no_ack"]
      BY <1>3, <2>3 DEF Apply, Leaves
    <2> QED BY <2>1, <2>2, <2>3 DEF Apply
  <1> QED BY <1>1, <1>2, <1>3

LEMMA LeavesType ==
  ASSUME TypeInv, NEW d \in Devices, NEW STATE q, q \in Data, WaitOK(q),
         NEW STATE rep, rep \in {"none", "ack", "no_ack"}, NEW STATE rest, rest \in Seq(Frames),
         NEW STATE more, more \in SUBSET Frames, Leaves(d, q, rep, rest, more),
         commands' \in [Devices -> 0 .. MaxCommands]
  PROVE  TypeInv'
  <1>1. p2p' \in [Devices -> P2pData]
    BY DataType DEF TypeInv, TypeOK, Leaves
  <1>2. report' \in [Devices -> {"none", "ack", "no_ack"}]
    BY DEF TypeInv, TypeOK, Leaves
  <1>3. inbox' \in [Devices -> Seq(Frames)]
    <2>1. CASE inbox' = [inbox EXCEPT ![d] = rest]
      BY <2>1 DEF TypeInv, TypeOK
    <2>2. ASSUME NEW f \in more, inbox' = [inbox EXCEPT ![d] = rest, ![Peer(d)] = @ \o <<f>>]
          PROVE  inbox' \in [Devices -> Seq(Frames)]
      <3>1. inbox[Peer(d)] \in Seq(Frames) /\ f \in Frames
        BY PeerFacts DEF TypeInv, TypeOK
      <3>2. inbox[Peer(d)] \o <<f>> \in Seq(Frames)
        BY <3>1, OneMore
      <3>3. inbox' = [inbox EXCEPT ![d] = rest, ![Peer(d)] = inbox[Peer(d)] \o <<f>>]
        BY <2>2, PeerFacts DEF TypeInv, TypeOK
      <3> QED BY <3>2, <3>3 DEF TypeInv, TypeOK
    <2> QED BY <2>1, <2>2 DEF Leaves
  <1>4. \A e \in Devices : WaitOK(p2p'[e])
    BY DEF TypeInv, TypeOK, Leaves
  <1>5. TypeOK'
    BY <1>1, <1>2, <1>3 DEF TypeOK
  <1> QED BY <1>4, <1>5 DEF TypeInv, WaitOK

LEMMA LeavesInv ==
  ASSUME TypeInv, Inv, NEW d \in Devices, NEW STATE q, q \in Data,
         q.p2p_go_intent = p2p[d].p2p_go_intent,
         NEW STATE rep, NEW STATE rest, Among(rest, inbox[d]),
         NEW STATE more, more \in SUBSET Frames, Leaves(d, q, rep, rest, more),
         DeviceOK(q, rep, p2p[Peer(d)].p2p_go_intent),
         \A f \in more : FrameOK(f, q.p2p_go_intent, p2p[Peer(d)].p2p_go_intent)
  PROVE  Inv'
  <1> DEFINE o == Peer(d)
  <1>1. o \in Devices /\ o # d /\ Peer(o) = d /\ \A e \in Devices : e = d \/ e = o
    BY PeerFacts
  <1>2. p2p \in [Devices -> P2pData] /\ report \in [Devices -> {"none", "ack", "no_ack"}]
        /\ inbox \in [Devices -> Seq(Frames)]
    BY DEF TypeInv, TypeOK
  <1>3. /\ p2p'[d] = q /\ p2p'[o] = p2p[o] /\ report'[d] = rep /\ report'[o] = report[o]
        /\ inbox'[d] = rest
        /\ inbox'[o] = inbox[o] \/ \E f \in more : inbox'[o] = inbox[o] \o <<f>>
    BY <1>1, <1>2 DEF Leaves
  <1>4. \A e \in Devices : p2p'[e].p2p_go_intent = p2p[e].p2p_go_intent
    BY <1>1, <1>3
  <1> HIDE DEF o
  <1>5. DeviceOK(p2p'[d], report'[d], p2p'[o].p2p_go_intent)
    BY <1>3 DEF o
  <1>6. DeviceOK(p2p'[o], report'[o], p2p'[d].p2p_go_intent)
    BY <1>1, <1>3, <1>4 DEF Inv
  <1>7. \A i \in 1 .. Len(inbox'[d]) :
          FrameOK(inbox'[d][i], p2p'[o].p2p_go_intent, p2p'[d].p2p_go_intent)
    BY <1>1, <1>3, <1>4 DEF Inv, Among, o
  <1>8. \A i \in 1 .. Len(inbox'[o]) :
          FrameOK(inbox'[o][i], p2p'[d].p2p_go_intent, p2p'[o].p2p_go_intent)
    <2>1. CASE inbox'[o] = inbox[o]
      BY <1>1, <1>4, <2>1 DEF Inv
    <2>2. ASSUME NEW f \in more, inbox'[o] = inbox[o] \o <<f>>
          PROVE  \A i \in 1 .. Len(inbox'[o]) :
                   FrameOK(inbox'[o][i], p2p'[d].p2p_go_intent, p2p'[o].p2p_go_intent)
      <3>1. FrameOK(f, p2p'[d].p2p_go_intent, p2p'[o].p2p_go_intent)
        BY <1>3, <1>4 DEF o
      <3>2. inbox[o] \in Seq(Frames) /\ f \in Frames
        BY <1>1, <1>2
      <3>3. \A j \in 1 .. Len(inbox[o]) :
              FrameOK(inbox[o][j], p2p'[d].p2p_go_intent, p2p'[o].p2p_go_intent)
        BY <1>1, <1>4 DEF Inv
      <3> QED BY <2>2, <3>1, <3>2, <3>3, OneMore
    <2> QED BY <1>3, <2>1, <2>2
  <1>9. ASSUME NEW e \in Devices
        PROVE  /\ DeviceOK(p2p'[e], report'[e], p2p'[Peer(e)].p2p_go_intent)
               /\ \A i \in 1 .. Len(inbox'[e]) :
                    FrameOK(inbox'[e][i], p2p'[Peer(e)].p2p_go_intent, p2p'[e].p2p_go_intent)
    <2>1. CASE e = d
      BY <1>5, <1>7, <2>1 DEF o
    <2>2. CASE e = o
      BY <1>1, <1>6, <1>8, <2>2
    <2> QED BY <1>1, <2>1, <2>2
  <1> QED BY <1>9 DEF Inv, DeviceOK, WatchOK, Watched, StatusAwaited, ListenOK, PeerOK,
                      IntentOK, RoleOK, FrameOK, Underway, Peer

LEMMA ApplyOK ==
  ASSUME TypeInv, NEW d \in Devices, NEW STATE r, NEW STATE rest, Among(rest, inbox[d]),
         Sound(r, p2p[d]), Apply(d, r, rest), commands' \in [Devices -> 0 .. MaxCommands]
  PROVE  /\ TypeInv'
         /\ Inv /\ Good(r, p2p[d], report[d], p2p[Peer(d)].p2p_go_intent) => Inv'
  <1>1. r \in Outcome /\ WaitOK(r.p) /\ r.p.p2p_go_intent = p2p[d].p2p_go_intent /\ r.p \in Data
    BY DEF Sound, Outcome
  <1>2. rest \in Seq(Frames) /\ report[d] \in {"none", "ack", "no_ack"}
    BY DEF Among, TypeInv, TypeOK
  <1>3. CASE r.out = <<>> /\ Leaves(d, r.p, report[d], rest, {})
    <2>1. TypeInv'
      BY <1>1, <1>2, <1>3, LeavesType
    <2>2. ASSUME Inv, Good(r, p2p[d], report[d], p2p[Peer(d)].p2p_go_intent)
          PROVE  Inv'
      <3>1. DeviceOK(r.p, report[d], p2p[Peer(d)].p2p_go_intent)
        BY <1>3, <2>2 DEF Good
      <3> QED BY <1>1, <1>3, <2>2, <3>1, LeavesInv
    <2> QED BY <2>1, <2>2
  <1>4. ASSUME NEW f \in Frames, NEW rep \in {"ack", "no_ack"}, r.out = <<f>>,
               Leaves(d, r.p, rep, rest, {f})
        PROVE  /\ TypeInv'
               /\ Inv /\ Good(r, p2p[d], report[d], p2p[Peer(d)].p2p_go_intent) => Inv'
    <2>1. TypeInv'
      BY <1>1, <1>2, <1>4, LeavesType
    <2>2. ASSUME Inv, Good(r, p2p[d], report[d], p2p[Peer(d)].p2p_go_intent)
          PROVE  Inv'
      <3>1. /\ DeviceOK(r.p, rep, p2p[Peer(d)].p2p_go_intent)
            /\ FrameOK(f, r.p.p2p_go_intent, p2p[Peer(d)].p2p_go_intent)
        BY <1>1, <1>4, <2>2 DEF Good
      <3> QED BY <1>1, <1>4, <2>2, <3>1, LeavesInv
    <2> QED BY <2>1, <2>2
  <1> QED BY <1>1, <1>3, <1>4, ApplyLeaves

\* A step of d that leaves q and sends nothing.
LEMMA ApplyQuiet ==
  ASSUME TypeInv, NEW d \in Devices, NEW STATE q, q \in Data, WaitOK(q),
         q.p2p_go_intent = p2p[d].p2p_go_intent,
         Apply(d, Quiet(q), inbox[d]), commands' \in [Devices -> 0 .. MaxCommands]
  PROVE  /\ TypeInv'
         /\ Inv /\ DeviceOK(q, report[d], p2p[Peer(d)].p2p_go_intent) => Inv'
  <1>1. Among(inbox[d], inbox[d])
    BY TailAmong DEF TypeInv, TypeOK
  <1>2. /\ Sound(Quiet(q), p2p[d])
        /\ DeviceOK(q, report[d], p2p[Peer(d)].p2p_go_intent)
             => Good(Quiet(q), p2p[d], report[d], p2p[Peer(d)].p2p_go_intent)
    BY QuietOK
  <1>3. /\ TypeInv'
        /\ Inv /\ Good(Quiet(q), p2p[d], report[d], p2p[Peer(d)].p2p_go_intent) => Inv'
    BY <1>1, <1>2, ApplyOK
  <1> QED BY <1>2, <1>3

LEMMA DeviceFacts ==
  ASSUME TypeInv, NEW d \in Devices
  PROVE  /\ p2p[d] \in Data /\ WaitOK(p2p[d]) /\ p2p[Peer(d)].p2p_go_intent \in Intents
         /\ inbox[d] \in Seq(Frames) /\ commands \in [Devices -> 0 .. MaxCommands]
         /\ Inv => DeviceOK(p2p[d], report[d], p2p[Peer(d)].p2p_go_intent)
  <1>1. p2p[d] \in Data /\ p2p[Peer(d)] \in Data
    BY DataType, PeerFacts DEF TypeInv, TypeOK
  <1> QED BY <1>1 DEF TypeInv, TypeOK, Inv, Data

LEMMA ReceiveStep ==
  ASSUME TypeInv, NEW d \in Devices, p2p_rx_p2p_action(d)
  PROVE  TypeInv' /\ (Inv => Inv')
  <1> DEFINE m == Head(inbox[d])
             p == p2p[d]
             rep == report[d]
             peer == p2p[Peer(d)].p2p_go_intent
             r == CASE m.type = "REQ" -> p2p_process_go_neg_req(d, p, m)
                    [] m.type = "RESP" -> p2p_process_go_neg_resp(p, m)
                    [] m.type = "CONF" -> Quiet(p2p_process_go_neg_conf(p, m))
             OK == DeviceOK(p, rep, peer) /\ FrameOK(m, peer, p.p2p_go_intent)
  <1>1. p \in Data /\ WaitOK(p) /\ peer \in Intents /\ inbox[d] \in Seq(Frames) /\ inbox[d] # <<>>
    BY DeviceFacts DEF p2p_rx_p2p_action
  <1>2. /\ Among(Tail(inbox[d]), inbox[d]) /\ m = inbox[d][1] /\ 1 \in 1 .. Len(inbox[d])
        /\ m \in Frames
    BY <1>1, TailAmong
  <1>3. Inv => OK
    BY <1>2, DeviceFacts DEF Inv
  <1>4. Apply(d, r, Tail(inbox[d])) /\ commands' \in [Devices -> 0 .. MaxCommands]
    BY DeviceFacts DEF p2p_rx_p2p_action
  <1>5. Sound(r, p) /\ (OK => Good(r, p, rep, peer))
    <2> HIDE DEF m, p, rep, peer
    <2>1. CASE m.type = "REQ"
      <3>1. r = p2p_process_go_neg_req(d, p, m)
        BY <2>1
      <3> HIDE DEF r
      <3> QED BY <1>1, <1>2, <2>1, <3>1, RequestOK
    <2>2. CASE m.type = "RESP"
      <3>1. r = p2p_process_go_neg_resp(p, m)
        BY <2>2
      <3> HIDE DEF r
      <3> QED BY <1>1, <1>2, <2>2, <3>1, ResponseOK
    <2>3. CASE m.type = "CONF"
      <3> DEFINE q == p2p_process_go_neg_conf(p, m)
      <3>1. r = Quiet(q)
        BY <2>3
      <3>2. /\ q \in Data /\ WaitOK(q) /\ q.p2p_go_intent = p.p2p_go_intent
            /\ DeviceOK(p, rep, peer) => DeviceOK(q, rep, peer)
        BY <1>1, ConfirmOK
      <3> HIDE DEF r, q
      <3> QED BY <3>1, <3>2, QuietOK
    <2> QED BY <1>2, <2>1, <2>2, <2>3, FrameType
  <1> HIDE DEF r, OK
  <1>6. TypeInv' /\ (Inv /\ Good(r, p2p[d], report[d], p2p[Peer(d)].p2p_go_intent) => Inv')
    BY <1>2, <1>4, <1>5, ApplyOK
  <1> QED BY <1>3, <1>5, <1>6

LEMMA StatusStep ==
  ASSUME TypeInv, NEW d \in Devices, p2p_send_action_cb(d)
  PROVE  TypeInv' /\ (Inv => Inv')
  <1> DEFINE p == p2p[d]
             rep == report[d]
             peer == p2p[Peer(d)].p2p_go_intent
             q == IF p.pending_action_tx THEN StatusHandled(p, rep) ELSE p
  <1>1. /\ p \in Data /\ WaitOK(p) /\ peer \in Intents /\ inbox[d] \in Seq(Frames)
        /\ commands' \in [Devices -> 0 .. MaxCommands]
        /\ Inv => DeviceOK(p, rep, peer)
    BY DeviceFacts DEF p2p_send_action_cb
  <1>2. rep # "none"
    BY DEF p2p_send_action_cb
  <1>3. /\ q \in Data /\ WaitOK(q) /\ q.p2p_go_intent = p.p2p_go_intent
        /\ DeviceOK(p, rep, peer) => DeviceOK(q, "none", peer)
    <2> HIDE DEF p, rep, peer
    <2>1. CASE p.pending_action_tx
      BY <1>1, <1>2, <2>1, StatusOK
    <2>2. CASE ~p.pending_action_tx
      BY <1>1, <2>2, LateStatusOK
    <2> QED BY <2>1, <2>2
  <1>4. Leaves(d, q, "none", inbox[d], {})
    <2>1. p2p' = [p2p EXCEPT ![d] = q]
      BY DEF p2p_send_action_cb, StatusHandled, TypeInv, TypeOK
    <2>2. inbox' = [inbox EXCEPT ![d] = inbox[d]] /\ report' = [report EXCEPT ![d] = "none"]
      BY DEF p2p_send_action_cb, TypeInv, TypeOK
    <2> HIDE DEF q
    <2> QED BY <2>1, <2>2 DEF Leaves
  <1>5. Among(inbox[d], inbox[d])
    BY <1>1, TailAmong
  <1> HIDE DEF q
  <1>6. TypeInv'
    BY <1>1, <1>3, <1>4, LeavesType
  <1>7. Inv => Inv'
    BY <1>1, <1>3, <1>4, <1>5, LeavesInv
  <1> QED BY <1>6, <1>7

LEMMA TimeoutStep ==
  ASSUME TypeInv, NEW d \in Devices, p2p_state_timeout(d)
  PROVE  TypeInv' /\ (Inv => Inv')
  <1> DEFINE r == TimeoutHandled([p2p[d] EXCEPT !.timeout = FALSE, !.in_listen = FALSE])
  <1>1. Apply(d, r, inbox[d]) /\ commands' \in [Devices -> 0 .. MaxCommands]
    BY DeviceFacts DEF p2p_state_timeout, TimeoutHandled
  <1>2. /\ Sound(r, p2p[d])
        /\ DeviceOK(p2p[d], report[d], p2p[Peer(d)].p2p_go_intent)
             => Good(r, p2p[d], report[d], p2p[Peer(d)].p2p_go_intent)
    BY DeviceFacts, TimeoutOK
  <1>3. Among(inbox[d], inbox[d])
    BY DeviceFacts, TailAmong
  <1> HIDE DEF r
  <1>4. TypeInv' /\ (Inv /\ Good(r, p2p[d], report[d], p2p[Peer(d)].p2p_go_intent) => Inv')
    BY <1>1, <1>2, <1>3, ApplyOK
  <1> QED BY <1>2, <1>4, DeviceFacts

LEMMA ListenStep ==
  ASSUME TypeInv, NEW d \in Devices, p2p_listen_cb(d) \/ p2p_listen_end(d)
  PROVE  TypeInv' /\ (Inv => Inv')
  <1>1. commands' \in [Devices -> 0 .. MaxCommands] /\ Among(inbox[d], inbox[d])
    BY DeviceFacts, TailAmong DEF p2p_listen_cb, p2p_listen_end
  <1>2. CASE p2p_listen_cb(d)
    <2> DEFINE q == [p2p[d] EXCEPT !.roc = "on", !.in_listen = TRUE,
                                   !.drv_in_listen = TRUE, !.timeout = TRUE]
    <2>1. Apply(d, Quiet(q), inbox[d])
      BY <1>2 DEF p2p_listen_cb
    <2>2. /\ q \in Data /\ WaitOK(q) /\ q.p2p_go_intent = p2p[d].p2p_go_intent
          /\ DeviceOK(p2p[d], report[d], p2p[Peer(d)].p2p_go_intent)
               => DeviceOK(q, report[d], p2p[Peer(d)].p2p_go_intent)
      BY DeviceFacts, ListenStartOK
    <2> HIDE DEF q
    <2> QED BY <1>1, <2>1, <2>2, DeviceFacts, ApplyQuiet
  <1>3. CASE p2p_listen_end(d)
    <2> DEFINE r == ListenEnded([p2p[d] EXCEPT !.roc = "none", !.drv_in_listen = FALSE])
    <2>1. Apply(d, r, inbox[d]) /\ p2p[d].roc \in {"on", "ending"}
      BY <1>3 DEF p2p_listen_end, ListenEnded
    <2>2. /\ Sound(r, p2p[d])
          /\ DeviceOK(p2p[d], report[d], p2p[Peer(d)].p2p_go_intent)
               => Good(r, p2p[d], report[d], p2p[Peer(d)].p2p_go_intent)
      BY <2>1, DeviceFacts, ListenEndOK
    <2> HIDE DEF r
    <2>3. TypeInv' /\ (Inv /\ Good(r, p2p[d], report[d], p2p[Peer(d)].p2p_go_intent) => Inv')
      BY <1>1, <2>1, <2>2, ApplyOK
    <2> QED BY <2>2, <2>3, DeviceFacts
  <1> QED BY <1>2, <1>3

LEMMA CommandCount ==
  ASSUME TypeInv, NEW d \in Devices, NEW STATE r, Command(d, r)
  PROVE  Apply(d, r, inbox[d]) /\ commands' \in [Devices -> 0 .. MaxCommands]
  BY ConstantsAssumption DEF Command, TypeInv, TypeOK

LEMMA CommandStep ==
  ASSUME TypeInv, NEW d \in Devices, p2p_connect(d) \/ p2p_reject(d) \/ wpas_p2p_cancel(d)
  PROVE  TypeInv' /\ (Inv => Inv')
  <1> DEFINE peer == p2p[Peer(d)].p2p_go_intent
  <1>1. Among(inbox[d], inbox[d])
    BY DeviceFacts, TailAmong
  <1>2. CASE p2p_connect(d)
    <2> DEFINE r == ConnectCommand(p2p[d])
    <2>1. Command(d, r)
      BY <1>2 DEF p2p_connect, ConnectCommand
    <2>2. /\ Sound(r, p2p[d])
          /\ DeviceOK(p2p[d], report[d], peer) => Good(r, p2p[d], report[d], peer)
      BY DeviceFacts, ConnectCommandOK
    <2> HIDE DEF r
    <2>3. TypeInv' /\ (Inv /\ Good(r, p2p[d], report[d], peer) => Inv')
      BY <1>1, <2>1, <2>2, CommandCount, ApplyOK
    <2> QED BY <2>2, <2>3, DeviceFacts
  <1>3. CASE p2p_reject(d)
    <2> DEFINE q == [p2p[d] EXCEPT !.status = "fail", !.user_rejected = TRUE]
    <2>1. Command(d, Quiet(q))
      BY <1>3 DEF p2p_reject
    <2>2. /\ q \in Data /\ WaitOK(q) /\ q.p2p_go_intent = p2p[d].p2p_go_intent
          /\ DeviceOK(p2p[d], report[d], peer) => DeviceOK(q, report[d], peer)
      BY DeviceFacts, RejectOK
    <2> HIDE DEF q
    <2> QED BY <2>1, <2>2, DeviceFacts, CommandCount, ApplyQuiet
  <1>4. CASE wpas_p2p_cancel(d)
    <2> DEFINE q == CancelCommand(p2p[d])
    <2>1. Command(d, Quiet(q))
      BY <1>4 DEF wpas_p2p_cancel, CancelCommand
    <2>2. /\ q \in Data /\ WaitOK(q) /\ q.p2p_go_intent = p2p[d].p2p_go_intent
          /\ DeviceOK(p2p[d], report[d], peer) => DeviceOK(q, report[d], peer)
      BY DeviceFacts, CancelOK
    <2> HIDE DEF q
    <2> QED BY <2>1, <2>2, DeviceFacts, CommandCount, ApplyQuiet
  <1> QED BY <1>2, <1>3, <1>4

LEMMA AuthorizeStep ==
  ASSUME TypeInv, NEW d \in Devices, p2p_authorize(d)
  PROVE  TypeInv' /\ (Inv /\ p2p[d].state = "IDLE" => Inv')
  <1> DEFINE peer == p2p[Peer(d)].p2p_go_intent
             q == AuthorizeCommand(p2p[d])
  <1>1. Command(d, Quiet(q))
    BY DEF p2p_authorize, AuthorizeCommand
  <1>2. /\ q \in Data /\ WaitOK(q) /\ q.p2p_go_intent = p2p[d].p2p_go_intent
        /\ p2p[d].state = "IDLE" /\ DeviceOK(p2p[d], report[d], peer)
             => DeviceOK(q, report[d], peer)
    BY DeviceFacts, AuthorizeOK
  <1> HIDE DEF q
  <1> QED BY <1>1, <1>2, DeviceFacts, CommandCount, ApplyQuiet

LEMMA FormationStep ==
  ASSUME TypeInv, NEW d \in Devices, p2p_group_formation_ends(d)
  PROVE  TypeInv' /\ (Inv => Inv')
  <1> DEFINE peer == p2p[Peer(d)].p2p_go_intent
             q == FormationEnded(p2p[d])
  <1>1. Apply(d, Quiet(q), inbox[d]) /\ commands' \in [Devices -> 0 .. MaxCommands]
    BY DeviceFacts DEF p2p_group_formation_ends, FormationEnded
  <1>2. /\ q \in Data /\ WaitOK(q) /\ q.p2p_go_intent = p2p[d].p2p_go_intent
        /\ DeviceOK(p2p[d], report[d], peer) => DeviceOK(q, report[d], peer)
    BY DeviceFacts, FormationOK
  <1> HIDE DEF q
  <1> QED BY <1>1, <1>2, DeviceFacts, ApplyQuiet

LEMMA NextStep ==
  ASSUME TypeInv, [Next]_vars
  PROVE  TypeInv' /\ (Inv /\ [AuthorizedWhenIdle]_vars => Inv')
  <1>1. CASE UNCHANGED vars
    <2>1. TypeInv'
      BY <1>1 DEF vars, TypeInv, TypeOK, WaitOK
    <2>2. Inv => Inv'
      BY <1>1 DEF vars, Inv, DeviceOK, WatchOK, Watched, StatusAwaited, ListenOK, PeerOK,
                  IntentOK, RoleOK, FrameOK, Underway
    <2> QED BY <2>1, <2>2
  <1>2. ASSUME ~UNCHANGED vars, Next
        PROVE  TypeInv' /\ (Inv /\ [AuthorizedWhenIdle]_vars => Inv')
    <2>1. PICK d \in Devices :
            \/ p2p_rx_p2p_action(d) \/ p2p_send_action_cb(d) \/ p2p_state_timeout(d)
            \/ p2p_listen_cb(d) \/ p2p_listen_end(d)
            \/ p2p_connect(d) \/ p2p_authorize(d) \/ p2p_reject(d) \/ wpas_p2p_cancel(d)
            \/ p2p_group_formation_ends(d)
      BY <1>2 DEF Next
    <2>2. p2p_authorize(d) /\ [AuthorizedWhenIdle]_vars => p2p[d].state = "IDLE"
      BY <1>2 DEF AuthorizedWhenIdle
    <2> QED BY <2>1, <2>2, ReceiveStep, StatusStep, TimeoutStep, ListenStep, CommandStep,
               AuthorizeStep, FormationStep
  <1> QED BY <1>1, <1>2

-----------------------------------------------------------------------------
LEMMA InitOK ==
  ASSUME Init
  PROVE  TypeInv /\ Inv
  <1> DEFINE Fresh(t, s) ==
               [state |-> "IDLE", timeout |-> FALSE, go_neg_peer |-> FALSE,
                pending_action_state |-> "NO", pending_action_tx |-> FALSE,
                next_tie_breaker |-> t, go_intent |-> 0, p2p_go_intent |-> s,
                wps_ready |-> FALSE, user_rejected |-> FALSE,
                wait_response |-> FALSE, wait_confirm |-> FALSE,
                connect_reqs |-> 0, go_neg_req_sent |-> FALSE,
                go_state |-> "UNKNOWN", dialog_token |-> 0, status |-> "success",
                wait_count |-> 0, in_listen |-> FALSE, drv_in_listen |-> FALSE,
                roc |-> "none", formation |-> FALSE, result |-> "none"]
  <1>1. PICK tie \in [Devices -> Ties], setting \in GoIntents :
          p2p = [d \in Devices |-> Fresh(tie[d], setting[d])]
    BY DEF Init
  <1>2. \A d \in Devices : tie[d] \in Bits /\ setting[d] \in Intents
    BY ConstantsAssumption DEF Bits, Intents, Devices
  <1>3. ASSUME NEW t \in Bits, NEW s \in Intents
        PROVE  /\ Fresh(t, s) \in Data /\ Fresh(t, s).state = "IDLE"
               /\ ~Fresh(t, s).go_neg_peer /\ ~Fresh(t, s).wps_ready
               /\ ~Fresh(t, s).drv_in_listen /\ Fresh(t, s).go_state = "UNKNOWN"
    <2>1. 0 \in Intents /\ 0 \in Requests /\ 0 \in Periods /\ 0 \in Tokens
      BY ConstantsAssumption DEF Intents, Requests, Periods, Tokens, P2P_MAX_GO_INTENT
    <2> QED BY <2>1, WordType DEF Data
  <1> HIDE DEF Fresh
  <1>4. ASSUME NEW d \in Devices
        PROVE  /\ p2p[d] \in Data /\ p2p[d].state = "IDLE" /\ ~p2p[d].go_neg_peer
               /\ ~p2p[d].wps_ready /\ ~p2p[d].drv_in_listen /\ p2p[d].go_state = "UNKNOWN"
    BY <1>1, <1>2, <1>3
  <1>5. inbox = [d \in Devices |-> <<>>] /\ report = [d \in Devices |-> "none"]
        /\ commands = [d \in Devices |-> 0]
    BY DEF Init
  <1>6. TypeOK
    <2>1. p2p \in [Devices -> P2pData]
      BY <1>1, <1>4, DataType
    <2>2. /\ inbox \in [Devices -> Seq(Frames)] /\ report \in [Devices -> {"none", "ack", "no_ack"}]
          /\ commands \in [Devices -> 0 .. MaxCommands]
      BY <1>5, ConstantsAssumption
    <2> QED BY <2>1, <2>2 DEF TypeOK
  <1>7. TypeInv
    BY <1>4, <1>6 DEF TypeInv, WaitOK
  <1>8. ASSUME NEW d \in Devices
        PROVE  DeviceOK(p2p[d], report[d], p2p[Peer(d)].p2p_go_intent)
    <2>1. BaseOK(p2p[d], p2p[Peer(d)].p2p_go_intent)
      BY <1>4 DEF BaseOK, RoleOK
    <2> QED BY <1>4, <2>1, IdleOK
  <1>9. \A d \in Devices : Len(inbox[d]) = 0
    BY <1>5
  <1> QED BY <1>7, <1>8, <1>9 DEF Inv

(***************************************************************************)
(* Every variable keeps its type: whatever the users command and whatever  *)
(* the frames and reports, the counters of Requests (connect_reqs) and of  *)
(* periods of waiting (wait_count) stay within their limits and a dialog   *)
(* token within its octet (p2p_connect_send(),                             *)
(* p2p_timeout_wait_peer_idle()).                                          *)
(***************************************************************************)
THEOREM TypeCorrect == Spec => []TypeOK
<1>1. Init => TypeInv
  BY InitOK
<1>2. TypeInv /\ [Next]_vars => TypeInv'
  BY NextStep
<1>3. TypeInv => TypeOK
  BY DEF TypeInv
<1> QED BY <1>1, <1>2, <1>3, PTL DEF Spec

(***************************************************************************)
(* The inductive invariant of the two results below holds as long as no    *)
(* user authorizes the peer (p2p_authorize()) in the middle of a           *)
(* negotiation.                                                            *)
(***************************************************************************)
THEOREM Invariance == Spec /\ [][AuthorizedWhenIdle]_vars => [](TypeInv /\ Inv)
<1>1. Init => TypeInv /\ Inv
  BY InitOK
<1>2. (TypeInv /\ Inv) /\ [Next]_vars /\ [AuthorizedWhenIdle]_vars => (TypeInv /\ Inv)'
  BY NextStep
<1> QED BY <1>1, <1>2, PTL DEF Spec

(***************************************************************************)
(* A negotiation under way is never stuck: for any intents, limits and     *)
(* number of commands, and whatever frames are lost, a timeout, a report   *)
(* of the radio or the status of a frame is still to come that takes it    *)
(* further (p2p_state_timeout(), p2p_listen_end(), p2p_send_action_cb()),  *)
(* provided that users authorize a peer only while the device is idle.     *)
(***************************************************************************)
THEOREM NegotiationNeverStuck ==
  Spec /\ [][AuthorizedWhenIdle]_vars => []NegotiationWatched
<1>1. TypeInv /\ Inv => NegotiationWatched
  BY DEF Inv, DeviceOK, WatchOK, Watched, StatusAwaited, Underway,
         NegotiationWatched, InProgress, ConfirmRefused
<1> QED BY <1>1, Invariance, PTL

(***************************************************************************)
(* Two ends that both came to provisioning have the roles that their       *)
(* users' GO Intents ask for, when these differ (p2p_go_det()), whichever  *)
(* of Request, Response and Confirm each of them took its role from, and   *)
(* however many attempts there were before.  The proviso is the one above. *)
(***************************************************************************)
THEOREM RolesAsIntended ==
  Spec /\ [][AuthorizedWhenIdle]_vars => []RolesFollowIntent
<1>1. TypeInv /\ Inv => RolesFollowIntent
  <2> SUFFICES ASSUME TypeInv, Inv, Provisioning(1), Provisioning(2),
                      p2p[1].go_intent # p2p[2].go_intent, NEW d \in Devices
               PROVE  p2p[d].result = IF p2p[d].go_intent > p2p[Peer(d)].go_intent
                                      THEN "go" ELSE "client"
    BY DEF RolesFollowIntent
  <2>1. /\ Peer(d) \in Devices /\ Peer(d) # d /\ Provisioning(d) /\ Provisioning(Peer(d))
        /\ p2p[d].go_intent # p2p[Peer(d)].go_intent
    BY DEF Devices, Peer
  <2>2. /\ p2p[d].go_intent = p2p[d].p2p_go_intent
        /\ p2p[Peer(d)].go_intent = p2p[Peer(d)].p2p_go_intent
        /\ p2p[d].result \in {"go", "client"}
        /\ RoleOK(p2p[d].result, p2p[d].p2p_go_intent, p2p[Peer(d)].p2p_go_intent)
    BY <2>1 DEF Inv, DeviceOK, IntentOK, Provisioning
  <2>3. p2p[d].p2p_go_intent \in Intents /\ p2p[Peer(d)].p2p_go_intent \in Intents
    BY <2>1, DataType DEF TypeInv, TypeOK, Data
  <2> QED BY <2>1, <2>2, <2>3 DEF RoleOK, Intents, P2P_MAX_GO_INTENT
<1> QED BY <1>1, Invariance, PTL
=============================================================================
