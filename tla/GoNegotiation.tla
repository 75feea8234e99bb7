--------------------------- MODULE GoNegotiation ---------------------------
(***************************************************************************)
(* Group Owner negotiation of Wi-Fi Direct (src/p2p/p2p_go_neg.c and the   *)
(* parts of src/p2p/p2p.c that drive it) between two devices that run the  *)
(* same code.                                                              *)
(*                                                                         *)
(* Three frames, Request, Response and Confirm, decide which of the two    *)
(* becomes Group Owner (GO).  Either device may start; both may start at   *)
(* once; frames are lost; and the driver's report of whether a frame was   *)
(* acknowledged comes at its own time, before or after the frames that     *)
(* the peer sends next.  Between Requests a device listens for a while, so *)
(* that the peer can reach it.                                             *)
(*                                                                         *)
(* The driver transmits off-channel by itself and tells frames apart with  *)
(* a cookie: only the status of the last frame given to it is passed on.   *)
(***************************************************************************)
EXTENDS Integers, Sequences

CONSTANTS
  Ties,          \* values the random first tie breaker takes
  GoIntents,     \* the users' settings of GO Intent: functions of the device
  ConnectLimit,  \* Requests without an answer before giving up (120)
  WaitLimit,     \* periods of waiting for the peer's user (120)
  MaxToken,      \* largest dialog token (255)
  MaxInbox,      \* bound: frames on their way to a device
  MaxCommands    \* bound: commands of a device's user

P2P_MAX_GO_INTENT == 15

ASSUME ConstantsAssumption ==
  /\ Ties \subseteq {0, 1}
  /\ GoIntents \subseteq [{1, 2} -> 0 .. P2P_MAX_GO_INTENT]
  /\ ConnectLimit \in Nat \ {0} /\ WaitLimit \in Nat \ {0}
  /\ MaxToken \in Nat \ {0}
  /\ MaxInbox \in Nat /\ MaxCommands \in Nat

(* The devices are named by their addresses, which the code compares. *)
Devices == {1, 2}
Peer(d) == 3 - d

VARIABLES
  p2p,       \* p2p[d]: struct p2p_data and its one struct p2p_device
  inbox,     \* inbox[d]: frames on their way to d, or not yet handled
  report,    \* report[d]: TX status of the last frame, not yet handled
  commands   \* commands[d]: counter of the bound

vars == <<p2p, inbox, report, commands>>

States == {"IDLE", "CONNECT", "CONNECT_LISTEN", "GO_NEG",
           "WAIT_PEER_CONNECT", "WAIT_PEER_IDLE", "PROVISIONING"}
Statuses == {"success", "unavailable", "fail"}
Tokens == 0 .. MaxToken
Frames ==
  [type : {"REQ"}, token : Tokens, intent : 0 .. P2P_MAX_GO_INTENT,
   tie : {0, 1}]
    \cup [type : {"RESP"}, token : Tokens, intent : 0 .. P2P_MAX_GO_INTENT,
          tie : {0, 1}, status : Statuses]
    \cup [type : {"CONF"}, token : Tokens, status : Statuses]

(***************************************************************************)
(* go_neg_peer and wps_ready are pointers and codes in the program; here   *)
(* they say whether the peer is the negotiation's peer, and whether the    *)
(* user has given a WPS method for it.  "roc" is the driver's              *)
(* remain-on-channel operation for listening.  "result" is what the last   *)
(* go_neg_completed() callback told.                                       *)
(***************************************************************************)
P2pData ==
  [state : States, timeout : BOOLEAN, go_neg_peer : BOOLEAN,
   pending_action_state : {"NO", "REQ", "RESP", "RESP_FAILURE", "CONF"},
   pending_action_tx : BOOLEAN, next_tie_breaker : {0, 1},
   go_intent : 0 .. P2P_MAX_GO_INTENT,
   p2p_go_intent : 0 .. P2P_MAX_GO_INTENT,
   wps_ready : BOOLEAN, user_rejected : BOOLEAN,
   wait_response : BOOLEAN, wait_confirm : BOOLEAN,
   connect_reqs : 0 .. ConnectLimit, go_neg_req_sent : BOOLEAN,
   go_state : {"UNKNOWN", "LOCAL", "REMOTE"}, dialog_token : Tokens,
   status : Statuses, wait_count : 0 .. WaitLimit,
   in_listen : BOOLEAN, drv_in_listen : BOOLEAN,
   roc : {"none", "asked", "on", "ending"},
   formation : BOOLEAN, result : {"none", "go", "client", "failed"}]

(* Every variable has its type; a user's command sends no more Requests    *)
(* than the limit allows.                                                  *)
TypeOK ==
  /\ p2p \in [Devices -> P2pData]
  /\ inbox \in [Devices -> Seq(Frames)]
  /\ report \in [Devices -> {"none", "ack", "no_ack"}]
  /\ commands \in [Devices -> 0 .. MaxCommands]

(* p2p_init(): the first tie breaker is random. *)
Init ==
  /\ \E tie \in [Devices -> Ties], setting \in GoIntents :
       p2p = [d \in Devices |->
         [state |-> "IDLE", timeout |-> FALSE, go_neg_peer |-> FALSE,
          pending_action_state |-> "NO", pending_action_tx |-> FALSE,
          next_tie_breaker |-> tie[d], go_intent |-> 0,
          p2p_go_intent |-> setting[d],
          wps_ready |-> FALSE, user_rejected |-> FALSE,
          wait_response |-> FALSE, wait_confirm |-> FALSE,
          connect_reqs |-> 0, go_neg_req_sent |-> FALSE,
          go_state |-> "UNKNOWN", dialog_token |-> 0, status |-> "success",
          wait_count |-> 0, in_listen |-> FALSE, drv_in_listen |-> FALSE,
          roc |-> "none", formation |-> FALSE,
          result |-> "none"]]
  /\ inbox = [d \in Devices |-> <<>>]
  /\ report = [d \in Devices |-> "none"]
  /\ commands = [d \in Devices |-> 0]

-----------------------------------------------------------------------------
(* What a handler leaves: the device's state and the frames it sends. *)
Quiet(p) == [p |-> p, out |-> <<>>]
Sends(p, frame) ==
  [p |-> [p EXCEPT !.pending_action_tx = TRUE], out |-> <<frame>>]

(***************************************************************************)
(* The frames go to the driver, which transmits them: a frame is received  *)
(* and acknowledged; or received, and the acknowledgement is lost; or it   *)
(* is lost.  It takes the cookie of the frame before it, whose status, if  *)
(* not handled yet, is dropped.  "rest" is what the handler left of the    *)
(* frames for d.                                                           *)
(***************************************************************************)
Apply(d, r, rest) ==
  /\ p2p' = [p2p EXCEPT ![d] = r.p]
  /\ \/ /\ r.out # <<>>
        /\ Len(inbox[Peer(d)]) < MaxInbox
        /\ inbox' = [inbox EXCEPT ![d] = rest, ![Peer(d)] = @ \o r.out]
        /\ \E status \in {"ack", "no_ack"} :
             report' = [report EXCEPT ![d] = status]
     \/ /\ r.out # <<>>
        /\ inbox' = [inbox EXCEPT ![d] = rest]
        /\ report' = [report EXCEPT ![d] = "no_ack"]
     \/ /\ r.out = <<>>
        /\ inbox' = [inbox EXCEPT ![d] = rest]
        /\ UNCHANGED report

(* Variant: the attribute's tie breaker bit is not shifted out. *)
p2p_go_det_unshifted(own_intent, peer_intent, tie) ==
  IF own_intent = 2 * peer_intent + tie
  THEN IF own_intent = P2P_MAX_GO_INTENT THEN -1 ELSE 1 - tie
  ELSE IF own_intent > 2 * peer_intent + tie THEN 1 ELSE 0

(* p2p_go_det(): 1, 0 or -1 as the local end, the peer or nobody is GO *)
p2p_go_det(own_intent, peer_intent, tie) ==
  IF own_intent = peer_intent
  THEN IF own_intent = P2P_MAX_GO_INTENT THEN -1 ELSE 1 - tie
  ELSE IF own_intent > peer_intent THEN 1 ELSE 0

GoState(go) == IF go = 1 THEN "LOCAL" ELSE "REMOTE"

(* The radio is called back; the driver's report of it is still to come. *)
StopListen(p) ==
  IF p.roc \in {"asked", "on"} THEN [p EXCEPT !.roc = "ending"] ELSE p

p2p_listen_in_find(p) == [p EXCEPT !.roc = "asked"]

send_action_done(p) == StopListen([p EXCEPT !.pending_action_tx = FALSE])

p2p_go_neg_failed(p) ==
  StopListen([p EXCEPT !.timeout = FALSE, !.state = "IDLE",
                       !.wps_ready = @ /\ ~p.go_neg_peer,
                       !.go_neg_peer = FALSE, !.result = "failed"])

p2p_go_complete(p) ==
  StopListen([p EXCEPT !.timeout = FALSE, !.go_neg_req_sent = FALSE,
                       !.wps_ready = FALSE, !.state = "PROVISIONING",
                       !.formation = TRUE,
                       !.result = IF p.go_state = "LOCAL" THEN "go"
                                  ELSE "client"])

(* A device that is listening where the answer goes out keeps listening. *)
p2p_stop_find_for_freq(p, keep) ==
  LET q == [p EXCEPT !.timeout = FALSE, !.state = "IDLE",
                     !.go_neg_peer = FALSE]
  IN IF keep /\ p.drv_in_listen /\ p.in_listen
     THEN q
     ELSE StopListen([q EXCEPT !.drv_in_listen = FALSE])

(* p2p_connect_send() and p2p_build_go_neg_req(): a Request, with the next *)
(* dialog token and the tie breaker that alternates                        *)
p2p_connect_send(p) ==
  LET token == IF p.dialog_token = MaxToken THEN 1 ELSE p.dialog_token + 1
  IN Sends([p EXCEPT !.dialog_token = token,
                     !.next_tie_breaker = 1 - @,
                     !.state = "CONNECT",
                     !.pending_action_state = "REQ",
                     !.go_neg_peer = TRUE,
                     !.wait_response = TRUE,
                     !.connect_reqs = @ + 1],
           [type |-> "REQ", token |-> token, intent |-> p.go_intent,
            tie |-> p.next_tie_breaker])

-----------------------------------------------------------------------------
(* Received frames *)

(***************************************************************************)
(* A Request is rejected, postponed, left unanswered because the peer will *)
(* answer ours, found incompatible, or accepted.  An accepted one replaces *)
(* whatever the device was doing, its own dialog token included.           *)
(***************************************************************************)
p2p_process_go_neg_req(d, p, m) ==
  LET go == p2p_go_det(p.go_intent, m.intent, m.tie)
      Response(q, status) ==
        Sends([q EXCEPT !.status = status],
              [type |-> "RESP", token |-> m.token, intent |-> q.go_intent,
               tie |-> 1 - m.tie, status |-> status])
      Refuse(status) ==
        Response([p EXCEPT !.pending_action_state = "RESP_FAILURE"], status)
      Idle == IF p.state = "IDLE" THEN p ELSE p2p_stop_find_for_freq(p, TRUE)
  IN
  CASE p.user_rejected -> Refuse("fail")
    [] ~p.user_rejected /\ ~p.wps_ready -> Refuse("unavailable")
    [] ~p.user_rejected /\ p.wps_ready /\ p.go_neg_req_sent /\ Peer(d) > d ->
         Quiet(p)
    [] OTHER ->
         IF go = -1 THEN Refuse("fail")
         ELSE Response([Idle EXCEPT !.go_state = GoState(go),
                                    !.state = "GO_NEG", !.timeout = FALSE,
                                    !.dialog_token = m.token,
                                    !.go_neg_peer = TRUE,
                                    !.pending_action_state = "RESP",
                                    !.wait_confirm = TRUE],
                       "success")

p2p_process_go_neg_resp(p, m) ==
  LET go == p2p_go_det(p.go_intent, m.intent, m.tie)
      q == [p EXCEPT !.wait_response = FALSE]
      Confirm(r, status) ==
        Sends(r, [type |-> "CONF", token |-> m.token, status |-> status])
  IN
  IF ~(p.wps_ready /\ p.go_neg_peer /\ p.wait_response) THEN Quiet(p)
  ELSE IF m.token # p.dialog_token THEN Quiet(q)
  ELSE IF m.status = "unavailable"
  THEN Quiet(send_action_done(
         [q EXCEPT !.go_neg_req_sent = FALSE, !.wait_count = 0,
                   !.state = "WAIT_PEER_IDLE", !.timeout = TRUE]))
  ELSE IF m.status = "fail"
  THEN Quiet(send_action_done(p2p_go_neg_failed(
         [q EXCEPT !.go_neg_req_sent = FALSE])))
  ELSE IF go = -1
  THEN Confirm([q EXCEPT !.pending_action_state = "NO"], "fail")
  ELSE Confirm([q EXCEPT !.state = "GO_NEG", !.timeout = FALSE,
                         !.pending_action_state = "CONF",
                         !.go_state = GoState(go)],
               "success")

p2p_process_go_neg_conf(p, m) ==
  LET q == [p EXCEPT !.pending_action_state = IF @ = "RESP" THEN "NO" ELSE @]
      r == [q EXCEPT !.wait_confirm = FALSE]
  IN
  IF ~(p.wps_ready /\ p.go_neg_peer) THEN p
  ELSE IF ~p.wait_confirm THEN q
  ELSE IF m.token # p.dialog_token \/ m.status # "success"
          \/ p.go_state = "UNKNOWN"
  THEN r
  ELSE p2p_go_complete(r)

p2p_rx_p2p_action(d) ==
  /\ inbox[d] # <<>>
  /\ LET m == Head(inbox[d])
         p == p2p[d]
     IN
       Apply(d, CASE m.type = "REQ" -> p2p_process_go_neg_req(d, p, m)
                  [] m.type = "RESP" -> p2p_process_go_neg_resp(p, m)
                  [] m.type = "CONF" -> Quiet(p2p_process_go_neg_conf(p, m)),
             Tail(inbox[d]))
  /\ UNCHANGED commands

-----------------------------------------------------------------------------
(* The status of the last frame, as the driver reports it *)

p2p_go_neg_req_cb(p, success) ==
  LET q == [p EXCEPT !.go_neg_req_sent = @ \/ success] IN
  IF ~p.go_neg_peer THEN p
  ELSE IF success /\ p.user_rejected THEN [q EXCEPT !.state = "IDLE"]
  ELSE [q EXCEPT !.state = "CONNECT", !.timeout = TRUE]

p2p_go_neg_resp_cb(p) ==
  IF ~p.go_neg_peer /\ p.state = "PROVISIONING" THEN p
  ELSE [p EXCEPT !.state = "CONNECT", !.timeout = TRUE]

p2p_go_neg_resp_failure_cb(p) ==
  IF p.go_neg_peer /\ p.status # "success" THEN p2p_go_neg_failed(p) ELSE p

(* A Confirm counts as received whether or not it was acknowledged. *)
p2p_go_neg_conf_cb(p) ==
  IF p.go_neg_peer THEN p2p_go_complete(send_action_done(p))
  ELSE send_action_done(p)

p2p_send_action_cb(d) ==
  LET pending == p2p[d].pending_action_state
      p == [p2p[d] EXCEPT !.pending_action_tx = FALSE,
                          !.pending_action_state = "NO"]
      q == CASE pending = "NO" -> p
             [] pending = "REQ" -> p2p_go_neg_req_cb(p, report[d] = "ack")
             [] pending = "RESP" -> p2p_go_neg_resp_cb(p)
             [] pending = "RESP_FAILURE" -> p2p_go_neg_resp_failure_cb(p)
             [] pending = "CONF" -> p2p_go_neg_conf_cb(p)
  IN
  /\ report[d] # "none"
  /\ report' = [report EXCEPT ![d] = "none"]
  /\ p2p' = [p2p EXCEPT ![d] =
                IF @.pending_action_tx THEN q ELSE @]
  /\ UNCHANGED <<inbox, commands>>

-----------------------------------------------------------------------------
(* Timeouts, listening, and the commands of the users *)

(* Variant: one Request too many *)
TryAgain_once_more(p) ==
  IF p.connect_reqs > ConnectLimit
  THEN Quiet(p2p_go_neg_failed(p))
  ELSE p2p_connect_send(p)

(* The next Request of a device that listened, or the end of its patience *)
TryAgain(p) ==
  IF p.connect_reqs >= ConnectLimit
  THEN Quiet(p2p_go_neg_failed(p))
  ELSE p2p_connect_send(p)

p2p_timeout_connect(p) ==
  Quiet(p2p_listen_in_find(
    [send_action_done(p) EXCEPT !.state = "CONNECT_LISTEN"]))

p2p_timeout_connect_listen(p) ==
  IF ~p.go_neg_peer THEN Quiet([p EXCEPT !.state = "IDLE"])
  ELSE IF p.drv_in_listen THEN Quiet(p)
  ELSE TryAgain(p)

p2p_timeout_wait_peer_idle(p) ==
  LET q == [p EXCEPT !.wait_count = @ + 1] IN
  IF ~p.go_neg_peer THEN Quiet(p)
  ELSE IF q.wait_count >= WaitLimit THEN Quiet(p2p_go_neg_failed(q))
  ELSE Quiet(p2p_listen_in_find([q EXCEPT !.state = "WAIT_PEER_CONNECT"]))

p2p_state_timeout(d) ==
  /\ p2p[d].timeout
  /\ LET p == [p2p[d] EXCEPT !.timeout = FALSE, !.in_listen = FALSE] IN
       Apply(d, CASE p.state = "CONNECT" -> p2p_timeout_connect(p)
                  [] p.state = "CONNECT_LISTEN" ->
                       p2p_timeout_connect_listen(p)
                  [] p.state = "WAIT_PEER_CONNECT" ->
                       Quiet([p EXCEPT !.state = "WAIT_PEER_IDLE",
                                       !.timeout = TRUE])
                  [] p.state = "WAIT_PEER_IDLE" ->
                       p2p_timeout_wait_peer_idle(p)
                  [] p.state \in {"IDLE", "GO_NEG", "PROVISIONING"} ->
                       Quiet(p),
             inbox[d])
  /\ UNCHANGED commands

(* The radio is on the listen channel: the period is timed from here. *)
p2p_listen_cb(d) ==
  /\ p2p[d].roc = "asked"
  /\ Apply(d, Quiet([p2p[d] EXCEPT !.roc = "on", !.in_listen = TRUE,
                                   !.drv_in_listen = TRUE,
                                   !.timeout = TRUE]),
           inbox[d])
  /\ UNCHANGED commands

(* Variant: always left to the timeout *)
p2p_listen_end_only_noted(d) ==
  /\ p2p[d].roc \in {"on", "ending"}
  /\ Apply(d, Quiet([p2p[d] EXCEPT !.roc = "none", !.drv_in_listen = FALSE]),
           inbox[d])
  /\ UNCHANGED commands

(* The end of the period and this may come in either order: the second of  *)
(* the two goes on.                                                        *)
p2p_listen_end(d) ==
  /\ p2p[d].roc \in {"on", "ending"}
  /\ LET p == [p2p[d] EXCEPT !.roc = "none", !.drv_in_listen = FALSE] IN
       Apply(d, IF ~p.in_listen /\ p.state = "CONNECT_LISTEN"
                   /\ p.go_neg_peer
                THEN TryAgain(p)
                ELSE Quiet(p),
             inbox[d])
  /\ UNCHANGED commands

Command(d, r) ==
  /\ commands[d] < MaxCommands
  /\ commands' = [commands EXCEPT ![d] = @ + 1]
  /\ Apply(d, r, inbox[d])

p2p_connect(d) ==
  LET p == IF p2p[d].state = "IDLE" THEN p2p[d]
           ELSE p2p_stop_find_for_freq(p2p[d], FALSE)
  IN Command(d, p2p_connect_send(
       [p EXCEPT !.user_rejected = FALSE, !.wait_response = FALSE,
                 !.wait_confirm = FALSE, !.connect_reqs = 0,
                 !.go_neg_req_sent = FALSE, !.go_state = "UNKNOWN",
                 !.go_intent = p.p2p_go_intent, !.wps_ready = TRUE,
                 !.status = "success", !.result = "none"]))

(* P2P_CONNECT with "auth": the peer is expected to send the Request. *)
p2p_authorize(d) ==
  Command(d, Quiet(
    [p2p[d] EXCEPT !.user_rejected = FALSE, !.go_neg_req_sent = FALSE,
                   !.go_state = "UNKNOWN", !.go_intent = p2p[d].p2p_go_intent,
                   !.wps_ready = TRUE, !.status = "success",
                   !.result = "none"]))

p2p_reject(d) ==
  Command(d, Quiet([p2p[d] EXCEPT !.status = "fail",
                                  !.user_rejected = TRUE]))

(* P2P_CANCEL: the peer is no longer authorized and the search stops; the  *)
(* frame in the buffer is dropped.                                         *)
wpas_p2p_cancel(d) ==
  LET p == [p2p[d] EXCEPT !.pending_action_tx = FALSE]
      q == IF p.go_neg_peer
           THEN [p EXCEPT !.go_neg_peer = FALSE, !.wps_ready = FALSE,
                          !.wait_response = FALSE, !.wait_confirm = FALSE]
           ELSE p
  IN Command(d, Quiet(p2p_stop_find_for_freq(q, FALSE)))

(* Provisioning ends, well or not, or its time is over: p2p_clear_go_neg() *)
p2p_group_formation_ends(d) ==
  /\ p2p[d].formation
  /\ LET p == [p2p[d] EXCEPT !.formation = FALSE] IN
       Apply(d, Quiet(IF p.go_neg_peer
                      THEN [p EXCEPT !.go_neg_peer = FALSE,
                                     !.timeout = FALSE, !.state = "IDLE"]
                      ELSE p),
             inbox[d])
  /\ UNCHANGED commands

-----------------------------------------------------------------------------
Next == \E d \in Devices :
  \/ p2p_rx_p2p_action(d)
  \/ p2p_send_action_cb(d)
  \/ p2p_state_timeout(d)
  \/ p2p_listen_cb(d)
  \/ p2p_listen_end(d)
  \/ p2p_connect(d)
  \/ p2p_authorize(d)
  \/ p2p_reject(d)
  \/ wpas_p2p_cancel(d)
  \/ p2p_group_formation_ends(d)

Spec == Init /\ [][Next]_vars

-----------------------------------------------------------------------------
Provisioning(d) == p2p[d].state = "PROVISIONING" /\ p2p[d].go_neg_peer

(***************************************************************************)
(* Two devices whose users gave different GO Intents, and that both came   *)
(* to provisioning, have the roles that the intents ask for: the one with  *)
(* the larger intent is GO, the other one its client (p2p_go_det()).  The  *)
(* result each end reports may come from the peer's Request or from its    *)
(* Response, of this attempt or left from an earlier one, in any order.    *)
(***************************************************************************)
RolesFollowIntent ==
  Provisioning(1) /\ Provisioning(2) /\ p2p[1].go_intent # p2p[2].go_intent =>
    \A d \in Devices :
      p2p[d].result = IF p2p[d].go_intent > p2p[Peer(d)].go_intent
                      THEN "go" ELSE "client"

(***************************************************************************)
(* The tie breaker settles equal intents: the two ends of a negotiation    *)
(* that both came to provisioning have different roles (p2p_go_det(),      *)
(* struct p2p_go_neg_results.role_go).                                     *)
(***************************************************************************)
RolesAgree ==
  Provisioning(1) /\ Provisioning(2) => p2p[1].result # p2p[2].result

InProgress(d) == p2p[d].state \notin {"IDLE", "PROVISIONING"}

(* A Confirm for another dialog token was taken: it ends the wait for the  *)
(* status of the Response, and nothing else follows.                       *)
ConfirmRefused(d) ==
  p2p[d].state = "GO_NEG" /\ p2p[d].pending_action_state = "NO"

(***************************************************************************)
(* A negotiation that is under way has something that will take it further *)
(* without the peer's help: the state's timeout, the report that the radio *)
(* listens or has stopped listening, or the status of a frame whose        *)
(* callback goes on.  Whatever frames are lost and in whatever order these *)
(* come, the device is not left waiting for a frame that need not come,    *)
(* but for the one case above (p2p_state_timeout(), p2p_listen_end(),      *)
(* p2p_send_action_cb()).                                                  *)
(***************************************************************************)
NegotiationWatched == \A d \in Devices :
  InProgress(d) /\ ~ConfirmRefused(d) =>
    \/ p2p[d].timeout
    \/ p2p[d].roc = "asked"
    \/ p2p[d].roc \in {"on", "ending"} /\ p2p[d].state = "CONNECT_LISTEN"
    \/ /\ p2p[d].pending_action_tx
       /\ report[d] # "none"
       /\ \/ p2p[d].pending_action_state \in {"REQ", "RESP", "CONF"}
          \/ /\ p2p[d].pending_action_state = "RESP_FAILURE"
             /\ p2p[d].status # "success"
=============================================================================
