----------------------------- MODULE Offchannel -----------------------------
(***************************************************************************)
(* Transmission of Action frames outside the operating channel             *)
(* (wpa_supplicant/offchannel.c) over the nl80211 driver.                  *)
(*                                                                         *)
(* An interface has ONE buffer for a frame that is being sent, whoever     *)
(* sends it: the GAS queries and Wi-Fi Direct share it.  A frame is given  *)
(* to the driver when the radio is on the frame's channel, which is asked  *)
(* for with a remain-on-channel (ROC) operation; the driver reports when   *)
(* the radio has arrived and when it has left, and later whether the       *)
(* frame was acknowledged.  Its reports are events of a socket: they are   *)
(* read in order, some time after what they report.  The driver tells      *)
(* operations, and frames, apart with a cookie and drops the reports of    *)
(* any but the last one, which is why the model keeps the last ones only.  *)
(***************************************************************************)
EXTENDS Integers, Sequences, FiniteSets

CONSTANTS
  Clients,     \* the users of the buffer: GAS queries, Wi-Fi Direct
  Freqs,       \* channels (positive; 0 is "none" in the code)
  Dst,         \* Dst[c]: the peers the client exchanges frames with
  None,        \* no frame, no operation, nobody
  MaxSends,    \* bound: frames the clients send
  MaxListens   \* bound: listen periods of Wi-Fi Direct

ASSUME ConstantsAssumption ==
  /\ Freqs \subseteq Nat \ {0}
  /\ MaxSends \in Nat /\ MaxListens \in Nat

Destinations == UNION {Dst[c] : c \in Clients}

(* The clients have peers of their own: access points and P2P devices. *)
ASSUME OwnPeersAssumption ==
  /\ Dst \in [Clients -> SUBSET Destinations]
  /\ \A c, d \in Clients : c # d => Dst[c] \cap Dst[d] = {}

VARIABLES
  pending_action_tx,     \* the frame in the buffer
  off_channel_freq,      \* where the radio is, as far as reported
  roc_waiting_drv_freq,  \* where it was asked to go
  pending_action_without_roc,
  send_timer,            \* wpas_send_action_cb() is registered
  assoc_freq,            \* channel of the association, 0 if there is none
  offchannel_tx,         \* the driver has WPA_DRIVER_FLAGS_OFFCHANNEL_TX
  roc,                   \* the driver's last remain-on-channel operation
  events,                \* the driver's reports of it that were not read
  handed,                \* the last frame given to the driver, if unreported
  told,                  \* the last TX status a client was told of
  sends, listens         \* counters of the bounds

offchannelVars == <<pending_action_tx, off_channel_freq,
                    roc_waiting_drv_freq, pending_action_without_roc,
                    send_timer>>
configuration == <<assoc_freq, offchannel_tx>>
driverVars == <<configuration, roc, events, handed>>
vars == <<offchannelVars, driverVars, told, sends, listens>>

(***************************************************************************)
(* A frame remembers who sends it, where to and on which channel.  Its     *)
(* "state" is for the properties: the code does not keep it.               *)
(*   waiting  not yet given to the driver                                  *)
(*   handed   given to the driver                                          *)
(*   refused  the driver did not accept the request for its channel        *)
(*   robbed   Wi-Fi Direct took the radio to another place or stopped      *)
(*            listening while the frame waited                             *)
(***************************************************************************)
FrameStates == {"waiting", "handed", "refused", "robbed"}
Frames == [client : Clients, dst : Destinations, freq : Freqs \cup {0},
           state : FrameStates]
Owners == [client : Clients, dst : Destinations]

(* "asked": the radio has not arrived; "gone": it has left, or never comes *)
RocPhases == {"asked", "on", "gone"}
Rocs == [freq : Freqs, phase : RocPhases]

(* Types; an operation has at most one report of its begin and one of its  *)
(* end to be read, since a new one replaces the cookie of the last one in  *)
(* wpa_driver_nl80211_remain_on_channel().                                 *)
TypeOK ==
  /\ pending_action_tx \in Frames \cup {None}
  /\ off_channel_freq \in Freqs \cup {0}
  /\ roc_waiting_drv_freq \in Freqs \cup {0}
  /\ pending_action_without_roc \in BOOLEAN
  /\ send_timer \in BOOLEAN
  /\ assoc_freq \in Freqs \cup {0}
  /\ offchannel_tx \in BOOLEAN
  /\ roc \in Rocs \cup {None}
  /\ events \in Seq({"ready", "cancel"})
  /\ Len(events) <= 2
  /\ handed \in Owners \cup {None}
  /\ told \in [to : Clients, about : Owners] \cup {None}
  /\ sends \in 0 .. MaxSends
  /\ listens \in 0 .. MaxListens

Init ==
  /\ pending_action_tx = None
  /\ off_channel_freq = 0
  /\ roc_waiting_drv_freq = 0
  /\ pending_action_without_roc = FALSE
  /\ send_timer = FALSE
  /\ assoc_freq \in Freqs \cup {0}
  /\ offchannel_tx \in BOOLEAN
  /\ roc = None
  /\ events = <<>>
  /\ handed = None
  /\ told = None
  /\ sends = 0
  /\ listens = 0

ASSUME NoneAssumption ==
  None \notin Frames \cup Owners \cup Rocs \cup [to : Clients, about : Owners]

Owner(tx) == [client |-> tx.client, dst |-> tx.dst]
Waiting(tx) == tx # None /\ tx.state = "waiting"
Robbed(tx) == IF Waiting(tx) THEN [tx EXCEPT !.state = "robbed"] ELSE tx

-----------------------------------------------------------------------------
(* The driver *)

(* An accepted request replaces the cookie: what was still to be read of   *)
(* the operation before it is "not for us" and is never passed on.         *)
remain_on_channel(freq) ==
  /\ roc' = [freq |-> freq, phase |-> "asked"]
  /\ events' = <<>>

(* Whether a report is still to come that ends the operation *)
pending_remain_on_chan == roc # None

(* An operation that has not begun is cancelled with or without a report. *)
cancel_remain_on_channel ==
  \/ /\ ~(pending_remain_on_chan /\ roc.phase # "gone")
     /\ UNCHANGED <<roc, events>>
  \/ /\ pending_remain_on_chan /\ roc.phase # "gone"
     /\ roc' = [roc EXCEPT !.phase = "gone"]
     /\ events' = Append(events, "cancel")
  \/ /\ pending_remain_on_chan /\ roc.phase = "asked"
     /\ roc' = [roc EXCEPT !.phase = "gone"]
     /\ UNCHANGED events

(* The radio arrives on the channel, and leaves it when its time is over. *)
DriverArrives ==
  /\ roc # None /\ roc.phase = "asked"
  /\ roc' = [roc EXCEPT !.phase = "on"]
  /\ events' = Append(events, "ready")
  /\ UNCHANGED <<offchannelVars, configuration, handed, told, sends, listens>>

DriverLeaves ==
  /\ roc # None /\ roc.phase = "on"
  /\ roc' = [roc EXCEPT !.phase = "gone"]
  /\ events' = Append(events, "cancel")
  /\ UNCHANGED <<offchannelVars, configuration, handed, told, sends, listens>>

-----------------------------------------------------------------------------
(* offchannel.c *)

(* Mutant: the destination is not compared. *)
tx_status_of_anyone(tx, about) ==
  IF tx # None
  THEN /\ pending_action_tx' = None
       /\ told' = [to |-> tx.client, about |-> about]
  ELSE /\ pending_action_tx' = tx
       /\ UNCHANGED told

(* A TX status for a frame to dst: it ends the frame in the buffer when    *)
(* that goes to the same peer, and is told to the client of that frame.    *)
tx_status(tx, about) ==
  IF tx # None /\ tx.dst = about.dst
  THEN /\ pending_action_tx' = None
       /\ told' = [to |-> tx.client, about |-> about]
  ELSE /\ pending_action_tx' = tx
       /\ UNCHANGED told

(* The driver takes the frame, or fails, which is reported as a status. *)
drv_send_action(tx) ==
  \/ /\ pending_action_tx' = [tx EXCEPT !.state = "handed"]
     /\ handed' = Owner(tx)
     /\ UNCHANGED told
  \/ /\ tx_status(tx, Owner(tx))
     /\ UNCHANGED handed

OnItsChannel(tx, freq) ==
  freq = tx.freq \/ tx.freq = 0 \/ tx.freq = assoc_freq

(* The frame in the buffer is sent if the radio is where it belongs. *)
SendIfOnChannel(freq) ==
  LET tx == pending_action_tx IN
  \/ /\ tx # None /\ OnItsChannel(tx, freq)
     /\ drv_send_action(tx)
  \/ /\ ~(tx # None /\ OnItsChannel(tx, freq))
     /\ UNCHANGED <<pending_action_tx, handed, told>>

(* Mutant: the channel is not asked for again. *)
ChannelLost_ignored == FALSE

(* The radio left between the decision to send at once and the callback. *)
ChannelLost ==
  /\ pending_action_tx # None
  /\ ~OnItsChannel(pending_action_tx, off_channel_freq)
  /\ pending_action_without_roc
  /\ off_channel_freq = 0

(* The callback as a timeout: a channel that was lost is asked for again. *)
wpas_send_action_cb ==
  /\ send_timer
  /\ send_timer' = FALSE
  /\ pending_action_without_roc' = FALSE
  /\ \/ /\ ~ChannelLost
        /\ SendIfOnChannel(off_channel_freq)
        /\ UNCHANGED <<off_channel_freq, roc_waiting_drv_freq, roc, events>>
     \/ /\ ChannelLost
        /\ remain_on_channel(pending_action_tx.freq)
        /\ off_channel_freq' = 0
        /\ roc_waiting_drv_freq' = pending_action_tx.freq
        /\ UNCHANGED <<pending_action_tx, handed, told>>
     \/ /\ ChannelLost
        /\ pending_action_tx' = [pending_action_tx EXCEPT !.state = "refused"]
        /\ UNCHANGED <<off_channel_freq, roc_waiting_drv_freq, roc, events,
                       handed, told>>
  /\ UNCHANGED <<configuration, sends, listens>>

(* The report that the radio has arrived: the callback is called at once. *)
offchannel_remain_on_channel_cb ==
  /\ events # <<>> /\ Head(events) = "ready"
  /\ events' = Tail(events)
  /\ roc_waiting_drv_freq' = 0
  /\ off_channel_freq' = roc.freq
  /\ pending_action_without_roc' = FALSE
  /\ SendIfOnChannel(roc.freq)
  /\ UNCHANGED <<send_timer, configuration, roc, sends, listens>>

(* The report that it has left *)
offchannel_cancel_remain_on_channel_cb ==
  /\ events # <<>> /\ Head(events) = "cancel"
  /\ events' = Tail(events)
  /\ roc' = None
  /\ off_channel_freq' = 0
  /\ UNCHANGED <<pending_action_tx, roc_waiting_drv_freq,
                 pending_action_without_roc, send_timer, configuration,
                 handed, told, sends, listens>>

offchannel_send_action_tx_status ==
  /\ handed # None
  /\ handed' = None
  /\ tx_status(pending_action_tx, handed)
  /\ UNCHANGED <<off_channel_freq, roc_waiting_drv_freq,
                 pending_action_without_roc, send_timer, configuration, roc,
                 events, sends, listens>>

(***************************************************************************)
(* A client sends a frame.  What is in the buffer is dropped.  A driver    *)
(* with off-channel transmission takes the frame at once; otherwise it is  *)
(* sent from a timeout when the radio is on the channel, or it waits for   *)
(* an operation already under way, or a new one is requested.  A driver    *)
(* that refuses makes the call fail and the frame stays in the buffer.     *)
(***************************************************************************)
offchannel_send_action(client, dst, freq) ==
  LET tx == [client |-> client, dst |-> dst, freq |-> freq,
             state |-> "waiting"]
      target == IF freq = assoc_freq THEN 0 ELSE freq
      onChannel == target \in {off_channel_freq, 0}
      Refused == /\ pending_action_tx' = [tx EXCEPT !.state = "refused"]
                 /\ UNCHANGED <<off_channel_freq, roc_waiting_drv_freq, roc,
                                events, handed>>
  IN
  /\ sends < MaxSends
  /\ sends' = sends + 1
  /\ \/ /\ offchannel_tx /\ freq # 0
        /\ \/ /\ pending_action_tx' = [tx EXCEPT !.state = "handed"]
              /\ handed' = Owner(tx)
              /\ UNCHANGED <<off_channel_freq, roc_waiting_drv_freq, roc,
                             events>>
           \/ Refused
        /\ UNCHANGED <<pending_action_without_roc, send_timer>>
     \/ /\ pending_action_tx' = None   \* no memory for the frame
        /\ UNCHANGED <<off_channel_freq, roc_waiting_drv_freq,
                       pending_action_without_roc, send_timer, roc, events,
                       handed>>
     \/ /\ ~(offchannel_tx /\ freq # 0) /\ onChannel
        /\ pending_action_tx' = tx
        /\ pending_action_without_roc' = TRUE
        /\ send_timer' = TRUE
        /\ UNCHANGED <<off_channel_freq, roc_waiting_drv_freq, roc, events,
                       handed>>
     \/ /\ ~(offchannel_tx /\ freq # 0) /\ ~onChannel
        /\ pending_action_without_roc' = FALSE
        /\ \/ /\ roc_waiting_drv_freq = target
              /\ pending_action_tx' = tx
              /\ UNCHANGED <<off_channel_freq, roc_waiting_drv_freq, roc,
                             events, handed>>
           \/ /\ roc_waiting_drv_freq # target
              /\ remain_on_channel(target)
              /\ pending_action_tx' = tx
              /\ off_channel_freq' = 0
              /\ roc_waiting_drv_freq' = target
              /\ UNCHANGED handed
           \/ /\ roc_waiting_drv_freq # target
              /\ Refused
        /\ UNCHANGED send_timer
  /\ UNCHANGED <<configuration, told, listens>>

(* Mutant: roc_waiting_drv_freq is not reset. *)
GiveUpChannel_still_waiting ==
  /\ off_channel_freq' = 0
  /\ UNCHANGED roc_waiting_drv_freq
  /\ IF off_channel_freq # 0 \/ roc_waiting_drv_freq # 0
     THEN cancel_remain_on_channel
     ELSE UNCHANGED <<roc, events>>

(* The radio is given up if it is away or on its way. *)
GiveUpChannel ==
  /\ off_channel_freq' = 0
  /\ roc_waiting_drv_freq' = 0
  /\ IF off_channel_freq # 0 \/ roc_waiting_drv_freq # 0
     THEN cancel_remain_on_channel
     ELSE UNCHANGED <<roc, events>>

(* A client has finished its exchange: whatever is in the buffer goes. *)
offchannel_send_action_done ==
  /\ pending_action_tx' = None
  /\ GiveUpChannel
  /\ UNCHANGED <<pending_action_without_roc, send_timer, configuration,
                 handed, told, sends, listens>>

(* The interface is removed, and the driver's handle with it.  The next    *)
(* one starts from zeros.                                                  *)
offchannel_deinit ==
  /\ pending_action_tx' = None
  /\ send_timer' = FALSE
  /\ off_channel_freq' = 0
  /\ roc_waiting_drv_freq' = 0
  /\ pending_action_without_roc' = FALSE
  /\ roc' = None /\ events' = <<>> /\ handed' = None /\ told' = None
  /\ UNCHANGED <<configuration, sends, listens>>

-----------------------------------------------------------------------------
(* Wi-Fi Direct uses the radio directly to listen. *)

wpas_start_listen(freq) ==
  /\ listens < MaxListens
  /\ listens' = listens + 1
  /\ remain_on_channel(freq)
  /\ off_channel_freq' = 0
  /\ roc_waiting_drv_freq' = freq
  /\ pending_action_tx' = IF Waiting(pending_action_tx)
                             /\ pending_action_tx.freq # freq
                          THEN Robbed(pending_action_tx)
                          ELSE pending_action_tx
  /\ UNCHANGED <<pending_action_without_roc, send_timer, configuration,
                 handed, told, sends>>

(* wpas_stop_listen(), and the start of wpas_go_neg_completed() *)
wpas_stop_listen ==
  /\ off_channel_freq # 0 \/ roc_waiting_drv_freq # 0
  /\ GiveUpChannel
  /\ pending_action_tx' = Robbed(pending_action_tx)
  /\ UNCHANGED <<pending_action_without_roc, send_timer, configuration,
                 handed, told, sends, listens>>

-----------------------------------------------------------------------------
Next ==
  \/ DriverArrives
  \/ DriverLeaves
  \/ wpas_send_action_cb
  \/ offchannel_remain_on_channel_cb
  \/ offchannel_cancel_remain_on_channel_cb
  \/ offchannel_send_action_tx_status
  \/ \E c \in Clients : \E dst \in Dst[c], freq \in Freqs \cup {0} :
       offchannel_send_action(c, dst, freq)
  \/ offchannel_send_action_done
  \/ offchannel_deinit
  \/ \E freq \in Freqs : wpas_start_listen(freq)
  \/ wpas_stop_listen

(* The event loop runs timeouts that are due and reads the driver's        *)
(* socket; the driver brings the radio to the channel it accepted.         *)
Fairness ==
  /\ WF_vars(wpas_send_action_cb)
  /\ WF_vars(offchannel_remain_on_channel_cb)
  /\ WF_vars(offchannel_cancel_remain_on_channel_cb)
  /\ WF_vars(DriverArrives)

Spec == Init /\ [][Next]_vars /\ Fairness

-----------------------------------------------------------------------------
(***************************************************************************)
(* A frame that waits in the buffer is waited for by something: the        *)
(* timeout that sends it, or an operation that takes the radio to its      *)
(* channel and whose report was not read.  It is never left in the buffer  *)
(* with nothing under way, whatever was sent, cancelled or reported before *)
(* (offchannel.c:82-113 and 238-272), unless the driver refused or Wi-Fi   *)
(* Direct took the radio for itself.                                       *)
(***************************************************************************)
FrameWatched ==
  Waiting(pending_action_tx) =>
    \/ send_timer /\ ( \/ pending_action_without_roc
                       \/ OnItsChannel(pending_action_tx, off_channel_freq) )
    \/ /\ roc # None
       /\ roc.freq = pending_action_tx.freq
       /\ roc.phase = "asked" \/ \E i \in DOMAIN events : events[i] = "ready"

(***************************************************************************)
(* A client is told the TX status of its own frames only, although the     *)
(* buffer may hold another client's frame by the time the driver reports   *)
(* (the comparison of the destination, offchannel.c:151).                  *)
(***************************************************************************)
ToldOfOwnFrames == told # None => told.about.client = told.to

(***************************************************************************)
(* A frame does not wait for ever: it is given to the driver, refused,     *)
(* replaced or dropped.                                                    *)
(***************************************************************************)
FrameLeaves == Waiting(pending_action_tx) ~> ~Waiting(pending_action_tx)
=============================================================================
