-------------------------- MODULE OffchannelProofs --------------------------
(***************************************************************************)
(* Safety of Offchannel for every set of clients, peers and channels: a    *)
(* waiting frame is waited for, and a client is told of its own frames.    *)
(*                                                                         *)
(* FrameWatched is not inductive.  A frame may wait for an operation that  *)
(* somebody else asked for, so that roc_waiting_drv_freq must name an      *)
(* operation that will be reported (WaitingForRadio); the report must not  *)
(* be overtaken by the end of the operation (ReportsInOrder); and a frame  *)
(* that is to be sent at once must not be met by the arrival of the radio  *)
(* on a third channel (SentAtOnce).                                        *)
(***************************************************************************)
EXTENDS Offchannel, SequenceTheorems, TLAPS

(* The radio will be reported on the channel of the last operation. *)
Arrival == /\ roc # None
           /\ roc.phase = "asked" \/ (events # <<>> /\ Head(events) = "ready")

(* The unread reports e of the operation r. *)
InOrder(r, e) ==
  /\ r = None => e = <<>>
  /\ r # None =>
       /\ r.phase = "asked" => e = <<>>
       /\ r.phase = "on" => e \in {<<>>, <<"ready">>}
       /\ r.phase = "gone" =>
            e \in {<<>>, <<"cancel">>, <<"ready", "cancel">>}

ReportsInOrder == InOrder(roc, events)

WaitingForRadio ==
  /\ roc_waiting_drv_freq # 0 => Arrival /\ roc.freq = roc_waiting_drv_freq
  /\ off_channel_freq # 0 => ~Arrival
  /\ pending_action_without_roc => send_timer

(* A frame for the operating channel may be sent wherever the radio is. *)
Anywhere(tx) == tx.freq = 0 \/ tx.freq = assoc_freq

SentAtOnce ==
  Waiting(pending_action_tx) /\ pending_action_without_roc
      /\ ~Anywhere(pending_action_tx) =>
    /\ off_channel_freq \in {0, pending_action_tx.freq}
    /\ Arrival => roc.freq = pending_action_tx.freq

WaitsForSomething ==
  Waiting(pending_action_tx) =>
    \/ pending_action_without_roc
    \/ Arrival /\ roc.freq = pending_action_tx.freq

OwnPeers ==
  /\ pending_action_tx # None =>
       pending_action_tx.dst \in Dst[pending_action_tx.client]
  /\ handed # None => handed.dst \in Dst[handed.client]

Inv == /\ TypeOK
       /\ ReportsInOrder
       /\ WaitingForRadio
       /\ SentAtOnce
       /\ WaitsForSomething
       /\ OwnPeers
       /\ ToldOfOwnFrames

-----------------------------------------------------------------------------
(* Lemmas about the parts that several actions share *)

(* Both reports of an operation, none of them read. *)
LEMMA BothReports == Append(<<"ready">>, "cancel") = <<"ready", "cancel">>
<1> DEFINE S == {"ready", "cancel"}
           a == Append(<<"ready">>, "cancel")
           b == <<"ready", "cancel">>
<1>1. <<"ready">> \in Seq(S) /\ Len(<<"ready">>) = 1 /\ <<"ready">>[1] = "ready"
  OBVIOUS
<1>2. b \in Seq(S) /\ Len(b) = 2 /\ b[1] = "ready" /\ b[2] = "cancel"
  OBVIOUS
<1>3. \A s \in Seq(S) : Len(s) = 1 /\ s[1] = "ready" =>
        /\ Append(s, "cancel") \in Seq(S) /\ Len(Append(s, "cancel")) = 2
        /\ Append(s, "cancel")[1] = "ready" /\ Append(s, "cancel")[2] = "cancel"
  OBVIOUS
<1>4. a \in Seq(S) /\ Len(a) = 2 /\ a[1] = "ready" /\ a[2] = "cancel"
  BY <1>1, <1>3
<1> HIDE DEF a, b
<1>5. Len(a) = Len(b) /\ \A i \in 1 .. Len(a) : a[i] = b[i]
  BY <1>2, <1>4
<1>6. a = b
  BY <1>2, <1>4, <1>5, SeqEqual
<1> QED
  BY <1>6 DEF a, b

(* The sequences of unread reports: their types, first and later elements. *)
LEMMA Reports ==
  /\ {<<>>, <<"ready">>, <<"cancel">>, <<"ready", "cancel">>}
       \subseteq {s \in Seq({"ready", "cancel"}) : Len(s) <= 2}
  /\ Append(<<>>, "ready") = <<"ready">> /\ Append(<<>>, "cancel") = <<"cancel">>
  /\ Append(<<"ready">>, "cancel") = <<"ready", "cancel">>
  /\ <<"ready">> # <<>> /\ <<"cancel">> # <<>> /\ <<"ready", "cancel">> # <<>>
  /\ Head(<<"ready">>) = "ready" /\ Head(<<"cancel">>) = "cancel"
  /\ Head(<<"ready", "cancel">>) = "ready"
  /\ Tail(<<"ready">>) = <<>> /\ Tail(<<"cancel">>) = <<>>
  /\ Tail(<<"ready", "cancel">>) = <<"cancel">>
<1>1. <<>> \in Seq({"ready", "cancel"}) /\ Len(<<>>) = 0
  OBVIOUS
<1>2. /\ <<"ready">> \in Seq({"ready", "cancel"}) /\ Len(<<"ready">>) = 1
      /\ <<"cancel">> \in Seq({"ready", "cancel"}) /\ Len(<<"cancel">>) = 1
  OBVIOUS
<1>3. /\ <<"ready", "cancel">> \in Seq({"ready", "cancel"})
      /\ Len(<<"ready", "cancel">>) = 2
  OBVIOUS
<1>4. Append(<<>>, "ready") = <<"ready">> /\ Append(<<>>, "cancel") = <<"cancel">>
  OBVIOUS
<1>5. Head(<<"ready">>) = "ready" /\ Head(<<"cancel">>) = "cancel"
      /\ Head(<<"ready", "cancel">>) = "ready"
  OBVIOUS
<1>6. Tail(<<"ready">>) = <<>> /\ Tail(<<"cancel">>) = <<>>
      /\ Tail(<<"ready", "cancel">>) = <<"cancel">>
  OBVIOUS
<1>7. /\ <<"ready">> # <<>> /\ <<"cancel">> # <<>> /\ <<"ready", "cancel">> # <<>>
  OBVIOUS
<1>8. {<<>>, <<"ready">>, <<"cancel">>, <<"ready", "cancel">>}
        \subseteq {s \in Seq({"ready", "cancel"}) : Len(s) <= 2}
  BY <1>1, <1>2, <1>3
<1> QED
  BY <1>4, <1>5, <1>6, <1>7, <1>8, BothReports

(* What the order of the reports says about their type. *)
LEMMA ReportTypes ==
  ASSUME NEW r \in Rocs \cup {None}, NEW e, InOrder(r, e)
  PROVE  e \in Seq({"ready", "cancel"}) /\ Len(e) <= 2
<1>1. e \in {<<>>, <<"ready">>, <<"cancel">>, <<"ready", "cancel">>}
  BY DEF InOrder, Rocs, RocPhases
<1> QED
  BY <1>1, Reports

(* A new operation: its arrival is to come, whatever was reported before. *)
LEMMA NewOperation ==
  ASSUME NEW freq \in Freqs, remain_on_channel(freq)
  PROVE  /\ roc' \in Rocs /\ roc'.freq = freq
         /\ ReportsInOrder'
         /\ Arrival'
<1>1. roc' \in Rocs /\ roc'.freq = freq /\ roc'.phase = "asked" /\ events' = <<>>
  BY DEF remain_on_channel, Rocs, RocPhases
<1>2. roc' # None
  BY <1>1, NoneAssumption
<1> QED
  BY <1>1, <1>2 DEF ReportsInOrder, InOrder, Arrival

(* The end of an operation leaves its channel and the order of reports. *)
LEMMA OperationCancelled ==
  ASSUME roc \in Rocs \cup {None}, ReportsInOrder, cancel_remain_on_channel
  PROVE  roc' \in Rocs \cup {None} /\ ReportsInOrder'
<1>1. CASE UNCHANGED <<roc, events>>
  BY <1>1 DEF ReportsInOrder, InOrder
<1>2. CASE /\ roc # None /\ roc.phase # "gone"
           /\ roc' = [roc EXCEPT !.phase = "gone"]
           /\ events' = Append(events, "cancel")
  <2>1. roc' \in Rocs /\ roc'.phase = "gone"
    BY <1>2 DEF Rocs, RocPhases
  <2>2. events \in {<<>>, <<"ready">>}
    BY <1>2 DEF ReportsInOrder, InOrder, Rocs, RocPhases
  <2>3. events' \in {<<"cancel">>, <<"ready", "cancel">>}
    BY <1>2, <2>2, Reports
  <2> QED
    BY <2>1, <2>3, NoneAssumption DEF ReportsInOrder, InOrder
<1>3. CASE /\ roc # None /\ roc.phase = "asked"
           /\ roc' = [roc EXCEPT !.phase = "gone"]
           /\ UNCHANGED events
  <2>1. roc' \in Rocs /\ roc'.phase = "gone"
    BY <1>3 DEF Rocs, RocPhases
  <2>2. events' = <<>>
    BY <1>3 DEF ReportsInOrder, InOrder
  <2> QED
    BY <2>1, <2>2, NoneAssumption DEF ReportsInOrder, InOrder
<1> QED
  BY <1>1, <1>2, <1>3 DEF cancel_remain_on_channel, pending_remain_on_chan

LEMMA ChannelGivenUp ==
  ASSUME roc \in Rocs \cup {None}, ReportsInOrder, GiveUpChannel
  PROVE  /\ roc' \in Rocs \cup {None} /\ ReportsInOrder'
         /\ off_channel_freq' = 0 /\ roc_waiting_drv_freq' = 0
<1>1. CASE cancel_remain_on_channel
  BY <1>1, OperationCancelled DEF GiveUpChannel
<1>2. CASE UNCHANGED <<roc, events>>
  BY <1>2 DEF GiveUpChannel, ReportsInOrder, InOrder
<1> QED
  BY <1>1, <1>2 DEF GiveUpChannel

(* The frame in the buffer is sent, or the radio is not where it belongs. *)
LEMMA FrameSent ==
  ASSUME NEW freq, SendIfOnChannel(freq),
         pending_action_tx \in Frames \cup {None}, handed \in Owners \cup {None},
         told \in [to : Clients, about : Owners] \cup {None},
         OwnPeers, ToldOfOwnFrames
  PROVE  /\ pending_action_tx' \in Frames \cup {None}
         /\ handed' \in Owners \cup {None}
         /\ told' \in [to : Clients, about : Owners] \cup {None}
         /\ OwnPeers' /\ ToldOfOwnFrames'
         /\ Waiting(pending_action_tx)' =>
              /\ pending_action_tx' = pending_action_tx
              /\ ~OnItsChannel(pending_action_tx, freq)
<1> DEFINE tx == pending_action_tx
<1>1. CASE UNCHANGED <<pending_action_tx, handed, told>>
           /\ ~(tx # None /\ OnItsChannel(tx, freq))
  BY <1>1 DEF OwnPeers, ToldOfOwnFrames, Waiting
<1>2. CASE tx # None /\ drv_send_action(tx)
  <2>1. tx \in Frames /\ Owner(tx) \in Owners
        /\ Owner(tx).dst = tx.dst /\ Owner(tx).client = tx.client
    BY <1>2 DEF Owner, Owners, Frames
  <2>2. CASE /\ pending_action_tx' = [tx EXCEPT !.state = "handed"]
             /\ handed' = Owner(tx) /\ told' = told
    <3>1. /\ pending_action_tx' \in Frames /\ pending_action_tx'.state = "handed"
          /\ pending_action_tx'.dst = tx.dst /\ pending_action_tx'.client = tx.client
      BY <2>1, <2>2 DEF Frames, FrameStates
    <3> QED
      BY <1>2, <2>1, <2>2, <3>1 DEF OwnPeers, ToldOfOwnFrames, Waiting
  <2>3. CASE tx_status(tx, Owner(tx)) /\ handed' = handed
    <3>1. /\ pending_action_tx' = None
          /\ told' = [to |-> tx.client, about |-> Owner(tx)]
      BY <1>2, <2>1, <2>3 DEF tx_status
    <3>2. told' \in [to : Clients, about : Owners]
          /\ told'.about.client = told'.to
      BY <2>1, <3>1 DEF Frames
    <3> QED
      BY <2>3, <3>1, <3>2 DEF OwnPeers, ToldOfOwnFrames, Waiting
  <2> QED
    BY <1>2, <2>2, <2>3 DEF drv_send_action
<1> QED
  BY <1>1, <1>2 DEF SendIfOnChannel

-----------------------------------------------------------------------------
(* An interface starts with an empty buffer and the radio at home. *)
LEMMA InitInv == Init => Inv
<1> SUFFICES ASSUME Init PROVE Inv
  OBVIOUS
<1>1. ReportsInOrder /\ ~Arrival
  BY DEF Init, ReportsInOrder, InOrder, Arrival
<1>2. events \in Seq({"ready", "cancel"}) /\ Len(events) <= 2
  BY Reports DEF Init
<1>3. sends \in 0 .. MaxSends /\ listens \in 0 .. MaxListens
  BY ConstantsAssumption DEF Init
<1>4. TypeOK
  BY <1>2, <1>3 DEF Init, TypeOK
<1> QED
  BY <1>1, <1>4 DEF Init, Inv, WaitingForRadio, SentAtOnce, WaitsForSomething,
     Waiting, OwnPeers, ToldOfOwnFrames

(* The parts of the invariant that only the radio's reports disturb. *)
LEMMA DriverStep ==
  ASSUME Inv, DriverArrives \/ DriverLeaves
  PROVE  Inv'
<1> USE DEF Inv
<1>1. roc \in Rocs /\ roc # None /\ roc' \in Rocs /\ roc' # None /\ roc'.freq = roc.freq
  BY NoneAssumption DEF DriverArrives, DriverLeaves, Rocs, RocPhases, TypeOK
<1>2. ReportsInOrder' /\ (Arrival' <=> Arrival)
  <2>1. CASE DriverArrives
    <3>1. events = <<>> /\ roc.phase = "asked"
      BY <2>1 DEF DriverArrives, ReportsInOrder, InOrder
    <3>2. events' = <<"ready">> /\ roc'.phase = "on"
      BY <2>1, <3>1, <1>1, Reports DEF DriverArrives, Rocs
    <3> QED
      BY <1>1, <3>1, <3>2, Reports DEF ReportsInOrder, InOrder, Arrival
  <2>2. CASE DriverLeaves
    <3>1. roc.phase = "on" /\ events \in {<<>>, <<"ready">>}
      BY <2>2 DEF DriverLeaves, ReportsInOrder, InOrder
    <3>2. events' = Append(events, "cancel") /\ roc'.phase = "gone"
      BY <2>2, <1>1 DEF DriverLeaves, Rocs
    <3>3. CASE events = <<>>
      BY <1>1, <3>1, <3>2, <3>3, Reports DEF ReportsInOrder, InOrder, Arrival
    <3>4. CASE events = <<"ready">>
      BY <1>1, <3>1, <3>2, <3>4, Reports DEF ReportsInOrder, InOrder, Arrival
    <3> QED
      BY <3>1, <3>3, <3>4
  <2> QED
    BY <2>1, <2>2
<1>3. UNCHANGED <<offchannelVars, configuration, handed, told, sends, listens>>
  BY DEF DriverArrives, DriverLeaves
<1>4. TypeOK'
  <2>1. events' \in Seq({"ready", "cancel"}) /\ Len(events)' <= 2
    BY <1>1, <1>2, ReportTypes DEF ReportsInOrder
  <2> QED
    BY <1>1, <1>3, <2>1 DEF TypeOK, offchannelVars, configuration
<1> QED
  BY <1>1, <1>2, <1>3, <1>4
     DEF offchannelVars, configuration, WaitingForRadio, SentAtOnce, Anywhere,
         WaitsForSomething, Waiting, OwnPeers, ToldOfOwnFrames

(* The timeout sends, asks for the channel again, or is refused. *)
LEMMA CallbackStep ==
  ASSUME Inv, wpas_send_action_cb
  PROVE  Inv'
<1> USE DEF Inv
<1> DEFINE tx == pending_action_tx
<1>1. send_timer' = FALSE /\ pending_action_without_roc' = FALSE
      /\ UNCHANGED <<assoc_freq, offchannel_tx, sends, listens>>
  BY DEF wpas_send_action_cb, configuration
<1>2. CASE /\ ~ChannelLost /\ SendIfOnChannel(off_channel_freq)
           /\ UNCHANGED <<off_channel_freq, roc_waiting_drv_freq, roc, events>>
  <2>1. /\ pending_action_tx' \in Frames \cup {None}
        /\ handed' \in Owners \cup {None}
        /\ told' \in [to : Clients, about : Owners] \cup {None}
        /\ OwnPeers' /\ ToldOfOwnFrames'
        /\ Waiting(pending_action_tx)' =>
             /\ pending_action_tx' = pending_action_tx
             /\ ~OnItsChannel(pending_action_tx, off_channel_freq)
    BY <1>2, FrameSent DEF TypeOK
  <2>2. TypeOK'
    BY <1>1, <1>2, <2>1 DEF TypeOK
  <2>3. ReportsInOrder' /\ (Arrival' <=> Arrival)
    BY <1>2 DEF ReportsInOrder, InOrder, Arrival
  <2>4. WaitingForRadio' /\ SentAtOnce'
    BY <1>1, <1>2, <2>3 DEF WaitingForRadio, SentAtOnce
  <2>5. WaitsForSomething'
    <3> SUFFICES ASSUME Waiting(pending_action_tx)'
                 PROVE  Arrival /\ roc.freq = tx.freq
      BY <1>2, <2>1, <2>3 DEF WaitsForSomething
    <3>1. Waiting(tx) /\ ~OnItsChannel(tx, off_channel_freq)
      BY <2>1 DEF Waiting
    <3>2. ~pending_action_without_roc
      BY <1>2, <3>1 DEF ChannelLost, SentAtOnce, Anywhere, OnItsChannel, Waiting
    <3> QED
      BY <3>1, <3>2 DEF WaitsForSomething
  <2> QED
    BY <2>1, <2>2, <2>3, <2>4, <2>5
<1>3. CASE /\ ChannelLost /\ remain_on_channel(tx.freq)
           /\ off_channel_freq' = 0 /\ roc_waiting_drv_freq' = tx.freq
           /\ UNCHANGED <<pending_action_tx, handed, told>>
  <2>1. tx \in Frames /\ tx.freq \in Freqs
    BY <1>3 DEF ChannelLost, OnItsChannel, Frames, TypeOK
  <2>2. roc' \in Rocs /\ roc'.freq = tx.freq /\ ReportsInOrder' /\ Arrival'
    BY <1>3, <2>1, NewOperation
  <2>3. events' \in Seq({"ready", "cancel"}) /\ Len(events)' <= 2
    BY <2>2, ReportTypes DEF ReportsInOrder
  <2>4. TypeOK'
    BY <1>1, <1>3, <2>1, <2>2, <2>3 DEF TypeOK
  <2> QED
    BY <1>1, <1>3, <2>2, <2>4
       DEF WaitingForRadio, SentAtOnce, WaitsForSomething, OwnPeers, ToldOfOwnFrames
<1>4. CASE /\ ChannelLost
           /\ pending_action_tx' = [tx EXCEPT !.state = "refused"]
           /\ UNCHANGED <<off_channel_freq, roc_waiting_drv_freq, roc, events,
                          handed, told>>
  <2>1. tx \in Frames /\ tx # None
    BY <1>4 DEF ChannelLost, TypeOK
  <2>2. /\ pending_action_tx' \in Frames /\ pending_action_tx'.state = "refused"
        /\ pending_action_tx'.dst = tx.dst /\ pending_action_tx'.client = tx.client
    BY <1>4, <2>1 DEF Frames, FrameStates
  <2>3. TypeOK' /\ ReportsInOrder' /\ (Arrival' <=> Arrival)
    BY <1>1, <1>4, <2>2 DEF TypeOK, ReportsInOrder, InOrder, Arrival
  <2> QED
    BY <1>1, <1>4, <2>1, <2>2, <2>3
       DEF WaitingForRadio, SentAtOnce, WaitsForSomething, Waiting, OwnPeers,
           ToldOfOwnFrames
<1> QED
  BY <1>2, <1>3, <1>4 DEF wpas_send_action_cb

(* The arrival is read: a frame that waits goes to the driver. *)
LEMMA ArrivalStep ==
  ASSUME Inv, offchannel_remain_on_channel_cb
  PROVE  Inv'
<1> USE DEF Inv
<1> DEFINE tx == pending_action_tx
<1>1. /\ events # <<>> /\ Head(events) = "ready" /\ events' = Tail(events)
      /\ roc_waiting_drv_freq' = 0 /\ off_channel_freq' = roc.freq
      /\ pending_action_without_roc' = FALSE /\ SendIfOnChannel(roc.freq)
      /\ UNCHANGED <<send_timer, assoc_freq, offchannel_tx, roc, sends, listens>>
  BY DEF offchannel_remain_on_channel_cb, configuration
<1>2. roc # None /\ roc \in Rocs /\ Arrival
  BY <1>1 DEF ReportsInOrder, InOrder, TypeOK, Arrival
<1>3. \/ events = <<"ready">> /\ roc.phase = "on"
      \/ events = <<"ready", "cancel">> /\ roc.phase = "gone"
  BY <1>1, <1>2, Reports DEF ReportsInOrder, InOrder, Rocs, RocPhases
<1>4. ReportsInOrder' /\ ~Arrival'
  BY <1>1, <1>2, <1>3, Reports DEF ReportsInOrder, InOrder, Arrival
<1>5. events' \in Seq({"ready", "cancel"}) /\ Len(events)' <= 2
  BY <1>1, <1>2, <1>4, ReportTypes DEF ReportsInOrder
<1>6. /\ pending_action_tx' \in Frames \cup {None}
      /\ handed' \in Owners \cup {None}
      /\ told' \in [to : Clients, about : Owners] \cup {None}
      /\ OwnPeers' /\ ToldOfOwnFrames'
      /\ Waiting(pending_action_tx)' =>
           /\ pending_action_tx' = pending_action_tx
           /\ ~OnItsChannel(pending_action_tx, roc.freq)
  BY <1>1, FrameSent DEF TypeOK
<1>7. ~Waiting(pending_action_tx)'
  BY <1>2, <1>6 DEF Waiting, SentAtOnce, WaitsForSomething, Anywhere, OnItsChannel
<1>8. TypeOK'
  BY <1>1, <1>2, <1>5, <1>6 DEF TypeOK, Rocs
<1> QED
  BY <1>1, <1>4, <1>6, <1>7, <1>8
     DEF WaitingForRadio, SentAtOnce, WaitsForSomething

(* The departure is read: no arrival is unread, so nobody waited for it. *)
LEMMA DepartureStep ==
  ASSUME Inv, offchannel_cancel_remain_on_channel_cb
  PROVE  Inv'
<1> USE DEF Inv
<1>1. /\ events # <<>> /\ Head(events) = "cancel" /\ events' = Tail(events)
      /\ roc' = None /\ off_channel_freq' = 0
      /\ UNCHANGED <<pending_action_tx, roc_waiting_drv_freq,
                     pending_action_without_roc, send_timer, assoc_freq,
                     offchannel_tx, handed, told, sends, listens>>
  BY DEF offchannel_cancel_remain_on_channel_cb, configuration
<1>2. roc # None /\ roc \in Rocs
  BY <1>1 DEF ReportsInOrder, InOrder, TypeOK
<1>3. events = <<"cancel">> /\ roc.phase = "gone"
  BY <1>1, <1>2, Reports DEF ReportsInOrder, InOrder, Rocs, RocPhases
<1>4. ~Arrival /\ ~Arrival' /\ events' = <<>>
  BY <1>1, <1>3, Reports DEF Arrival
<1>5. TypeOK' /\ ReportsInOrder'
  <2>1. events' \in Seq({"ready", "cancel"}) /\ Len(events)' <= 2
    BY <1>4, Reports
  <2> QED
    BY <1>1, <1>4, <2>1 DEF TypeOK, ReportsInOrder, InOrder
<1> QED
  BY <1>1, <1>4, <1>5
     DEF WaitingForRadio, SentAtOnce, WaitsForSomething, Waiting, Anywhere,
         OwnPeers, ToldOfOwnFrames

(* The status of a frame reaches the client whose peer it went to. *)
LEMMA StatusStep ==
  ASSUME Inv, offchannel_send_action_tx_status
  PROVE  Inv'
<1> USE DEF Inv
<1> DEFINE tx == pending_action_tx
<1>1. /\ handed # None /\ handed' = None /\ tx_status(tx, handed)
      /\ UNCHANGED <<off_channel_freq, roc_waiting_drv_freq,
                     pending_action_without_roc, send_timer, assoc_freq,
                     offchannel_tx, roc, events, sends, listens>>
  BY DEF offchannel_send_action_tx_status, configuration
<1>2. handed \in Owners
  BY <1>1 DEF TypeOK
<1>3. ReportsInOrder' /\ (Arrival' <=> Arrival)
  BY <1>1 DEF ReportsInOrder, InOrder, Arrival
<1>4. CASE tx # None /\ tx.dst = handed.dst
  <2>1. pending_action_tx' = None /\ told' = [to |-> tx.client, about |-> handed]
    BY <1>1, <1>4 DEF tx_status
  <2>2. tx \in Frames /\ tx.client \in Clients /\ handed.client \in Clients
    BY <1>2, <1>4 DEF TypeOK, Frames, Owners
  <2>3. tx.client = handed.client
    BY <1>1, <1>4, <2>2, OwnPeersAssumption DEF OwnPeers
  <2>4. told' \in [to : Clients, about : Owners] /\ told'.about.client = told'.to
    BY <1>2, <2>1, <2>2, <2>3
  <2>5. TypeOK' /\ ToldOfOwnFrames'
    BY <1>1, <2>1, <2>4 DEF TypeOK, ToldOfOwnFrames
  <2> QED
    BY <1>1, <1>3, <2>1, <2>5
       DEF WaitingForRadio, SentAtOnce, WaitsForSomething, Waiting, OwnPeers
<1>5. CASE ~(tx # None /\ tx.dst = handed.dst)
  <2>1. pending_action_tx' = tx /\ told' = told
    BY <1>1, <1>5 DEF tx_status
  <2> QED
    BY <1>1, <1>3, <2>1
       DEF TypeOK, WaitingForRadio, SentAtOnce, WaitsForSomething, Waiting,
           Anywhere, OwnPeers, ToldOfOwnFrames
<1> QED
  BY <1>4, <1>5

(***************************************************************************)
(* A client sends.  A frame that is to wait either finds the radio on its  *)
(* channel, joins an operation that takes it there, or asks for one.       *)
(***************************************************************************)
LEMMA SendStep ==
  ASSUME NEW client \in Clients, NEW dst \in Dst[client],
         NEW freq \in Freqs \cup {0},
         Inv, offchannel_send_action(client, dst, freq)
  PROVE  Inv'
<1> USE DEF Inv
<1> DEFINE tx == [client |-> client, dst |-> dst, freq |-> freq,
                  state |-> "waiting"]
           target == IF freq = assoc_freq THEN 0 ELSE freq
           onChannel == target \in {off_channel_freq, 0}
           sameRadio == UNCHANGED <<off_channel_freq, roc_waiting_drv_freq,
                                    roc, events>>
           refused == /\ pending_action_tx' = [tx EXCEPT !.state = "refused"]
                      /\ sameRadio /\ handed' = handed
<1>1. /\ sends < MaxSends /\ sends' = sends + 1
      /\ UNCHANGED <<assoc_freq, offchannel_tx, told, listens>>
  BY DEF offchannel_send_action, configuration
<1>2. sends' \in 0 .. MaxSends
  BY <1>1, ConstantsAssumption DEF TypeOK
<1>3. dst \in Destinations
  BY OwnPeersAssumption DEF Destinations
<1>4. /\ tx \in Frames /\ tx.dst = dst /\ tx.client = client /\ tx.freq = freq
      /\ tx.state = "waiting" /\ tx # None
      /\ Owner(tx) \in Owners /\ Owner(tx).dst = dst /\ Owner(tx).client = client
  BY <1>3, NoneAssumption DEF Frames, FrameStates, Owner, Owners
<1>5. ASSUME NEW s \in {"handed", "refused"}
      PROVE  LET f == [tx EXCEPT !.state = s] IN
             f \in Frames /\ f.dst = dst /\ f.client = client /\ f.state = s
  BY <1>4 DEF Frames, FrameStates
<1>6. ToldOfOwnFrames'
  BY <1>1 DEF ToldOfOwnFrames
<1>7. sameRadio => ReportsInOrder' /\ (Arrival' <=> Arrival)
  BY DEF ReportsInOrder, InOrder, Arrival
<1> HIDE DEF tx, target, onChannel
<1>8. CASE /\ \/ pending_action_tx' = [tx EXCEPT !.state = "handed"]
                 /\ handed' = Owner(tx) /\ sameRadio
              \/ refused
           /\ pending_action_without_roc' \in {pending_action_without_roc, FALSE}
           /\ send_timer' = send_timer
  <2>1. /\ pending_action_tx' \in Frames
        /\ pending_action_tx'.dst = dst /\ pending_action_tx'.client = client
        /\ pending_action_tx'.state \in {"handed", "refused"}
    BY <1>5, <1>8
  <2>2. /\ handed' \in Owners \cup {None}
        /\ handed' # None => handed'.dst \in Dst[handed'.client]
    BY <1>4, <1>8 DEF TypeOK, OwnPeers
  <2>3. TypeOK'
    BY <1>1, <1>2, <1>8, <2>1, <2>2 DEF TypeOK
  <2>4. ~Waiting(pending_action_tx)' /\ OwnPeers'
    BY <2>1, <2>2 DEF Waiting, OwnPeers
  <2>5. pending_action_without_roc' => pending_action_without_roc
    BY <1>8, Zenon
  <2>6. sameRadio
    BY <1>8
  <2> QED
    BY <1>6, <1>7, <1>8, <2>3, <2>4, <2>5, <2>6
       DEF WaitingForRadio, SentAtOnce, WaitsForSomething
<1>9. CASE /\ pending_action_tx' = None /\ sameRadio /\ handed' = handed
           /\ UNCHANGED <<pending_action_without_roc, send_timer>>
  BY <1>1, <1>2, <1>6, <1>7, <1>9
     DEF TypeOK, WaitingForRadio, SentAtOnce, WaitsForSomething, Waiting, OwnPeers
<1>10. CASE /\ onChannel /\ pending_action_tx' = tx /\ sameRadio
            /\ pending_action_without_roc' = TRUE /\ send_timer' = TRUE
            /\ handed' = handed
  <2>1. TypeOK'
    BY <1>1, <1>2, <1>4, <1>10 DEF TypeOK
  <2>2. SentAtOnce'
    BY <1>1, <1>4, <1>7, <1>10
       DEF SentAtOnce, Anywhere, WaitingForRadio, onChannel, target, TypeOK
  <2>3. WaitingForRadio' /\ WaitsForSomething' /\ OwnPeers'
    BY <1>4, <1>7, <1>10 DEF WaitingForRadio, WaitsForSomething, OwnPeers
  <2> QED
    BY <1>6, <1>7, <1>10, <2>1, <2>2, <2>3
<1>11. ASSUME ~onChannel
       PROVE  target = freq /\ freq # 0 /\ freq \in Freqs
  BY <1>11 DEF onChannel, target
<1>12. CASE /\ ~onChannel /\ pending_action_without_roc' = FALSE
            /\ roc_waiting_drv_freq = target /\ pending_action_tx' = tx
            /\ sameRadio /\ UNCHANGED <<handed, send_timer>>
  <2>1. TypeOK'
    BY <1>1, <1>2, <1>4, <1>12 DEF TypeOK
  <2>2. Arrival /\ roc.freq = freq
    BY <1>11, <1>12 DEF WaitingForRadio
  <2> QED
    BY <1>4, <1>6, <1>7, <1>12, <2>1, <2>2
       DEF WaitingForRadio, SentAtOnce, WaitsForSomething, OwnPeers
<1>13. CASE /\ ~onChannel /\ pending_action_without_roc' = FALSE
            /\ remain_on_channel(target) /\ pending_action_tx' = tx
            /\ off_channel_freq' = 0 /\ roc_waiting_drv_freq' = target
            /\ UNCHANGED <<handed, send_timer>>
  <2>1. roc' \in Rocs /\ roc'.freq = freq /\ ReportsInOrder' /\ Arrival'
    BY <1>11, <1>13, NewOperation
  <2>2. events' \in Seq({"ready", "cancel"}) /\ Len(events)' <= 2
    BY <2>1, ReportTypes DEF ReportsInOrder
  <2>3. TypeOK'
    BY <1>1, <1>2, <1>4, <1>11, <1>13, <2>1, <2>2 DEF TypeOK
  <2> QED
    BY <1>4, <1>6, <1>11, <1>13, <2>1, <2>3
       DEF WaitingForRadio, SentAtOnce, WaitsForSomething, OwnPeers
<1> QED
  BY <1>8, <1>9, <1>10, <1>12, <1>13
     DEF offchannel_send_action, tx, target, onChannel

(* The buffer is empty, and the radio is given up or the driver closed. *)
LEMMA DoneStep ==
  ASSUME Inv, offchannel_send_action_done \/ offchannel_deinit
  PROVE  Inv'
<1> USE DEF Inv
<1>1. CASE offchannel_send_action_done
  <2>1. /\ pending_action_tx' = None /\ GiveUpChannel
        /\ UNCHANGED <<pending_action_without_roc, send_timer, assoc_freq,
                       offchannel_tx, handed, told, sends, listens>>
    BY <1>1 DEF offchannel_send_action_done, configuration
  <2>2. /\ roc' \in Rocs \cup {None} /\ ReportsInOrder'
        /\ off_channel_freq' = 0 /\ roc_waiting_drv_freq' = 0
    BY <2>1, ChannelGivenUp DEF TypeOK
  <2>3. events' \in Seq({"ready", "cancel"}) /\ Len(events)' <= 2
    BY <2>2, ReportTypes DEF ReportsInOrder
  <2> QED
    BY <2>1, <2>2, <2>3
       DEF TypeOK, WaitingForRadio, SentAtOnce, WaitsForSomething, Waiting,
           OwnPeers, ToldOfOwnFrames
<1>2. CASE offchannel_deinit
  <2>1. events' \in Seq({"ready", "cancel"}) /\ Len(events)' <= 2
    BY <1>2, Reports DEF offchannel_deinit
  <2> QED
    BY <1>2, <2>1
       DEF offchannel_deinit, configuration, TypeOK, ReportsInOrder, InOrder,
           WaitingForRadio, SentAtOnce, WaitsForSomething, Waiting, OwnPeers,
           ToldOfOwnFrames
<1> QED
  BY <1>1, <1>2

(* Wi-Fi Direct takes the radio: only a frame for its channel still waits. *)
LEMMA ListenStep ==
  ASSUME NEW freq \in Freqs, Inv, wpas_start_listen(freq)
  PROVE  Inv'
<1> USE DEF Inv
<1> DEFINE tx == pending_action_tx
<1>1. /\ listens < MaxListens /\ listens' = listens + 1 /\ remain_on_channel(freq)
      /\ off_channel_freq' = 0 /\ roc_waiting_drv_freq' = freq
      /\ pending_action_tx' = IF Waiting(tx) /\ tx.freq # freq
                              THEN Robbed(tx) ELSE tx
      /\ UNCHANGED <<pending_action_without_roc, send_timer, assoc_freq,
                     offchannel_tx, handed, told, sends>>
  BY DEF wpas_start_listen, configuration
<1>2. roc' \in Rocs /\ roc'.freq = freq /\ ReportsInOrder' /\ Arrival'
  BY <1>1, NewOperation
<1>3. events' \in Seq({"ready", "cancel"}) /\ Len(events)' <= 2
  BY <1>2, ReportTypes DEF ReportsInOrder
<1>4. listens' \in 0 .. MaxListens
  BY <1>1, ConstantsAssumption DEF TypeOK
<1>5. /\ pending_action_tx' \in Frames \cup {None}
      /\ OwnPeers'
      /\ Waiting(pending_action_tx)' => pending_action_tx'.freq = freq
  BY <1>1 DEF TypeOK, Robbed, Waiting, Frames, FrameStates, OwnPeers
<1>6. TypeOK'
  BY <1>1, <1>2, <1>3, <1>4, <1>5 DEF TypeOK
<1> QED
  BY <1>1, <1>2, <1>5, <1>6
     DEF WaitingForRadio, SentAtOnce, WaitsForSomething, ToldOfOwnFrames

LEMMA StopListenStep ==
  ASSUME Inv, wpas_stop_listen
  PROVE  Inv'
<1> USE DEF Inv
<1>1. /\ GiveUpChannel /\ pending_action_tx' = Robbed(pending_action_tx)
      /\ UNCHANGED <<pending_action_without_roc, send_timer, assoc_freq,
                     offchannel_tx, handed, told, sends, listens>>
  BY DEF wpas_stop_listen, configuration
<1>2. /\ roc' \in Rocs \cup {None} /\ ReportsInOrder'
      /\ off_channel_freq' = 0 /\ roc_waiting_drv_freq' = 0
  BY <1>1, ChannelGivenUp DEF TypeOK
<1>3. events' \in Seq({"ready", "cancel"}) /\ Len(events)' <= 2
  BY <1>2, ReportTypes DEF ReportsInOrder
<1>4. /\ pending_action_tx' \in Frames \cup {None}
      /\ OwnPeers'
      /\ ~Waiting(pending_action_tx)'
  BY <1>1 DEF TypeOK, Robbed, Waiting, Frames, FrameStates, OwnPeers
<1>5. TypeOK'
  BY <1>1, <1>2, <1>3, <1>4 DEF TypeOK
<1> QED
  BY <1>1, <1>2, <1>4, <1>5
     DEF WaitingForRadio, SentAtOnce, WaitsForSomething, ToldOfOwnFrames

-----------------------------------------------------------------------------
(* Every step of the buffer, of the driver and of Wi-Fi Direct keeps Inv. *)
LEMMA StepInv == Inv /\ [Next]_vars => Inv'
<1> SUFFICES ASSUME Inv, [Next]_vars PROVE Inv'
  OBVIOUS
<1>1. CASE UNCHANGED vars
  BY <1>1
     DEF vars, offchannelVars, driverVars, configuration, Inv, TypeOK,
         ReportsInOrder, InOrder, Arrival, WaitingForRadio, SentAtOnce, Anywhere,
         WaitsForSomething, Waiting, OwnPeers, ToldOfOwnFrames
<1>2. CASE \E c \in Clients : \E dst \in Dst[c], freq \in Freqs \cup {0} :
             offchannel_send_action(c, dst, freq)
  BY <1>2, SendStep
<1>3. CASE \E freq \in Freqs : wpas_start_listen(freq)
  BY <1>3, ListenStep
<1> QED
  BY <1>1, <1>2, <1>3, DriverStep, CallbackStep, ArrivalStep, DepartureStep,
     StatusStep, DoneStep, StopListenStep DEF Next

(* The invariant of the buffer, whatever the clients send and whatever the *)
(* driver reports (offchannel.c as a whole).                               *)
THEOREM Invariance == Spec => []Inv
<1> QED
  BY InitInv, StepInv, PTL DEF Spec

(***************************************************************************)
(* The buffer, its two channel numbers and the driver's reports have their *)
(* types; in particular at most an arrival and a departure are unread, the *)
(* reports of one operation (offchannel.c:192, driver_nl80211.c).          *)
(***************************************************************************)
THEOREM TypeCorrect == Spec => []TypeOK
<1>1. Inv => TypeOK
  BY DEF Inv
<1> QED
  BY <1>1, Invariance, PTL

(***************************************************************************)
(* A frame in the buffer is never left without a timeout that sends it or  *)
(* an operation that takes the radio to its channel (offchannel.c:82-113   *)
(* and 238-272).                                                           *)
(***************************************************************************)
THEOREM FramesAreWatched == Spec => []FrameWatched
<1>1. ASSUME Inv PROVE FrameWatched
  <2> SUFFICES ASSUME Arrival
               PROVE  roc.phase = "asked" \/ \E i \in DOMAIN events : events[i] = "ready"
    BY <1>1 DEF Inv, FrameWatched, WaitsForSomething, WaitingForRadio, Arrival
  <2>1. CASE roc.phase = "asked"
    BY <2>1
  <2>2. CASE events # <<>> /\ Head(events) = "ready"
    <3>1. events \in Seq({"ready", "cancel"})
      BY <1>1 DEF Inv, TypeOK
    <3>2. 1 \in DOMAIN events /\ events[1] = Head(events)
      BY <2>2, <3>1
    <3> QED
      BY <2>2, <3>2
  <2> QED
    BY <2>1, <2>2 DEF Arrival
<1> QED
  BY <1>1, Invariance, PTL

(***************************************************************************)
(* A client is told the status of its own frames only, for every           *)
(* assignment of peers to clients that shares none (offchannel.c:151).     *)
(***************************************************************************)
THEOREM ClientsToldOfOwnFrames == Spec => []ToldOfOwnFrames
<1>1. Inv => ToldOfOwnFrames
  BY DEF Inv
<1> QED
  BY <1>1, Invariance, PTL
=============================================================================
