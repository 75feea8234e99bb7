-------------------------- MODULE GroupRekeyProofs --------------------------
(***************************************************************************)
(* Proofs about GroupRekey: GKeyDoneStations is exactly the number of      *)
(* stations that owe an answer, and a finished rekeying has reached every  *)
(* connected station that it did not meet in the middle of a handshake.    *)
(*                                                                         *)
(* Neither is inductive.  That the key has arrived when the reply has,     *)
(* depends on what is on the link: a frame that can still be answered      *)
(* carries the current key, frames are heard in the order they were sent,  *)
(* and a station that has the current key never hears an older one.        *)
(***************************************************************************)
EXTENDS GroupRekey, FiniteSetTheorems, SequenceTheorems, TLAPS

\* The number of the newest group key.
cur == used.rekey + 1

Frames == [msg : {"1/4", "3/4", "1/2"}, valid : BOOLEAN, idx : Index, gtk : Nat]

Links == Seq(Frames)
Replies == SUBSET {"2/4", "4/4", "2/2"}
KeyRings == [Index -> Nat]

StationType ==
    [ptk : {"INITIALIZE", "PTKSTART", "PTKINITNEGOTIATING", "PTKINITDONE"},
     grp : {"IDLE", "REKEYNEGOTIATING"}, started : BOOLEAN, assoc : BOOLEAN,
     PTK_valid : BOOLEAN, TimeoutCtr : Nat, GTimeoutCtr : Nat,
     GUpdateStationKeys : BOOLEAN, timers : Nat, down : Links,
     up : Replies, held : KeyRings, raced : BOOLEAN]

GroupType ==
    [state : {"SETKEYS", "SETKEYSDONE"}, GN : Index, GTK : [Index -> Nat],
     GKeyDoneStations : Int, tx : [idx : Index, gtk : Nat]]

\* Message 3/4 or 1/2.
Keyed(m) == m.msg # "1/4"

\* The frames on a link when n is the newest key and has the index gn.
LinkInOrder(down, gn, n) ==
    /\ \A i \in 1 .. Len(down) :
          Keyed(down[i]) => /\ down[i].gtk \in 1 .. n
                            /\ down[i].gtk = n => down[i].idx = gn
    /\ \A i, j \in 1 .. Len(down) :
          i < j /\ Keyed(down[i]) /\ Keyed(down[j]) => down[i].gtk <= down[j].gtk

\* A supplicant that has the newest key does not hear an older one any more.
HeldStays(t, gn, n) ==
    /\ \A k \in Index : t.held[k] <= n
    /\ t.held[gn] = n => \A i \in 1 .. Len(t.down) : Keyed(t.down[i]) => t.down[i].gtk = n

CountersOK(t) ==
    /\ t.TimeoutCtr <= UpdateCount /\ t.GTimeoutCtr <= UpdateCount
    /\ t.grp = "IDLE" => t.GTimeoutCtr = 0

\* What does not depend on the state of WPA_PTK.
LinkOK(t, gn, n) == /\ t \in StationType
                    /\ CountersOK(t)
                    /\ LinkInOrder(t.down, gn, n)
                    /\ HeldStays(t, gn, n)

\* The station has a pairwise key.
Secured(t) == t.ptk \in {"PTKINITNEGOTIATING", "PTKINITDONE"}

\* What can still be answered carries the newest key, and what has been answered
\* has delivered it.
AnswersCurrent(t, gn, n) ==
    /\ \A i \in 1 .. Len(t.down) : Keyed(t.down[i]) /\ t.down[i].valid => t.down[i].gtk = n
    /\ t.up \cap {"4/4", "2/2"} # {} => t.held[gn] = n

\* Nothing that carries a key can be answered or has been.
NothingAsked(t) ==
    /\ \A i \in 1 .. Len(t.down) : Keyed(t.down[i]) => ~t.down[i].valid
    /\ "4/4" \notin t.up /\ "2/2" \notin t.up

StationOK(t, gn, n) ==
    /\ LinkOK(t, gn, n)
    /\ t.PTK_valid <=> Secured(t)
    /\ Secured(t) /\ ~t.raced => AnswersCurrent(t, gn, n)
    /\ t.ptk = "PTKINITDONE" /\ t.grp = "IDLE" => NothingAsked(t)
    /\ t.ptk = "PTKINITDONE" /\ t.assoc /\ ~t.raced => t.GUpdateStationKeys \/ t.held[gn] = n

GroupOK(g, n) == /\ g \in GroupType
                 /\ g.GTK[g.GN] = n
                 /\ \A k \in Index : g.GTK[k] <= n
                 /\ g.state = "SETKEYSDONE" => g.tx = [idx |-> g.GN, gtk |-> n]
                 /\ g.tx.gtk <= n

UsedType == [rekey : Nat, ptk : Nat, assoc : Nat]

Inv == /\ used \in UsedType /\ used.rekey <= MaxRekeys
       /\ GroupOK(group, cur)
       /\ sta \in [Stations -> StationType]
       /\ \A s \in Stations : StationOK(sta[s], group.GN, cur)
       /\ CountExact

-----------------------------------------------------------------------------
Pairs == [t : StationType, g : GroupType]

Owes(t) == IF t.GUpdateStationKeys THEN 1 ELSE 0

\* What every function on a station and the group leaves alone: the keys, and the
\* difference between the counter and what the station owes.
Handles(x, y) ==
    /\ y \in Pairs
    /\ y.g.GN = x.g.GN /\ y.g.GTK = x.g.GTK /\ y.g.state = x.g.state /\ y.g.tx = x.g.tx
    /\ y.g.GKeyDoneStations - Owes(y.t) = x.g.GKeyDoneStations - Owes(x.t)
    /\ y.t.GUpdateStationKeys => x.t.GUpdateStationKeys

LEMMA PairExcept ==
    ASSUME NEW x \in Pairs, NEW u \in StationType, NEW h \in GroupType
    PROVE  /\ [x EXCEPT !.t = u] \in Pairs
           /\ [x EXCEPT !.t = u].t = u /\ [x EXCEPT !.t = u].g = x.g
           /\ [x EXCEPT !.t = u, !.g = h] \in Pairs
           /\ [x EXCEPT !.t = u, !.g = h].t = u
           /\ [x EXCEPT !.t = u, !.g = h].g = h
  BY DEF Pairs

LEMMA GKeyDoneEffect ==
    ASSUME NEW x \in Pairs
    PROVE  /\ Handles(x, GKeyDone(x))
           /\ GKeyDone(x).t = [x.t EXCEPT !.GUpdateStationKeys = FALSE]
  <1> DEFINE u == [x.t EXCEPT !.GUpdateStationKeys = FALSE]
             h == [x.g EXCEPT !.GKeyDoneStations = @ - 1]
  <1>1. x.t \in StationType /\ x.g \in GroupType
    BY DEF Pairs
  <1>2. u \in StationType /\ ~u.GUpdateStationKeys
    BY <1>1 DEF StationType
  <1>3. /\ h \in GroupType /\ h.GN = x.g.GN /\ h.GTK = x.g.GTK
        /\ h.state = x.g.state /\ h.tx = x.g.tx
        /\ h.GKeyDoneStations = x.g.GKeyDoneStations - 1
    BY <1>1 DEF GroupType
  <1> HIDE DEF u, h
  <1>4. CASE x.t.GUpdateStationKeys
    <2>1. GKeyDone(x) = [x EXCEPT !.t = u, !.g = h]
      BY <1>4 DEF GKeyDone, u, h
    <2> DEFINE y == GKeyDone(x)
    <2>2. y \in Pairs /\ y.t = u /\ y.g = h
      BY <1>2, <1>3, <2>1 DEF Pairs
    <2> HIDE DEF y
    <2>3. Owes(y.t) = 0 /\ Owes(x.t) = 1
      BY <1>2, <1>4, <2>2 DEF Owes
    <2>4. x.g.GKeyDoneStations \in Int
      BY <1>1 DEF GroupType
    <2>5. Handles(x, y)
      BY <1>2, <1>3, <2>2, <2>3, <2>4 DEF Handles
    <2> QED BY <2>2, <2>5 DEF u, y
  <1>5. CASE ~x.t.GUpdateStationKeys
    <2>1. GKeyDone(x) = x
      BY <1>5 DEF GKeyDone
    <2>2. u = x.t
      BY <1>1, <1>5 DEF u, StationType
    <2> QED BY <1>1, <2>1, <2>2 DEF Handles, u
  <1> QED BY <1>4, <1>5

LEMMA HandlesTransitive ==
    ASSUME NEW x, NEW y, NEW z, Handles(x, y), Handles(y, z)
    PROVE  Handles(x, z)
  BY DEF Handles

\* A function that only changes the station, and not whether it is waited for.
LEMMA HandlesStation ==
    ASSUME NEW x \in Pairs, NEW u \in StationType,
           u.GUpdateStationKeys = x.t.GUpdateStationKeys
    PROVE  /\ Handles(x, [x EXCEPT !.t = u])
           /\ [x EXCEPT !.t = u].t = u /\ [x EXCEPT !.t = u].g = x.g
  <1>1. /\ [x EXCEPT !.t = u] \in Pairs
        /\ [x EXCEPT !.t = u].t = u /\ [x EXCEPT !.t = u].g = x.g
    BY DEF Pairs
  <1>2. Owes(u) = Owes(x.t)
    BY DEF Owes
  <1> QED BY <1>1, <1>2 DEF Handles

-----------------------------------------------------------------------------
\* The operations on a station.  The state machines and their counters:
SameMachines(u, t) ==
    /\ u.ptk = t.ptk /\ u.grp = t.grp /\ u.PTK_valid = t.PTK_valid
    /\ u.TimeoutCtr = t.TimeoutCtr /\ u.GTimeoutCtr = t.GTimeoutCtr
    /\ u.GUpdateStationKeys = t.GUpdateStationKeys /\ u.raced = t.raced

LEMMA UnlinkEffect ==
    ASSUME NEW t \in StationType
    PROVE  /\ Unlink(t) \in StationType
           /\ SameMachines(Unlink(t), t)
           /\ ~Unlink(t).assoc /\ Unlink(t).down = <<>> /\ Unlink(t).up = {}
           /\ Unlink(t).held = [i \in Index |-> 0]
  <1> DEFINE d == <<>>
             r == {}
             k == [i \in Index |-> 0]
             u == [t EXCEPT !.assoc = FALSE, !.down = d, !.up = r, !.held = k]
  <1>1. d \in Links /\ r \in Replies /\ k \in KeyRings
    BY DEF Links, Replies, KeyRings
  <1>2. Unlink(t) = u
    BY DEF Unlink
  <1> HIDE DEF d, r, k
  <1>3. /\ u \in StationType /\ SameMachines(u, t)
        /\ ~u.assoc /\ u.down = d /\ u.up = r /\ u.held = k
    BY <1>1 DEF StationType, SameMachines
  <1> HIDE DEF u
  <1> QED BY <1>2, <1>3 DEF d, r, k

LEMMA SentEffect ==
    ASSUME NEW t \in StationType, NEW m \in Frames
    PROVE  /\ Sent(t, m) \in StationType
           /\ SameMachines(Sent(t, m), t)
           /\ Sent(t, m).assoc = t.assoc /\ Sent(t, m).up = t.up /\ Sent(t, m).held = t.held
           /\ Sent(t, m).down = Append(t.down, m)
  <1> DEFINE d == Append(t.down, m)
             u == [t EXCEPT !.timers = t.timers + 1, !.down = d]
  <1>1. d \in Links /\ t.timers + 1 \in Nat
    BY DEF StationType, Links
  <1>2. Sent(t, m) = u
    BY DEF Sent
  <1> HIDE DEF d
  <1>3. /\ u \in StationType /\ SameMachines(u, t)
        /\ u.assoc = t.assoc /\ u.up = t.up /\ u.held = t.held /\ u.down = d
    BY <1>1 DEF StationType, SameMachines
  <1> HIDE DEF u
  <1> QED BY <1>2, <1>3 DEF d

LEMMA InvalidateEffect ==
    ASSUME NEW t \in StationType
    PROVE  LET u == Invalidate(t)
           IN  /\ u \in StationType
               /\ SameMachines(u, t)
               /\ u.assoc = t.assoc /\ u.up = {} /\ u.held = t.held
               /\ Len(u.down) = Len(t.down)
               /\ \A i \in 1 .. Len(t.down) :
                     /\ u.down[i].msg = t.down[i].msg /\ ~u.down[i].valid
                     /\ u.down[i].idx = t.down[i].idx /\ u.down[i].gtk = t.down[i].gtk
  <1> DEFINE d == [i \in DOMAIN t.down |-> [t.down[i] EXCEPT !.valid = FALSE]]
             r == {}
             u == [t EXCEPT !.up = r, !.down = d]
  <1>1. t.down \in Seq(Frames)
    BY DEF StationType, Links
  <1>2. \A i \in 1 .. Len(t.down) : t.down[i] \in Frames
    BY <1>1
  <1>3. /\ d \in Seq(Frames) /\ Len(d) = Len(t.down)
        /\ \A i \in 1 .. Len(t.down) : d[i] = [t.down[i] EXCEPT !.valid = FALSE]
    <2>1. DOMAIN t.down = 1 .. Len(t.down) /\ Len(t.down) \in Nat
      BY <1>1
    <2>2. \A i \in 1 .. Len(t.down) : [t.down[i] EXCEPT !.valid = FALSE] \in Frames
      BY <1>2 DEF Frames
    <2> QED BY <2>1, <2>2
  <1>4. \A i \in 1 .. Len(t.down) :
           /\ d[i].msg = t.down[i].msg /\ ~d[i].valid
           /\ d[i].idx = t.down[i].idx /\ d[i].gtk = t.down[i].gtk
    BY <1>2, <1>3 DEF Frames
  <1>5. d \in Links /\ r \in Replies
    BY <1>3 DEF Links, Replies
  <1>6. Invalidate(t) = u
    BY DEF Invalidate
  <1> HIDE DEF d, r
  <1>7. /\ u \in StationType /\ SameMachines(u, t)
        /\ u.assoc = t.assoc /\ u.up = r /\ u.held = t.held /\ u.down = d
    BY <1>5 DEF StationType, SameMachines
  <1> HIDE DEF u
  <1>8. u.up = {}
    BY <1>7 DEF r
  <1> QED BY <1>3, <1>4, <1>6, <1>7, <1>8

-----------------------------------------------------------------------------
\* The frame at the end of the link carries the newest key.
LEMMA SentKeepsLink ==
    ASSUME NEW gn \in Index, NEW n \in Nat \ {0}, NEW t, LinkOK(t, gn, n),
           NEW m \in Frames, Keyed(m) => m.gtk = n /\ m.idx = gn
    PROVE  /\ LinkOK(Sent(t, m), gn, n)
           /\ AnswersCurrent(t, gn, n) => AnswersCurrent(Sent(t, m), gn, n)
  <1> DEFINE u == Sent(t, m)
             d == t.down
             e == u.down
  <1>0. t \in StationType
    BY DEF LinkOK
  <1>1. d \in Seq(Frames) /\ CountersOK(t)
    BY <1>0 DEF LinkOK, StationType, Links
  <1>2. /\ u \in StationType /\ SameMachines(u, t)
        /\ u.up = t.up /\ u.held = t.held /\ e = Append(d, m)
    BY <1>0, SentEffect, Zenon
  <1>3. CountersOK(u)
    BY <1>1, <1>2 DEF CountersOK, SameMachines
  <1>4. /\ Len(d) \in Nat /\ Len(e) = Len(d) + 1 /\ e[Len(d) + 1] = m
        /\ \A i \in 1 .. Len(d) : e[i] = d[i]
    BY <1>1, <1>2
  <1>5. \A i \in 1 .. Len(e) : (i = Len(d) + 1 /\ e[i] = m) \/ (i \in 1 .. Len(d) /\ e[i] = d[i])
    BY <1>4
  <1>6. /\ \A i \in 1 .. Len(d) :
              Keyed(d[i]) => d[i].gtk \in 1 .. n /\ (d[i].gtk = n => d[i].idx = gn)
        /\ \A i, j \in 1 .. Len(d) :
              i < j /\ Keyed(d[i]) /\ Keyed(d[j]) => d[i].gtk <= d[j].gtk
    BY DEF LinkOK, LinkInOrder
  <1> HIDE DEF u, d, e
  <1>7. LinkInOrder(e, gn, n)
    <2>1. \A i \in 1 .. Len(e) :
             Keyed(e[i]) => e[i].gtk \in 1 .. n /\ (e[i].gtk = n => e[i].idx = gn)
      BY <1>5, <1>6
    <2>2. ASSUME NEW i \in 1 .. Len(e), NEW j \in 1 .. Len(e),
                 i < j, Keyed(e[i]), Keyed(e[j])
          PROVE  e[i].gtk <= e[j].gtk
      <3>1. i \in 1 .. Len(d) /\ e[i] = d[i] /\ d[i].gtk \in 1 .. n
        BY <1>4, <1>5, <1>6, <2>2
      <3>2. CASE j \in 1 .. Len(d)
        BY <1>4, <1>6, <2>2, <3>1, <3>2
      <3>3. CASE j = Len(d) + 1
        BY <1>4, <2>2, <3>1, <3>3
      <3> QED BY <1>5, <3>2, <3>3
    <2> QED BY <2>1, <2>2 DEF LinkInOrder
  <1>8. HeldStays(u, gn, n)
    <2>1. \A k \in Index : u.held[k] <= n
      BY <1>2 DEF LinkOK, HeldStays
    <2>2. u.held[gn] = n => \A i \in 1 .. Len(d) : Keyed(d[i]) => d[i].gtk = n
      BY <1>2 DEF LinkOK, HeldStays, d
    <2>3. u.held[gn] = n => \A i \in 1 .. Len(e) : Keyed(e[i]) => e[i].gtk = n
      BY <1>5, <2>2
    <2> QED BY <2>1, <2>3 DEF HeldStays, e
  <1>9. ASSUME AnswersCurrent(t, gn, n) PROVE AnswersCurrent(u, gn, n)
    <2>1. \A i \in 1 .. Len(d) : Keyed(d[i]) /\ d[i].valid => d[i].gtk = n
      BY <1>9 DEF AnswersCurrent, d
    <2>2. \A i \in 1 .. Len(e) : Keyed(e[i]) /\ e[i].valid => e[i].gtk = n
      BY <1>5, <2>1
    <2>3. u.up \cap {"4/4", "2/2"} # {} => u.held[gn] = n
      BY <1>2, <1>9 DEF AnswersCurrent
    <2> QED BY <2>2, <2>3 DEF AnswersCurrent, e
  <1> QED BY <1>2, <1>3, <1>7, <1>8, <1>9 DEF LinkOK, u, e

LEMMA EmptyLink ==
    ASSUME NEW gn \in Index, NEW n \in Nat \ {0}, NEW t \in StationType, CountersOK(t),
           t.down = <<>>, t.held = [i \in Index |-> 0]
    PROVE  LinkOK(t, gn, n)
  <1>1. Len(t.down) = 0 /\ \A k \in Index : t.held[k] = 0
    OBVIOUS
  <1>2. 1 .. Len(t.down) = {}
    BY <1>1
  <1>3. LinkInOrder(t.down, gn, n)
    BY <1>2 DEF LinkInOrder
  <1>4. HeldStays(t, gn, n)
    BY <1>1, <1>2 DEF HeldStays
  <1> QED BY <1>3, <1>4 DEF LinkOK

\* INITIALIZE ends whatever is going on, without a word about WPA_PTK_GROUP.
LEMMA InitializeEffect ==
    ASSUME NEW x \in Pairs
    PROVE  /\ Handles(x, INITIALIZE(x))
           /\ LET u == INITIALIZE(x).t
              IN  /\ u.ptk = "INITIALIZE" /\ ~u.PTK_valid /\ u.TimeoutCtr = 0
                  /\ u.grp = x.t.grp /\ u.GTimeoutCtr = x.t.GTimeoutCtr
                  /\ u.down = x.t.down /\ u.up = x.t.up /\ u.held = x.t.held
                  /\ ~u.GUpdateStationKeys
  <1> DEFINE v == [x.t EXCEPT !.ptk = "INITIALIZE", !.PTK_valid = FALSE, !.TimeoutCtr = 0]
             y == [x EXCEPT !.t = v]
             u == [v EXCEPT !.GUpdateStationKeys = FALSE]
  <1>1. x.t \in StationType
    BY DEF Pairs
  <1>2. /\ v \in StationType /\ v.GUpdateStationKeys = x.t.GUpdateStationKeys
        /\ v.ptk = "INITIALIZE" /\ ~v.PTK_valid /\ v.TimeoutCtr = 0
        /\ v.grp = x.t.grp /\ v.GTimeoutCtr = x.t.GTimeoutCtr
        /\ v.down = x.t.down /\ v.up = x.t.up /\ v.held = x.t.held
    BY <1>1 DEF StationType
  <1> HIDE DEF v
  <1>3. Handles(x, y) /\ y.t = v
    BY <1>2, HandlesStation
  <1>4. y \in Pairs
    BY <1>3 DEF Handles
  <1> HIDE DEF y
  <1>5. Handles(y, GKeyDone(y)) /\ GKeyDone(y).t = u
    BY <1>3, <1>4, GKeyDoneEffect
  <1>6. INITIALIZE(x) = GKeyDone(y)
    BY DEF INITIALIZE, y, v
  <1>7. /\ u.ptk = v.ptk /\ u.PTK_valid = v.PTK_valid /\ u.TimeoutCtr = v.TimeoutCtr
        /\ u.grp = v.grp /\ u.GTimeoutCtr = v.GTimeoutCtr
        /\ u.down = v.down /\ u.up = v.up /\ u.held = v.held
        /\ ~u.GUpdateStationKeys
    BY <1>2 DEF StationType
  <1> HIDE DEF u
  <1> QED BY <1>2, <1>3, <1>5, <1>6, <1>7, HandlesTransitive

LEMMA InitializedStation ==
    ASSUME NEW gn \in Index, NEW n \in Nat \ {0}, NEW t,
           LinkOK(t, gn, n), t.ptk = "INITIALIZE", ~t.PTK_valid
    PROVE  StationOK(t, gn, n)
  BY DEF StationOK, Secured

\* DISCONNECT leaves a station that nothing is expected of.
LEMMA DisconnectEffect ==
    ASSUME NEW gn \in Index, NEW n \in Nat \ {0}, NEW x \in Pairs,
           x.t.GTimeoutCtr <= UpdateCount, x.t.grp = "IDLE" => x.t.GTimeoutCtr = 0
    PROVE  Handles(x, DISCONNECT(x)) /\ StationOK(DISCONNECT(x).t, gn, n)
  <1> DEFINE v == Unlink(x.t)
             y == [x EXCEPT !.t = v]
             u == INITIALIZE(y).t
  <1>1. x.t \in StationType
    BY DEF Pairs
  <1>2. /\ v \in StationType /\ SameMachines(v, x.t)
        /\ v.down = <<>> /\ v.held = [i \in Index |-> 0]
    BY <1>1, UnlinkEffect, Zenon
  <1>3. v.GUpdateStationKeys = x.t.GUpdateStationKeys
    BY <1>2 DEF SameMachines
  <1> HIDE DEF v
  <1>4. Handles(x, y) /\ y.t = v
    BY <1>2, <1>3, HandlesStation
  <1>5. y \in Pairs
    BY <1>4 DEF Handles
  <1> HIDE DEF y
  <1>6. /\ Handles(y, INITIALIZE(y))
        /\ u.ptk = "INITIALIZE" /\ ~u.PTK_valid /\ u.TimeoutCtr = 0
        /\ u.grp = y.t.grp /\ u.GTimeoutCtr = y.t.GTimeoutCtr
        /\ u.down = y.t.down /\ u.held = y.t.held
    BY <1>5, InitializeEffect, Zenon
  <1>7. u \in StationType
    BY <1>6 DEF Handles, Pairs
  <1> HIDE DEF u
  <1>8. CountersOK(u)
    BY <1>2, <1>4, <1>6, RekeyBounds DEF CountersOK, SameMachines
  <1>9. LinkOK(u, gn, n)
    BY <1>2, <1>4, <1>6, <1>7, <1>8, EmptyLink
  <1>10. StationOK(u, gn, n)
    BY <1>6, <1>9, InitializedStation
  <1>11. DISCONNECT(x) = INITIALIZE(y)
    BY DEF DISCONNECT, y, v
  <1> QED BY <1>4, <1>6, <1>10, <1>11, HandlesTransitive DEF u

LEMMA KeyErrorEffect ==
    ASSUME NEW gn \in Index, NEW n \in Nat \ {0}, NEW x \in Pairs
    PROVE  Handles(x, KEYERROR(x)) /\ StationOK(KEYERROR(x).t, gn, n)
  <1> DEFINE v == IDLE(x.t)
             y == [x EXCEPT !.t = v]
             z == GKeyDone(y)
  <1>1. /\ v \in StationType /\ v.GUpdateStationKeys = x.t.GUpdateStationKeys
        /\ v.grp = "IDLE" /\ v.GTimeoutCtr = 0
    BY DEF IDLE, Pairs, StationType
  <1> HIDE DEF v
  <1>2. Handles(x, y) /\ y.t = v
    BY <1>1, HandlesStation
  <1>3. y \in Pairs
    BY <1>2 DEF Handles
  <1> HIDE DEF y
  <1>4. Handles(y, z) /\ z.t = [y.t EXCEPT !.GUpdateStationKeys = FALSE]
    BY <1>3, GKeyDoneEffect
  <1>5. z \in Pairs
    BY <1>4 DEF Handles
  <1> HIDE DEF z
  <1>6. z.t.grp = "IDLE" /\ z.t.GTimeoutCtr = 0
    BY <1>1, <1>2, <1>4 DEF StationType
  <1>7. Handles(z, DISCONNECT(z)) /\ StationOK(DISCONNECT(z).t, gn, n)
    BY <1>5, <1>6, RekeyBounds, DisconnectEffect
  <1>8. KEYERROR(x) = DISCONNECT(z)
    BY DEF KEYERROR, z, y, v
  <1>9. Handles(x, z)
    BY <1>2, <1>4, HandlesTransitive
  <1> QED BY <1>7, <1>8, <1>9, HandlesTransitive

\* The state machines may move while the link stays as it is.
LEMMA LinkCarries ==
    ASSUME NEW gn, NEW n, NEW t, LinkOK(t, gn, n),
           NEW u \in StationType, CountersOK(u), u.down = t.down, u.held = t.held
    PROVE  /\ LinkOK(u, gn, n)
           /\ AnswersCurrent(t, gn, n) /\ u.up = t.up => AnswersCurrent(u, gn, n)
           /\ NothingAsked(t) /\ u.up = t.up => NothingAsked(u)
  BY DEF LinkOK, LinkInOrder, HeldStays, AnswersCurrent, NothingAsked

LEMMA SendEffect ==
    ASSUME NEW n \in Nat \ {0}, NEW x \in Pairs, NEW msg \in {"1/4", "3/4", "1/2"},
           x.g.GTK[x.g.GN] = n, LinkOK(x.t, x.g.GN, n)
    PROVE  LET u == wpa_send_eapol(x, msg).t
           IN  /\ Handles(x, wpa_send_eapol(x, msg))
               /\ LinkOK(u, x.g.GN, n) /\ SameMachines(u, x.t)
               /\ u.assoc = x.t.assoc /\ u.held = x.t.held
               /\ AnswersCurrent(x.t, x.g.GN, n) => AnswersCurrent(u, x.g.GN, n)
  <1> DEFINE m == [msg |-> msg, valid |-> TRUE, idx |-> x.g.GN,
                   gtk |-> IF msg = "1/4" THEN 0 ELSE x.g.GTK[x.g.GN]]
             u == Sent(x.t, m)
  <1>1. x.t \in StationType /\ x.g.GN \in Index
    BY DEF Pairs, GroupType
  <1>2. m \in Frames /\ (Keyed(m) => m.gtk = n /\ m.idx = x.g.GN)
    BY <1>1 DEF Frames, Keyed
  <1> HIDE DEF m
  <1>3. /\ u \in StationType /\ SameMachines(u, x.t)
        /\ u.assoc = x.t.assoc /\ u.held = x.t.held
    BY <1>1, <1>2, SentEffect, Zenon
  <1>4. /\ LinkOK(u, x.g.GN, n)
        /\ AnswersCurrent(x.t, x.g.GN, n) => AnswersCurrent(u, x.g.GN, n)
    BY <1>1, <1>2, SentKeepsLink
  <1>5. u.GUpdateStationKeys = x.t.GUpdateStationKeys
    BY <1>3 DEF SameMachines
  <1>6. wpa_send_eapol(x, msg) = [x EXCEPT !.t = u]
    BY DEF wpa_send_eapol, m
  <1> HIDE DEF u
  <1>7. Handles(x, [x EXCEPT !.t = u]) /\ [x EXCEPT !.t = u].t = u
    BY <1>3, <1>5, HandlesStation
  <1> QED BY <1>3, <1>4, <1>6, <1>7

LEMMA AttemptEffect ==
    ASSUME NEW t \in StationType, NEW state \in {"PTKSTART", "PTKINITNEGOTIATING"}
    PROVE  LET v == Attempt(t, state)
           IN  /\ v \in StationType /\ v.GUpdateStationKeys = t.GUpdateStationKeys
               /\ v.ptk = state /\ v.TimeoutCtr = t.TimeoutCtr + 1
               /\ v.PTK_valid = t.PTK_valid /\ v.raced = t.raced
               /\ v.grp = t.grp /\ v.GTimeoutCtr = t.GTimeoutCtr
               /\ v.down = t.down /\ v.up = t.up /\ v.held = t.held
  <1> DEFINE c == t.TimeoutCtr + 1
             v == [t EXCEPT !.ptk = state, !.TimeoutCtr = c]
  <1>1. c \in Nat
    BY DEF StationType
  <1>2. Attempt(t, state) = v
    BY DEF Attempt
  <1> HIDE DEF c
  <1>3. /\ v \in StationType /\ v.GUpdateStationKeys = t.GUpdateStationKeys
        /\ v.ptk = state /\ v.TimeoutCtr = c
        /\ v.PTK_valid = t.PTK_valid /\ v.raced = t.raced
        /\ v.grp = t.grp /\ v.GTimeoutCtr = t.GTimeoutCtr
        /\ v.down = t.down /\ v.up = t.up /\ v.held = t.held
    BY <1>1 DEF StationType
  <1> HIDE DEF v
  <1> QED BY <1>2, <1>3 DEF c

\* PTKSTART is entered without a valid pairwise key.
LEMMA PtkStartEffect ==
    ASSUME NEW n \in Nat \ {0}, NEW x \in Pairs,
           x.g.GTK[x.g.GN] = n, LinkOK(x.t, x.g.GN, n), ~x.t.PTK_valid
    PROVE  Handles(x, PTKSTART(x)) /\ StationOK(PTKSTART(x).t, x.g.GN, n)
  <1> DEFINE w == Attempt(x.t, "PTKSTART")
             v == [w EXCEPT !.raced = FALSE]
             y == [x EXCEPT !.t = v]
             u == wpa_send_eapol(y, "1/4").t
  <1>1. x.t \in StationType /\ CountersOK(x.t) /\ x.g.GN \in Index
    BY DEF Pairs, LinkOK, GroupType
  <1>2. /\ v \in StationType /\ v.GUpdateStationKeys = x.t.GUpdateStationKeys
        /\ v.ptk = "PTKSTART" /\ v.TimeoutCtr = x.t.TimeoutCtr + 1
        /\ v.PTK_valid = x.t.PTK_valid
        /\ v.grp = x.t.grp /\ v.GTimeoutCtr = x.t.GTimeoutCtr
        /\ v.down = x.t.down /\ v.up = x.t.up /\ v.held = x.t.held
    <2>1. /\ w \in StationType /\ w.GUpdateStationKeys = x.t.GUpdateStationKeys
          /\ w.ptk = "PTKSTART" /\ w.TimeoutCtr = x.t.TimeoutCtr + 1
          /\ w.PTK_valid = x.t.PTK_valid
          /\ w.grp = x.t.grp /\ w.GTimeoutCtr = x.t.GTimeoutCtr
          /\ w.down = x.t.down /\ w.up = x.t.up /\ w.held = x.t.held
      BY <1>1, AttemptEffect
    <2> HIDE DEF w
    <2>2. /\ v \in StationType /\ v.GUpdateStationKeys = w.GUpdateStationKeys
          /\ v.ptk = w.ptk /\ v.TimeoutCtr = w.TimeoutCtr /\ v.PTK_valid = w.PTK_valid
          /\ v.grp = w.grp /\ v.GTimeoutCtr = w.GTimeoutCtr
          /\ v.down = w.down /\ v.up = w.up /\ v.held = w.held
      BY <2>1 DEF StationType
    <2> HIDE DEF v
    <2> QED BY <2>1, <2>2
  <1> HIDE DEF v
  <1>3. Handles(x, y) /\ y.t = v /\ y.g = x.g
    BY <1>2, HandlesStation
  <1>4. y \in Pairs
    BY <1>3 DEF Handles
  <1>5. PTKSTART(x) = IF v.TimeoutCtr > UpdateCount THEN DISCONNECT(y)
                      ELSE wpa_send_eapol(y, "1/4")
    BY <1>3 DEF PTKSTART, v, w, y
  <1> HIDE DEF y
  <1>6. CASE v.TimeoutCtr > UpdateCount
    <2>1. y.t.GTimeoutCtr <= UpdateCount /\ (y.t.grp = "IDLE" => y.t.GTimeoutCtr = 0)
      BY <1>1, <1>2, <1>3 DEF CountersOK
    <2>2. Handles(y, DISCONNECT(y)) /\ StationOK(DISCONNECT(y).t, x.g.GN, n)
      BY <1>1, <1>4, <2>1, DisconnectEffect
    <2> QED BY <1>3, <1>5, <1>6, <2>2, HandlesTransitive
  <1>7. CASE ~(v.TimeoutCtr > UpdateCount)
    <2>1. CountersOK(v)
      BY <1>1, <1>2, <1>7, RekeyBounds DEF CountersOK, StationType
    <2>2. LinkOK(y.t, y.g.GN, n)
      BY <1>2, <1>3, <2>1, LinkCarries
    <2>3. Handles(y, wpa_send_eapol(y, "1/4")) /\ LinkOK(u, y.g.GN, n) /\ SameMachines(u, y.t)
      BY <1>3, <1>4, <2>2, SendEffect
    <2>4. StationOK(u, x.g.GN, n)
      BY <1>2, <1>3, <2>3 DEF StationOK, Secured, SameMachines
    <2> QED BY <1>3, <1>5, <1>7, <2>3, <2>4, HandlesTransitive
  <1> QED BY <1>6, <1>7

\* PTKINITNEGOTIATING is entered with a valid pairwise key.
LEMMA NegotiatingEffect ==
    ASSUME NEW n \in Nat \ {0}, NEW x \in Pairs,
           x.g.GTK[x.g.GN] = n, LinkOK(x.t, x.g.GN, n), x.t.PTK_valid,
           ~x.t.raced => AnswersCurrent(x.t, x.g.GN, n)
    PROVE  Handles(x, PTKINITNEGOTIATING(x)) /\ StationOK(PTKINITNEGOTIATING(x).t, x.g.GN, n)
  <1> DEFINE v == Attempt(x.t, "PTKINITNEGOTIATING")
             y == [x EXCEPT !.t = v]
             u == wpa_send_eapol(y, "3/4").t
  <1>1. x.t \in StationType /\ CountersOK(x.t) /\ x.g.GN \in Index
    BY DEF Pairs, LinkOK, GroupType
  <1>2. /\ v \in StationType /\ v.GUpdateStationKeys = x.t.GUpdateStationKeys
        /\ v.ptk = "PTKINITNEGOTIATING" /\ v.TimeoutCtr = x.t.TimeoutCtr + 1
        /\ v.PTK_valid = x.t.PTK_valid /\ v.raced = x.t.raced
        /\ v.grp = x.t.grp /\ v.GTimeoutCtr = x.t.GTimeoutCtr
        /\ v.down = x.t.down /\ v.up = x.t.up /\ v.held = x.t.held
    BY <1>1, AttemptEffect
  <1> HIDE DEF v
  <1>3. Handles(x, y) /\ y.t = v /\ y.g = x.g
    BY <1>2, HandlesStation
  <1>4. y \in Pairs
    BY <1>3 DEF Handles
  <1>5. PTKINITNEGOTIATING(x) = IF v.TimeoutCtr > UpdateCount THEN DISCONNECT(y)
                                ELSE wpa_send_eapol(y, "3/4")
    BY <1>3 DEF PTKINITNEGOTIATING, v, y
  <1> HIDE DEF y
  <1>6. CASE v.TimeoutCtr > UpdateCount
    <2>1. y.t.GTimeoutCtr <= UpdateCount /\ (y.t.grp = "IDLE" => y.t.GTimeoutCtr = 0)
      BY <1>1, <1>2, <1>3 DEF CountersOK
    <2>2. Handles(y, DISCONNECT(y)) /\ StationOK(DISCONNECT(y).t, x.g.GN, n)
      BY <1>1, <1>4, <2>1, DisconnectEffect
    <2> QED BY <1>3, <1>5, <1>6, <2>2, HandlesTransitive
  <1>7. CASE ~(v.TimeoutCtr > UpdateCount)
    <2>1. CountersOK(v)
      BY <1>1, <1>2, <1>7, RekeyBounds DEF CountersOK, StationType
    <2>2. LinkOK(y.t, y.g.GN, n) /\ (~v.raced => AnswersCurrent(y.t, y.g.GN, n))
      BY <1>2, <1>3, <2>1, LinkCarries
    <2>3. /\ Handles(y, wpa_send_eapol(y, "3/4")) /\ LinkOK(u, y.g.GN, n)
          /\ SameMachines(u, y.t)
          /\ AnswersCurrent(y.t, y.g.GN, n) => AnswersCurrent(u, y.g.GN, n)
      BY <1>3, <1>4, <2>2, SendEffect
    <2>4. StationOK(u, x.g.GN, n)
      BY <1>2, <1>3, <2>2, <2>3 DEF StationOK, Secured, SameMachines
    <2> QED BY <1>3, <1>5, <1>7, <2>3, <2>4, HandlesTransitive
  <1> QED BY <1>6, <1>7

\* REKEYNEGOTIATING asks, gives up, or, without a pairwise key, only counts.
LEMMA RekeyNegotiatingEffect ==
    ASSUME NEW n \in Nat \ {0}, NEW x \in Pairs,
           x.g.GTK[x.g.GN] = n, StationOK(x.t, x.g.GN, n)
    PROVE  LET y == REKEYNEGOTIATING(x)
           IN  /\ Handles(x, y) /\ StationOK(y.t, x.g.GN, n)
               /\ x.t.GTimeoutCtr < UpdateCount
                     => y.t.GUpdateStationKeys = x.t.GUpdateStationKeys
  <1> DEFINE c == x.t.GTimeoutCtr + 1
             v == [x.t EXCEPT !.grp = "REKEYNEGOTIATING", !.GTimeoutCtr = c]
             y == [x EXCEPT !.t = v]
             u == wpa_send_eapol(y, "1/2").t
             w == [v EXCEPT !.timers = v.timers + 1]
             z == [y EXCEPT !.t = w]
  <1>1. x.t \in StationType /\ CountersOK(x.t) /\ x.g.GN \in Index /\ LinkOK(x.t, x.g.GN, n)
    BY DEF Pairs, StationOK, LinkOK, GroupType
  <1>2. c \in Nat
    BY <1>1 DEF StationType
  <1>3. REKEYNEGOTIATING(x) = IF y.t.GTimeoutCtr > UpdateCount THEN KEYERROR(y)
                              ELSE IF y.t.PTK_valid THEN wpa_send_eapol(y, "1/2")
                              ELSE [y EXCEPT !.t = [y.t EXCEPT !.timers = y.t.timers + 1]]
    BY DEF REKEYNEGOTIATING
  <1> HIDE DEF c
  <1>4. /\ v \in StationType /\ v.GUpdateStationKeys = x.t.GUpdateStationKeys
        /\ v.ptk = x.t.ptk /\ v.TimeoutCtr = x.t.TimeoutCtr
        /\ v.PTK_valid = x.t.PTK_valid /\ v.raced = x.t.raced
        /\ v.grp = "REKEYNEGOTIATING" /\ v.GTimeoutCtr = c /\ v.assoc = x.t.assoc
        /\ v.down = x.t.down /\ v.up = x.t.up /\ v.held = x.t.held
    BY <1>1, <1>2 DEF StationType
  <1> HIDE DEF v
  <1>5. Handles(x, y) /\ y.t = v /\ y.g = x.g
    BY <1>4, HandlesStation
  <1>6. y \in Pairs
    BY <1>5 DEF Handles
  <1> HIDE DEF y
  <1>7. CASE c > UpdateCount
    <2>1. Handles(y, KEYERROR(y)) /\ StationOK(KEYERROR(y).t, x.g.GN, n)
      BY <1>1, <1>6, KeyErrorEffect
    <2>2. REKEYNEGOTIATING(x) = KEYERROR(y)
      BY <1>3, <1>4, <1>5, <1>7
    <2>3. ~(x.t.GTimeoutCtr < UpdateCount)
      BY <1>1, <1>7, RekeyBounds DEF StationType, c
    <2> QED BY <1>5, <2>1, <2>2, <2>3, HandlesTransitive
  <1>8. CASE ~(c > UpdateCount)
    <2>1. CountersOK(v)
      BY <1>1, <1>2, <1>4, <1>8, RekeyBounds DEF CountersOK
    <2>2. /\ LinkOK(y.t, y.g.GN, n)
          /\ AnswersCurrent(x.t, y.g.GN, n) => AnswersCurrent(y.t, y.g.GN, n)
      BY <1>1, <1>4, <1>5, <2>1, LinkCarries
    <2>3. CASE v.PTK_valid
      <3>1. /\ Handles(y, wpa_send_eapol(y, "1/2")) /\ LinkOK(u, y.g.GN, n)
            /\ SameMachines(u, y.t) /\ u.assoc = y.t.assoc /\ u.held = y.t.held
            /\ AnswersCurrent(y.t, y.g.GN, n) => AnswersCurrent(u, y.g.GN, n)
        BY <1>5, <1>6, <2>2, SendEffect
      <3>2. StationOK(u, x.g.GN, n) /\ u.GUpdateStationKeys = x.t.GUpdateStationKeys
        BY <1>4, <1>5, <2>2, <3>1 DEF StationOK, Secured, SameMachines
      <3>3. REKEYNEGOTIATING(x) = wpa_send_eapol(y, "1/2")
        BY <1>3, <1>4, <1>5, <1>8, <2>3
      <3> QED BY <1>5, <3>1, <3>2, <3>3, HandlesTransitive
    <2>4. CASE ~v.PTK_valid
      <3>1. v.timers + 1 \in Nat
        BY <1>4 DEF StationType
      <3>2. /\ w \in StationType /\ w.GUpdateStationKeys = v.GUpdateStationKeys
            /\ SameMachines(w, v) /\ w.down = v.down /\ w.held = v.held
        BY <1>4, <3>1 DEF StationType, SameMachines
      <3>3. REKEYNEGOTIATING(x) = z
        BY <1>3, <1>4, <1>5, <1>8, <2>4
      <3> HIDE DEF w
      <3>4. Handles(y, z) /\ z.t = w
        BY <1>5, <1>6, <3>2, HandlesStation
      <3>5. LinkOK(w, x.g.GN, n)
        <4>1. CountersOK(w)
          BY <2>1, <3>2 DEF CountersOK, SameMachines
        <4> QED BY <1>5, <2>2, <3>2, <4>1, LinkCarries
      <3>6. StationOK(w, x.g.GN, n)
        BY <1>4, <2>4, <3>2, <3>5 DEF StationOK, Secured, SameMachines
      <3> QED BY <1>4, <1>5, <3>2, <3>3, <3>4, <3>6, HandlesTransitive
    <2> QED BY <2>3, <2>4
  <1> QED BY <1>7, <1>8

LEMMA InvalidatedLink ==
    ASSUME NEW gn \in Index, NEW n \in Nat \ {0}, NEW t, LinkOK(t, gn, n)
    PROVE  /\ LinkOK(Invalidate(t), gn, n)
           /\ AnswersCurrent(Invalidate(t), gn, n)
           /\ NothingAsked(Invalidate(t))
  <1> DEFINE u == Invalidate(t)
  <1>1. t \in StationType
    BY DEF LinkOK
  <1>2. /\ u \in StationType /\ SameMachines(u, t) /\ u.up = {} /\ u.held = t.held
        /\ Len(u.down) = Len(t.down)
        /\ \A i \in 1 .. Len(t.down) :
              /\ u.down[i].msg = t.down[i].msg /\ ~u.down[i].valid
              /\ u.down[i].idx = t.down[i].idx /\ u.down[i].gtk = t.down[i].gtk
    BY <1>1, InvalidateEffect
  <1> HIDE DEF u
  <1>3. CountersOK(u)
    BY <1>2 DEF LinkOK, CountersOK, SameMachines
  <1>4. LinkInOrder(u.down, gn, n)
    BY <1>2 DEF LinkOK, LinkInOrder, Keyed
  <1>5. HeldStays(u, gn, n)
    BY <1>2 DEF LinkOK, HeldStays, Keyed
  <1>6. AnswersCurrent(u, gn, n) /\ NothingAsked(u)
    BY <1>2 DEF AnswersCurrent, NothingAsked
  <1> QED BY <1>2, <1>3, <1>4, <1>5, <1>6 DEF LinkOK, u

-----------------------------------------------------------------------------
LEMMA GroupStepEffect ==
    ASSUME NEW n \in Nat \ {0}, NEW g, GroupOK(g, n)
    PROVE  LET h == wpa_group_sm_step(g)
           IN  /\ GroupOK(h, n) /\ h.GN = g.GN /\ h.GKeyDoneStations = g.GKeyDoneStations
               /\ h.state = "SETKEYSDONE" => g.state = "SETKEYSDONE" \/ g.GKeyDoneStations = 0
               /\ h.GTK = g.GTK
  <1> DEFINE k == [idx |-> g.GN, gtk |-> g.GTK[g.GN]]
             h == [g EXCEPT !.state = "SETKEYSDONE", !.tx = k]
             K == [idx : Index, gtk : Nat]
             T == [Index -> Nat]
  <1>1. g \in [state : {"SETKEYS", "SETKEYSDONE"}, GN : Index, GTK : T,
              GKeyDoneStations : Int, tx : K]
    BY DEF GroupOK, GroupType
  <1>2. CASE g.state = "SETKEYS" /\ g.GKeyDoneStations = 0
    <2>1. k \in K /\ k.gtk = n
      BY <1>1 DEF GroupOK
    <2> HIDE DEF k, K, T
    <2>2. /\ h \in [state : {"SETKEYS", "SETKEYSDONE"}, GN : Index, GTK : T,
                   GKeyDoneStations : Int, tx : K]
          /\ h.GN = g.GN /\ h.GTK = g.GTK
          /\ h.GKeyDoneStations = g.GKeyDoneStations
          /\ h.state = "SETKEYSDONE" /\ h.tx = k
      BY <1>1, <2>1
    <2>3. h \in GroupType
      BY <2>2 DEF GroupType, K, T
    <2>4. wpa_group_sm_step(g) = h
      BY <1>2 DEF wpa_group_sm_step, k
    <2> HIDE DEF h
    <2>5. g.GTK[g.GN] = n
      BY DEF GroupOK
    <2>6. h.tx = [idx |-> h.GN, gtk |-> n] /\ h.tx.gtk <= n
      BY <2>1, <2>2, <2>5 DEF k
    <2>7. GroupOK(h, n)
      BY <2>2, <2>3, <2>6 DEF GroupOK
    <2> QED BY <1>2, <2>2, <2>4, <2>7
  <1>3. CASE ~(g.state = "SETKEYS" /\ g.GKeyDoneStations = 0)
    BY <1>3 DEF wpa_group_sm_step
  <1> QED BY <1>2, <1>3

LEMMA InvTypes ==
    ASSUME Inv
    PROVE  cur \in Nat \ {0} /\ group \in GroupType /\ group.GN \in Index
           /\ group.GTK[group.GN] = cur
  BY DEF Inv, UsedType, cur, GroupOK, GroupType

LEMMA OfPair ==
    ASSUME Inv, NEW t \in StationType
    PROVE  Of(t) \in Pairs /\ Of(t).t = t /\ Of(t).g = group
  BY InvTypes DEF Of, Pairs

\* What a handler of station s leaves behind, with or without a step of the
\* group after it.
LEMMA CountKeepsInv ==
    ASSUME Inv, NEW s \in Stations, NEW y, Handles(Of(sta[s]), y),
           StationOK(y.t, group.GN, cur), sta' = [sta EXCEPT ![s] = y.t],
           GroupOK(group', cur), group'.GN = group.GN,
           group'.GKeyDoneStations = y.g.GKeyDoneStations,
           group'.state = "SETKEYSDONE"
               => group.state = "SETKEYSDONE" \/ group'.GKeyDoneStations = 0,
           used' \in UsedType, used'.rekey = used.rekey
    PROVE  Inv'
  <1> DEFINE D == {r \in Stations : sta[r].GUpdateStationKeys}
             E == {r \in Stations : sta'[r].GUpdateStationKeys}
  <1>1. cur' = cur
    BY DEF cur
  <1>2. sta[s] \in StationType /\ Of(sta[s]).t = sta[s] /\ Of(sta[s]).g = group
    BY OfPair DEF Inv
  <1>3. /\ y.t \in StationType /\ y.g.GKeyDoneStations \in Int
        /\ y.g.GKeyDoneStations - Owes(y.t) = group.GKeyDoneStations - Owes(sta[s])
        /\ y.t.GUpdateStationKeys => sta[s].GUpdateStationKeys
    BY <1>2 DEF Handles, Pairs, GroupType
  <1>4. /\ sta' \in [Stations -> StationType]
        /\ sta'[s] = y.t /\ \A r \in Stations \ {s} : sta'[r] = sta[r]
    BY <1>3 DEF Inv
  <1>5. \A r \in Stations : StationOK(sta'[r], group.GN, cur)
    BY <1>4 DEF Inv
  <1>6. /\ IsFiniteSet(D) /\ Cardinality(D) \in Nat /\ Cardinality(D) = group.GKeyDoneStations
        /\ group.state = "SETKEYSDONE" => group.GKeyDoneStations = 0
    BY RekeyBounds, FS_Subset, FS_CardinalityType DEF Inv, CountExact
  <1>7. /\ y.g.GKeyDoneStations = Cardinality(E)
        /\ group.GKeyDoneStations = 0 => y.g.GKeyDoneStations = 0
    <2>1. CASE y.t.GUpdateStationKeys \/ ~sta[s].GUpdateStationKeys
      <3>1. E = D
        BY <1>3, <1>4, <2>1
      <3>2. Owes(y.t) = Owes(sta[s]) /\ Owes(y.t) \in {0, 1}
        BY <1>3, <2>1 DEF Owes
      <3> HIDE DEF D, E
      <3> QED BY <1>3, <1>6, <3>1, <3>2
    <2>2. CASE ~y.t.GUpdateStationKeys /\ sta[s].GUpdateStationKeys
      <3>1. E = D \ {s} /\ s \in D
        BY <1>4, <2>2
      <3>2. Owes(y.t) = 0 /\ Owes(sta[s]) = 1
        BY <2>2 DEF Owes
      <3> HIDE DEF D, E
      <3>3. Cardinality(E) = Cardinality(D) - 1
        BY <1>6, <3>1, FS_RemoveElement
      <3>4. Cardinality(D) # 0
        BY <1>6, <3>1, FS_EmptySet
      <3> QED BY <1>3, <1>6, <3>2, <3>3, <3>4
    <2> QED BY <2>1, <2>2
  <1>8. CountExact'
    BY <1>6, <1>7 DEF CountExact
  <1>9. used' \in UsedType /\ used'.rekey <= MaxRekeys
    BY DEF Inv
  <1> QED BY <1>1, <1>4, <1>5, <1>8, <1>9 DEF Inv

LEMMA SettleKeepsInv ==
    ASSUME Inv, NEW s \in Stations, NEW y, Handles(Of(sta[s]), y),
           StationOK(y.t, group.GN, cur), Settle(s, y),
           used' \in UsedType, used'.rekey = used.rekey
    PROVE  Inv'
  <1> DEFINE h == wpa_group_sm_step(y.g)
  <1>1. Of(sta[s]).g = group
    BY OfPair DEF Inv
  <1>2. /\ y.g \in GroupType /\ y.g.GN = group.GN /\ y.g.GTK = group.GTK
        /\ y.g.state = group.state /\ y.g.tx = group.tx
    BY <1>1 DEF Handles, Pairs
  <1>3. GroupOK(y.g, cur)
    BY <1>2 DEF Inv, GroupOK
  <1>4. /\ GroupOK(h, cur) /\ h.GN = group.GN
        /\ h.GKeyDoneStations = y.g.GKeyDoneStations
        /\ h.state = "SETKEYSDONE" => group.state = "SETKEYSDONE" \/ h.GKeyDoneStations = 0
    BY <1>2, <1>3, InvTypes, GroupStepEffect
  <1>5. group' = h /\ sta' = [sta EXCEPT ![s] = y.t]
    BY DEF Settle
  <1> HIDE DEF h
  <1> QED BY <1>4, <1>5, CountKeepsInv

-----------------------------------------------------------------------------
LEMMA HandlesOf ==
    ASSUME Inv, NEW s \in Stations, NEW u \in StationType,
           u.GUpdateStationKeys = sta[s].GUpdateStationKeys
    PROVE  Handles(Of(sta[s]), Of(u))
  <1>1. sta[s] \in StationType
    BY DEF Inv
  <1>2. /\ Of(sta[s]).t = sta[s] /\ Of(sta[s]).g = group
        /\ Of(u) \in Pairs /\ Of(u).t = u /\ Of(u).g = group
    BY <1>1, OfPair
  <1>3. Owes(u) = Owes(sta[s])
    BY DEF Owes
  <1> QED BY <1>2, <1>3 DEF Handles

LEMMA StationInv ==
    ASSUME Inv, NEW s \in Stations
    PROVE  /\ sta[s] \in StationType /\ StationOK(sta[s], group.GN, cur)
           /\ LinkOK(sta[s], group.GN, cur) /\ CountersOK(sta[s])
  BY DEF Inv, StationOK, LinkOK

LEMMA UsedSame ==
    ASSUME Inv, UNCHANGED used
    PROVE  used' \in UsedType /\ used'.rekey = used.rekey
  BY DEF Inv

\* A handler that runs a state machine after it has changed the station.
LEMMA AssociateKeepsInv ==
    ASSUME Inv, NEW s \in Stations, Associate(s)
    PROVE  Inv'
  <1> DEFINE l == Unlink(sta[s])
             t == [l EXCEPT !.PTK_valid = FALSE, !.TimeoutCtr = 0, !.assoc = TRUE,
                            !.started = TRUE]
             v == IDLE(t)
             z == GKeyDone(Of(v))
             w == [v EXCEPT !.GUpdateStationKeys = FALSE]
  <1>1. used' \in UsedType /\ used'.rekey = used.rekey
    BY DEF Inv, UsedType, Associate
  <1>2. sta[s] \in StationType /\ CountersOK(sta[s])
    BY StationInv
  <1>3. /\ l \in StationType /\ SameMachines(l, sta[s])
        /\ l.down = <<>> /\ l.held = [i \in Index |-> 0]
    BY <1>2, UnlinkEffect, Zenon
  <1>4. Settle(s, PTKSTART(IF sta[s].assoc /\ sta[s].GUpdateStationKeys THEN z ELSE Of(t)))
    BY DEF Associate
  <1> HIDE DEF l
  <1>5. /\ t \in StationType /\ ~t.PTK_valid /\ t.TimeoutCtr = 0
        /\ t.GTimeoutCtr = l.GTimeoutCtr /\ t.grp = l.grp
        /\ t.GUpdateStationKeys = l.GUpdateStationKeys
        /\ t.down = l.down /\ t.held = l.held
    BY <1>3 DEF StationType
  <1> HIDE DEF t
  <1>6. CountersOK(t) /\ t.GUpdateStationKeys = sta[s].GUpdateStationKeys
    BY <1>2, <1>3, <1>5, RekeyBounds DEF CountersOK, SameMachines
  <1>7. LinkOK(t, group.GN, cur)
    BY <1>3, <1>5, <1>6, InvTypes, EmptyLink
  <1>8. CASE sta[s].assoc /\ sta[s].GUpdateStationKeys
    <2>1. /\ v \in StationType /\ ~v.PTK_valid /\ v.TimeoutCtr = 0
          /\ v.grp = "IDLE" /\ v.GTimeoutCtr = 0
          /\ v.GUpdateStationKeys = t.GUpdateStationKeys
          /\ v.down = t.down /\ v.held = t.held
      BY <1>5 DEF StationType, IDLE
    <2> HIDE DEF v
    <2>2. Of(v) \in Pairs /\ Of(v).t = v /\ Handles(Of(sta[s]), Of(v))
      BY <1>6, <2>1, OfPair, HandlesOf
    <2>3. Handles(Of(v), z) /\ z.t = w
      BY <2>2, GKeyDoneEffect
    <2>4. /\ w \in StationType /\ ~w.PTK_valid /\ w.TimeoutCtr = v.TimeoutCtr
          /\ w.grp = v.grp /\ w.GTimeoutCtr = v.GTimeoutCtr
          /\ w.down = v.down /\ w.held = v.held
      BY <2>1 DEF StationType
    <2> HIDE DEF w, z
    <2>5. LinkOK(w, group.GN, cur)
      <3>1. CountersOK(w)
        BY <2>1, <2>4, RekeyBounds DEF CountersOK
      <3> QED BY <1>3, <1>5, <2>1, <2>4, <3>1, InvTypes, EmptyLink
    <2>6. z \in Pairs /\ z.g.GN = group.GN /\ z.g.GTK = group.GTK
      BY <2>1, <2>3, OfPair DEF Handles
    <2>7. Handles(z, PTKSTART(z)) /\ StationOK(PTKSTART(z).t, group.GN, cur)
      BY <2>3, <2>4, <2>5, <2>6, InvTypes, PtkStartEffect
    <2>8. Handles(Of(sta[s]), PTKSTART(z))
      <3>1. Handles(Of(sta[s]), z)
        BY <2>2, <2>3, HandlesTransitive
      <3> QED BY <2>7, <3>1, HandlesTransitive
    <2> QED BY <1>1, <1>4, <1>8, <2>7, <2>8, SettleKeepsInv
  <1>9. CASE ~(sta[s].assoc /\ sta[s].GUpdateStationKeys)
    <2> DEFINE x == Of(t)
    <2>1. x \in Pairs /\ x.t = t /\ x.g = group /\ Handles(Of(sta[s]), x)
      BY <1>5, <1>6, OfPair, HandlesOf
    <2>2. Settle(s, PTKSTART(x))
      BY <1>4, <1>9
    <2> HIDE DEF x
    <2>3. Handles(x, PTKSTART(x)) /\ StationOK(PTKSTART(x).t, group.GN, cur)
      BY <1>5, <1>7, <2>1, InvTypes, PtkStartEffect
    <2>4. Handles(Of(sta[s]), PTKSTART(x))
      BY <2>1, <2>3, HandlesTransitive
    <2> QED BY <1>1, <2>2, <2>3, <2>4, SettleKeepsInv
  <1> QED BY <1>8, <1>9

LEMMA Rx2Of4KeepsInv ==
    ASSUME Inv, NEW s \in Stations, rx_2_of_4(s)
    PROVE  Inv'
  <1> DEFINE l == Invalidate(sta[s])
             t == [l EXCEPT !.timers = 0, !.PTK_valid = TRUE, !.TimeoutCtr = 0]
             x == Of(t)
  <1>1. used' \in UsedType /\ used'.rekey = used.rekey
    BY UsedSame DEF rx_2_of_4
  <1>2. /\ LinkOK(l, group.GN, cur) /\ AnswersCurrent(l, group.GN, cur)
    BY StationInv, InvTypes, InvalidatedLink
  <1>3. l \in StationType /\ SameMachines(l, sta[s])
    BY StationInv, InvalidateEffect
  <1>4. Settle(s, PTKINITNEGOTIATING(x))
    BY DEF rx_2_of_4
  <1> HIDE DEF l
  <1>5. /\ t \in StationType /\ t.PTK_valid /\ t.TimeoutCtr = 0
        /\ t.GTimeoutCtr = l.GTimeoutCtr /\ t.grp = l.grp
        /\ t.GUpdateStationKeys = l.GUpdateStationKeys
        /\ t.down = l.down /\ t.held = l.held /\ t.up = l.up
    BY <1>3 DEF StationType
  <1> HIDE DEF t
  <1>6. CountersOK(t) /\ t.GUpdateStationKeys = sta[s].GUpdateStationKeys
    BY <1>2, <1>3, <1>5, RekeyBounds DEF LinkOK, CountersOK, SameMachines
  <1>7. LinkOK(t, group.GN, cur) /\ AnswersCurrent(t, group.GN, cur)
    BY <1>2, <1>5, <1>6, LinkCarries
  <1>8. x \in Pairs /\ x.t = t /\ x.g = group /\ Handles(Of(sta[s]), x)
    BY <1>5, <1>6, OfPair, HandlesOf
  <1> HIDE DEF x
  <1>9. Handles(x, PTKINITNEGOTIATING(x)) /\ StationOK(PTKINITNEGOTIATING(x).t, group.GN, cur)
    BY <1>5, <1>7, <1>8, InvTypes, NegotiatingEffect
  <1>10. Handles(Of(sta[s]), PTKINITNEGOTIATING(x))
    BY <1>8, <1>9, HandlesTransitive
  <1> QED BY <1>1, <1>4, <1>9, <1>10, SettleKeepsInv

\* Message 4/4 says that the station has the key of message 3/4.
LEMMA Rx4Of4KeepsInv ==
    ASSUME Inv, NEW s \in Stations, rx_4_of_4(s)
    PROVE  Inv'
  <1> DEFINE l == Invalidate(sta[s])
             t == [l EXCEPT !.timers = 0, !.ptk = "PTKINITDONE"]
  <1>1. used' \in UsedType /\ used'.rekey = used.rekey
    BY UsedSame DEF rx_4_of_4
  <1>2. /\ LinkOK(l, group.GN, cur) /\ AnswersCurrent(l, group.GN, cur) /\ NothingAsked(l)
    BY StationInv, InvTypes, InvalidatedLink
  <1>3. l \in StationType /\ SameMachines(l, sta[s]) /\ l.held = sta[s].held
    BY StationInv, InvalidateEffect
  <1>4. Settle(s, Of(t))
    BY DEF rx_4_of_4
  <1> HIDE DEF l
  <1>5. /\ t \in StationType /\ t.ptk = "PTKINITDONE" /\ t.PTK_valid = l.PTK_valid
        /\ t.TimeoutCtr = l.TimeoutCtr /\ t.GTimeoutCtr = l.GTimeoutCtr /\ t.grp = l.grp
        /\ t.GUpdateStationKeys = l.GUpdateStationKeys /\ t.raced = l.raced
        /\ t.down = l.down /\ t.held = l.held /\ t.up = l.up
    BY <1>3 DEF StationType
  <1> HIDE DEF t
  <1>6. CountersOK(t) /\ t.GUpdateStationKeys = sta[s].GUpdateStationKeys
    BY <1>2, <1>3, <1>5 DEF LinkOK, CountersOK, SameMachines
  <1>7. LinkOK(t, group.GN, cur) /\ AnswersCurrent(t, group.GN, cur) /\ NothingAsked(t)
    BY <1>2, <1>5, <1>6, LinkCarries
  <1>8. t.PTK_valid /\ (~t.raced => t.held[group.GN] = cur)
    <2>1. /\ "4/4" \in sta[s].up /\ sta[s].ptk = "PTKINITNEGOTIATING" /\ sta[s].PTK_valid
      BY DEF rx_4_of_4
    <2>2. ~sta[s].raced => AnswersCurrent(sta[s], group.GN, cur)
      BY <2>1, StationInv DEF StationOK, Secured
    <2>3. sta[s].up \cap {"4/4", "2/2"} # {}
      BY <2>1
    <2>4. ~sta[s].raced => sta[s].held[group.GN] = cur
      BY <2>2, <2>3 DEF AnswersCurrent
    <2> QED BY <1>3, <1>5, <2>1, <2>4 DEF SameMachines
  <1>9. StationOK(t, group.GN, cur)
    BY <1>5, <1>7, <1>8 DEF StationOK, Secured
  <1>10. Of(t).t = t /\ Handles(Of(sta[s]), Of(t))
    BY <1>5, <1>6, OfPair, HandlesOf
  <1> QED BY <1>1, <1>4, <1>9, <1>10, SettleKeepsInv

\* Message 2/2 says that the station has the key of message 1/2.
LEMMA Rx2Of2KeepsInv ==
    ASSUME Inv, NEW s \in Stations, rx_2_of_2(s)
    PROVE  Inv'
  <1> DEFINE l == Invalidate(sta[s])
             t == [l EXCEPT !.timers = 0]
             x == Of(t)
             v == IDLE(t)
             y == [x EXCEPT !.t = v]
             u == [v EXCEPT !.GUpdateStationKeys = FALSE]
  <1>1. used' \in UsedType /\ used'.rekey = used.rekey
    BY UsedSame DEF rx_2_of_2
  <1>2. /\ LinkOK(l, group.GN, cur) /\ AnswersCurrent(l, group.GN, cur) /\ NothingAsked(l)
    BY StationInv, InvTypes, InvalidatedLink
  <1>3. l \in StationType /\ SameMachines(l, sta[s]) /\ l.held = sta[s].held
    BY StationInv, InvalidateEffect
  <1>4. Settle(s, REKEYESTABLISHED(x))
    BY DEF rx_2_of_2
  <1> HIDE DEF l
  <1>5. /\ t \in StationType /\ t.ptk = l.ptk /\ t.PTK_valid = l.PTK_valid
        /\ t.TimeoutCtr = l.TimeoutCtr /\ t.GTimeoutCtr = l.GTimeoutCtr /\ t.grp = l.grp
        /\ t.GUpdateStationKeys = l.GUpdateStationKeys /\ t.raced = l.raced
        /\ t.down = l.down /\ t.held = l.held /\ t.up = l.up
    BY <1>3 DEF StationType
  <1> HIDE DEF t
  <1>6. /\ v \in StationType /\ v.ptk = t.ptk /\ v.PTK_valid = t.PTK_valid
        /\ v.TimeoutCtr = t.TimeoutCtr /\ v.GTimeoutCtr = 0 /\ v.grp = "IDLE"
        /\ v.GUpdateStationKeys = t.GUpdateStationKeys /\ v.raced = t.raced
        /\ v.down = t.down /\ v.held = t.held /\ v.up = t.up
    BY <1>5 DEF StationType, IDLE
  <1>7. x \in Pairs /\ x.t = t /\ Handles(Of(sta[s]), x)
    BY <1>3, <1>5, OfPair, HandlesOf DEF SameMachines
  <1>8. REKEYESTABLISHED(x) = GKeyDone(y)
    BY <1>7 DEF REKEYESTABLISHED
  <1> HIDE DEF v, x
  <1>9. Handles(x, y) /\ y.t = v
    BY <1>6, <1>7, HandlesStation
  <1>10. y \in Pairs
    BY <1>9 DEF Handles
  <1> HIDE DEF y
  <1>11. Handles(y, GKeyDone(y)) /\ GKeyDone(y).t = u
    BY <1>9, <1>10, GKeyDoneEffect
  <1>12. /\ u \in StationType /\ u.ptk = v.ptk /\ u.PTK_valid = v.PTK_valid
         /\ u.TimeoutCtr = v.TimeoutCtr /\ u.GTimeoutCtr = v.GTimeoutCtr /\ u.grp = v.grp
         /\ u.raced = v.raced /\ u.down = v.down /\ u.held = v.held /\ u.up = v.up
    BY <1>6 DEF StationType
  <1> HIDE DEF u
  <1>13. u.PTK_valid /\ Secured(u) /\ (~u.raced => u.held[group.GN] = cur)
    <2>1. "2/2" \in sta[s].up /\ sta[s].PTK_valid
      BY DEF rx_2_of_2
    <2>2. Secured(sta[s]) /\ (~sta[s].raced => AnswersCurrent(sta[s], group.GN, cur))
      BY <2>1, StationInv DEF StationOK
    <2>3. sta[s].up \cap {"4/4", "2/2"} # {}
      BY <2>1
    <2>4. ~sta[s].raced => sta[s].held[group.GN] = cur
      BY <2>2, <2>3 DEF AnswersCurrent
    <2>5. /\ u.ptk = sta[s].ptk /\ u.PTK_valid = sta[s].PTK_valid
          /\ u.raced = sta[s].raced /\ u.held = sta[s].held
      BY <1>3, <1>5, <1>6, <1>12 DEF SameMachines
    <2> QED BY <2>1, <2>2, <2>4, <2>5 DEF Secured
  <1>14. LinkOK(u, group.GN, cur) /\ AnswersCurrent(u, group.GN, cur) /\ NothingAsked(u)
    <2>1. CountersOK(u)
      BY <1>2, <1>5, <1>6, <1>12, RekeyBounds DEF LinkOK, CountersOK
    <2>2. u.down = l.down /\ u.held = l.held /\ u.up = l.up
      BY <1>5, <1>6, <1>12
    <2> QED BY <1>2, <1>12, <2>1, <2>2, LinkCarries
  <1>15. StationOK(u, group.GN, cur)
    BY <1>13, <1>14 DEF StationOK
  <1>16. Handles(Of(sta[s]), GKeyDone(y))
    <2>1. Handles(x, GKeyDone(y))
      BY <1>9, <1>11, HandlesTransitive
    <2> QED BY <1>7, <2>1, HandlesTransitive
  <1> QED BY <1>1, <1>4, <1>8, <1>11, <1>15, <1>16, SettleKeepsInv

LEMMA NewPtkKeepsInv ==
    ASSUME Inv, NEW s \in Stations, NEW request \in BOOLEAN, wpa_request_new_ptk(s, request)
    PROVE  Inv'
  <1> DEFINE c == IF request THEN 0 ELSE sta[s].timers
             t == [sta[s] EXCEPT !.PTK_valid = FALSE, !.timers = c]
             x == Of(t)
  <1>1. used' \in UsedType /\ used'.rekey = used.rekey
    BY DEF Inv, UsedType, wpa_request_new_ptk
  <1>2. sta[s] \in StationType /\ LinkOK(sta[s], group.GN, cur) /\ CountersOK(sta[s])
    BY StationInv
  <1>3. c \in Nat
    BY <1>2 DEF StationType
  <1>4. Settle(s, PTKSTART(x))
    BY DEF wpa_request_new_ptk
  <1> HIDE DEF c
  <1>5. /\ t \in StationType /\ ~t.PTK_valid
        /\ t.TimeoutCtr = sta[s].TimeoutCtr /\ t.GTimeoutCtr = sta[s].GTimeoutCtr
        /\ t.grp = sta[s].grp /\ t.GUpdateStationKeys = sta[s].GUpdateStationKeys
        /\ t.down = sta[s].down /\ t.held = sta[s].held
    BY <1>2, <1>3 DEF StationType
  <1> HIDE DEF t
  <1>6. CountersOK(t)
    BY <1>2, <1>5 DEF CountersOK
  <1>7. LinkOK(t, group.GN, cur)
    BY <1>2, <1>5, <1>6, LinkCarries
  <1>8. x \in Pairs /\ x.t = t /\ x.g = group /\ Handles(Of(sta[s]), x)
    BY <1>5, OfPair, HandlesOf
  <1> HIDE DEF x
  <1>9. Handles(x, PTKSTART(x)) /\ StationOK(PTKSTART(x).t, group.GN, cur)
    BY <1>5, <1>7, <1>8, InvTypes, PtkStartEffect
  <1>10. Handles(Of(sta[s]), PTKSTART(x))
    BY <1>8, <1>9, HandlesTransitive
  <1> QED BY <1>1, <1>4, <1>9, <1>10, SettleKeepsInv

\* A station with another number of timers, or without any frames and state.
LEMMA TimersCarry ==
    ASSUME NEW gn, NEW n, NEW t, StationOK(t, gn, n), NEW u \in StationType,
           SameMachines(u, t), u.assoc = t.assoc,
           u.down = t.down, u.held = t.held, u.up = t.up
    PROVE  StationOK(u, gn, n)
  <1>1. LinkOK(t, gn, n) /\ CountersOK(u)
    BY DEF StationOK, LinkOK, CountersOK, SameMachines
  <1>2. /\ LinkOK(u, gn, n)
        /\ AnswersCurrent(t, gn, n) => AnswersCurrent(u, gn, n)
        /\ NothingAsked(t) => NothingAsked(u)
    BY <1>1, LinkCarries
  <1> QED BY <1>2 DEF StationOK, Secured, SameMachines

LEMMA FreshStation ==
    ASSUME NEW gn \in Index, NEW n \in Nat \ {0}
    PROVE  /\ wpa_auth_sta_init \in StationType /\ ~wpa_auth_sta_init.GUpdateStationKeys
           /\ StationOK(wpa_auth_sta_init, gn, n)
  <1> DEFINE t == wpa_auth_sta_init
             d == <<>>
             r == {}
             k == [i \in Index |-> 0]
  <1>1. d \in Links /\ r \in Replies /\ k \in KeyRings
    BY DEF Links, Replies, KeyRings
  <1>2. t = [ptk |-> "INITIALIZE", grp |-> "IDLE", started |-> FALSE, assoc |-> FALSE,
             PTK_valid |-> FALSE, TimeoutCtr |-> 0, GTimeoutCtr |-> 0,
             GUpdateStationKeys |-> FALSE, timers |-> 0, down |-> d, up |-> r,
             held |-> k, raced |-> FALSE]
    BY DEF wpa_auth_sta_init
  <1> HIDE DEF t, d, r, k
  <1>3. /\ t \in StationType /\ ~t.GUpdateStationKeys /\ t.ptk = "INITIALIZE"
        /\ ~t.PTK_valid /\ t.TimeoutCtr = 0 /\ t.GTimeoutCtr = 0
        /\ t.down = d /\ t.held = k
    BY <1>1, <1>2 DEF StationType
  <1>4. CountersOK(t)
    BY <1>3, RekeyBounds DEF CountersOK
  <1>5. LinkOK(t, gn, n)
    BY <1>3, <1>4, EmptyLink DEF d, k
  <1>6. StationOK(t, gn, n)
    BY <1>3, <1>5, InitializedStation
  <1> QED BY <1>3, <1>6 DEF t

LEMMA TimeoutKeepsInv ==
    ASSUME Inv, NEW s \in Stations, wpa_send_eapol_timeout(s)
    PROVE  Inv'
  <1> DEFINE c == sta[s].timers - 1
             t == [sta[s] EXCEPT !.timers = c]
             x == Of(t)
             y == CASE x.t.ptk = "PTKSTART" -> PTKSTART(x)
                    [] x.t.ptk = "PTKINITNEGOTIATING" -> PTKINITNEGOTIATING(x)
                    [] x.t.ptk \notin {"PTKSTART", "PTKINITNEGOTIATING"}
                       /\ x.t.grp = "REKEYNEGOTIATING" -> REKEYNEGOTIATING(x)
                    [] OTHER -> x
  <1>1. used' \in UsedType /\ used'.rekey = used.rekey
    BY UsedSame DEF wpa_send_eapol_timeout
  <1>2. sta[s] \in StationType /\ StationOK(sta[s], group.GN, cur)
    BY StationInv
  <1>3. c \in Nat
    BY <1>2 DEF StationType, wpa_send_eapol_timeout
  <1>4. Settle(s, y)
    BY DEF wpa_send_eapol_timeout
  <1> HIDE DEF c
  <1>5. /\ t \in StationType /\ SameMachines(t, sta[s]) /\ t.assoc = sta[s].assoc
        /\ t.down = sta[s].down /\ t.held = sta[s].held /\ t.up = sta[s].up
    BY <1>2, <1>3 DEF StationType, SameMachines
  <1> HIDE DEF t
  <1>6. StationOK(t, group.GN, cur)
    BY <1>2, <1>5, TimersCarry
  <1>7. x \in Pairs /\ x.t = t /\ x.g = group /\ Handles(Of(sta[s]), x)
    BY <1>5, OfPair, HandlesOf DEF SameMachines
  <1>8. x.g.GTK[x.g.GN] = cur /\ cur \in Nat \ {0}
    BY <1>7, InvTypes
  <1> HIDE DEF x
  <1>9. Handles(x, y) /\ StationOK(y.t, group.GN, cur)
    <2>1. CASE t.ptk = "PTKSTART"
      <3>1. LinkOK(t, group.GN, cur) /\ ~t.PTK_valid
        BY <1>6, <2>1 DEF StationOK, Secured
      <3>2. y = PTKSTART(x)
        BY <1>7, <2>1
      <3> QED BY <1>7, <1>8, <3>1, <3>2, PtkStartEffect
    <2>2. CASE t.ptk = "PTKINITNEGOTIATING"
      <3>1. /\ LinkOK(t, group.GN, cur) /\ t.PTK_valid
            /\ ~t.raced => AnswersCurrent(t, group.GN, cur)
        BY <1>6, <2>2 DEF StationOK, Secured
      <3>2. y = PTKINITNEGOTIATING(x)
        BY <1>7, <2>2
      <3> QED BY <1>7, <1>8, <3>1, <3>2, NegotiatingEffect
    <2>3. CASE t.ptk \notin {"PTKSTART", "PTKINITNEGOTIATING"} /\ t.grp = "REKEYNEGOTIATING"
      <3>1. y = REKEYNEGOTIATING(x)
        BY <1>7, <2>3
      <3> QED BY <1>6, <1>7, <1>8, <3>1, RekeyNegotiatingEffect
    <2>4. CASE t.ptk \notin {"PTKSTART", "PTKINITNEGOTIATING"} /\ t.grp # "REKEYNEGOTIATING"
      <3>1. y = x
        BY <1>7, <2>4
      <3> QED BY <1>6, <1>7, <3>1 DEF Handles
    <2> QED BY <2>1, <2>2, <2>3, <2>4
  <1>10. Handles(Of(sta[s]), y)
    BY <1>7, <1>9, HandlesTransitive
  <1> HIDE DEF y
  <1> QED BY <1>1, <1>4, <1>9, <1>10, SettleKeepsInv

LEMMA DeauthKeepsInv ==
    ASSUME Inv, NEW s \in Stations, handle_deauth(s)
    PROVE  Inv'
  <1> DEFINE x == Of(sta[s])
             z == INITIALIZE(x)
             y == [z EXCEPT !.t = wpa_auth_sta_init]
  <1>1. used' \in UsedType /\ used'.rekey = used.rekey
    BY UsedSame DEF handle_deauth
  <1>2. x \in Pairs
    BY StationInv, OfPair
  <1>3. Handles(x, z) /\ ~z.t.GUpdateStationKeys
    BY <1>2, InitializeEffect
  <1>4. Settle(s, y)
    BY DEF handle_deauth
  <1>5. z \in Pairs /\ z.t.GUpdateStationKeys \in BOOLEAN
    BY <1>3 DEF Handles, Pairs, StationType
  <1>6. /\ wpa_auth_sta_init \in StationType
        /\ wpa_auth_sta_init.GUpdateStationKeys = z.t.GUpdateStationKeys
        /\ StationOK(wpa_auth_sta_init, group.GN, cur)
    BY <1>3, <1>5, InvTypes, FreshStation DEF StationType
  <1> HIDE DEF z
  <1>7. Handles(z, y) /\ y.t = wpa_auth_sta_init
    BY <1>5, <1>6, HandlesStation
  <1>8. Handles(x, y)
    BY <1>3, <1>7, HandlesTransitive
  <1> HIDE DEF y
  <1> QED BY <1>1, <1>4, <1>6, <1>7, <1>8, SettleKeepsInv

LEMMA DisassocKeepsInv ==
    ASSUME Inv, NEW s \in Stations, handle_disassoc(s)
    PROVE  Inv'
  <1> DEFINE x == Of(sta[s])
             v == Unlink(sta[s])
  <1>1. used' \in UsedType /\ used'.rekey = used.rekey
    BY UsedSame DEF handle_disassoc
  <1>2. x \in Pairs /\ x.t = sta[s] /\ CountersOK(sta[s])
    BY StationInv, OfPair
  <1>3. Handles(x, DISCONNECT(x)) /\ StationOK(DISCONNECT(x).t, group.GN, cur)
    BY <1>2, InvTypes, DisconnectEffect DEF CountersOK
  <1>4. v \in StationType
    BY StationInv, UnlinkEffect
  <1>5. Settle(s, INITIALIZE(Of(v)))
    BY DEF handle_disassoc
  <1> HIDE DEF v
  <1>6. [x EXCEPT !.t = v] = Of(v)
    BY <1>4 DEF Of
  <1>7. DISCONNECT(x) = INITIALIZE(Of(v))
    BY <1>2, <1>6 DEF DISCONNECT, v
  <1> HIDE DEF x
  <1> QED BY <1>1, <1>3, <1>5, <1>7, SettleKeepsInv DEF x

LEMMA FreeKeepsInv ==
    ASSUME Inv, NEW s \in Stations, ap_free_sta(s)
    PROVE  Inv'
  <1> DEFINE x == Of(sta[s])
             z == GKeyDone(x)
             y == [z EXCEPT !.t = wpa_auth_sta_init]
  <1>1. used' \in UsedType /\ used'.rekey = used.rekey
    BY UsedSame DEF ap_free_sta
  <1>2. x \in Pairs /\ x.t = sta[s] /\ x.g = group
    BY StationInv, OfPair
  <1>3. Handles(x, z) /\ z.t = [x.t EXCEPT !.GUpdateStationKeys = FALSE]
    BY <1>2, GKeyDoneEffect
  <1>4. z \in Pairs /\ ~z.t.GUpdateStationKeys /\ z.t.GUpdateStationKeys \in BOOLEAN
    BY <1>2, <1>3 DEF Handles, Pairs, StationType
  <1>5. /\ wpa_auth_sta_init \in StationType
        /\ wpa_auth_sta_init.GUpdateStationKeys = z.t.GUpdateStationKeys
        /\ StationOK(wpa_auth_sta_init, group.GN, cur)
    BY <1>4, InvTypes, FreshStation DEF StationType
  <1>6. group' = z.g /\ sta' = [sta EXCEPT ![s] = wpa_auth_sta_init]
    BY DEF ap_free_sta
  <1> HIDE DEF z
  <1>7. Handles(z, y) /\ y.t = wpa_auth_sta_init /\ y.g = z.g
    BY <1>4, <1>5, HandlesStation
  <1>8. Handles(x, y)
    BY <1>3, <1>7, HandlesTransitive
  <1> HIDE DEF y
  <1>9. /\ z.g \in GroupType /\ z.g.GN = group.GN /\ z.g.GTK = group.GTK
        /\ z.g.state = group.state /\ z.g.tx = group.tx
    BY <1>2, <1>3 DEF Handles, Pairs
  <1>10. GroupOK(group', cur) /\ group'.state = group.state /\ group'.GN = group.GN
    BY <1>6, <1>9 DEF Inv, GroupOK
  <1> QED BY <1>1, <1>5, <1>6, <1>7, <1>8, <1>10, CountKeepsInv

\* The supplicant hears a frame: the key it takes is the newest when it may
\* answer, and a newest key it already has is not replaced.
LEMMA HeardStation ==
    ASSUME NEW gn \in Index, NEW n \in Nat \ {0}, NEW t, StationOK(t, gn, n),
           NEW i \in 1 .. Len(t.down)
    PROVE  /\ Heard(t, i) \in StationType /\ SameMachines(Heard(t, i), t)
           /\ StationOK(Heard(t, i), gn, n)
  <1> DEFINE m == t.down[i]
             d == SubSeq(t.down, i + 1, Len(t.down))
             r == IF m.valid THEN t.up \cup {Reply(m.msg)} ELSE t.up
             k == IF m.msg # "1/4" THEN [t.held EXCEPT ![m.idx] = m.gtk] ELSE t.held
             u == [t EXCEPT !.down = d, !.up = r, !.held = k]
  <1>1. /\ t \in StationType /\ CountersOK(t) /\ LinkInOrder(t.down, gn, n)
        /\ HeldStays(t, gn, n)
    BY DEF StationOK, LinkOK
  <1>2. /\ t.down \in Seq(Frames) /\ Len(t.down) \in Nat
        /\ t.up \subseteq {"2/4", "4/4", "2/2"} /\ t.held \in [Index -> Nat]
    BY <1>1 DEF StationType, Links, Replies, KeyRings
  <1>3. m \in Frames
    BY <1>2
  <1>4. m.msg \in {"1/4", "3/4", "1/2"} /\ m.idx \in Index /\ m.gtk \in Nat
    BY <1>3 DEF Frames
  <1>5. /\ d \in Seq(Frames) /\ Len(d) = Len(t.down) - i
        /\ \A j \in 1 .. Len(d) : d[j] = t.down[i + j]
    BY <1>2, SubSeqProperties
  <1>6. \A j \in 1 .. Len(d) : i + j \in 1 .. Len(t.down) /\ i < i + j
    BY <1>2, <1>5
  <1>7. Reply(m.msg) \in {"2/4", "4/4", "2/2"} /\ (m.msg = "1/4" => Reply(m.msg) = "2/4")
    BY <1>4 DEF Reply
  <1>8. Heard(t, i) = u
    BY DEF Heard
  <1>9. d \in Links /\ r \in Replies /\ k \in KeyRings
    BY <1>2, <1>4, <1>5, <1>7 DEF Links, Replies, KeyRings
  <1>10. /\ Keyed(m) => k = [t.held EXCEPT ![m.idx] = m.gtk]
         /\ ~Keyed(m) => k = t.held
    BY DEF Keyed
  <1>11. Keyed(m) => m.gtk \in 1 .. n /\ (m.gtk = n => m.idx = gn)
    BY <1>1 DEF LinkInOrder
  <1>12. /\ m.valid => r = t.up \cup {Reply(m.msg)}
         /\ ~m.valid => r = t.up
    OBVIOUS
  <1>13. /\ t.held[gn] = n => \A j \in 1 .. Len(t.down) : Keyed(t.down[j]) => t.down[j].gtk = n
         /\ \A j \in Index : t.held[j] <= n
    BY <1>1 DEF HeldStays
  <1>14. /\ \A j \in 1 .. Len(t.down) :
               Keyed(t.down[j]) => /\ t.down[j].gtk \in 1 .. n
                                   /\ t.down[j].gtk = n => t.down[j].idx = gn
         /\ \A j, l \in 1 .. Len(t.down) :
               j < l /\ Keyed(t.down[j]) /\ Keyed(t.down[l]) => t.down[j].gtk <= t.down[l].gtk
    BY <1>1 DEF LinkInOrder
  <1> HIDE DEF d, r, k
  <1>15. /\ u \in StationType /\ SameMachines(u, t) /\ u.assoc = t.assoc
         /\ u.down = d /\ u.up = r /\ u.held = k
    BY <1>1, <1>9 DEF StationType, SameMachines
  <1> HIDE DEF u
  <1>16. LinkInOrder(d, gn, n)
    <2>1. \A j \in 1 .. Len(d) :
             Keyed(d[j]) => d[j].gtk \in 1 .. n /\ (d[j].gtk = n => d[j].idx = gn)
      BY <1>5, <1>6, <1>14
    <2>2. ASSUME NEW j \in 1 .. Len(d), NEW l \in 1 .. Len(d), j < l, Keyed(d[j]), Keyed(d[l])
          PROVE  d[j].gtk <= d[l].gtk
      <3>1. i + j < i + l
        BY <2>2
      <3> QED BY <1>5, <1>6, <1>14, <2>2, <3>1
    <2> QED BY <2>1, <2>2 DEF LinkInOrder
  <1>17. t.held[gn] = n => k[gn] = n
    <2>1. CASE Keyed(m)
      <3>1. t.held[gn] = n => m.gtk = n /\ m.idx = gn
        BY <1>11, <1>13, <2>1
      <3> QED BY <1>2, <1>10, <2>1, <3>1
    <2>2. CASE ~Keyed(m)
      BY <1>10, <2>2
    <2> QED BY <2>1, <2>2
  <1>18. HeldStays(u, gn, n)
    <2>1. \A j \in Index : k[j] <= n
      BY <1>2, <1>10, <1>11, <1>13
    <2>2. ASSUME k[gn] = n, NEW j \in 1 .. Len(d), Keyed(d[j]) PROVE d[j].gtk = n
      <3>1. CASE t.held[gn] = n
        BY <1>5, <1>6, <1>13, <2>2, <3>1
      <3>2. CASE t.held[gn] # n
        <4>1. Keyed(m) /\ m.gtk = n
          BY <1>2, <1>10, <2>2, <3>2
        <4>2. m.gtk <= t.down[i + j].gtk /\ t.down[i + j].gtk \in 1 .. n
          BY <1>5, <1>6, <1>14, <2>2, <4>1
        <4> QED BY <1>5, <4>1, <4>2
      <3> QED BY <3>1, <3>2
    <2> QED BY <1>15, <2>1, <2>2 DEF HeldStays
  <1>19. ASSUME AnswersCurrent(t, gn, n) PROVE AnswersCurrent(u, gn, n)
    <2>1. \A j \in 1 .. Len(t.down) : Keyed(t.down[j]) /\ t.down[j].valid => t.down[j].gtk = n
      BY <1>19 DEF AnswersCurrent
    <2>2. \A j \in 1 .. Len(d) : Keyed(d[j]) /\ d[j].valid => d[j].gtk = n
      BY <1>5, <1>6, <2>1
    <2>3. ASSUME r \cap {"4/4", "2/2"} # {} PROVE k[gn] = n
      <3>1. CASE t.up \cap {"4/4", "2/2"} # {}
        BY <1>17, <1>19, <3>1 DEF AnswersCurrent
      <3>2. CASE t.up \cap {"4/4", "2/2"} = {}
        <4>1. m.valid /\ Reply(m.msg) # "2/4"
          BY <1>12, <2>3, <3>2
        <4>2. Keyed(m) /\ m.gtk = n /\ m.idx = gn
          BY <1>7, <1>11, <2>1, <4>1 DEF Keyed
        <4> QED BY <1>2, <1>10, <4>2
      <3> QED BY <3>1, <3>2
    <2> QED BY <1>15, <2>2, <2>3 DEF AnswersCurrent
  <1>20. ASSUME NothingAsked(t) PROVE NothingAsked(u)
    <2>1. \A j \in 1 .. Len(t.down) : Keyed(t.down[j]) => ~t.down[j].valid
      BY <1>20 DEF NothingAsked
    <2>2. \A j \in 1 .. Len(d) : Keyed(d[j]) => ~d[j].valid
      BY <1>5, <1>6, <2>1
    <2>3. m.valid => Reply(m.msg) = "2/4"
      BY <1>7, <2>1 DEF Keyed
    <2>4. "4/4" \notin r /\ "2/2" \notin r
      BY <1>12, <1>20, <2>3 DEF NothingAsked
    <2> QED BY <1>15, <2>2, <2>4 DEF NothingAsked
  <1>21. CountersOK(u)
    BY <1>1, <1>15 DEF CountersOK, SameMachines
  <1>22. LinkOK(u, gn, n)
    BY <1>15, <1>16, <1>18, <1>21 DEF LinkOK
  <1>23. StationOK(u, gn, n)
    BY <1>15, <1>17, <1>19, <1>20, <1>22 DEF StationOK, Secured, SameMachines
  <1> QED BY <1>8, <1>15, <1>23

LEMMA HearKeepsInv ==
    ASSUME Inv, NEW s \in Stations, NEW i \in DOMAIN sta[s].down, Hear(s, i)
    PROVE  Inv'
  <1> DEFINE u == Heard(sta[s], i)
  <1>1. used' \in UsedType /\ used'.rekey = used.rekey
    BY UsedSame DEF Hear
  <1>2. i \in 1 .. Len(sta[s].down)
    BY StationInv DEF StationType, Links
  <1>3. u \in StationType /\ SameMachines(u, sta[s]) /\ StationOK(u, group.GN, cur)
    BY <1>2, StationInv, InvTypes, HeardStation
  <1>4. group' = group /\ sta' = [sta EXCEPT ![s] = u]
    BY DEF Hear
  <1> HIDE DEF u
  <1>5. Of(u).t = u /\ Of(u).g = group /\ Handles(Of(sta[s]), Of(u))
    BY <1>3, OfPair, HandlesOf DEF SameMachines
  <1>6. GroupOK(group', cur) /\ group'.GN = group.GN /\ group'.state = group.state
    BY <1>4 DEF Inv
  <1> QED BY <1>1, <1>3, <1>4, <1>5, <1>6, CountKeepsInv

-----------------------------------------------------------------------------
\* A new key: what is on the link and in the station has become old.
LEMMA LinkAges ==
    ASSUME NEW gn \in Index, NEW n \in Nat \ {0}, NEW t, LinkOK(t, gn, n),
           NEW u \in StationType, CountersOK(u), u.down = t.down, u.held = t.held
    PROVE  LinkOK(u, 3 - gn, n + 1)
  <1>1. LinkInOrder(t.down, gn, n) /\ HeldStays(t, gn, n)
    BY DEF LinkOK
  <1>2. LinkInOrder(u.down, 3 - gn, n + 1)
    BY <1>1 DEF LinkInOrder
  <1>3. HeldStays(u, 3 - gn, n + 1)
    <2>1. u.held \in [Index -> Nat] /\ 3 - gn \in Index
      BY DEF StationType, KeyRings, Index
    <2>2. \A k \in Index : u.held[k] \in Nat /\ u.held[k] <= n
      BY <1>1, <2>1 DEF HeldStays
    <2>3. \A k \in Index : u.held[k] <= n + 1 /\ u.held[k] # n + 1
      BY <2>2
    <2> QED BY <2>1, <2>3 DEF HeldStays
  <1> QED BY <1>2, <1>3 DEF LinkOK

LEMMA UpdateStaEffect ==
    ASSUME NEW gn \in Index, NEW n \in Nat \ {0}, NEW t, StationOK(t, gn, n),
           NEW g \in GroupType, g.GN = 3 - gn, g.GTK[g.GN] = n + 1
    PROVE  LET u == wpa_group_update_sta(t, g)
           IN  /\ u \in StationType /\ StationOK(u, g.GN, n + 1)
               /\ u.GUpdateStationKeys <=> t.ptk = "PTKINITDONE"
  <1> DEFINE b == t.ptk = "PTKINITDONE"
             c == t.ptk = "PTKINITNEGOTIATING" \/ t.grp = "REKEYNEGOTIATING"
             u == [t EXCEPT !.GUpdateStationKeys = b, !.raced = c]
             x == [t |-> u, g |-> g]
  <1>1. t \in StationType /\ CountersOK(t) /\ LinkOK(t, gn, n)
    BY DEF StationOK, LinkOK
  <1>2. b \in BOOLEAN /\ c \in BOOLEAN
    OBVIOUS
  <1>3. wpa_group_update_sta(t, g) = IF t.ptk = "PTKINITDONE" /\ t.grp = "IDLE"
                                     THEN REKEYNEGOTIATING(x).t ELSE u
    BY DEF wpa_group_update_sta
  <1>4. (b <=> t.ptk = "PTKINITDONE")
        /\ (c <=> t.ptk = "PTKINITNEGOTIATING" \/ t.grp = "REKEYNEGOTIATING")
    OBVIOUS
  <1> HIDE DEF b, c
  <1>5. /\ u \in StationType /\ u.GUpdateStationKeys = b /\ u.raced = c
        /\ u.ptk = t.ptk /\ u.grp = t.grp /\ u.PTK_valid = t.PTK_valid
        /\ u.TimeoutCtr = t.TimeoutCtr /\ u.GTimeoutCtr = t.GTimeoutCtr
        /\ u.down = t.down /\ u.held = t.held /\ u.up = t.up
    BY <1>1, <1>2 DEF StationType
  <1> HIDE DEF u
  <1>6. CountersOK(u)
    BY <1>1, <1>5 DEF CountersOK
  <1>7. LinkOK(u, g.GN, n + 1)
    BY <1>1, <1>5, <1>6, LinkAges
  <1>8. t.ptk = "PTKINITDONE" /\ t.grp = "IDLE"
          => NothingAsked(u) /\ AnswersCurrent(u, g.GN, n + 1)
    <2>1. t.ptk = "PTKINITDONE" /\ t.grp = "IDLE" => NothingAsked(t)
      BY DEF StationOK
    <2>2. NothingAsked(t) => NothingAsked(u)
      BY <1>1, <1>5, <1>6, LinkCarries
    <2>3. NothingAsked(u) => AnswersCurrent(u, g.GN, n + 1)
      BY DEF NothingAsked, AnswersCurrent
    <2> QED BY <2>1, <2>2, <2>3
  <1>9. u.PTK_valid <=> Secured(u)
    BY <1>5 DEF StationOK, Secured
  <1>10. Secured(u) /\ ~u.raced => t.ptk = "PTKINITDONE" /\ t.grp = "IDLE"
    BY <1>1, <1>4, <1>5 DEF Secured, StationType
  <1>11. StationOK(u, g.GN, n + 1) /\ (u.GUpdateStationKeys <=> t.ptk = "PTKINITDONE")
    BY <1>4, <1>5, <1>7, <1>8, <1>9, <1>10 DEF StationOK
  <1>12. CASE t.ptk = "PTKINITDONE" /\ t.grp = "IDLE"
    <2>1. x \in Pairs /\ x.t = u /\ x.g = g
      BY <1>5 DEF Pairs
    <2>2. u.GTimeoutCtr < UpdateCount
      BY <1>5, <1>6, <1>12, RekeyBounds DEF CountersOK
    <2> HIDE DEF x
    <2>3. LET y == REKEYNEGOTIATING(x)
          IN  /\ Handles(x, y) /\ StationOK(y.t, x.g.GN, n + 1)
              /\ y.t.GUpdateStationKeys = x.t.GUpdateStationKeys
      BY <1>11, <2>1, <2>2, RekeyNegotiatingEffect
    <2>4. REKEYNEGOTIATING(x).t \in StationType
      BY <2>3 DEF Handles, Pairs
    <2> QED BY <1>3, <1>11, <1>12, <2>1, <2>3, <2>4
  <1>13. CASE ~(t.ptk = "PTKINITDONE" /\ t.grp = "IDLE")
    BY <1>3, <1>5, <1>11, <1>13
  <1> QED BY <1>12, <1>13

LEMMA SetKeysEffect ==
    ASSUME NEW g, GroupOK(g, cur), used \in UsedType,
           Cardinality({s \in Stations : sta[s].ptk = "PTKINITDONE"}) \in Nat
    PROVE  LET h == wpa_group_setkeys(g)
           IN  /\ h \in GroupType /\ GroupOK(h, cur + 1) /\ h.GN = 3 - g.GN
               /\ h.GTK[h.GN] = cur + 1 /\ h.state = "SETKEYS"
               /\ h.GKeyDoneStations = Cardinality({s \in Stations : sta[s].ptk = "PTKINITDONE"})
  <1> DEFINE c == Cardinality({s \in Stations : sta[s].ptk = "PTKINITDONE"})
             gn == 3 - g.GN
             k == [g.GTK EXCEPT ![gn] = used.rekey + 2]
             h == [g EXCEPT !.state = "SETKEYS", !.GN = gn, !.GTK = k, !.GKeyDoneStations = c]
             T == [Index -> Nat]
  <1>1. /\ g \in GroupType /\ cur \in Nat \ {0} /\ used.rekey + 2 = cur + 1
        /\ g.tx.gtk <= cur /\ \A i \in Index : g.GTK[i] <= cur
    BY DEF GroupOK, cur, UsedType
  <1>2. gn \in Index
    BY <1>1 DEF GroupType, Index
  <1>3. k \in T /\ k[gn] = cur + 1 /\ \A i \in Index : k[i] <= cur + 1
    <2>1. /\ g.GTK \in [Index -> Nat] /\ used.rekey + 2 \in Nat
      BY <1>1 DEF GroupType, UsedType
    <2>2. \A i \in Index : k[i] = IF i = gn THEN cur + 1 ELSE g.GTK[i]
      BY <1>1, <2>1
    <2>3. \A i \in Index : g.GTK[i] \in Nat /\ g.GTK[i] <= cur
      BY <1>1, <2>1
    <2> HIDE DEF gn
    <2> QED BY <1>1, <1>2, <2>1, <2>2, <2>3
  <1>4. c \in Int
    OBVIOUS
  <1>5. wpa_group_setkeys(g) = h
    BY DEF wpa_group_setkeys
  <1>6. g \in [state : {"SETKEYS", "SETKEYSDONE"}, GN : Index, GTK : T,
              GKeyDoneStations : Int, tx : [idx : Index, gtk : Nat]]
    BY <1>1 DEF GroupType
  <1> HIDE DEF c, gn, k, T
  <1>7. /\ h \in [state : {"SETKEYS", "SETKEYSDONE"}, GN : Index, GTK : T,
                 GKeyDoneStations : Int, tx : [idx : Index, gtk : Nat]]
        /\ h.state = "SETKEYS" /\ h.GN = gn /\ h.GTK = k /\ h.GKeyDoneStations = c
        /\ h.tx = g.tx
    BY <1>2, <1>3, <1>4, <1>6
  <1>8. h \in GroupType
    BY <1>7 DEF GroupType, T
  <1> HIDE DEF h
  <1>9. h.tx.gtk <= cur + 1
    BY <1>1, <1>7 DEF GroupType
  <1>10. GroupOK(h, cur + 1)
    BY <1>3, <1>7, <1>8, <1>9 DEF GroupOK
  <1> QED BY <1>3, <1>5, <1>7, <1>8, <1>10 DEF gn, c

LEMMA RekeyKeepsInv ==
    ASSUME Inv, wpa_rekey_gtk
    PROVE  Inv'
  <1> DEFINE g0 == wpa_group_sm_step(group)
             g == wpa_group_setkeys(g0)
             h == wpa_group_sm_step(g)
             D == {s \in Stations : sta[s].ptk = "PTKINITDONE"}
             E == {s \in Stations : sta'[s].GUpdateStationKeys}
  <1>1. /\ used' \in UsedType /\ used'.rekey = used.rekey + 1 /\ used'.rekey <= MaxRekeys
    BY RekeyBounds DEF Inv, UsedType, wpa_rekey_gtk
  <1>2. cur' = cur + 1 /\ cur \in Nat \ {0} /\ cur + 1 \in Nat \ {0}
    BY <1>1, InvTypes DEF cur, UsedType, Inv
  <1>3. GroupOK(g0, cur) /\ g0.GN = group.GN
    BY <1>2, GroupStepEffect DEF Inv
  <1>4. Cardinality(D) \in Nat
    BY RekeyBounds, FS_Subset, FS_CardinalityType
  <1>5. used \in UsedType
    BY DEF Inv
  <1>6. group' = h /\ sta' = [s \in Stations |-> wpa_group_update_sta(sta[s], g)]
    BY DEF wpa_rekey_gtk
  <1> HIDE DEF g0
  <1>7. /\ g \in GroupType /\ GroupOK(g, cur + 1) /\ g.GN = 3 - group.GN
        /\ g.GTK[g.GN] = cur + 1 /\ g.state = "SETKEYS"
        /\ g.GKeyDoneStations = Cardinality(D)
    BY <1>3, <1>4, <1>5, SetKeysEffect
  <1> HIDE DEF g
  <1>8. /\ GroupOK(h, cur + 1) /\ h.GN = g.GN
        /\ h.GKeyDoneStations = g.GKeyDoneStations
        /\ h.state = "SETKEYSDONE" => h.GKeyDoneStations = 0
    BY <1>2, <1>7, GroupStepEffect
  <1> HIDE DEF h
  <1>9. ASSUME NEW s \in Stations
        PROVE  /\ sta'[s] \in StationType /\ StationOK(sta'[s], g.GN, cur + 1)
               /\ sta'[s].GUpdateStationKeys <=> sta[s].ptk = "PTKINITDONE"
    <2>1. sta'[s] = wpa_group_update_sta(sta[s], g)
      BY <1>6
    <2>2. StationOK(sta[s], group.GN, cur) /\ group.GN \in Index
      BY StationInv, InvTypes
    <2> QED BY <1>2, <1>7, <2>1, <2>2, UpdateStaEffect
  <1>10. sta' \in [Stations -> StationType]
    BY <1>6, <1>9
  <1>11. E = D
    BY <1>9
  <1>12. CountExact'
    BY <1>6, <1>7, <1>8, <1>11 DEF CountExact
  <1> QED BY <1>1, <1>2, <1>6, <1>8, <1>9, <1>10, <1>12 DEF Inv

-----------------------------------------------------------------------------
LEMMA InitInv == Init => Inv
  <1> SUFFICES ASSUME Init PROVE Inv
    OBVIOUS
  <1> DEFINE k == [i \in Index |-> 2 - i]
             x == [idx |-> 1, gtk |-> 1]
  <1>1. used = [rekey |-> 0, ptk |-> 0, assoc |-> 0]
    BY DEF Init
  <1>2. used \in UsedType /\ used.rekey <= MaxRekeys /\ cur = 1
    BY <1>1, RekeyBounds DEF UsedType, cur
  <1>3. /\ k \in [Index -> Nat] /\ k[1] = 1 /\ (\A i \in Index : k[i] <= 1)
        /\ x \in [idx : Index, gtk : Nat] /\ x.gtk = 1 /\ 1 \in Index
    BY DEF Index
  <1>4. group = [state |-> "SETKEYSDONE", GN |-> 1, GTK |-> k, GKeyDoneStations |-> 0, tx |-> x]
    BY DEF Init
  <1>5. GroupOK(group, 1)
    <2>1. group.tx = [idx |-> group.GN, gtk |-> 1]
      BY <1>4
    <2> HIDE DEF k, x
    <2> QED BY <1>3, <1>4, <2>1 DEF GroupOK, GroupType
  <1>6. \A s \in Stations : sta[s] = wpa_auth_sta_init
    BY DEF Init
  <1>7. /\ wpa_auth_sta_init \in StationType /\ ~wpa_auth_sta_init.GUpdateStationKeys
        /\ StationOK(wpa_auth_sta_init, 1, 1)
    BY <1>3, FreshStation
  <1>8. sta \in [Stations -> StationType] /\ \A s \in Stations : StationOK(sta[s], group.GN, cur)
    BY <1>2, <1>4, <1>7 DEF Init
  <1>9. CountExact
    <2>1. {s \in Stations : sta[s].GUpdateStationKeys} = {}
      BY <1>6, <1>7
    <2> QED BY <1>4, <2>1, FS_EmptySet DEF CountExact
  <1> QED BY <1>2, <1>5, <1>8, <1>9 DEF Inv

LEMMA StepInv == Inv /\ [Next]_vars => Inv'
  <1> SUFFICES ASSUME Inv, [Next]_vars PROVE Inv'
    OBVIOUS
  <1>1. CASE wpa_rekey_gtk
    BY <1>1, RekeyKeepsInv
  <1>2. ASSUME NEW s \in Stations, Associate(s) PROVE Inv'
    BY <1>2, AssociateKeepsInv
  <1>3. ASSUME NEW s \in Stations, rx_2_of_4(s) PROVE Inv'
    BY <1>3, Rx2Of4KeepsInv
  <1>4. ASSUME NEW s \in Stations, rx_4_of_4(s) PROVE Inv'
    BY <1>4, Rx4Of4KeepsInv
  <1>5. ASSUME NEW s \in Stations, rx_2_of_2(s) PROVE Inv'
    BY <1>5, Rx2Of2KeepsInv
  <1>6. ASSUME NEW s \in Stations, NEW request \in BOOLEAN, wpa_request_new_ptk(s, request)
        PROVE  Inv'
    BY <1>6, NewPtkKeepsInv
  <1>7. ASSUME NEW s \in Stations, wpa_send_eapol_timeout(s) PROVE Inv'
    BY <1>7, TimeoutKeepsInv
  <1>8. ASSUME NEW s \in Stations, handle_deauth(s) PROVE Inv'
    BY <1>8, DeauthKeepsInv
  <1>9. ASSUME NEW s \in Stations, handle_disassoc(s) PROVE Inv'
    BY <1>9, DisassocKeepsInv
  <1>10. ASSUME NEW s \in Stations, ap_free_sta(s) PROVE Inv'
    BY <1>10, FreeKeepsInv
  <1>11. ASSUME NEW s \in Stations, NEW i \in DOMAIN sta[s].down, Hear(s, i) PROVE Inv'
    BY <1>11, HearKeepsInv
  <1>12. CASE UNCHANGED vars
    <2>1. cur' = cur
      BY <1>12 DEF vars, cur
    <2> QED BY <1>12, <2>1 DEF vars, Inv, CountExact
  <1> QED BY <1>1, <1>2, <1>3, <1>4, <1>5, <1>6, <1>7, <1>8, <1>9, <1>10, <1>11, <1>12 DEF Next

\* The invariant of the whole of wpa_auth.c's group rekeying.
THEOREM Invariance == Spec => []Inv
  BY InitInv, StepInv, PTL DEF Spec

LEMMA InvType == Inv => TypeOK
  <1> SUFFICES ASSUME Inv PROVE TypeOK
    OBVIOUS
  <1> DEFINE D == {s \in Stations : sta[s].GUpdateStationKeys}
  <1>1. cur \in Nat /\ cur <= MaxRekeys + 1 /\ MaxRekeys \in Nat /\ UpdateCount \in Nat
    BY RekeyBounds DEF Inv, UsedType, cur
  <1>2. \A k \in Nat : k <= cur => k \in Version
    BY <1>1 DEF Version
  <1>3. /\ group.state \in {"SETKEYS", "SETKEYSDONE"} /\ group.GN \in Index
        /\ group.GTK \in [Index -> Nat] /\ (\A k \in Index : group.GTK[k] <= cur)
        /\ group.tx \in [idx : Index, gtk : Nat] /\ group.tx.gtk <= cur
    BY DEF Inv, GroupOK, GroupType
  <1>4. group.GTK \in [Index -> Version] /\ group.tx \in [idx : Index, gtk : Version]
    BY <1>2, <1>3
  <1>5. group.GKeyDoneStations \in 0 .. Cardinality(Stations)
    <2>1. IsFiniteSet(D) /\ Cardinality(D) <= Cardinality(Stations) /\ D \subseteq Stations
      BY RekeyBounds, FS_Subset
    <2>2. Cardinality(D) \in Nat /\ Cardinality(Stations) \in Nat
      BY <2>1, RekeyBounds, FS_CardinalityType
    <2>3. group.GKeyDoneStations = Cardinality(D)
      BY DEF Inv, CountExact
    <2> QED BY <2>1, <2>2, <2>3
  <1>6. ASSUME NEW s \in Stations
        PROVE  /\ sta[s].ptk \in {"INITIALIZE", "PTKSTART", "PTKINITNEGOTIATING", "PTKINITDONE"}
               /\ sta[s].grp \in {"IDLE", "REKEYNEGOTIATING"}
               /\ sta[s].TimeoutCtr \in 0 .. UpdateCount
               /\ sta[s].GTimeoutCtr \in 0 .. UpdateCount
               /\ sta[s].up \subseteq {"2/4", "4/4", "2/2"}
               /\ sta[s].held \in [Index -> Version]
    <2>1. sta[s] \in StationType /\ CountersOK(sta[s]) /\ HeldStays(sta[s], group.GN, cur)
      BY StationInv DEF LinkOK
    <2>2. /\ sta[s].TimeoutCtr \in 0 .. UpdateCount /\ sta[s].GTimeoutCtr \in 0 .. UpdateCount
      BY <1>1, <2>1 DEF StationType, CountersOK
    <2>3. sta[s].held \in [Index -> Nat] /\ \A k \in Index : sta[s].held[k] <= cur
      BY <2>1 DEF StationType, KeyRings, HeldStays
    <2>4. sta[s].held \in [Index -> Version]
      BY <1>2, <2>3
    <2> QED BY <2>1, <2>2, <2>4 DEF StationType, Replies
  <1> QED BY <1>3, <1>4, <1>5, <1>6 DEF TypeOK

\* The counters of wpa_auth.c stay in their ranges: GKeyDoneStations between zero
\* and the number of stations, the retry counters within their limits.
THEOREM TypeCorrect == Spec => []TypeOK
  BY Invariance, InvType, PTL

\* GKeyDoneStations, which wpa_auth.c counts down in five places, is the number of
\* stations that owe an answer, for any number of stations and retries.
THEOREM CountIsExact == Spec => []CountExact
  <1>1. Inv => CountExact
    BY DEF Inv
  <1> QED BY <1>1, Invariance, PTL

LEMMA InvReached == Inv => GroupKeyReached
  <1> SUFFICES ASSUME Inv, group.state = "SETKEYSDONE", NEW s \in Stations, Up(s), ~sta[s].raced
               PROVE  HoldsTxKey(s)
    BY DEF GroupKeyReached
  <1> DEFINE D == {r \in Stations : sta[r].GUpdateStationKeys}
  <1>1. IsFiniteSet(D) /\ Cardinality(D) = 0
    BY RekeyBounds, FS_Subset DEF Inv, CountExact
  <1>2. D = {}
    BY <1>1, FS_EmptySet
  <1>3. ~sta[s].GUpdateStationKeys
    BY <1>2
  <1>4. sta[s].held[group.GN] = cur
    BY <1>3, StationInv DEF StationOK, Up
  <1>5. group.tx.idx = group.GN /\ group.tx.gtk = cur
    BY DEF Inv, GroupOK
  <1> QED BY <1>4, <1>5 DEF HoldsTxKey

\* When wpa_group_setkeysdone() has configured a key, every station with a
\* completed handshake has it, unless the rekeying met the station in the middle
\* of one.
THEOREM KeyReachesStations == Spec => []GroupKeyReached
  BY Invariance, InvReached, PTL
=============================================================================
