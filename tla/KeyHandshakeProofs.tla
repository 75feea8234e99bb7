------------------------- MODULE KeyHandshakeProofs -------------------------
(***************************************************************************)
(* Proofs about KeyHandshake: whatever is lost, repeated or delayed, a     *)
(* completed 4-way handshake leaves the same key in both drivers, and the  *)
(* supplicant can always verify the message 3/4 it is sent.                *)
(*                                                                         *)
(* Neither is inductive.  What the two ends hold is tied together by the   *)
(* frames between them: every message 3/4 on its way carries the key of    *)
(* the supplicant's current SNonce, a message 2/4 that would be accepted   *)
(* was made with it, and the order of the link keeps a repeated message    *)
(* 1/4 from renewing the SNonce once the authenticator relies on it.       *)
(***************************************************************************)
EXTENDS KeyHandshake, FiniteSetTheorems, SequenceTheorems, TLAPS

Counters == SUBSET Nat

AuthType ==
    [state : {"INITIALIZE", "PTKSTART", "PTKCALCNEGOTIATING", "PTKINITNEGOTIATING",
              "PTKINITDONE"},
     started : BOOLEAN, assoc : BOOLEAN, PTK : Key, PTK_valid : BOOLEAN, ANonce : Nat,
     TimeoutCtr : Nat, key_replay : Counters, counter : Nat, req_counter : Nat,
     timers : Nat, pending_1_of_4 : BOOLEAN, rekey_timer : BOOLEAN, pairwise : Key]

SupType ==
    [assoc : BOOLEAN, ptk : Key, tptk : Key, snonce : Nat, anonce : Nat,
     renew_snonce : BOOLEAN, rx_counter : Nat, pairwise : Key, completed : BOOLEAN]

DownFrames == [msg : {"1/4", "3/4"}, ctr : Nat, nonce : Nat, mic : Key]
UpFrames == [msg : {"2/4", "4/4", "request"}, ctr : Nat, nonce : Nat, mic : Key]
UsedType == [assoc : Nat, rekey : Nat, request : Nat]

\* The authenticator by itself: the retries and the window of replay counters.
WindowOK(a) ==
    \A c \in a.key_replay : 0 < c /\ c <= a.counter /\ c + ReplayWindow > a.counter

AuthOK(a) ==
    /\ a \in AuthType
    /\ a.TimeoutCtr <= UpdateCount
    /\ WindowOK(a)
    /\ a.PTK_valid => a.PTK # NoKey

Starting(a) == a.state \in {"PTKSTART", "PTKCALCNEGOTIATING"}
Past(a) == a.state \in {"PTKINITNEGOTIATING", "PTKINITDONE"}

\* The key of SNonce n and the preshared key p, and that of the supplicant's
\* current SNonce.
KeyOf(a, n, p) == <<a.ANonce, n, p>>
Fresh(a, s, p) == KeyOf(a, s.snonce, p)

\* The supplicant: the temporary key is that of the current SNonce, and once it
\* has become the key in use the next message 1/4 renews the SNonce.
SupOK(a, s, p) ==
    IF s.renew_snonce
    THEN s.tptk = NoKey /\ (s.ptk = NoKey \/ (s.ptk = Fresh(a, s, p) /\ s.pairwise = s.ptk))
    ELSE /\ s.tptk = Fresh(a, s, p)
         /\ s.ptk = NoKey \/ \E n \in Nat : n < s.snonce /\ s.ptk = KeyOf(a, n, p)

\* Frames to the supplicant.  They come as messages 1/4, then 3/4, then 1/4.
DownOK(a, s, d, p) ==
    /\ \A i \in 1 .. Len(d) : /\ d[i].nonce = a.ANonce /\ d[i].ctr <= a.counter
                              /\ d[i].msg = "3/4" => d[i].mic = Fresh(a, s, p)
    /\ \A i, j, k \in 1 .. Len(d) :
          i < j /\ j < k /\ d[i].msg = "3/4" /\ d[j].msg = "1/4" => d[k].msg = "1/4"
    /\ s.renew_snonce => \A i, j \in 1 .. Len(d) : i < j /\ d[i].msg = "1/4" => d[j].msg = "1/4"

\* Frames to the authenticator.
UpOK(a, s, u, p) ==
    \A i \in 1 .. Len(u) :
       IF u[i].msg = "2/4"
       THEN u[i].ctr <= a.counter /\ u[i].mic = KeyOf(a, u[i].nonce, p)
       ELSE \E n \in Nat : /\ u[i].mic = KeyOf(a, n, p) /\ n <= s.snonce
                           /\ n = s.snonce => s.renew_snonce

\* Before a message 2/4 is accepted: one that could be was made with the current
\* SNonce, and no message 3/4 is on its way that would renew it.
StartOK(a, s, d, u) ==
    /\ \A i \in 1 .. Len(u) : u[i].msg = "2/4" /\ u[i].ctr \in a.key_replay
          => /\ ~s.renew_snonce /\ u[i].nonce = s.snonce
             /\ \A j \in 1 .. Len(d) : d[j].msg = "1/4"
    /\ \A i, j \in 1 .. Len(d) :
          i < j /\ d[i].msg = "1/4" /\ d[i].ctr \in a.key_replay => d[j].msg = "1/4"

\* After it: the authenticator's key is that of the current SNonce, which no
\* frame on its way can renew.
PastOK(a, s, d, u, p) ==
    /\ a.PTK = Fresh(a, s, p)
    /\ \A i \in 1 .. Len(u) : u[i].msg = "2/4" => u[i].ctr \notin a.key_replay
    /\ \A i \in 1 .. Len(d) : d[i].msg = "1/4" => d[i].ctr \notin a.key_replay
    /\ \A i, j \in 1 .. Len(d) : i < j /\ d[i].msg = "3/4" => d[j].msg = "3/4"
    /\ s.renew_snonce => s.ptk = a.PTK /\ \A i \in 1 .. Len(d) : d[i].msg = "3/4"
    /\ a.state = "PTKINITDONE" => s.renew_snonce /\ a.pairwise = a.PTK /\ a.key_replay = {}

\* While both ends take the association for standing.
Linked(a, s, d, u, p) ==
    /\ Starting(a) \/ Past(a)
    /\ SupOK(a, s, p) /\ DownOK(a, s, d, p) /\ UpOK(a, s, u, p)
    /\ Starting(a) => StartOK(a, s, d, u)
    /\ Past(a) => PastOK(a, s, d, u, p)

Inv == /\ AuthOK(auth) /\ sup \in SupType
       /\ down \in Seq(DownFrames) /\ up \in Seq(UpFrames)
       /\ used \in UsedType
       /\ auth.assoc /\ sup.assoc => Linked(auth, sup, down, up, Psk)

-----------------------------------------------------------------------------
LEMMA KeyFacts ==
    ASSUME NEW a, NEW n, NEW p \in {"ap", "sta"}
    PROVE  /\ KeyOf(a, n, p) # NoKey
           /\ a.ANonce \in Nat /\ n \in Nat => KeyOf(a, n, p) \in Key
           /\ \A m, q : KeyOf(a, m, q) = KeyOf(a, n, p) => m = n /\ q = p
  BY DEF KeyOf, NoKey, Key

LEMMA NoKeyType == NoKey \in Key
  BY DEF Key

LEMMA PskType == Psk \in {"ap", "sta"}
  BY DEF Psk

\* What is left of a link when its i-th frame has arrived.
LEMMA AfterFacts ==
    ASSUME NEW S, NEW l \in Seq(S), NEW i \in 1 .. Len(l)
    PROVE  /\ After(l, i) \in Seq(S) /\ Len(After(l, i)) \in Nat
           /\ \A j \in 1 .. Len(After(l, i)) :
                 /\ After(l, i)[j] = l[i + j]
                 /\ i + j \in 1 .. Len(l) /\ i < i + j
  <1>1. Len(l) \in Nat /\ \A j \in 1 .. Len(l) : l[j] \in S
    OBVIOUS
  <1>2. /\ After(l, i) \in Seq(S) /\ Len(After(l, i)) = Len(l) - i
        /\ \A j \in 1 .. Len(l) - i : After(l, i)[j] = l[i + j]
    BY <1>1, SubSeqProperties DEF After
  <1> QED BY <1>1, <1>2

LEMMA AppendFacts ==
    ASSUME NEW S, NEW l \in Seq(S), NEW f \in S
    PROVE  /\ Append(l, f) \in Seq(S) /\ Len(l) \in Nat /\ Len(Append(l, f)) = Len(l) + 1
           /\ Append(l, f)[Len(l) + 1] = f
           /\ \A j \in 1 .. Len(Append(l, f)) :
                 \/ j = Len(l) + 1 /\ Append(l, f)[j] = f
                 \/ j \in 1 .. Len(l) /\ Append(l, f)[j] = l[j]
  <1>1. Len(l) \in Nat /\ Len(Append(l, f)) = Len(l) + 1
    OBVIOUS
  <1>2. \A j \in 1 .. Len(l) : Append(l, f)[j] = l[j]
    OBVIOUS
  <1> QED BY <1>1, <1>2

LEMMA FrameFacts ==
    /\ \A u \in Seq(UpFrames) : \A i \in 1 .. Len(u) :
          /\ u[i].msg \in {"2/4", "4/4", "request"}
          /\ u[i].ctr \in Nat /\ u[i].nonce \in Nat /\ u[i].mic \in Key
    /\ \A d \in Seq(DownFrames) : \A i \in 1 .. Len(d) :
          /\ d[i].msg \in {"1/4", "3/4"}
          /\ d[i].ctr \in Nat /\ d[i].nonce \in Nat /\ d[i].mic \in Key
  <1>1. ASSUME NEW u \in Seq(UpFrames), NEW i \in 1 .. Len(u)
        PROVE  /\ u[i].msg \in {"2/4", "4/4", "request"}
               /\ u[i].ctr \in Nat /\ u[i].nonce \in Nat /\ u[i].mic \in Key
    <2>1. u[i] \in UpFrames
      BY ElementOfSeq
    <2> QED BY <2>1 DEF UpFrames
  <1>2. ASSUME NEW d \in Seq(DownFrames), NEW i \in 1 .. Len(d)
        PROVE  /\ d[i].msg \in {"1/4", "3/4"}
               /\ d[i].ctr \in Nat /\ d[i].nonce \in Nat /\ d[i].mic \in Key
    <2>1. d[i] \in DownFrames
      BY ElementOfSeq
    <2> QED BY <2>1 DEF DownFrames
  <1> QED BY <1>1, <1>2

\* Losing frames does no harm.
LEMMA LinkedUpAfter ==
    ASSUME NEW a, NEW s, NEW d, NEW u \in Seq(UpFrames), NEW p, Linked(a, s, d, u, p),
           NEW i \in 1 .. Len(u)
    PROVE  Linked(a, s, d, After(u, i), p)
  <1> DEFINE v == After(u, i)
  <1>1. \A j \in 1 .. Len(v) : v[j] = u[i + j] /\ i + j \in 1 .. Len(u)
    BY AfterFacts
  <1> HIDE DEF v
  <1>2. UpOK(a, s, v, p)
    BY <1>1 DEF Linked, UpOK
  <1>3. Starting(a) => StartOK(a, s, d, v)
    BY <1>1 DEF Linked, StartOK
  <1>4. Past(a) => PastOK(a, s, d, v, p)
    BY <1>1 DEF Linked, PastOK
  <1> QED BY <1>2, <1>3, <1>4 DEF Linked, v

LEMMA LinkedDownAfter ==
    ASSUME NEW a, NEW s, NEW d \in Seq(DownFrames), NEW u, NEW p, Linked(a, s, d, u, p),
           NEW i \in 1 .. Len(d)
    PROVE  Linked(a, s, After(d, i), u, p)
  <1> DEFINE e == After(d, i)
  <1>1. \A j \in 1 .. Len(e) : e[j] = d[i + j] /\ i + j \in 1 .. Len(d)
    BY AfterFacts
  <1>2. \A j, k \in 1 .. Len(e) : j < k => i + j < i + k
    BY AfterFacts
  <1> HIDE DEF e
  <1>3. DownOK(a, s, e, p)
    <2>1. \A j \in 1 .. Len(e) : /\ e[j].nonce = a.ANonce /\ e[j].ctr <= a.counter
                                 /\ e[j].msg = "3/4" => e[j].mic = Fresh(a, s, p)
      BY <1>1 DEF Linked, DownOK
    <2>2. \A j, k, l \in 1 .. Len(e) :
             j < k /\ k < l /\ e[j].msg = "3/4" /\ e[k].msg = "1/4" => e[l].msg = "1/4"
      <3>1. \A j, k, l \in 1 .. Len(d) :
               j < k /\ k < l /\ d[j].msg = "3/4" /\ d[k].msg = "1/4" => d[l].msg = "1/4"
        BY DEF Linked, DownOK
      <3>2. TAKE j, k, l \in 1 .. Len(e)
      <3>3. HAVE j < k /\ k < l /\ e[j].msg = "3/4" /\ e[k].msg = "1/4"
      <3>4. /\ i + j \in 1 .. Len(d) /\ i + k \in 1 .. Len(d) /\ i + l \in 1 .. Len(d)
            /\ i + j < i + k /\ i + k < i + l
        BY <1>1, <1>2, <3>3
      <3>5. d[i + j].msg = "3/4" /\ d[i + k].msg = "1/4" /\ e[l] = d[i + l]
        BY <1>1, <3>3
      <3> QED BY <3>1, <3>4, <3>5, Zenon
    <2>3. s.renew_snonce => \A j, k \in 1 .. Len(e) : j < k /\ e[j].msg = "1/4" => e[k].msg = "1/4"
      <3>1. s.renew_snonce => \A j, k \in 1 .. Len(d) :
                                 j < k /\ d[j].msg = "1/4" => d[k].msg = "1/4"
        BY DEF Linked, DownOK
      <3> QED BY <1>1, <1>2, <3>1
    <2> QED BY <2>1, <2>2, <2>3 DEF DownOK
  <1>4. Starting(a) => StartOK(a, s, e, u)
    BY <1>1, <1>2 DEF Linked, StartOK
  <1>5. Past(a) => PastOK(a, s, e, u, p)
    BY <1>1, <1>2 DEF Linked, PastOK
  <1> QED BY <1>3, <1>4, <1>5 DEF Linked, e

-----------------------------------------------------------------------------
\* What the operations of the authenticator do to its record.

\* b has sent one frame more than a and is otherwise as a.
Sends(a, b) ==
    /\ b.counter = a.counter + 1 /\ b.key_replay \subseteq a.key_replay \cup {b.counter}
    /\ b.assoc = a.assoc /\ b.ANonce = a.ANonce
    /\ b.PTK = a.PTK /\ b.PTK_valid = a.PTK_valid /\ b.pairwise = a.pairwise

LEMMA DisconnectEffect ==
    ASSUME NEW a \in AuthType, WindowOK(a)
    PROVE  AuthOK(DISCONNECT(a)) /\ ~DISCONNECT(a).assoc
  <1> DEFINE b == DISCONNECT(a)
  <1>1. b \in AuthType
    BY NoKeyType DEF AuthType, DISCONNECT, INITIALIZE, wpa_remove_ptk, wpa_sta_disconnect
  <1>2. /\ b.key_replay = a.key_replay /\ b.counter = a.counter
        /\ ~b.PTK_valid /\ b.TimeoutCtr = 0 /\ ~b.assoc
    BY DEF AuthType, DISCONNECT, INITIALIZE, wpa_remove_ptk, wpa_sta_disconnect
  <1> HIDE DEF b
  <1>3. b.TimeoutCtr <= UpdateCount
    BY <1>2, HandshakeBounds
  <1>4. WindowOK(b)
    BY <1>2 DEF WindowOK
  <1> QED BY <1>1, <1>2, <1>3, <1>4 DEF AuthOK, b

LEMMA SendEffect ==
    ASSUME NEW a \in AuthType, WindowOK(a), NEW w \in BOOLEAN
    PROVE  LET b == wpa_send_eapol(a, w)
           IN  /\ b \in AuthType /\ WindowOK(b) /\ Sends(a, b)
               /\ b.state = a.state /\ b.TimeoutCtr = a.TimeoutCtr
  <1> DEFINE b == wpa_send_eapol(a, w)
             n == a.counter + 1
             K == {c \in a.key_replay \cup {n} : c + ReplayWindow > n}
             pd == a.pending_1_of_4 \/ (w /\ a.TimeoutCtr = 1)
             tm == a.timers + 1
  <1>1. n \in Nat /\ tm \in Nat /\ pd \in BOOLEAN /\ K \in Counters
    BY DEF AuthType, Counters
  <1>2. K \subseteq a.key_replay \cup {n} /\ \A c \in K : 0 < c /\ c <= n /\ c + ReplayWindow > n
    <2>1. a.counter \in Nat /\ a.key_replay \subseteq Nat
      BY DEF AuthType, Counters
    <2> QED BY <2>1, HandshakeBounds DEF WindowOK
  <1>3. b = [a EXCEPT !.counter = n, !.key_replay = K, !.timers = tm, !.pending_1_of_4 = pd]
    BY DEF wpa_send_eapol, AuthType
  <1>a. n = a.counter + 1
    OBVIOUS
  <1> HIDE DEF n, K, pd, tm, b
  <1>4. b \in AuthType
    BY <1>1, <1>3 DEF AuthType
  <1>5. /\ b.counter = n /\ b.key_replay = K /\ b.assoc = a.assoc /\ b.ANonce = a.ANonce
        /\ b.PTK = a.PTK /\ b.PTK_valid = a.PTK_valid /\ b.pairwise = a.pairwise
        /\ b.state = a.state /\ b.TimeoutCtr = a.TimeoutCtr
    BY <1>1, <1>3 DEF AuthType
  <1>6. WindowOK(b)
    BY <1>2, <1>5 DEF WindowOK
  <1>7. Sends(a, b)
    BY <1>2, <1>5, <1>a DEF Sends
  <1> QED BY <1>4, <1>5, <1>6, <1>7 DEF b

\* The step that both retransmissions take: st is the state entered.
Entered(a, st) == [a EXCEPT !.state = st, !.TimeoutCtr = @ + 1]

LEMMA EnterEffect ==
    ASSUME NEW a, AuthOK(a), NEW st \in {"PTKSTART", "PTKINITNEGOTIATING"}, NEW w \in BOOLEAN
    PROVE  /\ AuthOK(DISCONNECT(Entered(a, st))) /\ ~DISCONNECT(Entered(a, st)).assoc
           /\ ~(Entered(a, st).TimeoutCtr > UpdateCount)
                 => LET b == wpa_send_eapol(Entered(a, st), w)
                    IN  AuthOK(b) /\ Sends(a, b) /\ b.state = st
           /\ Entered(a, st).counter = a.counter /\ Entered(a, st).ANonce = a.ANonce
           /\ Entered(a, st).PTK = a.PTK
  <1> DEFINE c == Entered(a, st)
             n == a.TimeoutCtr + 1
             b == wpa_send_eapol(c, w)
  <1>1. a \in AuthType /\ n \in Nat
    BY DEF AuthOK, AuthType
  <1>2. c = [a EXCEPT !.state = st, !.TimeoutCtr = n]
    BY <1>1 DEF Entered, AuthType
  <1> HIDE DEF n, c
  <1>3. c \in AuthType
    BY <1>1, <1>2 DEF AuthType
  <1>4. /\ c.state = st /\ c.TimeoutCtr = n /\ c.counter = a.counter
        /\ c.key_replay = a.key_replay /\ c.assoc = a.assoc /\ c.ANonce = a.ANonce
        /\ c.PTK = a.PTK /\ c.PTK_valid = a.PTK_valid /\ c.pairwise = a.pairwise
    BY <1>1, <1>2 DEF AuthType
  <1>5. WindowOK(c)
    BY <1>4 DEF AuthOK, WindowOK
  <1>6. AuthOK(DISCONNECT(c)) /\ ~DISCONNECT(c).assoc
    BY <1>3, <1>5, DisconnectEffect
  <1>7. /\ b \in AuthType /\ WindowOK(b) /\ Sends(c, b)
        /\ b.state = c.state /\ b.TimeoutCtr = c.TimeoutCtr
    BY <1>3, <1>5, SendEffect
  <1> HIDE DEF b
  <1>8. Sends(a, b)
    BY <1>4, <1>7 DEF Sends
  <1>9. ASSUME ~(c.TimeoutCtr > UpdateCount)
        PROVE  AuthOK(b)
    <2>1. b.TimeoutCtr <= UpdateCount
      BY <1>1, <1>4, <1>7, <1>9, HandshakeBounds
    <2>2. b.PTK_valid => b.PTK # NoKey
      BY <1>8 DEF Sends, AuthOK
    <2> QED BY <1>7, <2>1, <2>2 DEF AuthOK
  <1> QED BY <1>4, <1>6, <1>7, <1>8, <1>9 DEF b, c

LEMMA StartEffect ==
    ASSUME NEW STATE a, AuthOK(a), PTKSTART(a)
    PROVE  /\ AuthOK(auth')
           /\ \/ ~auth'.assoc /\ down' = down
              \/ /\ Sends(a, auth') /\ auth'.state = "PTKSTART"
                 /\ down' = Append(down, Frame("1/4", auth'.counter, auth'.ANonce, NoKey))
  <1> DEFINE c == Entered(a, "PTKSTART")
             b == wpa_send_eapol(c, TRUE)
  <1>1. \/ auth' = DISCONNECT(c) /\ down' = down
        \/ /\ ~(c.TimeoutCtr > UpdateCount) /\ auth' = b
           /\ down' = Append(down, Frame("1/4", c.counter + 1, c.ANonce, NoKey))
    BY DEF PTKSTART, Entered
  <1>2. /\ AuthOK(DISCONNECT(c)) /\ ~DISCONNECT(c).assoc
        /\ ~(c.TimeoutCtr > UpdateCount) => AuthOK(b) /\ Sends(a, b) /\ b.state = "PTKSTART"
        /\ c.counter = a.counter /\ c.ANonce = a.ANonce
    BY EnterEffect
  <1> HIDE DEF c, b
  <1> QED BY <1>1, <1>2 DEF Sends

LEMMA NegotiateEffect ==
    ASSUME NEW STATE a, AuthOK(a), PTKINITNEGOTIATING(a)
    PROVE  /\ AuthOK(auth')
           /\ \/ ~auth'.assoc /\ down' = down
              \/ /\ Sends(a, auth') /\ auth'.state = "PTKINITNEGOTIATING"
                 /\ down' = Append(down, Frame("3/4", auth'.counter, auth'.ANonce, auth'.PTK))
  <1> DEFINE c == Entered(a, "PTKINITNEGOTIATING")
             b == wpa_send_eapol(c, FALSE)
  <1>1. \/ auth' = DISCONNECT(c) /\ down' = down
        \/ /\ ~(c.TimeoutCtr > UpdateCount) /\ auth' = b
           /\ down' = Append(down, Frame("3/4", c.counter + 1, c.ANonce, c.PTK))
    BY DEF PTKINITNEGOTIATING, Entered
  <1>2. /\ AuthOK(DISCONNECT(c)) /\ ~DISCONNECT(c).assoc
        /\ ~(c.TimeoutCtr > UpdateCount)
              => AuthOK(b) /\ Sends(a, b) /\ b.state = "PTKINITNEGOTIATING"
        /\ c.counter = a.counter /\ c.ANonce = a.ANonce /\ c.PTK = a.PTK
    BY EnterEffect
  <1> HIDE DEF c, b
  <1> QED BY <1>1, <1>2 DEF Sends

-----------------------------------------------------------------------------
\* How each kind of step keeps the two ends linked.

\* Only the replay counters that are acceptable change, or nothing that matters.
LEMMA LinkedSame ==
    ASSUME NEW a, NEW b, NEW s, NEW d, NEW u, NEW p, Linked(a, s, d, u, p),
           b.ANonce = a.ANonce, b.counter = a.counter, b.key_replay \subseteq a.key_replay,
           \/ Starting(a) /\ Starting(b)
           \/ /\ b.state = a.state /\ b.PTK = a.PTK /\ b.pairwise = a.pairwise
              /\ b.key_replay = a.key_replay
    PROVE  Linked(b, s, d, u, p)
  <1>1. \A n : KeyOf(b, n, p) = KeyOf(a, n, p)
    BY DEF KeyOf
  <1>2. Fresh(b, s, p) = Fresh(a, s, p)
    BY <1>1 DEF Fresh
  <1>3. SupOK(b, s, p)
    BY <1>1, <1>2 DEF Linked, SupOK
  <1>4. DownOK(b, s, d, p)
    BY <1>2 DEF Linked, DownOK
  <1>5. UpOK(b, s, u, p)
    BY <1>1 DEF Linked, UpOK
  <1>6. CASE Starting(a) /\ Starting(b)
    <2>1. StartOK(b, s, d, u)
      BY <1>6 DEF Linked, StartOK
    <2>2. ~Past(b)
      BY <1>6 DEF Starting, Past
    <2> QED BY <1>3, <1>4, <1>5, <1>6, <2>1, <2>2 DEF Linked
  <1>7. CASE /\ b.state = a.state /\ b.PTK = a.PTK /\ b.pairwise = a.pairwise
             /\ b.key_replay = a.key_replay
    <2>1. Starting(b) = Starting(a) /\ Past(b) = Past(a)
      BY <1>7 DEF Starting, Past
    <2>2. StartOK(a, s, d, u) => StartOK(b, s, d, u)
      BY <1>7 DEF StartOK
    <2>3. PastOK(a, s, d, u, p) => PastOK(b, s, d, u, p)
      BY <1>2, <1>7 DEF PastOK
    <2> QED BY <1>3, <1>4, <1>5, <2>1, <2>2, <2>3 DEF Linked
  <1> QED BY <1>6, <1>7

\* A frame sent: the keys stay, and so does what is on its way up.
LEMMA SentFacts ==
    ASSUME NEW a \in AuthType, NEW b, NEW s, NEW d, NEW u \in Seq(UpFrames), NEW p,
           Linked(a, s, d, u, p), b.ANonce = a.ANonce, b.counter = a.counter + 1
    PROVE  /\ \A n : KeyOf(b, n, p) = KeyOf(a, n, p)
           /\ Fresh(b, s, p) = Fresh(a, s, p)
           /\ SupOK(b, s, p) /\ UpOK(b, s, u, p)
  <1>1. \A n : KeyOf(b, n, p) = KeyOf(a, n, p)
    BY DEF KeyOf
  <1>2. Fresh(b, s, p) = Fresh(a, s, p)
    BY <1>1 DEF Fresh
  <1>3. SupOK(b, s, p)
    BY <1>1, <1>2 DEF Linked, SupOK
  <1>4. \A i \in 1 .. Len(u) : u[i].ctr <= a.counter => u[i].ctr <= b.counter
    <2>1. \A i \in 1 .. Len(u) : u[i].ctr \in Nat
      BY FrameFacts
    <2> QED BY <2>1 DEF AuthType
  <1>5. UpOK(b, s, u, p)
    BY <1>1, <1>4 DEF Linked, UpOK
  <1> QED BY <1>1, <1>2, <1>3, <1>5

\* Message 1/4 opens a handshake at any time.
LEMMA LinkedStart ==
    ASSUME NEW a \in AuthType, NEW b \in AuthType, Sends(a, b), b.state = "PTKSTART",
           NEW s, NEW d \in Seq(DownFrames), NEW u \in Seq(UpFrames), NEW p,
           Linked(a, s, d, u, p)
    PROVE  Linked(b, s, Append(d, Frame("1/4", b.counter, b.ANonce, NoKey)), u, p)
  <1> DEFINE f == Frame("1/4", b.counter, b.ANonce, NoKey)
             e == Append(d, f)
  <1>1. a.counter \in Nat /\ b.counter \in Nat /\ b.ANonce \in Nat
    BY DEF AuthType
  <1>2. f \in DownFrames /\ f.msg = "1/4" /\ f.ctr = b.counter /\ f.nonce = b.ANonce
    BY <1>1, NoKeyType DEF Frame, DownFrames
  <1> HIDE DEF f
  <1>3. /\ Len(d) \in Nat /\ Len(e) = Len(d) + 1
        /\ \A j \in 1 .. Len(e) : \/ j = Len(e) /\ e[j] = f
                                  \/ j \in 1 .. Len(d) /\ e[j] = d[j]
    BY <1>2, AppendFacts
  <1>4. \A i, j \in 1 .. Len(e) : i < j => i \in 1 .. Len(d)
    BY <1>3
  <1> HIDE DEF e
  <1>5. b.counter = a.counter + 1 /\ b.ANonce = a.ANonce
    BY DEF Sends
  <1>6. \A c \in Nat : c <= a.counter /\ c \in b.key_replay => c \in a.key_replay
    BY <1>1 DEF Sends
  <1>7. /\ \A i \in 1 .. Len(u) : u[i].ctr \in Nat
        /\ \A i \in 1 .. Len(d) : d[i].ctr \in Nat
    BY FrameFacts
  <1>d. \A i \in 1 .. Len(d) : /\ d[i].nonce = a.ANonce /\ d[i].ctr <= a.counter
                               /\ d[i].msg = "3/4" => d[i].mic = Fresh(a, s, p)
    BY DEF Linked, DownOK
  <1>8. /\ Fresh(b, s, p) = Fresh(a, s, p)
        /\ SupOK(b, s, p) /\ UpOK(b, s, u, p)
    BY <1>5, SentFacts
  <1>9. DownOK(b, s, e, p)
    <2>1. ASSUME NEW i \in 1 .. Len(e)
          PROVE  /\ e[i].nonce = b.ANonce /\ e[i].ctr <= b.counter
                 /\ e[i].msg = "3/4" => e[i].mic = Fresh(b, s, p)
      <3>1. CASE e[i] = f
        BY <1>1, <1>2, <3>1
      <3>2. CASE i \in 1 .. Len(d) /\ e[i] = d[i]
        BY <1>1, <1>5, <1>7, <1>8, <1>d, <3>2
      <3> QED BY <1>3, <3>1, <3>2
    <2>2. \A i, j, k \in 1 .. Len(e) :
             i < j /\ j < k /\ e[i].msg = "3/4" /\ e[j].msg = "1/4" => e[k].msg = "1/4"
      <3>1. \A i, j, k \in 1 .. Len(d) :
               i < j /\ j < k /\ d[i].msg = "3/4" /\ d[j].msg = "1/4" => d[k].msg = "1/4"
        BY DEF Linked, DownOK
      <3>2. TAKE i, j, k \in 1 .. Len(e)
      <3>3. HAVE i < j /\ j < k /\ e[i].msg = "3/4" /\ e[j].msg = "1/4"
      <3>4. i \in 1 .. Len(d) /\ j \in 1 .. Len(d) /\ e[i] = d[i] /\ e[j] = d[j]
        BY <1>3, <3>3
      <3> QED BY <1>2, <1>3, <3>1, <3>3, <3>4
    <2>3. s.renew_snonce => \A i, j \in 1 .. Len(e) : i < j /\ e[i].msg = "1/4" => e[j].msg = "1/4"
      <3>1. s.renew_snonce => \A i, j \in 1 .. Len(d) :
                                 i < j /\ d[i].msg = "1/4" => d[j].msg = "1/4"
        BY DEF Linked, DownOK
      <3> QED BY <1>2, <1>3, <3>1
    <2> QED BY <2>1, <2>2, <2>3 DEF DownOK
  <1>10. StartOK(b, s, e, u)
    <2>1. ASSUME NEW i \in 1 .. Len(u), u[i].msg = "2/4", u[i].ctr \in b.key_replay
          PROVE  /\ ~s.renew_snonce /\ u[i].nonce = s.snonce
                 /\ \A j \in 1 .. Len(e) : e[j].msg = "1/4"
      <3>1. u[i].ctr \in a.key_replay
        <4>1. u[i].ctr <= a.counter
          BY <2>1 DEF Linked, UpOK
        <4> QED BY <1>6, <1>7, <2>1, <4>1
      <3>2. Starting(a)
        BY <2>1, <3>1 DEF Linked, PastOK
      <3>3. /\ ~s.renew_snonce /\ u[i].nonce = s.snonce
            /\ \A j \in 1 .. Len(d) : d[j].msg = "1/4"
        BY <2>1, <3>1, <3>2 DEF Linked, StartOK
      <3> QED BY <1>2, <1>3, <3>3
    <2>2. ASSUME NEW i \in 1 .. Len(e), NEW j \in 1 .. Len(e), i < j,
                 e[i].msg = "1/4", e[i].ctr \in b.key_replay
          PROVE  e[j].msg = "1/4"
      <3>1. i \in 1 .. Len(d) /\ e[i] = d[i]
        BY <1>3, <2>2
      <3>2. d[i].ctr \in a.key_replay
        BY <1>6, <1>7, <1>d, <2>2, <3>1
      <3>3. Starting(a)
        BY <2>2, <3>1, <3>2 DEF Linked, PastOK
      <3>4. \A k \in 1 .. Len(d) : i < k => d[k].msg = "1/4"
        BY <2>2, <3>1, <3>2, <3>3 DEF Linked, StartOK
      <3> QED BY <1>2, <1>3, <2>2, <3>4
    <2> QED BY <2>1, <2>2 DEF StartOK
  <1>11. Starting(b) /\ ~Past(b)
    BY DEF Starting, Past
  <1> QED BY <1>8, <1>9, <1>10, <1>11 DEF Linked, e, f

\* From a to b, message 3/4 is sent for the first time or again.
Negotiates(a, b, s, d) ==
    \/ /\ Starting(a) /\ ~s.renew_snonce /\ \A i \in 1 .. Len(d) : d[i].msg = "1/4"
       /\ b.key_replay \subseteq {b.counter}
    \/ Past(a) /\ b.key_replay \subseteq a.key_replay \cup {b.counter}

\* Message 3/4 joins the link, where it is the first or follows others only.
LEMMA LinkedNegotiate ==
    ASSUME NEW a \in AuthType, NEW b \in AuthType, b.counter = a.counter + 1,
           b.ANonce = a.ANonce, b.state = "PTKINITNEGOTIATING",
           NEW s, NEW d \in Seq(DownFrames), NEW u \in Seq(UpFrames), NEW p,
           Linked(a, s, d, u, p), b.PTK = Fresh(a, s, p), Negotiates(a, b, s, d)
    PROVE  Linked(b, s, Append(d, Frame("3/4", b.counter, b.ANonce, b.PTK)), u, p)
  <1> DEFINE f == Frame("3/4", b.counter, b.ANonce, b.PTK)
             e == Append(d, f)
  <1>1. a.counter \in Nat /\ b.counter \in Nat /\ b.ANonce \in Nat /\ b.PTK \in Key
    BY DEF AuthType
  <1>2. /\ f \in DownFrames /\ f.msg = "3/4" /\ f.ctr = b.counter /\ f.nonce = b.ANonce
        /\ f.mic = b.PTK
    BY <1>1 DEF Frame, DownFrames
  <1> HIDE DEF f
  <1>3. /\ Len(d) \in Nat /\ Len(e) = Len(d) + 1
        /\ \A j \in 1 .. Len(e) : \/ j = Len(e) /\ e[j] = f
                                  \/ j \in 1 .. Len(d) /\ e[j] = d[j]
    BY <1>2, AppendFacts
  <1>4. \A i, j \in 1 .. Len(e) : i < j => i \in 1 .. Len(d) /\ e[i] = d[i]
    BY <1>3
  <1> HIDE DEF e
  <1>5. /\ \A i \in 1 .. Len(u) : u[i].ctr \in Nat
        /\ \A i \in 1 .. Len(d) : d[i].ctr \in Nat /\ d[i].msg \in {"1/4", "3/4"}
    BY FrameFacts
  <1>6. \A i \in 1 .. Len(d) : /\ d[i].nonce = a.ANonce /\ d[i].ctr <= a.counter
                               /\ d[i].msg = "3/4" => d[i].mic = Fresh(a, s, p)
    BY DEF Linked, DownOK
  <1>7. Fresh(b, s, p) = Fresh(a, s, p) /\ SupOK(b, s, p) /\ UpOK(b, s, u, p)
    <2>1. Linked(a, s, d, u, p) /\ b.ANonce = a.ANonce /\ b.counter = a.counter + 1
      OBVIOUS
    <2> QED BY ONLY <2>1, SentFacts, a \in AuthType, u \in Seq(UpFrames)
  \* Every 3/4 on its way is followed by others only, and a renewal is due only
  \* if nothing else is on its way.
  <1>8. /\ \A i, j \in 1 .. Len(e) : i < j /\ e[i].msg = "3/4" => e[j].msg = "3/4"
        /\ s.renew_snonce => s.ptk = b.PTK /\ \A i \in 1 .. Len(e) : e[i].msg = "3/4"
    <2>1. \A i, j \in 1 .. Len(d) : i < j /\ d[i].msg = "3/4" => d[j].msg = "3/4"
      BY DEF Linked, PastOK, Negotiates
    <2>2. s.renew_snonce => s.ptk = b.PTK /\ \A i \in 1 .. Len(d) : d[i].msg = "3/4"
      BY <1>7 DEF Linked, PastOK, Negotiates
    <2> QED BY <1>2, <1>3, <2>1, <2>2
  <1>9. DownOK(b, s, e, p)
    <2>1. ASSUME NEW i \in 1 .. Len(e)
          PROVE  /\ e[i].nonce = b.ANonce /\ e[i].ctr <= b.counter
                 /\ e[i].msg = "3/4" => e[i].mic = Fresh(b, s, p)
      <3>1. CASE e[i] = f
        BY <1>1, <1>2, <1>7, <3>1
      <3>2. CASE i \in 1 .. Len(d) /\ e[i] = d[i]
        BY <1>1, <1>5, <1>6, <1>7, <3>2
      <3> QED BY <1>3, <3>1, <3>2
    <2>2. \A i, j, k \in 1 .. Len(e) :
             i < j /\ j < k /\ e[i].msg = "3/4" /\ e[j].msg = "1/4" => e[k].msg = "1/4"
      BY <1>8
    <2>3. s.renew_snonce => \A i, j \in 1 .. Len(e) : i < j /\ e[i].msg = "1/4" => e[j].msg = "1/4"
      BY <1>8
    <2> QED BY <2>1, <2>2, <2>3 DEF DownOK
  <1>10. \A c \in Nat : c <= a.counter /\ c \in b.key_replay => Past(a) /\ c \in a.key_replay
    BY <1>1 DEF Negotiates
  <1>11. PastOK(b, s, e, u, p)
    <2>1. ASSUME NEW i \in 1 .. Len(u), u[i].msg = "2/4"
          PROVE  u[i].ctr \notin b.key_replay
      <3>1. u[i].ctr <= a.counter
        BY <2>1 DEF Linked, UpOK
      <3> QED BY <1>5, <1>10, <2>1, <3>1 DEF Linked, PastOK
    <2>2. ASSUME NEW i \in 1 .. Len(e), e[i].msg = "1/4"
          PROVE  e[i].ctr \notin b.key_replay
      <3>1. i \in 1 .. Len(d) /\ e[i] = d[i]
        BY <1>2, <1>3, <2>2
      <3>2. Past(a) => d[i].ctr \notin a.key_replay
        BY <2>2, <3>1 DEF Linked, PastOK
      <3> QED BY <1>5, <1>6, <1>10, <3>1, <3>2
    <2> QED BY <1>7, <1>8, <2>1, <2>2 DEF PastOK
  <1>12. Past(b) /\ ~Starting(b)
    BY DEF Starting, Past
  <1> QED BY <1>7, <1>9, <1>11, <1>12 DEF Linked, e, f

\* A message 2/4 that is accepted was made with the current SNonce.
LEMMA AcceptFacts ==
    ASSUME NEW a, NEW s, NEW d, NEW u, NEW p \in {"ap", "sta"}, Linked(a, s, d, u, p),
           Starting(a), NEW i \in 1 .. Len(u), u[i].msg = "2/4", u[i].ctr \in a.key_replay,
           u[i].mic = KeyOf(a, u[i].nonce, "ap")
    PROVE  /\ ~s.renew_snonce /\ u[i].mic = Fresh(a, s, p)
           /\ \A j \in 1 .. Len(d) : d[j].msg = "1/4"
  <1>1. u[i].mic = KeyOf(a, u[i].nonce, p)
    BY DEF Linked, UpOK
  <1>2. p = "ap"
    BY <1>1, KeyFacts
  <1>3. /\ ~s.renew_snonce /\ u[i].nonce = s.snonce
        /\ \A j \in 1 .. Len(d) : d[j].msg = "1/4"
    BY DEF Linked, StartOK
  <1> QED BY <1>1, <1>3 DEF Fresh

\* From a to b the handshake completes and the driver gets the key.
Completes(a, b) ==
    /\ a.state = "PTKINITNEGOTIATING" /\ b.state = "PTKINITDONE"
    /\ b.ANonce = a.ANonce /\ b.counter = a.counter /\ b.key_replay = {}
    /\ b.PTK = a.PTK /\ b.pairwise = a.PTK

\* Message 4/4 tells that the supplicant uses the key, so its driver has it.
LEMMA LinkedDone ==
    ASSUME NEW a, NEW b, NEW s, NEW d, NEW u, NEW p \in {"ap", "sta"}, Linked(a, s, d, u, p),
           Completes(a, b), NEW i \in 1 .. Len(u), u[i].msg = "4/4", u[i].mic = a.PTK
    PROVE  Linked(b, s, d, u, p)
  <1>1. \A n : KeyOf(b, n, p) = KeyOf(a, n, p)
    BY DEF KeyOf, Completes
  <1>2. Fresh(b, s, p) = Fresh(a, s, p)
    BY <1>1 DEF Fresh
  <1>3. SupOK(b, s, p)
    BY <1>1, <1>2 DEF Linked, SupOK
  <1>4. DownOK(b, s, d, p)
    BY <1>2 DEF Linked, DownOK, Completes
  <1>5. UpOK(b, s, u, p)
    BY <1>1 DEF Linked, UpOK, Completes
  <1>6. Past(a) /\ Past(b) /\ ~Starting(b)
    BY DEF Past, Starting, Completes
  <1>7. PastOK(a, s, d, u, p)
    BY <1>6 DEF Linked
  <1>8. s.renew_snonce
    <2>1. PICK n \in Nat : u[i].mic = KeyOf(a, n, p) /\ (n = s.snonce => s.renew_snonce)
      BY DEF Linked, UpOK
    <2>2. KeyOf(a, n, p) = KeyOf(a, s.snonce, p)
      BY <1>7, <2>1 DEF PastOK, Fresh
    <2>3. n = s.snonce
      BY <2>2, KeyFacts
    <2> QED BY <2>1, <2>3
  <1>9. PastOK(b, s, d, u, p)
    BY <1>2, <1>7, <1>8 DEF PastOK, Completes
  <1> QED BY <1>3, <1>4, <1>5, <1>6, <1>9 DEF Linked

\* From s to t the supplicant answers a message 1/4.
Answers(a, s, t, p) ==
    /\ t.snonce = (IF s.renew_snonce THEN s.snonce + 1 ELSE s.snonce)
    /\ ~t.renew_snonce /\ t.tptk = KeyOf(a, t.snonce, p) /\ t.ptk = s.ptk

\* Message 1/4 is answered.  A new SNonce is chosen only while no message 3/4 is
\* behind it and no message 2/4 of the old one can be accepted.
LEMMA LinkedAnswer ==
    ASSUME NEW a \in AuthType, NEW s \in SupType, NEW t \in SupType,
           NEW d \in Seq(DownFrames), NEW u \in Seq(UpFrames), NEW p \in {"ap", "sta"},
           Linked(a, s, d, u, p), NEW i \in 1 .. Len(d), d[i].msg = "1/4", Answers(a, s, t, p)
    PROVE  Linked(a, t, After(d, i), Append(u, Frame("2/4", d[i].ctr, t.snonce, t.tptk)), p)
  <1> DEFINE e == After(d, i)
             f == Frame("2/4", d[i].ctr, t.snonce, t.tptk)
             v == Append(u, f)
  <1>1. s.snonce \in Nat /\ t.snonce \in Nat /\ t.tptk \in Key /\ a.counter \in Nat
    BY DEF SupType, AuthType
  <1>2. d[i].ctr \in Nat /\ d[i].ctr <= a.counter
    BY FrameFacts DEF Linked, DownOK
  <1>3. /\ f \in UpFrames /\ f.msg = "2/4" /\ f.ctr = d[i].ctr /\ f.nonce = t.snonce
        /\ f.mic = t.tptk
    BY <1>1, <1>2 DEF Frame, UpFrames
  <1> HIDE DEF f
  <1>4. \A j \in 1 .. Len(v) : v[j] = f \/ (j \in 1 .. Len(u) /\ v[j] = u[j])
    BY <1>3, AppendFacts
  <1>5. \A j \in 1 .. Len(e) : e[j] = d[i + j] /\ i + j \in 1 .. Len(d) /\ i < i + j
    BY AfterFacts
  <1>6. Linked(a, s, e, u, p)
    BY LinkedDownAfter
  <1> HIDE DEF e, v
  <1> USE DEF Answers
  <1>b. Starting(a) \/ Past(a)
    BY DEF Linked
  <1>7. CASE s.renew_snonce
    <2>1. t.snonce = s.snonce + 1 /\ s.snonce < t.snonce
      BY <1>1, <1>7
    <2>2. \A j \in 1 .. Len(e) : e[j].msg = "1/4"
      <3>1. \A j \in 1 .. Len(d) : i < j => d[j].msg = "1/4"
        BY <1>7 DEF Linked, DownOK
      <3> QED BY <1>5, <3>1
    <2>3. SupOK(a, t, p)
      <3>1. t.ptk = NoKey \/ t.ptk = KeyOf(a, s.snonce, p)
        BY <1>7 DEF Linked, SupOK, Fresh
      <3> QED BY <1>1, <2>1, <3>1 DEF SupOK, Fresh
    <2>4. DownOK(a, t, e, p)
      <3>1. \A j \in 1 .. Len(e) : e[j].nonce = a.ANonce /\ e[j].ctr <= a.counter
        BY <1>6 DEF Linked, DownOK
      <3> QED BY <2>2, <3>1 DEF DownOK
    <2>5. UpOK(a, t, v, p)
      <3>1. ASSUME NEW j \in 1 .. Len(v), v[j] = f
            PROVE  v[j].msg = "2/4" /\ v[j].ctr <= a.counter /\ v[j].mic = KeyOf(a, v[j].nonce, p)
        BY <1>2, <1>3, <3>1
      <3>2. ASSUME NEW j \in 1 .. Len(u), u[j].msg # "2/4"
            PROVE  \E n \in Nat : /\ u[j].mic = KeyOf(a, n, p) /\ n <= t.snonce
                                  /\ n = t.snonce => t.renew_snonce
        <4>1. PICK n \in Nat : u[j].mic = KeyOf(a, n, p) /\ n <= s.snonce
          BY <3>2 DEF Linked, UpOK
        <4>2. n <= t.snonce /\ n # t.snonce
          BY <1>1, <2>1, <4>1
        <4> QED BY <4>1, <4>2
      <3>3. \A j \in 1 .. Len(u) : u[j].msg = "2/4"
               => u[j].ctr <= a.counter /\ u[j].mic = KeyOf(a, u[j].nonce, p)
        BY DEF Linked, UpOK
      <3> QED BY <1>4, <3>1, <3>2, <3>3 DEF UpOK
    <2>6. Starting(a) => StartOK(a, t, e, v)
      <3>1. ASSUME Starting(a), NEW j \in 1 .. Len(v), v[j].msg = "2/4", v[j].ctr \in a.key_replay
            PROVE  v[j].nonce = t.snonce
        <4>1. ASSUME j \in 1 .. Len(u), v[j] = u[j]
              PROVE  FALSE
          <5>1. ~s.renew_snonce
            BY <3>1, <4>1 DEF Linked, StartOK
          <5> QED BY <1>7, <5>1
        <4> QED BY <1>3, <1>4, <4>1
      <3> QED BY <2>2, <3>1 DEF StartOK
    <2>7. ~Past(a)
      BY <1>7 DEF Linked, PastOK
    <2> QED BY <1>b, <2>3, <2>4, <2>5, <2>6, <2>7 DEF Linked, e, v, f
  <1>8. CASE ~s.renew_snonce
    <2>1. t.snonce = s.snonce /\ t.tptk = Fresh(a, s, p) /\ Fresh(a, t, p) = Fresh(a, s, p)
      BY <1>8 DEF Fresh
    <2>2. SupOK(a, t, p)
      BY <1>8, <2>1 DEF Linked, SupOK
    <2>3. DownOK(a, t, e, p)
      BY <1>6, <2>1 DEF Linked, DownOK
    <2>4. UpOK(a, t, v, p)
      <3>1. ASSUME NEW j \in 1 .. Len(v), v[j] = f
            PROVE  v[j].msg = "2/4" /\ v[j].ctr <= a.counter /\ v[j].mic = KeyOf(a, v[j].nonce, p)
        BY <1>2, <1>3, <3>1
      <3>2. UpOK(a, t, u, p)
        BY <1>8, <2>1 DEF Linked, UpOK
      <3> QED BY <1>4, <3>1, <3>2 DEF UpOK
    <2>5. Starting(a) => StartOK(a, t, e, v)
      <3>1. ASSUME Starting(a), NEW j \in 1 .. Len(v), v[j].msg = "2/4", v[j].ctr \in a.key_replay
            PROVE  v[j].nonce = t.snonce /\ \A k \in 1 .. Len(e) : e[k].msg = "1/4"
        <4>1. CASE v[j] = f
          <5>1. \A k \in 1 .. Len(d) : i < k => d[k].msg = "1/4"
            BY <1>3, <3>1, <4>1 DEF Linked, StartOK
          <5> QED BY <1>3, <1>5, <4>1, <5>1
        <4>2. CASE j \in 1 .. Len(u) /\ v[j] = u[j]
          BY <1>6, <2>1, <3>1, <4>2 DEF Linked, StartOK
        <4> QED BY <1>4, <4>1, <4>2
      <3>2. Starting(a) => \A j, k \in 1 .. Len(e) :
               j < k /\ e[j].msg = "1/4" /\ e[j].ctr \in a.key_replay => e[k].msg = "1/4"
        BY <1>6 DEF Linked, StartOK
      <3> QED BY <3>1, <3>2 DEF StartOK
    <2>6. Past(a) => PastOK(a, t, e, v, p)
      <3>1. ASSUME Past(a)
            PROVE  PastOK(a, s, e, u, p) /\ d[i].ctr \notin a.key_replay
        BY <1>6, <3>1 DEF Linked, PastOK
      <3>2. ASSUME Past(a), NEW j \in 1 .. Len(v), v[j].msg = "2/4"
            PROVE  v[j].ctr \notin a.key_replay
        BY <1>3, <1>4, <3>1, <3>2 DEF PastOK
      <3> QED BY <1>8, <2>1, <3>1, <3>2 DEF PastOK
    <2> QED BY <1>b, <2>2, <2>3, <2>4, <2>5, <2>6 DEF Linked, e, v, f
  <1> QED BY <1>7, <1>8 DEF e, v, f

\* Message 3/4 is answered and its key goes to the driver.
LEMMA LinkedInstall ==
    ASSUME NEW a \in AuthType, NEW s \in SupType, NEW t \in SupType,
           NEW d \in Seq(DownFrames), NEW u \in Seq(UpFrames), NEW p \in {"ap", "sta"},
           Linked(a, s, d, u, p), NEW i \in 1 .. Len(d), d[i].msg = "3/4",
           t.snonce = s.snonce, t.renew_snonce, t.tptk = NoKey, t.ptk = Fresh(a, s, p),
           t.pairwise = t.ptk
    PROVE  Linked(a, t, After(d, i), Append(u, Frame("4/4", d[i].ctr, 0, t.ptk)), p)
  <1> DEFINE e == After(d, i)
             f == Frame("4/4", d[i].ctr, 0, t.ptk)
             v == Append(u, f)
  <1>1. s.snonce \in Nat /\ t.ptk \in Key
    BY DEF SupType
  <1>2. d[i].ctr \in Nat
    BY FrameFacts
  <1>3. f \in UpFrames /\ f.msg = "4/4" /\ f.mic = KeyOf(a, s.snonce, p)
    BY <1>1, <1>2 DEF Frame, UpFrames, Fresh
  <1> HIDE DEF f
  <1>4. \A j \in 1 .. Len(v) : v[j] = f \/ (j \in 1 .. Len(u) /\ v[j] = u[j])
    BY <1>3, AppendFacts
  <1>5. \A j \in 1 .. Len(e) : e[j] = d[i + j] /\ i + j \in 1 .. Len(d) /\ i < i + j
    BY AfterFacts
  <1>6. \A j, k \in 1 .. Len(e) : j < k => i + j < i + k
    BY AfterFacts
  <1>7. Linked(a, s, e, u, p)
    BY LinkedDownAfter
  <1> HIDE DEF e, v
  <1>8. Fresh(a, t, p) = Fresh(a, s, p)
    BY DEF Fresh
  <1>9. SupOK(a, t, p)
    BY <1>8 DEF SupOK
  <1>10. DownOK(a, t, e, p)
    <2>1. \A j, k \in 1 .. Len(e) : j < k /\ e[j].msg = "1/4" => e[k].msg = "1/4"
      <3>1. \A j, k \in 1 .. Len(d) : i < j /\ j < k /\ d[j].msg = "1/4" => d[k].msg = "1/4"
        BY DEF Linked, DownOK
      <3> QED BY <1>5, <1>6, <3>1
    <2> QED BY <1>7, <1>8, <2>1 DEF Linked, DownOK
  <1>11. UpOK(a, t, v, p)
    <2>1. ASSUME NEW j \in 1 .. Len(v), v[j] = f
          PROVE  /\ v[j].msg # "2/4"
                 /\ \E n \in Nat : /\ v[j].mic = KeyOf(a, n, p) /\ n <= t.snonce
                                   /\ n = t.snonce => t.renew_snonce
      BY <1>1, <1>3, <2>1
    <2>2. UpOK(a, t, u, p)
      BY DEF Linked, UpOK
    <2> QED BY <1>4, <2>1, <2>2 DEF UpOK
  <1>12. Starting(a) => StartOK(a, t, e, v)
    <2>1. ASSUME Starting(a), NEW j \in 1 .. Len(v), v[j].msg = "2/4", v[j].ctr \in a.key_replay
          PROVE  FALSE
      <3>1. j \in 1 .. Len(u) /\ v[j] = u[j]
        BY <1>3, <1>4, <2>1
      <3>2. d[i].msg = "1/4"
        BY <2>1, <3>1 DEF Linked, StartOK
      <3> QED BY <3>2
    <2>2. Starting(a) => \A j, k \in 1 .. Len(e) :
             j < k /\ e[j].msg = "1/4" /\ e[j].ctr \in a.key_replay => e[k].msg = "1/4"
      BY <1>7 DEF Linked, StartOK
    <2> QED BY <2>1, <2>2 DEF StartOK
  <1>13. ASSUME Past(a)
         PROVE  PastOK(a, t, e, v, p)
    <2>1. PastOK(a, s, e, u, p)
      BY <1>7, <1>13 DEF Linked
    <2>2. \A j \in 1 .. Len(e) : e[j].msg = "3/4"
      <3>1. \A j \in 1 .. Len(d) : i < j => d[j].msg = "3/4"
        BY <1>13 DEF Linked, PastOK
      <3> QED BY <1>5, <3>1
    <2>3. \A j \in 1 .. Len(v) : v[j].msg = "2/4" => v[j].ctr \notin a.key_replay
      BY <1>3, <1>4, <2>1 DEF PastOK
    <2> QED BY <1>8, <2>1, <2>2, <2>3 DEF PastOK
  <1> QED BY <1>7, <1>9, <1>10, <1>11, <1>12, <1>13 DEF Linked, e, v, f

\* A request for a new key is made with the key in use.
LEMMA LinkedRequest ==
    ASSUME NEW a, NEW s \in SupType, NEW d, NEW u \in Seq(UpFrames), NEW p \in {"ap", "sta"},
           Linked(a, s, d, u, p), s.ptk # NoKey, NEW n \in Nat
    PROVE  Linked(a, s, d, Append(u, Frame("request", n, 0, s.ptk)), p)
  <1> DEFINE f == Frame("request", n, 0, s.ptk)
             v == Append(u, f)
  <1>1. s.snonce \in Nat /\ s.ptk \in Key
    BY DEF SupType
  <1>2. f \in UpFrames /\ f.msg = "request" /\ f.mic = s.ptk
    BY <1>1 DEF Frame, UpFrames
  <1> HIDE DEF f
  <1>3. \A j \in 1 .. Len(v) : v[j] = f \/ (j \in 1 .. Len(u) /\ v[j] = u[j])
    BY <1>2, AppendFacts
  <1> HIDE DEF v
  <1>4. \E m \in Nat : /\ s.ptk = KeyOf(a, m, p) /\ m <= s.snonce
                       /\ m = s.snonce => s.renew_snonce
    <2>1. CASE s.renew_snonce
      BY <1>1, <2>1 DEF Linked, SupOK, Fresh
    <2>2. CASE ~s.renew_snonce
      <3>1. PICK m \in Nat : m < s.snonce /\ s.ptk = KeyOf(a, m, p)
        BY <2>2 DEF Linked, SupOK
      <3>2. m <= s.snonce /\ m # s.snonce
        BY <1>1, <3>1
      <3> QED BY <3>1, <3>2
    <2> QED BY <2>1, <2>2
  <1>5. UpOK(a, s, v, p)
    <2>1. UpOK(a, s, u, p)
      BY DEF Linked
    <2> QED BY <1>2, <1>3, <1>4, <2>1 DEF UpOK
  <1>6. Starting(a) => StartOK(a, s, d, v)
    <2>1. ASSUME Starting(a)
          PROVE  StartOK(a, s, d, u)
      BY <2>1 DEF Linked
    <2> QED BY <1>2, <1>3, <2>1 DEF StartOK
  <1>7. Past(a) => PastOK(a, s, d, v, p)
    <2>1. ASSUME Past(a)
          PROVE  PastOK(a, s, d, u, p)
      BY <2>1 DEF Linked
    <2> QED BY <1>2, <1>3, <2>1 DEF PastOK
  <1> QED BY <1>5, <1>6, <1>7 DEF Linked, v, f

-----------------------------------------------------------------------------
\* The remaining changes to the authenticator's record.

\* b differs from a in nothing that ties the two ends together.
SameAuth(a, b) ==
    /\ b.state = a.state /\ b.assoc = a.assoc /\ b.ANonce = a.ANonce
    /\ b.counter = a.counter /\ b.key_replay = a.key_replay
    /\ b.PTK = a.PTK /\ b.pairwise = a.pairwise

LEMMA LeaveEffect ==
    ASSUME NEW a, AuthOK(a)
    PROVE  /\ AuthOK(wpa_sta_disconnect(a)) /\ ~wpa_sta_disconnect(a).assoc
           /\ AuthOK([INITIALIZE(a) EXCEPT !.assoc = FALSE])
           /\ ~[INITIALIZE(a) EXCEPT !.assoc = FALSE].assoc
  <1>1. a \in AuthType
    BY DEF AuthOK
  <1>2. ASSUME NEW b, b = wpa_sta_disconnect(a)
        PROVE  AuthOK(b) /\ ~b.assoc
    <2>1. b \in AuthType
      BY <1>1, <1>2 DEF wpa_sta_disconnect, AuthType
    <2>2. /\ b.counter = a.counter /\ b.key_replay = a.key_replay /\ ~b.assoc
          /\ b.PTK = a.PTK /\ b.PTK_valid = a.PTK_valid /\ b.TimeoutCtr = a.TimeoutCtr
      BY <1>1, <1>2 DEF wpa_sta_disconnect, AuthType
    <2> QED BY <2>1, <2>2 DEF AuthOK, WindowOK
  <1>3. ASSUME NEW b, b = [INITIALIZE(a) EXCEPT !.assoc = FALSE]
        PROVE  AuthOK(b) /\ ~b.assoc
    <2>1. b \in AuthType
      BY <1>1, <1>3, NoKeyType DEF INITIALIZE, wpa_remove_ptk, AuthType
    <2>2. /\ b.counter = a.counter /\ b.key_replay = a.key_replay /\ ~b.assoc
          /\ ~b.PTK_valid /\ b.TimeoutCtr = 0
      BY <1>1, <1>3 DEF INITIALIZE, wpa_remove_ptk, AuthType
    <2>3. b.TimeoutCtr <= UpdateCount
      BY <2>2, HandshakeBounds
    <2> QED BY <2>1, <2>2, <2>3 DEF AuthOK, WindowOK
  <1> QED BY <1>2, <1>3

LEMMA InitEffect == AuthOK(wpa_auth_sta_init) /\ ~wpa_auth_sta_init.assoc
  <1> DEFINE b == wpa_auth_sta_init
  <1>1. b \in AuthType
    BY NoKeyType DEF wpa_auth_sta_init, AuthType, Counters
  <1>2. b.key_replay = {} /\ b.TimeoutCtr = 0 /\ ~b.PTK_valid /\ ~b.assoc
    BY DEF wpa_auth_sta_init
  <1> HIDE DEF b
  <1>3. b.TimeoutCtr <= UpdateCount
    BY <1>2, HandshakeBounds
  <1> QED BY <1>1, <1>2, <1>3 DEF AuthOK, WindowOK, b

LEMMA TimerEffect ==
    ASSUME NEW a, AuthOK(a), NEW n \in Nat
    PROVE  /\ AuthOK([a EXCEPT !.timers = n])
           /\ SameAuth(a, [a EXCEPT !.timers = n])
           /\ AuthOK([a EXCEPT !.timers = n, !.pending_1_of_4 = FALSE])
           /\ SameAuth(a, [a EXCEPT !.timers = n, !.pending_1_of_4 = FALSE])
  <1>1. a \in AuthType
    BY DEF AuthOK
  <1>2. ASSUME NEW b, \/ b = [a EXCEPT !.timers = n]
                     \/ b = [a EXCEPT !.timers = n, !.pending_1_of_4 = FALSE]
        PROVE  AuthOK(b) /\ SameAuth(a, b)
    <2>1. b \in AuthType
      BY <1>1, <1>2 DEF AuthType
    <2>2. SameAuth(a, b) /\ b.PTK_valid = a.PTK_valid /\ b.TimeoutCtr = a.TimeoutCtr
      BY <1>1, <1>2 DEF SameAuth, AuthType
    <2> QED BY <2>1, <2>2 DEF AuthOK, WindowOK, SameAuth
  <1> QED BY <1>2

\* The two ways into wpa_request_new_ptk().
LEMMA RenewEffect ==
    ASSUME NEW a, AuthOK(a), NEW n \in Nat, NEW b,
           \/ b = [[a EXCEPT !.timers = 0, !.pending_1_of_4 = FALSE, !.req_counter = n]
                      EXCEPT !.PTK_valid = FALSE]
           \/ b = [[a EXCEPT !.rekey_timer = FALSE] EXCEPT !.PTK_valid = FALSE]
    PROVE  AuthOK(b) /\ SameAuth(a, b)
  <1>1. a \in AuthType
    BY DEF AuthOK
  <1>2. b \in AuthType
    <2>1. CASE b = [[a EXCEPT !.timers = 0, !.pending_1_of_4 = FALSE, !.req_counter = n]
                      EXCEPT !.PTK_valid = FALSE]
      BY <1>1, <2>1 DEF AuthType
    <2>2. CASE b = [[a EXCEPT !.rekey_timer = FALSE] EXCEPT !.PTK_valid = FALSE]
      BY <1>1, <2>2 DEF AuthType
    <2> QED BY <2>1, <2>2
  <1>3. SameAuth(a, b) /\ ~b.PTK_valid /\ b.TimeoutCtr = a.TimeoutCtr
    BY <1>1 DEF SameAuth, AuthType
  <1> QED BY <1>2, <1>3 DEF AuthOK, WindowOK, SameAuth

\* PTKCALCNEGOTIATING, with the MIC of the message wrong or right.
LEMMA CalculateEffect ==
    ASSUME NEW a, AuthOK(a), NEW k \in Key, k # NoKey
    PROVE  LET b == [[a EXCEPT !.key_replay = {}] EXCEPT !.state = "PTKCALCNEGOTIATING"]
               c == [b EXCEPT !.timers = 0, !.pending_1_of_4 = FALSE, !.PTK = k,
                              !.PTK_valid = TRUE, !.TimeoutCtr = 0]
           IN  /\ AuthOK(b) /\ b.state = "PTKCALCNEGOTIATING"
               /\ AuthOK(c) /\ c.PTK = k
               /\ \A x \in {b, c} : /\ x.key_replay = {} /\ x.counter = a.counter
                                    /\ x.ANonce = a.ANonce /\ x.assoc = a.assoc
  <1> DEFINE b == [[a EXCEPT !.key_replay = {}] EXCEPT !.state = "PTKCALCNEGOTIATING"]
             c == [b EXCEPT !.timers = 0, !.pending_1_of_4 = FALSE, !.PTK = k,
                            !.PTK_valid = TRUE, !.TimeoutCtr = 0]
  <1>1. a \in AuthType /\ {} \in Counters
    BY DEF AuthOK, Counters
  <1>2. b \in AuthType
    BY <1>1 DEF AuthType
  <1>3. /\ b.state = "PTKCALCNEGOTIATING" /\ b.key_replay = {} /\ b.counter = a.counter
        /\ b.ANonce = a.ANonce /\ b.assoc = a.assoc
        /\ b.PTK = a.PTK /\ b.PTK_valid = a.PTK_valid /\ b.TimeoutCtr = a.TimeoutCtr
    BY <1>1 DEF AuthType
  <1> HIDE DEF b
  <1>4. c \in AuthType
    BY <1>2 DEF AuthType
  <1>5. /\ c.key_replay = b.key_replay /\ c.counter = b.counter
        /\ c.ANonce = b.ANonce /\ c.assoc = b.assoc
        /\ c.PTK = k /\ c.TimeoutCtr = 0
    BY <1>2 DEF AuthType
  <1> HIDE DEF c
  <1>6. c.TimeoutCtr <= UpdateCount
    BY <1>5, HandshakeBounds
  <1>7. AuthOK(b)
    BY <1>2, <1>3 DEF AuthOK, WindowOK
  <1>8. AuthOK(c)
    BY <1>3, <1>4, <1>5, <1>6 DEF AuthOK, WindowOK
  <1> QED BY <1>3, <1>5, <1>7, <1>8 DEF b, c

LEMMA DoneEffect ==
    ASSUME NEW a, AuthOK(a), NEW ok \in BOOLEAN
    PROVE  LET b == PTKINITDONE([a EXCEPT !.key_replay = {}], ok)
           IN  /\ AuthOK(b) /\ b.assoc = (a.assoc /\ ok)
               /\ b.state = "PTKINITDONE" /\ b.key_replay = {} /\ b.counter = a.counter
               /\ b.ANonce = a.ANonce /\ b.PTK = a.PTK
               /\ ok => b.pairwise = a.PTK
  <1> DEFINE c == [a EXCEPT !.key_replay = {}]
             b == PTKINITDONE(c, ok)
  <1>1. a \in AuthType /\ {} \in Counters
    BY DEF AuthOK, Counters
  <1>2. /\ c \in AuthType /\ c.key_replay = {} /\ c.counter = a.counter /\ c.assoc = a.assoc
        /\ c.ANonce = a.ANonce /\ c.PTK = a.PTK /\ c.PTK_valid = a.PTK_valid
        /\ c.TimeoutCtr = a.TimeoutCtr
    BY <1>1 DEF AuthType
  <1> HIDE DEF c
  <1>3. /\ b \in AuthType /\ b.key_replay = {} /\ b.counter = a.counter
        /\ b.ANonce = a.ANonce /\ b.PTK = a.PTK /\ b.PTK_valid = a.PTK_valid
        /\ b.TimeoutCtr = a.TimeoutCtr /\ b.state = "PTKINITDONE"
        /\ b.assoc = (a.assoc /\ ok) /\ (ok => b.pairwise = a.PTK)
    <2>1. CASE ok
      BY <1>2, <2>1 DEF PTKINITDONE, AuthType
    <2>2. CASE ~ok
      BY <1>2, <2>2 DEF PTKINITDONE, wpa_sta_disconnect, AuthType
    <2> QED BY <2>1, <2>2
  <1> HIDE DEF b
  <1>4. AuthOK(b)
    BY <1>3 DEF AuthOK, WindowOK
  <1> QED BY <1>3, <1>4 DEF b, c

-----------------------------------------------------------------------------
LEMMA InitInv == Init => Inv
  <1> SUFFICES ASSUME Init PROVE Inv
    OBVIOUS
  <1>1. AuthOK(auth) /\ ~auth.assoc
    BY InitEffect DEF Init
  <1>2. sup \in SupType
    BY NoKeyType DEF Init, SupType
  <1>3. down \in Seq(DownFrames) /\ up \in Seq(UpFrames) /\ used \in UsedType
    BY DEF Init, UsedType
  <1> QED BY <1>1, <1>2, <1>3 DEF Inv

LEMMA StepAssociate == Inv /\ Associate => Inv'
  <1> SUFFICES ASSUME Inv, Associate PROVE Inv'
    OBVIOUS
  <1> DEFINE a == wpa_remove_ptk(auth)
             b == IF auth.assoc THEN a ELSE [a EXCEPT !.key_replay = {}, !.counter = 0]
             n == used.assoc + 1
             c == [b EXCEPT !.started = TRUE, !.assoc = TRUE, !.ANonce = n, !.req_counter = 0,
                            !.TimeoutCtr = 1, !.state = "PTKSTART"]
             m == Frame("1/4", b.counter + 1, n, NoKey)
  <1>1. auth \in AuthType /\ WindowOK(auth) /\ sup \in SupType
    BY DEF Inv, AuthOK
  <1>2. used' \in UsedType /\ n \in Nat
    BY DEF Inv, Associate, UsedType
  <1>3. auth' = wpa_send_eapol(c, TRUE) /\ down' = <<m>> /\ up' = <<>>
    BY DEF Associate
  <1> HIDE DEF n
  <1>4. a \in AuthType /\ a.key_replay = auth.key_replay /\ a.counter = auth.counter /\ ~a.PTK_valid
    BY <1>1, NoKeyType DEF wpa_remove_ptk, AuthType
  <1> HIDE DEF a
  <1>5. b \in AuthType /\ WindowOK(b) /\ ~b.PTK_valid
    <2>1. CASE auth.assoc
      BY <1>1, <1>4, <2>1 DEF WindowOK
    <2>2. CASE ~auth.assoc
      <3>1. {} \in Counters
        BY DEF Counters
      <3>2. b \in AuthType /\ b.key_replay = {} /\ ~b.PTK_valid
        BY <1>4, <2>2, <3>1 DEF AuthType
      <3> QED BY <3>2 DEF WindowOK
    <2> QED BY <2>1, <2>2
  <1> HIDE DEF b
  <1>6. /\ c \in AuthType /\ c.key_replay = b.key_replay /\ c.counter = b.counter
        /\ c.ANonce = n /\ c.TimeoutCtr = 1 /\ c.state = "PTKSTART" /\ c.PTK_valid = b.PTK_valid
    BY <1>2, <1>5 DEF AuthType
  <1> HIDE DEF c
  <1>7. WindowOK(c)
    BY <1>5, <1>6 DEF WindowOK
  <1>8. /\ auth' \in AuthType /\ WindowOK(auth)' /\ Sends(c, auth')
        /\ auth'.state = "PTKSTART" /\ auth'.TimeoutCtr = 1
    BY <1>3, <1>6, <1>7, SendEffect DEF WindowOK
  <1>9. AuthOK(auth)'
    <2>1. auth'.TimeoutCtr <= UpdateCount
      BY <1>8, HandshakeBounds
    <2>2. ~auth'.PTK_valid
      BY <1>5, <1>6, <1>8 DEF Sends
    <2> QED BY <1>8, <2>1, <2>2 DEF AuthOK
  <1>10. /\ sup' \in SupType
         /\ sup'.renew_snonce /\ sup'.tptk = NoKey /\ sup'.ptk = NoKey
    BY <1>1, NoKeyType DEF Associate, SupType
  <1>11. auth'.counter \in Nat /\ auth'.counter = b.counter + 1 /\ auth'.ANonce = n
    BY <1>6, <1>8 DEF Sends, AuthType
  <1>12. /\ m \in DownFrames /\ m.msg = "1/4" /\ m.ctr = auth'.counter /\ m.nonce = auth'.ANonce
    BY <1>2, <1>11, NoKeyType DEF Frame, DownFrames
  <1> HIDE DEF m
  <1>13. /\ down' \in Seq(DownFrames) /\ up' \in Seq(UpFrames) /\ Len(up') = 0 /\ Len(down') = 1
         /\ \A i \in 1 .. Len(down') : i = 1 /\ down'[i] = m
    BY <1>3, <1>12
  <1>14. ASSUME NEW p
         PROVE  Linked(auth', sup', down', up', p)
    <2>1. Starting(auth') /\ ~Past(auth')
      BY <1>8 DEF Starting, Past
    <2>2. SupOK(auth', sup', p)
      BY <1>10 DEF SupOK
    <2>3. DownOK(auth', sup', down', p)
      BY <1>11, <1>12, <1>13 DEF DownOK
    <2>4. UpOK(auth', sup', up', p)
      BY <1>13 DEF UpOK
    <2>5. StartOK(auth', sup', down', up')
      BY <1>12, <1>13 DEF StartOK
    <2> QED BY <2>1, <2>2, <2>3, <2>4, <2>5 DEF Linked
  <1> QED BY <1>2, <1>9, <1>10, <1>13, <1>14 DEF Inv, AuthOK, Linked

\* What remains to be shown of a step that leaves the configuration alone.
LEMMA StepFrom ==
    ASSUME UNCHANGED setup, AuthOK(auth'), sup' \in SupType, down' \in Seq(DownFrames),
           up' \in Seq(UpFrames), used' \in UsedType,
           auth'.assoc /\ sup'.assoc => Linked(auth', sup', down', up', Psk)
    PROVE  Inv'
  <1>1. Psk' = Psk
    BY DEF Psk
  <1>2. Linked(auth', sup', down', up', Psk) = Linked(auth, sup, down, up, Psk)'
    BY <1>1 DEF Linked, Starting, Past, SupOK, DownOK, UpOK, StartOK, PastOK, Fresh, KeyOf
  <1>3. AuthOK(auth)'
    BY DEF AuthOK, WindowOK, AuthType
  <1> QED BY <1>2, <1>3 DEF Inv

\* A step into PTKSTART from a record a that agrees with the present one.
LEMMA StepStart ==
    ASSUME Inv, NEW STATE a, AuthOK(a), SameAuth(auth, a), PTKSTART(a),
           up' = up \/ \E i \in 1 .. Len(up) : up' = After(up, i),
           UNCHANGED <<sup, setup>>, used' \in UsedType
    PROVE  Inv'
  <1> DEFINE f == Frame("1/4", auth'.counter, auth'.ANonce, NoKey)
  <1>1. /\ AuthOK(auth')
        /\ \/ ~auth'.assoc /\ down' = down
           \/ Sends(a, auth') /\ auth'.state = "PTKSTART" /\ down' = Append(down, f)
    BY StartEffect
  <1>2. /\ auth \in AuthType /\ a \in AuthType /\ auth' \in AuthType /\ sup \in SupType
        /\ down \in Seq(DownFrames) /\ up \in Seq(UpFrames)
    BY <1>1 DEF Inv, AuthOK
  <1>3. up' \in Seq(UpFrames)
    BY <1>2, AfterFacts
  <1>4. f \in DownFrames
    BY <1>2, NoKeyType DEF Frame, DownFrames, AuthType
  <1> HIDE DEF f
  <1>5. down' \in Seq(DownFrames)
    BY <1>1, <1>2, <1>4
  <1>6. ASSUME auth'.assoc, sup'.assoc
        PROVE  Linked(auth', sup', down', up', Psk)
    <2>1. Sends(a, auth') /\ auth'.state = "PTKSTART" /\ down' = Append(down, f)
      BY <1>1, <1>6
    <2>2. Linked(auth, sup, down, up, Psk)
      BY <1>6, <2>1 DEF Sends, SameAuth, Inv
    <2>3. Linked(auth, sup, down, up', Psk)
      BY <1>2, <2>2, LinkedUpAfter
    <2>4. Linked(a, sup, down, up', Psk)
      BY <2>3, LinkedSame DEF SameAuth
    <2>5. Linked(auth', sup, Append(down, f), up', Psk)
      BY <1>2, <1>3, <2>1, <2>4, LinkedStart DEF f
    <2> QED BY <2>1, <2>5
  <1> QED BY <1>1, <1>2, <1>3, <1>5, <1>6, StepFrom

LEMMA StepRx2 ==
    ASSUME Inv, NEW i \in DOMAIN up, rx_2_of_4(i)
    PROVE  Inv'
  <1>1. /\ AuthOK(auth) /\ auth \in AuthType /\ sup \in SupType
        /\ down \in Seq(DownFrames) /\ up \in Seq(UpFrames) /\ i \in 1 .. Len(up)
    BY DEF Inv, AuthOK
  <1>2. /\ up[i].msg = "2/4" /\ up[i].ctr \in auth.key_replay /\ Starting(auth)
        /\ up' = After(up, i) /\ auth.assoc
        /\ UNCHANGED <<sup, setup, used>>
    BY DEF rx_2_of_4, Receives, Starting
  <1>3. up' \in Seq(UpFrames) /\ used' \in UsedType /\ sup' \in SupType
    BY <1>1, <1>2, AfterFacts DEF Inv
  <1>4. CASE auth' = wpa_sta_disconnect(auth) /\ UNCHANGED down
    BY <1>1, <1>2, <1>3, <1>4, LeaveEffect, StepFrom
  <1>5. CASE PTKCALCNEGOTIATING([auth EXCEPT !.key_replay = {}], up[i])
    <2> DEFINE k == KeyOf(auth, up[i].nonce, "ap")
               a == [auth EXCEPT !.key_replay = {}]
               b == [a EXCEPT !.state = "PTKCALCNEGOTIATING"]
               c == [b EXCEPT !.timers = 0, !.pending_1_of_4 = FALSE, !.PTK = k,
                              !.PTK_valid = TRUE, !.TimeoutCtr = 0]
    <2>1. a.ANonce = auth.ANonce
      BY <1>1 DEF AuthType
    <2>2. \/ up[i].mic # k /\ auth' = b /\ UNCHANGED down
          \/ up[i].mic = k /\ PTKINITNEGOTIATING(c)
      BY <1>5, <2>1 DEF PTKCALCNEGOTIATING, KeyOf
    <2>3. k \in Key /\ k # NoKey
      BY <1>1, FrameFacts, KeyFacts DEF AuthType
    <2> HIDE DEF k
    <2>4. /\ AuthOK(b) /\ b.state = "PTKCALCNEGOTIATING"
          /\ AuthOK(c) /\ c.PTK = k
          /\ \A x \in {b, c} : /\ x.key_replay = {} /\ x.counter = auth.counter
                               /\ x.ANonce = auth.ANonce /\ x.assoc = auth.assoc
      BY <1>1, <2>3, CalculateEffect
    <2> HIDE DEF a, b, c
    <2>5. sup.assoc => Linked(auth, sup, down, up', Psk)
      BY <1>1, <1>2, LinkedUpAfter DEF Inv
    <2>6. CASE up[i].mic # k /\ auth' = b /\ UNCHANGED down
      <3>1. Starting(b)
        BY <2>4 DEF Starting
      <3>2. sup.assoc => Linked(b, sup, down, up', Psk)
        BY <1>2, <2>4, <2>5, <3>1, LinkedSame
      <3>3. auth' = b /\ down' = down /\ sup' = sup /\ setup' = setup
        BY <1>2, <2>6
      <3> QED BY <1>1, <1>3, <2>4, <3>2, <3>3, StepFrom
    <2>7. CASE up[i].mic = k /\ PTKINITNEGOTIATING(c)
      <3> DEFINE f == Frame("3/4", auth'.counter, auth'.ANonce, auth'.PTK)
      <3>1. /\ AuthOK(auth')
            /\ \/ ~auth'.assoc /\ down' = down
               \/ Sends(c, auth') /\ auth'.state = "PTKINITNEGOTIATING" /\ down' = Append(down, f)
        BY <2>4, <2>7, NegotiateEffect
      <3>2. auth' \in AuthType
        BY <3>1 DEF AuthOK
      <3>3. f \in DownFrames
        BY <3>2 DEF Frame, DownFrames, AuthType
      <3> HIDE DEF f
      <3>4. down' \in Seq(DownFrames)
        BY <1>1, <3>1, <3>3
      <3>5. ASSUME auth'.assoc, sup'.assoc
            PROVE  Linked(auth', sup', down', up', Psk)
        <4>1. Sends(c, auth') /\ auth'.state = "PTKINITNEGOTIATING" /\ down' = Append(down, f)
          BY <3>1, <3>5
        <4>2. Linked(auth, sup, down, up, Psk) /\ Linked(auth, sup, down, up', Psk)
          BY <1>2, <2>5, <3>5 DEF Inv
        <4>3. /\ ~sup.renew_snonce /\ k = Fresh(auth, sup, Psk)
              /\ \A j \in 1 .. Len(down) : down[j].msg = "1/4"
          BY <1>1, <1>2, <2>7, <4>2, AcceptFacts, PskType DEF k
        <4>4. /\ auth'.counter = auth.counter + 1 /\ auth'.ANonce = auth.ANonce
              /\ auth'.PTK = Fresh(auth, sup, Psk) /\ auth'.key_replay \subseteq {auth'.counter}
          BY <2>4, <4>1, <4>3 DEF Sends
        <4>5. Negotiates(auth, auth', sup, down)
          BY <1>2, <4>3, <4>4 DEF Negotiates
        <4>6. Linked(auth', sup, Append(down, f), up', Psk)
          BY <1>1, <1>3, <3>2, <4>1, <4>2, <4>4, <4>5, LinkedNegotiate DEF f
        <4> QED BY <1>2, <4>1, <4>6
      <3> QED BY <1>2, <1>3, <3>1, <3>4, <3>5, StepFrom
    <2> QED BY <2>2, <2>6, <2>7
  <1> QED BY <1>4, <1>5 DEF rx_2_of_4

LEMMA StepRx4 ==
    ASSUME Inv, NEW i \in DOMAIN up, NEW ok \in BOOLEAN, rx_4_of_4(i, ok)
    PROVE  Inv'
  <1>1. /\ AuthOK(auth) /\ sup \in SupType
        /\ down \in Seq(DownFrames) /\ up \in Seq(UpFrames) /\ i \in 1 .. Len(up)
    BY DEF Inv
  <1>2. /\ up[i].msg = "4/4" /\ up[i].mic = auth.PTK /\ auth.state = "PTKINITNEGOTIATING"
        /\ up' = After(up, i) /\ auth.assoc
        /\ auth' = PTKINITDONE([auth EXCEPT !.key_replay = {}], ok)
        /\ UNCHANGED <<sup, down, setup, used>>
    BY DEF rx_4_of_4, Receives
  <1>3. up' \in Seq(UpFrames) /\ used' \in UsedType /\ sup' \in SupType /\ down' \in Seq(DownFrames)
    BY <1>1, <1>2, AfterFacts DEF Inv
  <1>4. /\ AuthOK(auth') /\ auth'.assoc = (auth.assoc /\ ok)
        /\ auth'.state = "PTKINITDONE" /\ auth'.key_replay = {} /\ auth'.counter = auth.counter
        /\ auth'.ANonce = auth.ANonce /\ auth'.PTK = auth.PTK
        /\ ok => auth'.pairwise = auth.PTK
    BY <1>1, <1>2, DoneEffect
  <1>5. ASSUME auth'.assoc, sup'.assoc
        PROVE  Linked(auth', sup', down', up', Psk)
    <2>1. auth'.pairwise = auth.PTK /\ Linked(auth, sup, down, up, Psk)
      BY <1>2, <1>4, <1>5 DEF Inv
    <2>2. Completes(auth, auth')
      BY <1>2, <1>4, <2>1 DEF Completes
    <2>3. Linked(auth', sup, down, up, Psk)
      BY <1>1, <1>2, <2>1, <2>2, LinkedDone, PskType
    <2> QED BY <1>1, <1>2, <2>3, LinkedUpAfter
  <1> QED BY <1>2, <1>3, <1>4, <1>5, StepFrom

LEMMA StepRequest ==
    ASSUME Inv, NEW i \in DOMAIN up, rx_request(i)
    PROVE  Inv'
  <1> DEFINE a == [[auth EXCEPT !.timers = 0, !.pending_1_of_4 = FALSE, !.req_counter = up[i].ctr]
                     EXCEPT !.PTK_valid = FALSE]
  <1>1. AuthOK(auth) /\ up \in Seq(UpFrames) /\ i \in 1 .. Len(up) /\ used \in UsedType
    BY DEF Inv
  <1>2. up[i].ctr \in Nat
    BY <1>1, FrameFacts
  <1>3. AuthOK(a) /\ SameAuth(auth, a)
    BY <1>1, <1>2, RenewEffect
  <1>4. PTKSTART(a) /\ up' = After(up, i) /\ UNCHANGED <<sup, setup, used>>
    BY DEF rx_request, Receives, wpa_request_new_ptk
  <1> HIDE DEF a
  <1> QED BY <1>1, <1>3, <1>4, StepStart

LEMMA StepTimeout == Inv /\ wpa_send_eapol_timeout => Inv'
  <1> SUFFICES ASSUME Inv, wpa_send_eapol_timeout PROVE Inv'
    OBVIOUS
  <1> DEFINE a == [auth EXCEPT !.timers = @ - 1, !.pending_1_of_4 = FALSE]
  <1>1. /\ AuthOK(auth) /\ auth \in AuthType /\ sup \in SupType /\ used \in UsedType
        /\ down \in Seq(DownFrames) /\ up \in Seq(UpFrames)
    BY DEF Inv, AuthOK
  <1>2. AuthOK(a) /\ SameAuth(auth, a)
    <2>1. auth.timers - 1 \in Nat
      BY <1>1 DEF wpa_send_eapol_timeout, AuthType
    <2>2. a = [auth EXCEPT !.timers = auth.timers - 1, !.pending_1_of_4 = FALSE]
      BY <1>1 DEF AuthType
    <2> QED BY <1>1, <2>1, <2>2, TimerEffect
  <1>3. /\ \/ PTKSTART(a)
           \/ auth.state = "PTKINITNEGOTIATING" /\ PTKINITNEGOTIATING(a)
           \/ auth' = a /\ UNCHANGED down
        /\ UNCHANGED <<sup, up, setup, used>>
    BY DEF wpa_send_eapol_timeout
  <1> HIDE DEF a
  <1>4. sup.assoc /\ auth.assoc => Linked(a, sup, down, up, Psk)
    BY <1>2, LinkedSame DEF Inv, SameAuth
  <1>5. CASE PTKSTART(a)
    BY <1>1, <1>2, <1>3, <1>5, StepStart
  <1>6. CASE auth.state = "PTKINITNEGOTIATING" /\ PTKINITNEGOTIATING(a)
    <2> DEFINE f == Frame("3/4", auth'.counter, auth'.ANonce, auth'.PTK)
    <2>1. /\ AuthOK(auth')
          /\ \/ ~auth'.assoc /\ down' = down
             \/ Sends(a, auth') /\ auth'.state = "PTKINITNEGOTIATING" /\ down' = Append(down, f)
      BY <1>2, <1>6, NegotiateEffect
    <2>2. auth' \in AuthType /\ a \in AuthType
      BY <1>2, <2>1 DEF AuthOK
    <2>3. f \in DownFrames
      BY <2>2 DEF Frame, DownFrames, AuthType
    <2> HIDE DEF f
    <2>4. down' \in Seq(DownFrames)
      BY <1>1, <2>1, <2>3
    <2>5. ASSUME auth'.assoc, sup'.assoc
          PROVE  Linked(auth', sup', down', up', Psk)
      <3>1. Sends(a, auth') /\ auth'.state = "PTKINITNEGOTIATING" /\ down' = Append(down, f)
        BY <2>1, <2>5
      <3>2. Linked(a, sup, down, up, Psk)
        BY <1>2, <1>3, <1>4, <2>5, <3>1 DEF Sends, SameAuth
      <3>3. Past(a)
        BY <1>2, <1>6 DEF Past, SameAuth
      <3>4. /\ auth'.counter = a.counter + 1 /\ auth'.ANonce = a.ANonce
            /\ auth'.PTK = Fresh(a, sup, Psk)
        BY <3>1, <3>2, <3>3 DEF Sends, Linked, PastOK
      <3>5. Negotiates(a, auth', sup, down)
        BY <3>1, <3>3 DEF Negotiates, Sends
      <3>6. Linked(auth', sup, Append(down, f), up, Psk)
        BY ONLY <1>1, <2>2, <3>1, <3>2, <3>4, <3>5, LinkedNegotiate DEF f
      <3> QED BY <1>3, <3>1, <3>6
    <2> QED BY <1>1, <1>3, <2>1, <2>4, <2>5, StepFrom
  <1>7. CASE auth' = a /\ UNCHANGED down
    <2>1. auth'.assoc = auth.assoc
      BY <1>2, <1>7 DEF SameAuth
    <2>2. /\ AuthOK(auth') /\ sup' \in SupType /\ used' \in UsedType
          /\ down' \in Seq(DownFrames) /\ up' \in Seq(UpFrames) /\ setup' = setup
          /\ auth'.assoc /\ sup'.assoc => Linked(auth', sup', down', up', Psk)
      BY <1>1, <1>2, <1>3, <1>4, <1>7, <2>1
    <2> QED BY <2>2, StepFrom
  <1> QED BY <1>3, <1>5, <1>6, <1>7

LEMMA StepTxStatus == Inv /\ wpa_auth_eapol_key_tx_status => Inv'
  <1> SUFFICES ASSUME Inv, wpa_auth_eapol_key_tx_status PROVE Inv'
    OBVIOUS
  <1>1. /\ auth' = [auth EXCEPT !.timers = 1]
        /\ UNCHANGED <<sup, down, up, setup, used>>
    BY DEF wpa_auth_eapol_key_tx_status
  <1>2. AuthOK(auth') /\ SameAuth(auth, auth')
    BY <1>1, TimerEffect DEF Inv
  <1>3. auth'.assoc /\ sup.assoc => Linked(auth', sup, down, up, Psk)
    BY <1>2, LinkedSame DEF Inv, SameAuth
  <1>4. /\ sup' \in SupType /\ used' \in UsedType
        /\ down' \in Seq(DownFrames) /\ up' \in Seq(UpFrames) /\ setup' = setup
        /\ auth'.assoc /\ sup'.assoc => Linked(auth', sup', down', up', Psk)
    BY <1>1, <1>3 DEF Inv
  <1> QED BY <1>2, <1>4, StepFrom

LEMMA StepRekey == Inv /\ wpa_rekey_ptk => Inv'
  <1> SUFFICES ASSUME Inv, wpa_rekey_ptk PROVE Inv'
    OBVIOUS
  <1> DEFINE a == [[auth EXCEPT !.rekey_timer = FALSE] EXCEPT !.PTK_valid = FALSE]
  <1>1. AuthOK(auth)
    BY DEF Inv
  <1>2. AuthOK(a) /\ SameAuth(auth, a)
    <2>1. 0 \in Nat
      OBVIOUS
    <2> QED BY <1>1, <2>1, RenewEffect
  <1>3. PTKSTART(a) /\ UNCHANGED <<sup, up, setup>>
    BY DEF wpa_rekey_ptk, wpa_request_new_ptk
  <1>4. used' \in UsedType
    BY DEF Inv, wpa_rekey_ptk, UsedType
  <1> HIDE DEF a
  <1> QED BY <1>2, <1>3, <1>4, StepStart

LEMMA StepGone == Inv /\ (handle_disassoc \/ ap_free_sta) => Inv'
  <1> SUFFICES ASSUME Inv, handle_disassoc \/ ap_free_sta PROVE Inv'
    OBVIOUS
  <1>1. UNCHANGED <<sup, down, up, setup, used>>
    BY DEF handle_disassoc, ap_free_sta
  <1>2. AuthOK(auth') /\ ~auth'.assoc
    BY LeaveEffect, InitEffect DEF Inv, handle_disassoc, ap_free_sta
  <1>3. /\ sup' \in SupType /\ used' \in UsedType
        /\ down' \in Seq(DownFrames) /\ up' \in Seq(UpFrames) /\ setup' = setup
    BY <1>1 DEF Inv
  <1> QED BY <1>2, <1>3, StepFrom

LEMMA StepProcess1 ==
    ASSUME Inv, NEW i \in DOMAIN down, process_1_of_4(i)
    PROVE  Inv'
  <1> DEFINE n == IF sup.renew_snonce THEN sup.snonce + 1 ELSE sup.snonce
             k == <<down[i].nonce, n, Psk>>
             f == Frame("2/4", down[i].ctr, n, k)
  <1>1. /\ AuthOK(auth) /\ auth \in AuthType /\ sup \in SupType /\ used \in UsedType
        /\ down \in Seq(DownFrames) /\ up \in Seq(UpFrames) /\ i \in 1 .. Len(down)
    BY DEF Inv, AuthOK
  <1>2. /\ sup' = [sup EXCEPT !.snonce = n, !.renew_snonce = FALSE, !.tptk = k,
                               !.anonce = down[i].nonce, !.completed = FALSE]
        /\ up' = Append(up, f) /\ down' = After(down, i) /\ down[i].msg = "1/4"
        /\ UNCHANGED <<auth, setup, used>>
    BY DEF process_1_of_4, Hears
  <1>3. n \in Nat /\ down[i].nonce \in Nat /\ down[i].ctr \in Nat
    BY <1>1, FrameFacts DEF SupType
  <1>4. k \in Key
    BY <1>3, PskType DEF Key
  <1>5. down[i].nonce = auth.ANonce => k = KeyOf(auth, n, Psk)
    BY DEF KeyOf
  <1>6. n = (IF sup.renew_snonce THEN sup.snonce + 1 ELSE sup.snonce)
    OBVIOUS
  <1> HIDE DEF k, n
  <1>7. /\ sup' \in SupType /\ sup'.snonce = n /\ ~sup'.renew_snonce /\ sup'.tptk = k
        /\ sup'.ptk = sup.ptk /\ sup'.assoc = sup.assoc
    BY <1>1, <1>2, <1>3, <1>4 DEF SupType
  <1>8. up' \in Seq(UpFrames)
    <2>1. f \in UpFrames
      BY <1>3, <1>4 DEF Frame, UpFrames
    <2> QED BY <1>1, <1>2, <2>1, AppendFacts
  <1>9. down' \in Seq(DownFrames)
    BY <1>1, <1>2, AfterFacts
  <1>10. ASSUME auth'.assoc, sup'.assoc
         PROVE  Linked(auth', sup', down', up', Psk)
    <2>1. Linked(auth, sup, down, up, Psk)
      BY <1>2, <1>7, <1>10 DEF Inv
    <2>2. down[i].nonce = auth.ANonce
      BY <1>1, <2>1 DEF Linked, DownOK
    <2>3. sup'.tptk = KeyOf(auth, sup'.snonce, Psk)
      BY <1>5, <1>7, <2>2
    <2>4. Answers(auth, sup, sup', Psk)
      BY <1>6, <1>7, <2>3 DEF Answers
    <2>5. /\ auth \in AuthType /\ sup \in SupType /\ sup' \in SupType
          /\ down \in Seq(DownFrames) /\ up \in Seq(UpFrames)
          /\ i \in 1 .. Len(down) /\ down[i].msg = "1/4"
      BY <1>1, <1>2, <1>7
    <2>6. Linked(auth, sup', After(down, i),
                 Append(up, Frame("2/4", down[i].ctr, sup'.snonce, sup'.tptk)), Psk)
      BY ONLY <2>1, <2>4, <2>5, LinkedAnswer, PskType
    <2> QED BY <1>2, <1>7, <2>6
  <1> QED BY <1>1, <1>2, <1>7, <1>8, <1>9, <1>10, StepFrom

\* wpa_supplicant_verify_eapol_key_mic(): the key that fits becomes the key in use.
LEMMA VerifyEffect ==
    ASSUME sup \in SupType, NEW m, m.mic \in Key, m.ctr \in Nat, verify_eapol_key_mic(m).ok
    PROVE  LET s == verify_eapol_key_mic(m).s
           IN  /\ s \in SupType /\ s.snonce = sup.snonce /\ s.renew_snonce = sup.renew_snonce
               /\ s.assoc = sup.assoc /\ s.ptk = m.mic
               /\ s.tptk = NoKey \/ (s.tptk = sup.tptk /\ m.mic # sup.tptk)
  <1> DEFINE v == verify_eapol_key_mic(m)
  <1>1. CASE sup.tptk # NoKey /\ m.mic = sup.tptk
    <2>1. v.s = [sup EXCEPT !.ptk = sup.tptk, !.tptk = NoKey, !.rx_counter = m.ctr]
      BY <1>1 DEF verify_eapol_key_mic
    <2> HIDE DEF v
    <2>2. /\ v.s \in SupType /\ v.s.snonce = sup.snonce /\ v.s.renew_snonce = sup.renew_snonce
          /\ v.s.assoc = sup.assoc /\ v.s.ptk = sup.tptk /\ v.s.tptk = NoKey
      BY <2>1, NoKeyType DEF SupType
    <2> QED BY <1>1, <2>2 DEF v
  <1>2. CASE ~(sup.tptk # NoKey /\ m.mic = sup.tptk)
    <2>1. m.mic = sup.ptk /\ v.s = [sup EXCEPT !.rx_counter = m.ctr]
      BY <1>2 DEF verify_eapol_key_mic
    <2> HIDE DEF v
    <2>2. /\ v.s \in SupType /\ v.s.snonce = sup.snonce /\ v.s.renew_snonce = sup.renew_snonce
          /\ v.s.assoc = sup.assoc /\ v.s.ptk = sup.ptk /\ v.s.tptk = sup.tptk
      BY <2>1 DEF SupType
    <2> QED BY <1>2, <2>1, <2>2 DEF v
  <1> QED BY <1>1, <1>2

LEMMA ClearEffect ==
    ASSUME NEW s \in SupType
    PROVE  clear_connection(s) \in SupType /\ ~clear_connection(s).assoc
  BY NoKeyType DEF clear_connection, SupType

LEMMA StepProcess3 ==
    ASSUME Inv, NEW i \in DOMAIN down, NEW ok \in BOOLEAN, process_3_of_4(i, ok)
    PROVE  Inv'
  <1> DEFINE m == down[i]
             s == verify_eapol_key_mic(m).s
             f == Frame("4/4", m.ctr, 0, s.ptk)
  <1>1. /\ AuthOK(auth) /\ auth \in AuthType /\ sup \in SupType /\ used \in UsedType
        /\ down \in Seq(DownFrames) /\ up \in Seq(UpFrames) /\ i \in 1 .. Len(down)
    BY DEF Inv, AuthOK
  <1>2. m.mic \in Key /\ m.ctr \in Nat
    BY <1>1, FrameFacts
  <1>3. /\ verify_eapol_key_mic(m).ok
        /\ \/ sup' = clear_connection(s) /\ up' = up
           \/ /\ sup' = (IF ok THEN [s EXCEPT !.renew_snonce = TRUE, !.pairwise = s.ptk,
                                              !.completed = TRUE]
                                ELSE clear_connection([s EXCEPT !.renew_snonce = TRUE]))
              /\ up' = Append(up, f)
        /\ sup.assoc /\ m.msg = "3/4" /\ down' = After(down, i) /\ UNCHANGED <<auth, setup, used>>
    BY DEF process_3_of_4, Hears
  <1>4. /\ s \in SupType /\ s.snonce = sup.snonce /\ s.renew_snonce = sup.renew_snonce
        /\ s.assoc = sup.assoc /\ s.ptk = m.mic
        /\ s.tptk = NoKey \/ (s.tptk = sup.tptk /\ m.mic # sup.tptk)
    BY <1>1, <1>2, <1>3, VerifyEffect
  <1>5. down' \in Seq(DownFrames)
    BY <1>1, <1>3, AfterFacts
  <1>6. f \in UpFrames
    BY <1>2, <1>4 DEF Frame, UpFrames
  <1> HIDE DEF s, f
  <1>7. up' \in Seq(UpFrames)
    BY <1>1, <1>3, <1>6, AppendFacts
  <1>8. CASE sup' = clear_connection(s)
    BY <1>1, <1>3, <1>4, <1>5, <1>7, <1>8, ClearEffect, StepFrom
  <1>9. CASE sup' = clear_connection([s EXCEPT !.renew_snonce = TRUE])
    <2>1. [s EXCEPT !.renew_snonce = TRUE] \in SupType
      BY <1>4 DEF SupType
    <2> QED BY <1>1, <1>3, <1>5, <1>7, <1>9, <2>1, ClearEffect, StepFrom
  <1>10. CASE /\ sup' = [s EXCEPT !.renew_snonce = TRUE, !.pairwise = s.ptk, !.completed = TRUE]
              /\ up' = Append(up, f)
    <2>1. s.ptk \in Key
      BY <1>4 DEF SupType
    <2>2. /\ sup' \in SupType /\ sup'.snonce = s.snonce /\ sup'.renew_snonce
          /\ sup'.tptk = s.tptk /\ sup'.ptk = s.ptk /\ sup'.pairwise = s.ptk
      BY <1>4, <1>10, <2>1 DEF SupType
    <2>3. ASSUME auth'.assoc, sup'.assoc
          PROVE  Linked(auth', sup', down', up', Psk)
      <3>1. Linked(auth, sup, down, up, Psk)
        BY <1>3, <2>3 DEF Inv
      <3>2. m.mic = Fresh(auth, sup, Psk)
        BY <1>1, <1>3, <3>1 DEF Linked, DownOK
      <3>3. sup'.tptk = NoKey
        BY <1>4, <2>2, <3>1, <3>2 DEF Linked, SupOK
      <3>4. /\ sup'.snonce = sup.snonce /\ sup'.renew_snonce
            /\ sup'.ptk = Fresh(auth, sup, Psk) /\ sup'.pairwise = sup'.ptk
        BY <1>4, <2>2, <3>2
      <3>5. Linked(auth, sup', After(down, i), Append(up, Frame("4/4", m.ctr, 0, sup'.ptk)), Psk)
        BY ONLY <1>1, <1>3, <2>2, <3>1, <3>3, <3>4, LinkedInstall, PskType
      <3> QED BY <1>3, <1>10, <2>2, <3>5 DEF f
    <2> QED BY <1>1, <1>3, <1>5, <1>7, <2>2, <2>3, StepFrom
  <1> QED BY <1>3, <1>8, <1>9, <1>10

LEMMA StepKeyRequest == Inv /\ wpa_sm_key_request => Inv'
  <1> SUFFICES ASSUME Inv, wpa_sm_key_request PROVE Inv'
    OBVIOUS
  <1> DEFINE f == Frame("request", used.request + 1, 0, sup.ptk)
  <1>1. /\ AuthOK(auth) /\ sup \in SupType /\ used.request + 1 \in Nat
        /\ down \in Seq(DownFrames) /\ up \in Seq(UpFrames)
    BY DEF Inv, UsedType
  <1>2. /\ up' = Append(up, f) /\ sup.assoc /\ sup.ptk # NoKey
        /\ UNCHANGED <<auth, sup, down, setup>>
    BY DEF wpa_sm_key_request
  <1>3. used' \in UsedType
    BY DEF Inv, wpa_sm_key_request, UsedType
  <1>4. up' \in Seq(UpFrames)
    <2>1. f \in UpFrames
      BY <1>1 DEF Frame, UpFrames, SupType
    <2> QED BY <1>1, <1>2, <2>1, AppendFacts
  <1>5. auth'.assoc /\ sup'.assoc => Linked(auth', sup', down', up', Psk)
    <2> SUFFICES ASSUME auth'.assoc, sup'.assoc PROVE Linked(auth', sup', down', up', Psk)
      OBVIOUS
    <2>1. Linked(auth, sup, down, up, Psk)
      BY <1>2 DEF Inv
    <2>2. Linked(auth, sup, down, Append(up, f), Psk)
      BY <1>1, <1>2, <2>1, LinkedRequest, PskType
    <2> QED BY <1>2, <2>2
  <1> QED BY <1>1, <1>2, <1>3, <1>4, <1>5, StepFrom

LEMMA StepLeave == Inv /\ Leave => Inv'
  <1> SUFFICES ASSUME Inv, Leave PROVE Inv'
    OBVIOUS
  <1>1. sup' = clear_connection(sup) /\ UNCHANGED <<auth, down, up, setup, used>>
    BY DEF Leave
  <1>2. sup' \in SupType /\ ~sup'.assoc
    BY <1>1, ClearEffect DEF Inv
  <1>3. /\ AuthOK(auth') /\ used' \in UsedType
        /\ down' \in Seq(DownFrames) /\ up' \in Seq(UpFrames) /\ setup' = setup
    BY <1>1 DEF Inv
  <1> QED BY <1>2, <1>3, StepFrom

LEMMA StutterInv == Inv /\ UNCHANGED vars => Inv'
  <1> SUFFICES ASSUME Inv, UNCHANGED vars PROVE Inv'
    OBVIOUS
  <1>1. /\ auth' = auth /\ sup' = sup /\ down' = down /\ up' = up /\ used' = used
        /\ setup' = setup
    BY DEF vars
  <1> QED BY <1>1, StepFrom DEF Inv

-----------------------------------------------------------------------------
\* The two ends of the handshake and the frames between them stay tied together
\* (Inv) in every step of wpa_auth.c and wpa.c, however many frames are lost.
THEOREM Invariance == Spec => []Inv
  <1>1. Inv /\ [Next]_vars => Inv'
    <2> SUFFICES ASSUME Inv, [Next]_vars PROVE Inv'
      OBVIOUS
    <2>1. CASE Associate
      BY <2>1, StepAssociate
    <2>2. CASE \E i \in DOMAIN up : rx_2_of_4(i)
      BY <2>2, StepRx2
    <2>3. CASE \E i \in DOMAIN up : \E ok \in BOOLEAN : rx_4_of_4(i, ok)
      BY <2>3, StepRx4
    <2>4. CASE \E i \in DOMAIN up : rx_request(i)
      BY <2>4, StepRequest
    <2>5. CASE wpa_send_eapol_timeout
      BY <2>5, StepTimeout
    <2>6. CASE wpa_auth_eapol_key_tx_status
      BY <2>6, StepTxStatus
    <2>7. CASE wpa_rekey_ptk
      BY <2>7, StepRekey
    <2>8. CASE handle_disassoc \/ ap_free_sta
      BY <2>8, StepGone
    <2>9. CASE \E i \in DOMAIN down : process_1_of_4(i)
      BY <2>9, StepProcess1
    <2>10. CASE \E i \in DOMAIN down : \E ok \in BOOLEAN : process_3_of_4(i, ok)
      BY <2>10, StepProcess3
    <2>11. CASE wpa_sm_key_request
      BY <2>11, StepKeyRequest
    <2>12. CASE Leave
      BY <2>12, StepLeave
    <2>13. CASE UNCHANGED vars
      BY <2>13, StutterInv
    <2> QED BY <2>1, <2>2, <2>3, <2>4, <2>5, <2>6, <2>7, <2>8, <2>9, <2>10, <2>11, <2>12,
               <2>13 DEF Next
  <1> QED BY <1>1, InitInv, PTL DEF Spec

\* The authenticator never transmits a message more often than
\* dot11RSNAConfigPairwiseUpdateCount without disconnecting the station, accepts
\* at most RSNA_MAX_EAPOL_RETRIES replay counters, all of them sent, and takes
\* no zeroed PTK for valid.
THEOREM TypeCorrect == Spec => []TypeOK
  <1>1. Inv => TypeOK
    <2> SUFFICES ASSUME Inv PROVE TypeOK
      OBVIOUS
    <2>1. auth \in AuthType /\ sup \in SupType /\ auth.TimeoutCtr <= UpdateCount
      BY DEF Inv, AuthOK
    <2>2. auth.counter \in Nat /\ auth.key_replay \subseteq Nat /\ auth.TimeoutCtr \in Nat
      BY <2>1 DEF AuthType, Counters
    <2>3. auth.TimeoutCtr \in 0 .. UpdateCount
      BY <2>1, <2>2, HandshakeBounds
    <2>4. auth.key_replay \subseteq 1 .. auth.counter
      BY <2>2 DEF Inv, AuthOK, WindowOK
    <2>5. Cardinality(auth.key_replay) <= ReplayWindow
      <3> DEFINE l == auth.counter + 1 - ReplayWindow
      <3>1. auth.key_replay \subseteq l .. auth.counter
        BY <2>2, HandshakeBounds DEF Inv, AuthOK, WindowOK
      <3>a. l \in Int /\ auth.counter \in Int /\ l = auth.counter + 1 - ReplayWindow
        BY <2>2, HandshakeBounds
      <3> HIDE DEF l
      <3>b. /\ IsFiniteSet(l .. auth.counter)
            /\ Cardinality(l .. auth.counter) = IF l > auth.counter THEN 0 ELSE auth.counter - l + 1
        BY <3>a, FS_Interval
      <3>2. /\ IsFiniteSet(l .. auth.counter)
            /\ Cardinality(l .. auth.counter) <= ReplayWindow
        BY <2>2, <3>a, <3>b, HandshakeBounds
      <3>3. Cardinality(auth.key_replay) <= Cardinality(l .. auth.counter)
        BY <3>1, <3>2, FS_Subset
      <3>4. IsFiniteSet(auth.key_replay)
        BY <3>1, <3>2, FS_Subset
      <3>5. Cardinality(auth.key_replay) \in Nat /\ Cardinality(l .. auth.counter) \in Nat
        BY <3>2, <3>4, FS_CardinalityType
      <3> QED BY <3>2, <3>3, <3>5, HandshakeBounds
    <2>6. auth.PTK_valid => auth.PTK # NoKey
      BY DEF Inv, AuthOK
    <2> QED BY <2>1, <2>3, <2>4, <2>5, <2>6 DEF TypeOK, AuthType, SupType
  <1> QED BY <1>1, Invariance, PTL

\* When message 4/4 has completed the handshake, wpa_auth.c and wpa.c have given
\* their drivers the same key, whatever the link lost or delayed.
THEOREM SameKeyInstalled == Spec => []KeysAgree
  <1>1. Inv => KeysAgree
    <2> SUFFICES ASSUME Inv, auth.state = "PTKINITDONE", auth.assoc, sup.assoc
                 PROVE  auth.pairwise # NoKey /\ sup.pairwise = auth.pairwise
      BY DEF KeysAgree
    <2>1. Past(auth) /\ Linked(auth, sup, down, up, Psk)
      BY DEF Inv, Past
    <2>2. /\ auth.PTK = Fresh(auth, sup, Psk) /\ sup.renew_snonce
          /\ auth.pairwise = auth.PTK /\ sup.ptk = auth.PTK
      BY <2>1 DEF Linked, PastOK
    <2>3. auth.PTK # NoKey
      BY <2>2, KeyFacts, PskType DEF Fresh
    <2>4. sup.pairwise = sup.ptk
      BY <2>1, <2>2, <2>3 DEF Linked, SupOK
    <2> QED BY <2>2, <2>3, <2>4
  <1> QED BY <1>1, Invariance, PTL

\* While message 4/4 is awaited, wpa_supplicant_verify_eapol_key_mic() has the key
\* of message 3/4 in one of the two places it looks.
THEOREM KeyOfMessage3Held == Spec => []NegotiatedKeyHeld
  <1>1. Inv => NegotiatedKeyHeld
    <2> SUFFICES ASSUME Inv, auth.state = "PTKINITNEGOTIATING", auth.assoc, sup.assoc
                 PROVE  auth.PTK \in {sup.tptk, sup.ptk}
      BY DEF NegotiatedKeyHeld
    <2>1. Past(auth) /\ Linked(auth, sup, down, up, Psk)
      BY DEF Inv, Past
    <2>2. /\ auth.PTK = Fresh(auth, sup, Psk)
          /\ sup.renew_snonce => sup.ptk = auth.PTK
      BY <2>1 DEF Linked, PastOK
    <2>3. ~sup.renew_snonce => sup.tptk = Fresh(auth, sup, Psk)
      BY <2>1 DEF Linked, SupOK
    <2> QED BY <2>2, <2>3
  <1> QED BY <1>1, Invariance, PTL
=============================================================================
