--------------------------- MODULE GasQueryProofs ---------------------------
(***************************************************************************)
(* Safety of the GAS query engine for every number of queries, peers,      *)
(* dialog tokens and fragment identifiers.                                 *)
(***************************************************************************)
EXTENDS GasQuery, WellFoundedInduction, TLAPS

\* The inductive invariant.  CalledOnce and SuccessIsWhole are not inductive
\* alone: a timer of a finished query would report it again, two queries with
\* one token would take each other's fragments, and a success is whole only
\* because the fragments collected before it were contiguous.
Inv ==
    /\ TypeOK
    /\ TokensUnique
    /\ TimersMatchQueries
    /\ ContiguousPrefix
    /\ SuccessIsWhole
    /\ CalledOnce

-----------------------------------------------------------------------------
\* A non-empty set of natural numbers has a least element, so that the search
\* loop of gas_query_req() finds a token if one is available.
LEMMA LeastElement ==
    ASSUME NEW S \in SUBSET Nat, S # {}
    PROVE  \E u \in S : \A v \in S : u <= v
<1> DEFINE R == {p \in Nat \X Nat : p[1] < p[2]}
<1>1. IsWellFoundedOn(R, Nat)
  BY NatLessThanWellFounded, Zenon DEF OpToRel
<1>2. \A x, y \in Nat : x < y => <<x, y>> \in R
  OBVIOUS
<1> HIDE DEF R
<1>3. PICK u \in S : \A v \in S : ~ (<<v, u>> \in R)
  BY <1>1, WFMin
<1>4. u \in Nat /\ \A v \in S : v \in Nat /\ ~(v < u)
  BY <1>2, <1>3, Zenon
<1> QED BY <1>4

\* gas_query_done() on a live query keeps the invariant, whatever the handler
\* did to the object, as long as a success is whole.
LEMMA DoneKeepsInv ==
    ASSUME Inv, NEW i \in Live,
           NEW r \in QueryRecord,
           NEW result \in Result,
           result = "SUCCESS" => WholeResponse([result |-> result,
                                                adv_proto |-> r.adv_proto,
                                                resp |-> r.resp]),
           gas_query_done(i, r, result), UNCHANGED <<phase, freed>>
    PROVE  Inv'
<1> DEFINE c == [result |-> result, adv_proto |-> r.adv_proto, resp |-> r.resp]
<1>1. i \in Query /\ i \in pending /\ i \notin freed
  BY DEF Inv, TypeOK, Live
<1>2. c \in Call
  BY DEF QueryRecord, Call
<1>3. Append(calls[i], c) = <<c>>
  <2>1. calls[i] = << >>
    BY <1>1 DEF Inv, CalledOnce
  <2>2. Append(<< >>, c) = <<c>>
    OBVIOUS
  <2> QED BY <2>1, <2>2
<1>4. /\ calls' = [calls EXCEPT ![i] = <<c>>]
      /\ pending' = pending \ {i}
      /\ query' = [query EXCEPT ![i] = r]
  BY <1>3 DEF gas_query_done
<1>5. <<c>> \in Seq(Call) /\ Len(<<c>>) = 1 /\ <<c>>[1] = c
  BY <1>2
<1>6. TypeOK'
  BY <1>1, <1>4, <1>5 DEF Inv, TypeOK, gas_query_done, Live
<1>7. TokensUnique'
  BY <1>1, <1>4 DEF Inv, TypeOK, TokensUnique
<1>8. TimersMatchQueries'
  BY <1>1, <1>4 DEF Inv, TypeOK, TimersMatchQueries, gas_query_done, Live
<1>9. ContiguousPrefix'
  BY <1>1, <1>4 DEF Inv, TypeOK, ContiguousPrefix
<1>10. CalledOnce'
  BY <1>1, <1>4, <1>5 DEF Inv, TypeOK, CalledOnce
<1>11. SuccessIsWhole'
  <2> SUFFICES ASSUME NEW j \in Query, NEW k \in 1 .. Len(calls'[j]),
                      calls'[j][k].result = "SUCCESS"
               PROVE  WholeResponse(calls'[j][k])
    BY DEF SuccessIsWhole, WholeResponse
  <2>1. CASE j = i
    <3>1. calls'[j] = <<c>> /\ k = 1
      BY <1>1, <1>4, <1>5, <2>1 DEF Inv, TypeOK
    <3> QED BY <3>1, <1>5
  <2>2. CASE j # i
    BY <1>4, <2>2 DEF Inv, TypeOK, SuccessIsWhole
  <2> QED BY <2>1, <2>2
<1> QED BY <1>6, <1>7, <1>8, <1>9, <1>10, <1>11 DEF Inv

\* A handler that leaves the query pending keeps the invariant if the object
\* keeps its identity, still holds a contiguous prefix, and the comeback timer
\* runs only once a comeback is awaited.
LEMMA StillPendingKeepsInv ==
    ASSUME Inv, NEW i \in Live,
           NEW r \in QueryRecord,
           r.addr = query[i].addr, r.dialog_token = query[i].dialog_token,
           Prefix(r),
           StillPending(i, r), UNCHANGED <<phase, freed>>,
           comeback_timeout' \subseteq comeback_timeout \cup {i},
           query[i].wait_comeback => r.wait_comeback,
           i \in comeback_timeout' => r.wait_comeback
    PROVE  Inv'
<1>1. i \in Query /\ i \in pending /\ i \notin freed
  BY DEF Inv, TypeOK, Live
<1>2. /\ query' = [query EXCEPT ![i] = r]
      /\ pending' = pending /\ calls' = calls /\ query_timeout' = query_timeout
      /\ phase' = phase /\ freed' = freed
  BY DEF StillPending
<1>3. TypeOK'
  BY <1>1, <1>2 DEF Inv, TypeOK
<1>4. TokensUnique'
  BY <1>1, <1>2 DEF Inv, TypeOK, TokensUnique
<1>5. TimersMatchQueries'
  BY <1>1, <1>2 DEF Inv, TypeOK, TimersMatchQueries, Live
<1>6. ContiguousPrefix'
  BY <1>1, <1>2 DEF Inv, TypeOK, ContiguousPrefix
<1>7. SuccessIsWhole'
  BY <1>2 DEF Inv, SuccessIsWhole, WholeResponse
<1>8. CalledOnce'
  BY <1>2 DEF Inv, CalledOnce
<1> QED BY <1>3, <1>4, <1>5, <1>6, <1>7, <1>8 DEF Inv

\* Linking a fresh object with an unused token keeps the invariant, with the
\* guard timer (a request that was sent) or without (one that was freed).
LEMMA LinkKeepsInv ==
    ASSUME Inv, NEW i \in Query, NEW dst \in Peer, Fresh(i),
           AvailableTokens(dst) # {},
           pending' = pending \cup {i},
           query' = [query EXCEPT ![i] = NewQuery(dst, LowestToken(dst))],
           UNCHANGED <<phase, comeback_timeout, calls>>,
           \/ query_timeout' = query_timeout \cup {i} /\ freed' = freed
           \/ query_timeout' = query_timeout /\ freed' = freed \cup {i}
    PROVE  Inv'
<1> DEFINE t == LowestToken(dst)
           r == NewQuery(dst, t)
<1>1. t \in AvailableTokens(dst)
  <2>1. AvailableTokens(dst) \subseteq Nat
    BY LimitAssumption DEF AvailableTokens, Token
  <2>2. \E u \in AvailableTokens(dst) : \A v \in AvailableTokens(dst) : u <= v
    BY <2>1, LeastElement
  <2> QED BY <2>2 DEF LowestToken
<1>2. t \in Token /\ gas_query_dialog_token_available(dst, t)
  BY <1>1 DEF AvailableTokens
<1>3. r \in QueryRecord /\ r.addr = dst /\ r.dialog_token = t
  BY <1>2, LimitAssumption DEF NewQuery, QueryRecord
<1>4. Prefix(r)
  BY LimitAssumption DEF NewQuery, Prefix
<1>5. i \notin pending /\ i \notin freed
  BY DEF Fresh, Inv, TypeOK
<1> HIDE DEF r, t
<1>6. query' = [query EXCEPT ![i] = r]
  BY DEF r, t
<1>7. TypeOK'
  BY <1>3, <1>6 DEF Inv, TypeOK
<1>8. TokensUnique'
  BY <1>2, <1>3, <1>5, <1>6
     DEF Inv, TypeOK, TokensUnique, gas_query_dialog_token_available
<1>9. TimersMatchQueries'
  BY <1>5, <1>6 DEF Inv, TypeOK, TimersMatchQueries, Live
<1>10. ContiguousPrefix'
  BY <1>4, <1>5, <1>6 DEF Inv, TypeOK, ContiguousPrefix
<1>11. SuccessIsWhole'
  BY DEF Inv, SuccessIsWhole, WholeResponse
<1>12. CalledOnce'
  BY DEF Inv, CalledOnce, Fresh
<1> QED BY <1>7, <1>8, <1>9, <1>10, <1>11, <1>12 DEF Inv

-----------------------------------------------------------------------------
LEMMA InitInv == Init => Inv
<1> SUFFICES ASSUME Init PROVE Inv
  OBVIOUS
<1>1. (CHOOSE p \in Peer : TRUE) \in Peer
  BY PeerAssumption
<1>2. NewQuery(CHOOSE p \in Peer : TRUE, 0) \in QueryRecord
  BY <1>1, LimitAssumption DEF NewQuery, QueryRecord, Token
<1>3. TypeOK
  BY <1>2 DEF Init, TypeOK
<1>4. TokensUnique /\ ContiguousPrefix
  BY DEF Init, TokensUnique, ContiguousPrefix
<1>5. TimersMatchQueries
  BY DEF Init, TimersMatchQueries, Live
<1>6. SuccessIsWhole
  BY DEF Init, SuccessIsWhole
<1>7. CalledOnce
  <2>1. \A i \in Query : calls[i] = << >>
    BY DEF Init
  <2>2. Len(<< >>) <= 1
    OBVIOUS
  <2> QED BY <2>1, <2>2, Zenon DEF CalledOnce
<1> QED BY <1>3, <1>4, <1>5, <1>6, <1>7 DEF Inv

\* Every outcome of gas_query_rx_initial().
LEMMA RxInitialKeepsInv ==
    ASSUME Inv, NEW i \in Query, i \in Live, NEW f \in Frame,
           ~query[i].wait_comeback,
           gas_query_rx_initial(i, f), UNCHANGED <<phase, freed>>
    PROVE  Inv'
<1> DEFINE known == [query[i] EXCEPT !.adv_proto = f.adv_proto]
           waiting == [known EXCEPT !.wait_comeback = TRUE]
           whole == Appended(known, f, 0, FALSE)
<1>1. query[i] \in QueryRecord /\ f.adv_proto \in AdvProto
  BY DEF Inv, TypeOK, Frame
<1>2. Prefix(query[i])
  BY DEF Inv, ContiguousPrefix, Live
<1>3. query[i].next_frag_id = 0 /\ query[i].resp = << >>
  BY <1>1, <1>2 DEF Prefix, QueryRecord
<1>4. known \in QueryRecord /\ waiting \in QueryRecord
  BY <1>1 DEF QueryRecord
<1>5. whole \in QueryRecord /\ whole.resp = <<[frag_id |-> 0, more_frags |-> FALSE,
                                               adv_proto |-> f.adv_proto]>>
                            /\ whole.adv_proto = f.adv_proto
  <2> DEFINE e == [frag_id |-> 0, more_frags |-> FALSE, adv_proto |-> f.adv_proto]
  <2>1. e \in Fragment
    BY <1>1, LimitAssumption DEF Fragment, FragId
  <2>2. known.resp = << >> /\ Append(<< >>, e) = <<e>> /\ <<e>> \in Seq(Fragment)
    BY <1>1, <1>3, <2>1 DEF QueryRecord
  <2>3. whole = [known EXCEPT !.resp = <<e>>]
    BY <2>2 DEF Appended
  <2> QED BY <1>1, <1>4, <2>2, <2>3 DEF QueryRecord
<1>6. CASE gas_query_done(i, query[i], "INTERNAL_ERROR")
  BY <1>1, <1>6, DoneKeepsInv DEF Result
<1>7. CASE gas_query_done(i, known, "INTERNAL_ERROR")
  BY <1>4, <1>7, DoneKeepsInv DEF Result
<1>8. CASE gas_query_done(i, whole, "SUCCESS")
  <2>1. WholeResponse([result |-> "SUCCESS", adv_proto |-> whole.adv_proto,
                       resp |-> whole.resp])
    <3> DEFINE e == [frag_id |-> 0, more_frags |-> FALSE, adv_proto |-> f.adv_proto]
    <3>1. Len(<<e>>) = 1 /\ <<e>>[1] = e /\ <<e>> # << >>
      OBVIOUS
    <3> HIDE DEF whole
    <3> QED BY <1>5, <3>1 DEF WholeResponse
  <2> HIDE DEF whole
  <2> QED BY <1>5, <1>8, <2>1, DoneKeepsInv DEF Result
<1>9. CASE gas_query_tx_comeback_req_delay(i, waiting)
  <2>1. Prefix(waiting)
    BY <1>1, <1>2, <1>3, ProtoAssumption DEF Prefix, QueryRecord
  <2>2. /\ waiting.addr = query[i].addr /\ waiting.wait_comeback
        /\ waiting.dialog_token = query[i].dialog_token
    BY <1>1 DEF QueryRecord
  <2> HIDE DEF waiting
  <2> QED BY <1>4, <1>9, <2>1, <2>2, StillPendingKeepsInv
          DEF gas_query_tx_comeback_req_delay
<1> QED BY <1>6, <1>7, <1>8, <1>9 DEF gas_query_rx_initial

\* Every outcome of gas_query_rx_comeback().
LEMMA RxComebackKeepsInv ==
    ASSUME Inv, NEW i \in Query, i \in Live, NEW f \in Frame,
           query[i].wait_comeback,
           gas_query_rx_comeback(i, f), UNCHANGED <<phase, freed>>
    PROVE  Inv'
<1> DEFINE r == query[i]
           advanced == [r EXCEPT !.next_frag_id = NextFragId(r)]
           appended == Appended(advanced, f, f.frag_id, f.more_frags)
           e == [frag_id |-> f.frag_id, more_frags |-> f.more_frags,
                 adv_proto |-> f.adv_proto]
<1>1. /\ r \in QueryRecord
      /\ f.adv_proto \in AdvProto /\ f.frag_id \in FragId /\ f.more_frags \in BOOLEAN
  BY DEF Inv, TypeOK, Frame
<1>2. Prefix(r)
  BY DEF Inv, ContiguousPrefix, Live
<1>3. advanced \in QueryRecord /\ e \in Fragment
  <2>1. NextFragId(r) \in 0 .. 2 * FragLimit - 1
    BY <1>1, LimitAssumption DEF QueryRecord, NextFragId
  <2> QED BY <1>1, <2>1 DEF QueryRecord, Fragment
<1>4. /\ appended \in QueryRecord
      /\ appended.resp = Append(r.resp, e)
      /\ appended.addr = r.addr /\ appended.dialog_token = r.dialog_token
      /\ appended.adv_proto = r.adv_proto
      /\ appended.wait_comeback = r.wait_comeback
      /\ appended.next_frag_id = NextFragId(r)
  <2>1. advanced.resp = r.resp /\ Append(r.resp, e) \in Seq(Fragment)
    BY <1>1, <1>3 DEF QueryRecord
  <2>2. appended = [advanced EXCEPT !.resp = Append(r.resp, e)]
    BY <2>1 DEF Appended
  <2> QED BY <1>1, <1>3, <2>1, <2>2 DEF QueryRecord
<1>5. CASE gas_query_done(i, r, "PEER_ERROR")
  BY <1>1, <1>5, DoneKeepsInv DEF Result
<1>6. CASE gas_query_done(i, advanced, "INTERNAL_ERROR")
  BY <1>3, <1>6, DoneKeepsInv DEF Result
<1>7. CASE gas_query_tx_comeback_req_delay(i, r)
  BY <1>1, <1>2, <1>7, StillPendingKeepsInv DEF gas_query_tx_comeback_req_delay
<1>8. ASSUME f.adv_proto = r.adv_proto, f.frag_id = r.next_frag_id
      PROVE  /\ Len(appended.resp) = Len(r.resp) + 1
             /\ appended.next_frag_id = Len(r.resp) + 1
             /\ appended.next_frag_id <= FragLimit
             /\ \A k \in 1 .. Len(r.resp) : appended.resp[k] = r.resp[k]
             /\ appended.resp[Len(r.resp) + 1] = e
  <2>1. r.resp \in Seq(Fragment) /\ r.next_frag_id = Len(r.resp)
    BY <1>1, <1>2 DEF QueryRecord, Prefix
  <2>2. r.next_frag_id \in Nat /\ r.next_frag_id < FragLimit
    <3> HIDE DEF r
    <3> QED BY <1>1, <1>8, LimitAssumption DEF FragId
  <2>3. NextFragId(r) = r.next_frag_id + 1
    <3> DEFINE n == r.next_frag_id + 1
               m == 2 * FragLimit
    <3>1. n \in Nat /\ m \in Nat \ {0} /\ n < m
      BY <2>2, LimitAssumption
    <3> HIDE DEF n, m
    <3>2. n % m = n
      BY <3>1
    <3> QED BY <3>2 DEF n, m, NextFragId
  <2> HIDE DEF r, e, appended
  <2> QED BY <1>3, <1>4, <2>1, <2>2, <2>3, LimitAssumption
<1>9. CASE /\ f.adv_proto = r.adv_proto
           /\ f.frag_id = r.next_frag_id
           /\ ~f.more_frags
           /\ gas_query_done(i, appended, "SUCCESS")
  <2>1. WholeResponse([result |-> "SUCCESS", adv_proto |-> appended.adv_proto,
                       resp |-> appended.resp])
    <3>1. /\ r.resp \in Seq(Fragment)
          /\ e.frag_id = r.next_frag_id /\ e.more_frags = FALSE
          /\ e.adv_proto = r.adv_proto
      BY <1>1, <1>9 DEF QueryRecord
    <3>2. Len(r.resp) \in Nat /\ r.next_frag_id = Len(r.resp)
      BY <1>2, <3>1 DEF Prefix
    <3>3. /\ Len(appended.resp) = Len(r.resp) + 1
          /\ \A k \in 1 .. Len(r.resp) : appended.resp[k] = r.resp[k]
          /\ appended.resp[Len(r.resp) + 1] = e
          /\ appended.adv_proto = r.adv_proto
      BY <1>4, <1>8, <1>9
    <3> HIDE DEF r, e, appended
    <3>4. appended.resp # << >>
      BY <3>2, <3>3
    <3> DEFINE c == [result |-> "SUCCESS", adv_proto |-> appended.adv_proto,
                     resp |-> appended.resp]
    <3>5. ASSUME NEW k \in 1 .. Len(appended.resp)
          PROVE  /\ appended.resp[k].frag_id = k - 1
                 /\ appended.resp[k].more_frags <=> k < Len(appended.resp)
                 /\ appended.resp[k].adv_proto = appended.adv_proto
      <4>1. CASE k = Len(r.resp) + 1
        BY <3>1, <3>2, <3>3, <4>1
      <4>2. CASE k \in 1 .. Len(r.resp)
        <5>1. appended.resp[k] = r.resp[k] /\ k < Len(appended.resp)
          BY <3>2, <3>3, <4>2
        <5>2. /\ r.resp[k].frag_id = k - 1 /\ r.resp[k].more_frags
              /\ r.resp[k].adv_proto = r.adv_proto
          BY <1>2, <4>2, Zenon DEF Prefix
        <5>3. appended.adv_proto = r.adv_proto
          BY <3>3
        <5> QED BY <5>1, <5>2, <5>3
      <4> QED BY <3>2, <3>3, <4>1, <4>2
    <3> QED BY <3>4, <3>5 DEF WholeResponse
  <2> HIDE DEF appended
  <2> QED BY <1>4, <1>9, <2>1, DoneKeepsInv DEF Result
<1>10. CASE /\ f.adv_proto = r.adv_proto
            /\ f.frag_id = r.next_frag_id
            /\ f.more_frags
            /\ gas_query_tx_comeback_req(i, appended)
  <2>1. CASE gas_query_done(i, appended, "INTERNAL_ERROR")
    <3> HIDE DEF appended
    <3> QED BY <1>4, <2>1, DoneKeepsInv DEF Result
  <2>2. CASE StillPending(i, appended) /\ UNCHANGED comeback_timeout
    <3>1. Prefix(appended)
      <4>1. /\ e.frag_id = r.next_frag_id /\ e.more_frags = TRUE
            /\ e.adv_proto = r.adv_proto
        BY <1>1, <1>10
      <4>2. Len(r.resp) \in Nat /\ r.next_frag_id = Len(r.resp) /\ r.adv_proto # NoProto
        BY <1>1, <1>2 DEF QueryRecord, Prefix
      <4>3. /\ Len(appended.resp) = Len(r.resp) + 1
            /\ appended.next_frag_id = Len(r.resp) + 1
            /\ appended.next_frag_id <= FragLimit
            /\ \A k \in 1 .. Len(r.resp) : appended.resp[k] = r.resp[k]
            /\ appended.resp[Len(r.resp) + 1] = e
        BY <1>8, <1>10
      <4>4. r.wait_comeback
        OBVIOUS
      <4> HIDE DEF r, e, appended
      <4> QED BY <1>2, <1>4, <4>1, <4>2, <4>3, <4>4 DEF Prefix
    <3> HIDE DEF appended
    <3> QED BY <1>4, <2>2, <3>1, StillPendingKeepsInv
  <2> QED BY <1>10, <2>1, <2>2 DEF gas_query_tx_comeback_req
<1> QED BY <1>5, <1>6, <1>7, <1>9, <1>10 DEF gas_query_rx_comeback, ExpectedFragment

LEMMA NextInv == Inv /\ [Next]_vars => Inv'
<1> SUFFICES ASSUME Inv, [Next]_vars PROVE Inv'
  OBVIOUS
<1>1. ASSUME NEW i \in Query, i \in Live, NEW result \in Result \ {"SUCCESS"},
             gas_query_done(i, query[i], result), UNCHANGED <<phase, freed>>
      PROVE  Inv'
  <2>1. query[i] \in QueryRecord
    BY DEF Inv, TypeOK
  <2> QED BY <1>1, <2>1, DoneKeepsInv
<1>2. ASSUME NEW i \in Query, NEW p \in Peer, gas_query_req(i, p)
      PROVE  Inv'
  BY <1>2, LinkKeepsInv DEF gas_query_req
<1>3. ASSUME NEW i \in Query, NEW p \in Peer, gas_query_req_tx_failed(i, p)
      PROVE  Inv'
  BY <1>3, LinkKeepsInv DEF gas_query_req_tx_failed
<1>4. ASSUME NEW i \in Query, NEW f \in Frame, gas_query_rx(i, f)
      PROVE  Inv'
  <2>1. i \in Live /\ UNCHANGED <<phase, freed>>
    BY <1>4 DEF gas_query_rx, gas_query_get_pending
  <2>2. CASE gas_query_done(i, query[i], "FAILURE")
    BY <1>1, <2>1, <2>2 DEF Result
  <2>3. CASE query[i].wait_comeback /\ gas_query_rx_comeback(i, f)
    BY <2>1, <2>3, RxComebackKeepsInv
  <2>4. CASE ~query[i].wait_comeback /\ gas_query_rx_initial(i, f)
    BY <2>1, <2>4, RxInitialKeepsInv
  <2> QED BY <1>4, <2>2, <2>3, <2>4 DEF gas_query_rx
<1>5. ASSUME NEW i \in Query, gas_query_tx_comeback_timeout(i)
      PROVE  Inv'
  <2>1. i \in Live /\ query[i].wait_comeback /\ UNCHANGED <<phase, freed>>
    BY <1>5 DEF gas_query_tx_comeback_timeout, Inv, TimersMatchQueries
  <2>2. CASE gas_query_done(i, query[i], "INTERNAL_ERROR")
    BY <1>1, <2>1, <2>2 DEF Result
  <2>3. CASE comeback_timeout' = comeback_timeout \ {i} /\ StillPending(i, query[i])
    <3>1. query[i] \in QueryRecord /\ Prefix(query[i])
      BY <2>1 DEF Inv, TypeOK, ContiguousPrefix, Live
    <3> QED BY <2>1, <2>3, <3>1, StillPendingKeepsInv
  <2> QED BY <1>5, <2>2, <2>3 DEF gas_query_tx_comeback_timeout
<1>6. ASSUME NEW i \in Query, gas_query_timeout(i)
      PROVE  Inv'
  BY <1>1, <1>6 DEF gas_query_timeout, Inv, TimersMatchQueries, Result
<1>7. ASSUME NEW i \in Query, NEW p \in Peer, NEW t \in Token,
             gas_query_cancel(i, p, t)
      PROVE  Inv'
  BY <1>1, <1>7 DEF gas_query_cancel, gas_query_get_pending, Result
<1>8. CASE gas_query_deinit
  <2>1. ASSUME NEW i \in pending
        PROVE  /\ calls'[i] \in Seq(Call)
               /\ Len(calls'[i]) = 1
               /\ calls'[i][1].result = "DELETED_AT_DEINIT"
    <3> DEFINE c == [result |-> "DELETED_AT_DEINIT",
                     adv_proto |-> query[i].adv_proto, resp |-> query[i].resp]
    <3>1. i \in Query /\ query[i] \in QueryRecord /\ calls[i] = << >>
      BY DEF Inv, TypeOK, CalledOnce
    <3>2. Append(<< >>, c) = <<c>>
      OBVIOUS
    <3>3. calls'[i] = Append(calls[i], c)
      BY <1>8, <3>1 DEF gas_query_deinit
    <3>4. c \in Call /\ c.result = "DELETED_AT_DEINIT"
      BY <3>1 DEF Call, QueryRecord, Result
    <3>5. calls'[i] = <<c>>
      BY <3>1, <3>2, <3>3
    <3> HIDE DEF c
    <3> QED BY <3>4, <3>5
  <2>2. ASSUME NEW i \in Query, i \notin pending
        PROVE  calls'[i] = calls[i]
    BY <1>8, <2>2 DEF gas_query_deinit
  <2>3. \A i \in Query : calls'[i] \in Seq(Call)
    <3> SUFFICES ASSUME NEW i \in Query PROVE calls'[i] \in Seq(Call)
      OBVIOUS
    <3>1. CASE i \in pending
      BY <2>1, <3>1
    <3>2. CASE i \notin pending
      BY <2>2, <3>2 DEF Inv, TypeOK
    <3> QED BY <3>1, <3>2
  <2>4. TypeOK'
    <3>1. calls' \in [Query -> Seq(Call)]
      BY <1>8, <2>3 DEF gas_query_deinit
    <3> QED BY <1>8, <3>1 DEF gas_query_deinit, Inv, TypeOK
  <2>5. TokensUnique' /\ ContiguousPrefix'
    BY <1>8 DEF gas_query_deinit, TokensUnique, ContiguousPrefix
  <2>6. TimersMatchQueries'
    BY <1>8 DEF gas_query_deinit, Inv, TimersMatchQueries, Live
  <2>7. CalledOnce'
    <3>1. pending' = {}
      BY <1>8 DEF gas_query_deinit
    <3>2. ASSUME NEW i \in Query PROVE Len(calls'[i]) <= 1
      <4>1. CASE i \in pending
        <5>1. Len(calls'[i]) = 1
          BY <2>1, <4>1
        <5> QED BY <5>1
      <4>2. CASE i \notin pending
        <5>1. Len(calls[i]) <= 1
          BY DEF Inv, CalledOnce
        <5> QED BY <2>2, <4>2, <5>1
      <4> QED BY <4>1, <4>2
    <3> QED BY <3>1, <3>2 DEF CalledOnce
  <2>8. SuccessIsWhole'
    <3> SUFFICES ASSUME NEW j \in Query, NEW k \in 1 .. Len(calls'[j]),
                        calls'[j][k].result = "SUCCESS"
                 PROVE  WholeResponse(calls'[j][k])
      BY DEF SuccessIsWhole, WholeResponse
    <3>1. CASE j \in pending
      BY <2>1, <3>1
    <3>2. CASE j \notin pending
      BY <2>2, <3>2 DEF Inv, SuccessIsWhole
    <3> QED BY <3>1, <3>2
  <2> QED BY <2>4, <2>5, <2>6, <2>7, <2>8 DEF Inv
<1>9. CASE UseOfFreedEntry \/ UNCHANGED vars
  <2>1. /\ UNCHANGED <<pending, freed, query, query_timeout, comeback_timeout, calls>>
        /\ phase' \in {"running", "deinit", "crashed"}
    BY <1>9 DEF UseOfFreedEntry, vars, Inv, TypeOK
  <2>2. TypeOK'
    BY <2>1 DEF Inv, TypeOK
  <2>3. TokensUnique' /\ TimersMatchQueries' /\ ContiguousPrefix'
    BY <2>1 DEF Inv, TokensUnique, TimersMatchQueries, Live, ContiguousPrefix
  <2>4. SuccessIsWhole'
    BY <2>1 DEF Inv, SuccessIsWhole, WholeResponse
  <2>5. CalledOnce'
    BY <2>1 DEF Inv, CalledOnce
  <2> QED BY <2>2, <2>3, <2>4, <2>5 DEF Inv
<1> QED BY <1>2, <1>3, <1>4, <1>5, <1>6, <1>7, <1>8, <1>9 DEF Next

LEMMA Invariance == Spec => []Inv
<1> QED BY InitInv, NextInv, PTL DEF Spec

\* The variables of the GAS engine keep their types.
THEOREM TypeCorrect == Spec => []TypeOK
<1>1. Inv => TypeOK
  BY DEF Inv
<1> QED BY <1>1, Invariance, PTL

\* gas_query_get_pending() never has two entries to choose from: peer and
\* dialog token identify a query, whatever the number of tokens.
THEOREM TokensStayUnique == Spec => []TokensUnique
<1>1. Inv => TokensUnique
  BY DEF Inv
<1> QED BY <1>1, Invariance, PTL

\* No timer of gas_query.c outlives its query and no query waits without its
\* guard timer.
THEOREM TimersStayMatched == Spec => []TimersMatchQueries
<1>1. Inv => TimersMatchQueries
  BY DEF Inv
<1> QED BY <1>1, Invariance, PTL

\* A query is reported at most once.
THEOREM ReportedOnce == Spec => []CalledOnce
<1>1. Inv => CalledOnce
  BY DEF Inv
<1> QED BY <1>1, Invariance, PTL

\* Whatever frames are lost, repeated or reordered, a response that is
\* reported as a success is a complete, ordered answer.
THEOREM OnlyWholeResponses == Spec => []SuccessIsWhole
<1>1. Inv => SuccessIsWhole
  BY DEF Inv
<1> QED BY <1>1, Invariance, PTL

-----------------------------------------------------------------------------
\* The refinement of GasService.  gas_query_done() is the report of its query.
LEMMA DoneIsReport ==
    ASSUME Inv, NEW i \in Query, i \in Live, phase = "running",
           NEW r, NEW result \in Result,
           gas_query_done(i, r, result), UNCHANGED <<phase, freed>>
    PROVE  Service!Report(i, result)
<1> DEFINE c == [result |-> result, adv_proto |-> r.adv_proto, resp |-> r.resp]
<1>1. i \in pending /\ i \notin freed /\ calls[i] = << >>
  BY DEF Live, Inv, CalledOnce
<1>2. Append(<< >>, c) = <<c>> /\ <<c>> # << >> /\ <<c>>[1] = c /\ c.result = result
  OBVIOUS
<1>3. calls' = [calls EXCEPT ![i] = Append(calls[i], c)] /\ pending' = pending \ {i}
  BY DEF gas_query_done
<1> HIDE DEF c
<1>4. calls' = [calls EXCEPT ![i] = <<c>>] /\ calls \in [Query -> Seq(Call)]
  BY <1>1, <1>2, <1>3 DEF Inv, TypeOK
<1>5. RequestStatus[i] = "accepted"
  BY <1>1 DEF RequestStatus
<1>6. RequestStatus' = [RequestStatus EXCEPT ![i] = "reported"]
  BY <1>1, <1>2, <1>3, <1>4 DEF RequestStatus
<1>7. RequestOutcome' = [RequestOutcome EXCEPT ![i] = result]
  BY <1>1, <1>2, <1>3, <1>4 DEF RequestOutcome
<1> QED BY <1>5, <1>6, <1>7 DEF Service!Report

\* A step that changes neither the list, the callbacks nor the phase is not
\* visible to the callers.
LEMMA InvisibleStep ==
    ASSUME UNCHANGED <<phase, pending, freed, calls>>
    PROVE  UNCHANGED Service!vars
BY DEF Service!vars, RequestStatus, RequestOutcome

\* Linking a fresh object is the acceptance of its request, or its refusal if
\* the transmission failed.
LEMMA LinkIsRequest ==
    ASSUME Inv, NEW i \in Query, Fresh(i), phase = "running",
           pending' = pending \cup {i}, UNCHANGED <<phase, calls>>
    PROVE  /\ freed' = freed => Service!Accept(i)
           /\ freed' = freed \cup {i} => Service!Refuse(i)
<1>1. i \notin pending /\ i \notin freed /\ calls[i] = << >>
  BY DEF Fresh, Inv, TypeOK
<1>2. RequestStatus[i] = "new" /\ RequestOutcome' = RequestOutcome
  BY <1>1 DEF RequestStatus, RequestOutcome
<1>3. freed' = freed => RequestStatus' = [RequestStatus EXCEPT ![i] = "accepted"]
  BY <1>1 DEF RequestStatus
<1>4. freed' = freed \cup {i} => RequestStatus' = [RequestStatus EXCEPT ![i] = "refused"]
  BY <1>1 DEF RequestStatus
<1> QED BY <1>2, <1>3, <1>4 DEF Service!Accept, Service!Refuse

\* Every step of a frame handler reports the query or is invisible.
LEMMA RxIsReport ==
    ASSUME Inv, NEW i \in Query, NEW f \in Frame, gas_query_rx(i, f)
    PROVE  \/ \E result \in Result : Service!Report(i, result)
           \/ UNCHANGED Service!vars
<1>1. i \in Live /\ phase = "running" /\ UNCHANGED <<phase, freed>>
  BY DEF gas_query_rx, gas_query_get_pending
<1>2. \/ UNCHANGED <<pending, calls>>
      \/ \E result \in Result : \E r : gas_query_done(i, r, result)
  <2> DEFINE Visible == \E result \in Result : \E r : gas_query_done(i, r, result)
             Silent == UNCHANGED <<pending, calls>>
  <2>1. /\ "SUCCESS" \in Result /\ "FAILURE" \in Result
        /\ "PEER_ERROR" \in Result /\ "INTERNAL_ERROR" \in Result
    BY DEF Result
  <2>2. CASE gas_query_done(i, query[i], "FAILURE")
    BY <2>1, <2>2
  <2>3. CASE gas_query_rx_initial(i, f)
    BY <2>1, <2>3, Zenon
       DEF gas_query_rx_initial, gas_query_tx_comeback_req_delay, StillPending
  <2>4. CASE gas_query_rx_comeback(i, f)
    <3>1. \/ \E r : gas_query_done(i, r, "PEER_ERROR")
          \/ \E r : gas_query_done(i, r, "INTERNAL_ERROR")
          \/ \E r : gas_query_done(i, r, "SUCCESS")
          \/ \E r : StillPending(i, r)
      BY <2>4, Zenon DEF gas_query_rx_comeback, gas_query_tx_comeback_req_delay,
                         gas_query_tx_comeback_req
    <3>2. ASSUME NEW r, StillPending(i, r) PROVE Silent
      BY <3>2 DEF StillPending
    <3> QED BY <2>1, <3>1, <3>2, Zenon
  <2> QED BY <2>2, <2>3, <2>4 DEF gas_query_rx
<1> QED BY <1>1, <1>2, DoneIsReport, InvisibleStep

LEMMA DeinitIsShutdown ==
    ASSUME Inv, gas_query_deinit
    PROVE  Service!Shutdown("DELETED_AT_DEINIT")
<1> DEFINE c(i) == [result |-> "DELETED_AT_DEINIT", adv_proto |-> query[i].adv_proto,
                    resp |-> query[i].resp]
<1>1. /\ phase = "running" /\ phase' = "deinit" /\ pending' = {} /\ freed = {} /\ freed' = {}
      /\ pending \subseteq Query
  BY DEF gas_query_deinit, Inv, TypeOK
<1>2. ASSUME NEW i \in Query, i \in pending
      PROVE  /\ calls[i] = << >> /\ calls'[i] # << >>
             /\ calls'[i][1].result = "DELETED_AT_DEINIT"
  <2>1. calls[i] = << >> /\ calls'[i] = Append(calls[i], c(i))
    BY <1>2 DEF gas_query_deinit, Inv, CalledOnce
  <2>2. /\ Append(<< >>, c(i)) # << >>
        /\ Append(<< >>, c(i))[1].result = "DELETED_AT_DEINIT"
    OBVIOUS
  <2> QED BY <2>1, <2>2, Zenon
<1>3. ASSUME NEW i \in Query, i \notin pending
      PROVE  calls'[i] = calls[i]
  BY <1>3 DEF gas_query_deinit
<1>4. \A i \in Query : RequestStatus[i] = "accepted" <=> i \in pending
  BY <1>1, <1>2 DEF RequestStatus
<1>5. RequestStatus' = [i \in Query |-> IF RequestStatus[i] = "accepted"
                                        THEN "reported" ELSE RequestStatus[i]]
  BY <1>1, <1>2, <1>3, <1>4 DEF RequestStatus
<1>6. RequestOutcome' = [i \in Query |-> IF RequestStatus[i] = "accepted"
                                         THEN "DELETED_AT_DEINIT"
                                         ELSE RequestOutcome[i]]
  BY <1>1, <1>2, <1>3, <1>4 DEF RequestOutcome
<1> QED BY <1>1, <1>5, <1>6 DEF Service!Shutdown

\* Every handler step is a step of the abstract service or invisible to it.
LEMMA ServiceStep == Inv /\ [Next]_vars => [Service!Next]_(Service!vars)
<1> SUFFICES ASSUME Inv, [Next]_vars
             PROVE  Service!Next \/ UNCHANGED Service!vars
  OBVIOUS
<1> USE DEF Result
<1>1. ASSUME NEW i \in Query, NEW p \in Peer, gas_query_req(i, p)
      PROVE  Service!Next
  BY <1>1, LinkIsRequest DEF gas_query_req, Service!Next
<1>2. ASSUME NEW i \in Query, NEW p \in Peer, gas_query_req_tx_failed(i, p)
      PROVE  Service!Next
  BY <1>2, LinkIsRequest DEF gas_query_req_tx_failed, Service!Next
<1>3. ASSUME NEW i \in Query, NEW f \in Frame, gas_query_rx(i, f)
      PROVE  Service!Next \/ UNCHANGED Service!vars
  BY <1>3, RxIsReport DEF Service!Next
<1>4. ASSUME NEW i \in Query, gas_query_tx_comeback_timeout(i)
      PROVE  Service!Next \/ UNCHANGED Service!vars
  <2>1. i \in Live /\ phase = "running" /\ UNCHANGED <<phase, freed>>
    BY <1>4 DEF gas_query_tx_comeback_timeout, Inv, TimersMatchQueries
  <2>2. CASE gas_query_done(i, query[i], "INTERNAL_ERROR")
    BY <2>1, <2>2, DoneIsReport DEF Service!Next
  <2>3. CASE StillPending(i, query[i])
    BY <2>1, <2>3, InvisibleStep DEF StillPending
  <2> QED BY <1>4, <2>2, <2>3 DEF gas_query_tx_comeback_timeout
<1>5. ASSUME NEW i \in Query, gas_query_timeout(i)
      PROVE  Service!Next
  <2>1. i \in Live
    BY <1>5 DEF gas_query_timeout, Inv, TimersMatchQueries
  <2> QED BY <1>5, <2>1, DoneIsReport DEF gas_query_timeout, Service!Next
<1>6. ASSUME NEW i \in Query, NEW p \in Peer, NEW t \in Token, gas_query_cancel(i, p, t)
      PROVE  Service!Next
  BY <1>6, DoneIsReport DEF gas_query_cancel, gas_query_get_pending, Service!Next
<1>7. CASE gas_query_deinit
  BY <1>7, DeinitIsShutdown DEF Service!Next
<1>8. CASE UseOfFreedEntry
  <2>1. UNCHANGED RequestStatus /\ UNCHANGED RequestOutcome
    BY <1>8 DEF UseOfFreedEntry, RequestStatus, RequestOutcome
  <2> QED BY <1>8, <2>1 DEF UseOfFreedEntry, Service!Next, Service!Die
<1>9. CASE UNCHANGED vars
  BY <1>9, InvisibleStep DEF vars
<1> QED BY <1>1, <1>2, <1>3, <1>4, <1>5, <1>6, <1>7, <1>8, <1>9 DEF Next

\* The GAS engine implements the abstract service for every number of
\* requests: an accepted request is reported exactly once or still open, and
\* no report changes afterwards.
THEOREM Refinement == Spec => ImplementsService
<1>1. Init => Service!Init
  <2> SUFFICES ASSUME Init PROVE Service!Init
    OBVIOUS
  <2>1. \A i \in Query : calls[i] = << >> /\ i \notin freed /\ i \notin pending
    BY DEF Init
  <2>2. RequestStatus = [i \in Query |-> "new"]
    BY <2>1 DEF RequestStatus
  <2>3. RequestOutcome = [i \in Query |-> "none"]
    BY <2>1 DEF RequestOutcome
  <2> QED BY <2>2, <2>3 DEF Init, Service!Init
<1> QED BY <1>1, Invariance, ServiceStep, PTL DEF Spec, ImplementsService, Service!Spec
=============================================================================
