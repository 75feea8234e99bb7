------------------------------ MODULE GasQuery ------------------------------
(***************************************************************************)
(* The GAS query engine of wpa_supplicant/gas_query.c: outstanding ANQP    *)
(* exchanges with access points, their dialog tokens, the reassembly of    *)
(* fragmented answers and the two event-loop timers of each query.         *)
(*                                                                         *)
(* The air is arbitrary: any well-formed or malformed frame may be         *)
(* received at any time, so that lost, duplicated, delayed, reordered and  *)
(* wrong answers are all included.  An allocation and the transmission of  *)
(* a frame may fail at any time.  The event loop runs one handler at a     *)
(* time, so that each handler is one action.                               *)
(***************************************************************************)
EXTENDS Integers, Sequences

CONSTANTS
    Query,       \* identities of the struct gas_query_pending objects
    Peer,        \* MAC addresses of access points
    AdvProto,    \* contents of an Advertisement Protocol element
    TokenLimit,  \* number of dialog tokens, 256 in the code
    FragLimit,   \* number of fragment identifiers, 128 (7 bits) in the code
    NoProto      \* the null adv_proto pointer

ASSUME LimitAssumption ==
    /\ TokenLimit \in Nat \ {0}
    /\ FragLimit \in Nat \ {0}

ASSUME ProtoAssumption == NoProto \notin AdvProto

ASSUME PeerAssumption == Peer # {}

VARIABLES
    phase,             \* "running", "deinit" or, after freed memory is used, "crashed"
    pending,           \* entries linked on gas->pending
    freed,             \* entries that are linked although their memory is freed
    query,             \* the fields of each object
    query_timeout,     \* queries with gas_query_timeout registered
    comeback_timeout,  \* queries with gas_query_tx_comeback_timeout registered
    calls              \* what each query's callback was called with, in order

vars == <<phase, pending, freed, query, query_timeout, comeback_timeout, calls>>

Token == 0 .. TokenLimit - 1

FragId == 0 .. FragLimit - 1

\* enum gas_query_result
Result == {"SUCCESS", "FAILURE", "TIMEOUT", "PEER_ERROR", "INTERNAL_ERROR",
           "CANCELLED", "DELETED_AT_DEINIT"}

\* What one fragment contributes to the response: the position it was sent
\* for, whether more were announced, and the protocol it was sent under.
Fragment == [frag_id : FragId, more_frags : BOOLEAN, adv_proto : AdvProto]

\* struct gas_query_pending; next_frag_id is one bit wider than a frag_id.
QueryRecord == [addr : Peer, dialog_token : Token,
                next_frag_id : 0 .. 2 * FragLimit - 1,
                wait_comeback : BOOLEAN,
                adv_proto : AdvProto \cup {NoProto},
                resp : Seq(Fragment)]

Call == [result : Result, adv_proto : AdvProto \cup {NoProto}, resp : Seq(Fragment)]

\* A received GAS response, as gas_query_rx() takes it apart.  malformed: the
\* frame ends before one of its fields or carries another element where the
\* Advertisement Protocol is due.
Frame == [sa : Peer, action : {"INITIAL_RESP", "COMEBACK_RESP"},
          dialog_token : Token, status_success : BOOLEAN, malformed : BOOLEAN,
          comeback_delay : BOOLEAN, adv_proto : AdvProto,
          frag_id : FragId, more_frags : BOOLEAN]

\* The fields of a query that was just allocated by os_zalloc() for dst.
NewQuery(dst, token) ==
    [addr |-> dst, dialog_token |-> token, next_frag_id |-> 0,
     wait_comeback |-> FALSE, adv_proto |-> NoProto, resp |-> << >>]

Init ==
    /\ phase = "running"
    /\ pending = {}
    /\ freed = {}
    /\ query = [i \in Query |-> NewQuery(CHOOSE p \in Peer : TRUE, 0)]
    /\ query_timeout = {}
    /\ comeback_timeout = {}
    /\ calls = [i \in Query |-> << >>]

-----------------------------------------------------------------------------
\* An object that no request has used yet.
Fresh(i) == i \notin pending /\ calls[i] = << >>

\* Queries whose memory is still owned by the list.
Live == pending \ freed

\* Faulty variant: the entry is reported but stays on the list.
gas_query_done_without_unlink(i, query_i, result) ==
    /\ query_timeout' = query_timeout \ {i}
    /\ comeback_timeout' = comeback_timeout \ {i}
    /\ calls' = [calls EXCEPT ![i] = Append(@,
                    [result |-> result, adv_proto |-> query_i.adv_proto,
                     resp |-> query_i.resp])]
    /\ query' = [query EXCEPT ![i] = query_i]
    /\ UNCHANGED pending

\* Faulty variant: the comeback timer of the finished query is not cancelled.
gas_query_done_keeps_timer(i, query_i, result) ==
    /\ query_timeout' = query_timeout \ {i}
    /\ pending' = pending \ {i}
    /\ calls' = [calls EXCEPT ![i] = Append(@,
                    [result |-> result, adv_proto |-> query_i.adv_proto,
                     resp |-> query_i.resp])]
    /\ query' = [query EXCEPT ![i] = query_i]
    /\ UNCHANGED comeback_timeout

\* gas_query_done(): both timers are cancelled, the entry is unlinked, then
\* the callback is called and the object freed.  query_i is the object as the
\* handler left it.
gas_query_done(i, query_i, result) ==
    /\ query_timeout' = query_timeout \ {i}
    /\ comeback_timeout' = comeback_timeout \ {i}
    /\ pending' = pending \ {i}
    /\ calls' = [calls EXCEPT ![i] = Append(@,
                    [result |-> result, adv_proto |-> query_i.adv_proto,
                     resp |-> query_i.resp])]
    /\ query' = [query EXCEPT ![i] = query_i]

\* The handler keeps the query on the list with its fields set to query_i.
StillPending(i, query_i) ==
    /\ query' = [query EXCEPT ![i] = query_i]
    /\ UNCHANGED <<pending, query_timeout, calls>>

\* Faulty variant: a query that waits for a comeback is not counted.
gas_query_dialog_token_available_initial(dst, token) ==
    \A i \in pending : ~(query[i].addr = dst /\ query[i].dialog_token = token
                         /\ ~query[i].wait_comeback)

\* gas_query_dialog_token_available(): the walk also meets freed entries.
gas_query_dialog_token_available(dst, token) ==
    \A i \in pending : ~(query[i].addr = dst /\ query[i].dialog_token = token)

\* The dialog tokens gas_query_req() can choose from; it takes the lowest.
AvailableTokens(dst) ==
    {t \in Token : gas_query_dialog_token_available(dst, t)}

LowestToken(dst) ==
    CHOOSE t \in AvailableTokens(dst) : \A u \in AvailableTokens(dst) : t <= u

\* Faulty variant: the guard timer is not registered.
gas_query_req_unguarded(i, dst) ==
    /\ phase = "running"
    /\ Fresh(i)
    /\ AvailableTokens(dst) # {}
    /\ pending' = pending \cup {i}
    /\ query' = [query EXCEPT ![i] = NewQuery(dst, LowestToken(dst))]
    /\ UNCHANGED <<phase, freed, query_timeout, comeback_timeout, calls>>

\* gas_query_req(): a request that is sent.  The guard timer is registered
\* only after the transmission succeeded.  A request for which no token or no
\* memory is left returns -1 and changes nothing.
gas_query_req(i, dst) ==
    /\ phase = "running"
    /\ Fresh(i)
    /\ AvailableTokens(dst) # {}
    /\ pending' = pending \cup {i}
    /\ query' = [query EXCEPT ![i] = NewQuery(dst, LowestToken(dst))]
    /\ query_timeout' = query_timeout \cup {i}
    /\ UNCHANGED <<phase, freed, comeback_timeout, calls>>

\* gas_query_req() when gas_query_tx() fails: the object is freed, but it was
\* already linked and is not unlinked; no timer is registered.
gas_query_req_tx_failed(i, dst) ==
    /\ phase = "running"
    /\ Fresh(i)
    /\ AvailableTokens(dst) # {}
    /\ pending' = pending \cup {i}
    /\ freed' = freed \cup {i}
    /\ query' = [query EXCEPT ![i] = NewQuery(dst, LowestToken(dst))]
    /\ UNCHANGED <<phase, query_timeout, comeback_timeout, calls>>

\* Faulty variant: a query whose comeback request cannot be sent is dropped
\* without a report.
gas_query_tx_comeback_req_silent(i, query_i) ==
    \/ /\ StillPending(i, query_i)
       /\ UNCHANGED comeback_timeout
    \/ /\ pending' = pending \ {i}
       /\ query_timeout' = query_timeout \ {i}
       /\ comeback_timeout' = comeback_timeout \ {i}
       /\ UNCHANGED <<query, calls>>

\* gas_query_tx_comeback_req(): ask for the next fragment; the query ends if
\* the frame can be neither built nor sent.
gas_query_tx_comeback_req(i, query_i) ==
    \/ /\ StillPending(i, query_i)
       /\ UNCHANGED comeback_timeout
    \/ gas_query_done(i, query_i, "INTERNAL_ERROR")

\* gas_query_tx_comeback_req_delay(): (re)start the comeback timer.
gas_query_tx_comeback_req_delay(i, query_i) ==
    /\ StillPending(i, query_i)
    /\ comeback_timeout' = comeback_timeout \cup {i}

\* gas_query_append(): the response with the payload of frame f.
Appended(query_i, f, frag_id, more_frags) ==
    [query_i EXCEPT !.resp = Append(@,
        [frag_id |-> frag_id, more_frags |-> more_frags, adv_proto |-> f.adv_proto])]

\* gas_query_rx_initial().  The initial response has no fragment fields:
\* gas_query_rx() leaves frag_id and more_frags at 0.
gas_query_rx_initial(i, f) ==
    LET known == [query[i] EXCEPT !.adv_proto = f.adv_proto]
    IN  \/ gas_query_done(i, query[i], "INTERNAL_ERROR")   \* no memory for adv_proto
        \/ /\ f.comeback_delay
           /\ gas_query_tx_comeback_req_delay(i, [known EXCEPT !.wait_comeback = TRUE])
        \/ /\ ~f.comeback_delay
           /\ \/ gas_query_done(i, Appended(known, f, 0, FALSE), "SUCCESS")
              \/ gas_query_done(i, known, "INTERNAL_ERROR") \* no memory for resp

\* query->next_frag_id++ on a u8.
NextFragId(r) == (r.next_frag_id + 1) % (2 * FragLimit)

\* Faulty variant: fragments may be skipped.
ExpectedFragment_or_later(r, f) == f.frag_id >= r.next_frag_id

\* The order check on received fragments.
ExpectedFragment(r, f) == f.frag_id = r.next_frag_id

\* gas_query_rx_comeback().
gas_query_rx_comeback(i, f) ==
    LET advanced == [query[i] EXCEPT !.next_frag_id = NextFragId(query[i])]
        appended == Appended(advanced, f, f.frag_id, f.more_frags)
    IN  \/ /\ f.adv_proto # query[i].adv_proto
           /\ gas_query_done(i, query[i], "PEER_ERROR")
        \/ /\ f.adv_proto = query[i].adv_proto
           /\ f.comeback_delay
           /\ IF f.frag_id # 0
              THEN gas_query_done(i, query[i], "PEER_ERROR")
              ELSE gas_query_tx_comeback_req_delay(i, query[i])
        \/ /\ f.adv_proto = query[i].adv_proto
           /\ ~f.comeback_delay
           /\ ~ExpectedFragment(query[i], f)
           /\ gas_query_done(i, query[i], "PEER_ERROR")
        \/ /\ f.adv_proto = query[i].adv_proto
           /\ ~f.comeback_delay
           /\ ExpectedFragment(query[i], f)
           /\ \/ gas_query_done(i, advanced, "INTERNAL_ERROR") \* no memory for resp
              \/ f.more_frags /\ gas_query_tx_comeback_req(i, appended)
              \/ ~f.more_frags /\ gas_query_done(i, appended, "SUCCESS")

\* gas_query_get_pending(): the entry of the list with this peer and token.
gas_query_get_pending(i, addr, token) ==
    /\ i \in Live
    /\ query[i].addr = addr
    /\ query[i].dialog_token = token

\* gas_query_rx(): frames without a pending query, initial responses while a
\* comeback is awaited, comeback responses before the initial one and
\* malformed frames are ignored.
gas_query_rx(i, f) ==
    /\ phase = "running"
    /\ gas_query_get_pending(i, f.sa, f.dialog_token)
    /\ query[i].wait_comeback <=> f.action = "COMEBACK_RESP"
    /\ \/ ~f.status_success /\ gas_query_done(i, query[i], "FAILURE")
       \/ /\ f.status_success
          /\ ~f.malformed
          /\ IF f.action = "COMEBACK_RESP"
             THEN gas_query_rx_comeback(i, f)
             ELSE gas_query_rx_initial(i, f)
    /\ UNCHANGED <<phase, freed>>

\* gas_query_tx_comeback_timeout(): the registered comeback timer fires.
gas_query_tx_comeback_timeout(i) ==
    /\ phase = "running"
    /\ i \in comeback_timeout
    /\ \/ /\ comeback_timeout' = comeback_timeout \ {i}
          /\ StillPending(i, query[i])
       \/ gas_query_done(i, query[i], "INTERNAL_ERROR")
    /\ UNCHANGED <<phase, freed>>

\* gas_query_timeout(): the guard timer of GAS_QUERY_TIMEOUT_PERIOD fires.
gas_query_timeout(i) ==
    /\ phase = "running"
    /\ i \in query_timeout
    /\ gas_query_done(i, query[i], "TIMEOUT")
    /\ UNCHANGED <<phase, freed>>

\* gas_query_cancel().
gas_query_cancel(i, dst, token) ==
    /\ phase = "running"
    /\ gas_query_get_pending(i, dst, token)
    /\ gas_query_done(i, query[i], "CANCELLED")
    /\ UNCHANGED <<phase, freed>>

\* gas_query_deinit(): every entry of the list is completed.
gas_query_deinit ==
    /\ phase = "running"
    /\ freed = {}
    /\ phase' = "deinit"
    /\ pending' = {}
    /\ query_timeout' = query_timeout \ pending
    /\ comeback_timeout' = comeback_timeout \ pending
    /\ calls' = [i \in Query |->
                    IF i \in pending
                    THEN Append(calls[i], [result |-> "DELETED_AT_DEINIT",
                                           adv_proto |-> query[i].adv_proto,
                                           resp |-> query[i].resp])
                    ELSE calls[i]]
    /\ UNCHANGED <<freed, query>>

\* A walk of the list while it holds a freed entry is undefined behaviour: it
\* may find the old contents, which the other actions describe, or stop the
\* process (a wild pointer, a second free, or the endless walk of a list whose
\* freed entry was allocated and linked again).
UseOfFreedEntry ==
    /\ phase = "running"
    /\ freed # {}
    /\ phase' = "crashed"
    /\ UNCHANGED <<pending, freed, query, query_timeout, comeback_timeout, calls>>

Next ==
    \/ \E i \in Query, p \in Peer :
          gas_query_req(i, p) \/ gas_query_req_tx_failed(i, p)
    \/ \E i \in Query, f \in Frame : gas_query_rx(i, f)
    \/ \E i \in Query : gas_query_tx_comeback_timeout(i) \/ gas_query_timeout(i)
    \/ \E i \in Query, p \in Peer, t \in Token : gas_query_cancel(i, p, t)
    \/ gas_query_deinit
    \/ UseOfFreedEntry

Spec == Init /\ [][Next]_vars

\* The event loop runs a registered timeout once it is due, and a timeout that
\* is never cancelled stays due.
FairSpec == Spec /\ \A i \in Query : WF_vars(gas_query_timeout(i))

-----------------------------------------------------------------------------
\* Types of the variables.
TypeOK ==
    /\ phase \in {"running", "deinit", "crashed"}
    /\ pending \subseteq Query
    /\ freed \subseteq pending
    /\ query \in [Query -> QueryRecord]
    /\ query_timeout \subseteq Query
    /\ comeback_timeout \subseteq Query
    /\ calls \in [Query -> Seq(Call)]

\* gas_query_get_pending() identifies a query by peer and dialog token: no two
\* linked queries share both, whatever requests, answers, timeouts and
\* cancellations came before.
TokensUnique ==
    \A i, j \in pending :
        /\ query[i].addr = query[j].addr
        /\ query[i].dialog_token = query[j].dialog_token
        => i = j

\* A registered timer holds a pointer to its query.  Every query that waits
\* for an answer has its guard timer registered, and no timer is left for a
\* query that gas_query_done() or a failed gas_query_req() freed.
TimersMatchQueries ==
    /\ query_timeout = Live
    /\ comeback_timeout \subseteq {i \in Live : query[i].wait_comeback}

\* The reassembly promise of gas_query_rx_comeback(): a response reported with
\* GAS_QUERY_SUCCESS consists of the fragments 0, 1, ..., n in this order, each
\* announced by its predecessor, all sent under the protocol that is reported,
\* and the last one announced no further fragment.
WholeResponse(c) ==
    /\ c.resp # << >>
    /\ \A k \in 1 .. Len(c.resp) :
          /\ c.resp[k].frag_id = k - 1
          /\ c.resp[k].more_frags <=> k < Len(c.resp)
          /\ c.resp[k].adv_proto = c.adv_proto

SuccessIsWhole ==
    \A i \in Query : \A k \in 1 .. Len(calls[i]) :
        calls[i][k].result = "SUCCESS" => WholeResponse(calls[i][k])

\* Between frames, a query holds the fragments 0 .. next_frag_id - 1 and nothing
\* else, all of which announced a further one; a query without an initial
\* response holds none.  next_frag_id never wraps around: it stops at the first
\* value a 7-bit frag_id cannot match.
Prefix(r) ==
    /\ Len(r.resp) = r.next_frag_id
    /\ r.next_frag_id <= FragLimit
    /\ IF r.wait_comeback THEN r.adv_proto # NoProto ELSE r.next_frag_id = 0
    /\ \A k \in 1 .. Len(r.resp) :
          /\ r.resp[k].frag_id = k - 1
          /\ r.resp[k].more_frags
          /\ r.resp[k].adv_proto = r.adv_proto

ContiguousPrefix == \A i \in pending : Prefix(query[i])

\* The callback of a query is called at most once, and never while the query
\* can still be answered; a query whose transmission failed is never reported.
CalledOnce ==
    \A i \in Query : /\ Len(calls[i]) <= 1
                     /\ i \in pending => calls[i] = << >>

\* Every query that was sent is reported to its caller, even if the access
\* point never answers or asks for one comeback after the other; only a walk
\* over a freed entry can prevent it.
EveryQueryReported ==
    \A i \in Query :
        i \in Live ~> (calls[i] # << >> \/ phase = "crashed")

-----------------------------------------------------------------------------
\* What the callers of gas_query_req() see of a query.
RequestStatus ==
    [i \in Query |-> IF calls[i] # << >> THEN "reported"
                     ELSE IF i \in freed THEN "refused"
                     ELSE IF i \in pending THEN "accepted"
                     ELSE "new"]

RequestOutcome ==
    [i \in Query |-> IF calls[i] = << >> THEN "none" ELSE calls[i][1].result]

Service == INSTANCE GasService WITH
    Request <- Query, Outcome <- Result,
    status <- RequestStatus, outcome <- RequestOutcome,
    stopped <- phase # "running"

\* The engine implements its abstract service: every accepted request is
\* reported once, and a report is never changed or withdrawn.
ImplementsService == Service!Spec
=============================================================================
