------------------------- MODULE OrderServiceProofs -------------------------
(***************************************************************************)
(* Proofs about OrderService for any requests, order ids, bodies and any   *)
(* number of crashes and outages.                                          *)
(***************************************************************************)
EXTENDS OrderService, TLAPS

(* The handler's local order is the one its input asks for. *)
OwnDraft(r) ==
    /\ input[r].credential \in Users
    /\ input[r].body \in Bodies
    /\ order[r] \in Drafts
    /\ order[r].by = r
    /\ order[r].UserID = input[r].credential
    /\ order[r].Total = OrderTotal(input[r].body.Items)

Inserted(r) == pc[r] \in {"publishing", "closing"} \/ reply[r] = 201

(* What each goroutine may rely on, by how far it has got. *)
HandlerInv ==
    \A r \in Requests :
      /\ pc[r] \in InFlight \/ reply[r] = 201 => OwnDraft(r)
      /\ pc[r] \in InFlight \cup {"idle", "broken"} => reply[r] = 0
      /\ pc[r] \in {"idle", "paying"} \/ reply[r] \in {400, 401} => r \notin charged
      /\ pc[r] = "inserting" \/ Inserted(r) =>
           r \in charged /\ order[r].Status = "completed"
      /\ Inserted(r) => order[r].ID \in OrderIds /\ orders[order[r].ID] = order[r]

(* Who wrote an order has paid for it and is past its insert. *)
StoreInv ==
    /\ \A id \in OrderIds : orders[id] # NoOrder =>
         /\ orders[id].ID = id
         /\ orders[id].by \in charged
         /\ pc[orders[id].by] \notin {"idle", "paying", "inserting"}
    /\ \A i, j \in OrderIds :
         orders[i] # NoOrder /\ orders[j] # NoOrder /\ orders[i].by = orders[j].by => i = j

(* An event is a copy of a stored order whose handler has published it. *)
EventInv ==
    /\ \A i \in DOMAIN accepted :
         LET o == orders[accepted[i].order_id] IN
         /\ o # NoOrder
         /\ accepted[i] = Event(o)
         /\ pc[o.by] \in {"closing", "broken"} \/ reply[o.by] = 201
    /\ \A i, j \in DOMAIN accepted : accepted[i].order_id = accepted[j].order_id => i = j

(* What is on the wire has not arrived. *)
WireInv ==
    \A r \in wire :
      /\ pc[r] = "closing"
      /\ \A i \in DOMAIN accepted : accepted[i].order_id # order[r].ID

(* A dial is only tried while attempts are left. *)
DialInv == publisher = "dialing" => attempts < MaxDialAttempts

IInv == TypeOK /\ DialInv /\ HandlerInv /\ StoreInv /\ EventInv /\ WireInv
-----------------------------------------------------------------------------
(* NoOrder is told from an order by its field. *)
LEMMA NoOrderIsNoOrder == NoOrder \notin Orders /\ NoOrder \notin Drafts
  BY DEF NoOrder, Orders, Drafts

(* The two answers of the checks before the handler's first call. *)
LEMMA AnswerTypes ==
  ASSUME NEW in \in Inputs
  PROVE  /\ AuthAnswer(in.credential) \in {0, 401, 500}
         /\ ValidationAnswer(in) \in {0, 400}
         /\ AuthAnswer(in.credential) = 0 /\ ValidationAnswer(in) = 0 =>
              in.credential \in Users /\ in.body \in Bodies
  BY DEF Inputs, AuthAnswer, ValidationAnswer, Credentials, CredentialFaults

(* The order Admit makes is a draft of its request's own. *)
LEMMA DraftType ==
  ASSUME NEW r \in Requests, NEW in \in Inputs,
         in.credential \in Users, in.body \in Bodies
  PROVE  /\ Draft(r, in) \in Drafts
         /\ Draft(r, in).by = r
         /\ Draft(r, in).UserID = in.credential
         /\ Draft(r, in).Total = OrderTotal(in.body.Items)
  BY BodyAssumption DEF Draft, Drafts, Totals

(* A stored order is the handler's with the _id the insert gave it. *)
LEMMA StoredType ==
  ASSUME NEW r \in Requests, NEW id \in OrderIds,
         order[r] \in Drafts, order[r].by = r, order[r].Status = "completed"
  PROVE  /\ Stored(r, id) \in Orders
         /\ Stored(r, id) \in Drafts
         /\ Stored(r, id) # NoOrder
         /\ Stored(r, id).ID = id
         /\ Stored(r, id).by = r
         /\ Stored(r, id).UserID = order[r].UserID
         /\ Stored(r, id).Total = order[r].Total
         /\ Stored(r, id).Status = "completed"
  BY NoOrderIsNoOrder DEF Stored, Orders, Drafts

(* The event of a stored order has its order's _id. *)
LEMMA EventType ==
  ASSUME NEW o \in Orders
  PROVE  Event(o) \in Events /\ Event(o).order_id = o.ID
  BY DEF Event, Events, Orders

(* The order an event names is there, and so is the request that wrote it. *)
LEMMA EventOrder ==
  ASSUME TypeOK, EventInv, NEW i \in DOMAIN accepted
  PROVE  /\ accepted[i].order_id \in OrderIds
         /\ orders[accepted[i].order_id] \in Orders
         /\ orders[accepted[i].order_id].by \in Requests
  <1>1. accepted[i] \in Events
    BY DEF TypeOK
  <1>2. accepted[i].order_id \in OrderIds
    BY <1>1 DEF Events
  <1>3. orders[accepted[i].order_id] \in Orders
    BY <1>2 DEF TypeOK, EventInv
  <1> QED
    BY <1>2, <1>3 DEF Orders

LEMMA InitIInv == Init => IInv
  <1> SUFFICES ASSUME Init PROVE IInv
    OBVIOUS
  <1>1. TypeOK
    BY BoundAssumption, CredentialAssumption
    DEF Init, TypeOK, Inputs, Credentials, CredentialFaults, InFlight
  <1>2. HandlerInv
    BY DEF Init, HandlerInv, Inserted, InFlight
  <1>3. StoreInv
    BY DEF Init, StoreInv
  <1>4. EventInv /\ WireInv
    BY DEF Init, EventInv, WireInv
  <1>5. DialInv
    BY BoundAssumption DEF Init, DialInv
  <1> QED
    BY <1>1, <1>2, <1>3, <1>4, <1>5 DEF IInv
-----------------------------------------------------------------------------
LEMMA NextIInv == IInv /\ [Next]_vars => IInv'
  <1> SUFFICES ASSUME IInv, [Next]_vars PROVE IInv'
    OBVIOUS
  <1> USE DEF IInv
  <1>1. ASSUME NEW r \in Requests, Refuse(r) PROVE IInv'
    <2> USE <1>1 DEF Refuse
    <2>q. PICK in \in Inputs :
            /\ input' = [input EXCEPT ![r] = in]
            /\ \/ AuthAnswer(in.credential) # 0 /\ Respond(r, AuthAnswer(in.credential))
               \/ ValidationAnswer(in) # 0 /\ Respond(r, ValidationAnswer(in))
      OBVIOUS
    <2>p. PICK status \in {400, 401, 500} :
            /\ pc' = [pc EXCEPT ![r] = "done"]
            /\ reply' = [reply EXCEPT ![r] = status]
      <3>1. /\ AuthAnswer(in.credential) \in {0, 401, 500}
            /\ ValidationAnswer(in) \in {0, 400}
        BY AnswerTypes
      <3> QED
        BY <2>q, <3>1 DEF Respond
    <2>1. TypeOK'
      BY <2>q, <2>p DEF TypeOK, HandlerInv, InFlight, serviceVars, brokerVars
    <2>2. DialInv'
      BY <2>q, <2>p DEF DialInv, TypeOK, serviceVars, brokerVars
    <2>3. HandlerInv'
      BY <2>q, <2>p DEF TypeOK, HandlerInv, Inserted, OwnDraft, InFlight, serviceVars, brokerVars
    <2>4. StoreInv'
      BY <2>q, <2>p DEF TypeOK, StoreInv, HandlerInv, Inserted, InFlight, serviceVars, brokerVars
    <2>5. EventInv'
      BY <2>q, <2>p DEF TypeOK, HandlerInv, StoreInv, EventInv, InFlight, serviceVars, brokerVars
    <2>6. WireInv'
      BY <2>q, <2>p DEF TypeOK, WireInv, InFlight, serviceVars, brokerVars
    <2> QED
      BY <2>1, <2>2, <2>3, <2>4, <2>5, <2>6
  <1>2. ASSUME NEW r \in Requests, Admit(r) PROVE IInv'
    <2> USE <1>2 DEF Admit
    <2>p. PICK in \in Inputs :
            /\ in.credential \in Users /\ in.body \in Bodies
            /\ input' = [input EXCEPT ![r] = in]
            /\ order' = [order EXCEPT ![r] = Draft(r, in)]
            /\ pc' = [pc EXCEPT ![r] = "paying"]
      BY AnswerTypes
    <2>d. /\ Draft(r, in) \in Drafts /\ Draft(r, in).by = r
          /\ Draft(r, in).UserID = in.credential
          /\ Draft(r, in).Total = OrderTotal(in.body.Items)
      BY <2>p, DraftType
    <2>1. TypeOK'
      BY <2>p, <2>d DEF TypeOK, HandlerInv, InFlight, serviceVars, brokerVars
    <2>2. DialInv'
      BY <2>p, <2>d DEF DialInv, TypeOK, serviceVars, brokerVars
    <2>3. HandlerInv'
      BY <2>p, <2>d DEF TypeOK, HandlerInv, Inserted, OwnDraft, InFlight, serviceVars, brokerVars
    <2>4. StoreInv'
      BY <2>p, <2>d DEF TypeOK, StoreInv, HandlerInv, Inserted, InFlight, serviceVars, brokerVars
    <2>5. EventInv'
      BY <2>p, <2>d DEF TypeOK, HandlerInv, StoreInv, EventInv, InFlight, serviceVars, brokerVars
    <2>6. WireInv'
      BY <2>p, <2>d DEF TypeOK, WireInv, InFlight, serviceVars, brokerVars
    <2> QED
      BY <2>1, <2>2, <2>3, <2>4, <2>5, <2>6
  <1>3. ASSUME NEW r \in Requests, PaymentApproved(r) PROVE IInv'
    <2> USE <1>3 DEF PaymentApproved
    <2>p. OwnDraft(r)
      BY DEF HandlerInv, InFlight
    <2> DEFINE paid == [order[r] EXCEPT !.Status = "completed"]
    <2>d. /\ paid \in Drafts /\ paid.by = r
          /\ paid.UserID = order[r].UserID /\ paid.Total = order[r].Total
          /\ paid.Status = "completed"
      BY <2>p DEF OwnDraft, Drafts
    <2>e. order' = [order EXCEPT ![r] = paid]
      OBVIOUS
    <2> HIDE DEF paid
    <2>1. TypeOK'
      BY <2>d, <2>e DEF TypeOK, HandlerInv, InFlight, serviceVars, brokerVars
    <2>2. DialInv'
      BY DEF DialInv, TypeOK, Respond, serviceVars, brokerVars
    <2>3. HandlerInv'
      BY <2>p, <2>d, <2>e
      DEF TypeOK, HandlerInv, Inserted, OwnDraft, InFlight, serviceVars, brokerVars
    <2>4. StoreInv'
      BY DEF TypeOK, StoreInv, HandlerInv, Inserted, InFlight, Respond, serviceVars, brokerVars
    <2>5. EventInv'
      BY DEF TypeOK, HandlerInv, StoreInv, EventInv, InFlight, Respond, serviceVars, brokerVars
    <2>6. WireInv'
      BY DEF TypeOK, WireInv, InFlight, Respond, serviceVars, brokerVars
    <2> QED
      BY <2>1, <2>2, <2>3, <2>4, <2>5, <2>6
  <1>4. ASSUME NEW r \in Requests, PaymentDeclined(r) PROVE IInv'
    <2> USE <1>4 DEF PaymentDeclined
    <2>1. TypeOK'
      BY DEF TypeOK, HandlerInv, InFlight, Respond, serviceVars, brokerVars
    <2>2. DialInv'
      BY DEF DialInv, TypeOK, Respond, serviceVars, brokerVars
    <2>3. HandlerInv'
      BY DEF TypeOK, HandlerInv, Inserted, OwnDraft, InFlight, Respond, serviceVars, brokerVars
    <2>4. StoreInv'
      BY DEF TypeOK, StoreInv, HandlerInv, Inserted, InFlight, Respond, serviceVars, brokerVars
    <2>5. EventInv'
      BY DEF TypeOK, HandlerInv, StoreInv, EventInv, InFlight, Respond, serviceVars, brokerVars
    <2>6. WireInv'
      BY DEF TypeOK, WireInv, InFlight, Respond, serviceVars, brokerVars
    <2> QED
      BY <2>1, <2>2, <2>3, <2>4, <2>5, <2>6
  <1>5. ASSUME NEW r \in Requests, InsertOrder(r) PROVE IInv'
    <2> USE <1>5 DEF InsertOrder
    <2>o. OwnDraft(r) /\ order[r].Status = "completed" /\ r \in charged /\ reply[r] = 0
      BY DEF HandlerInv, InFlight
    <2>p. PICK id \in OrderIds :
            /\ orders[id] = NoOrder
            /\ orders' = [orders EXCEPT ![id] = Stored(r, id)]
            /\ order' = [order EXCEPT ![r] = Stored(r, id)]
      BY DEF InsertId
    <2>d. /\ Stored(r, id) \in Orders /\ Stored(r, id) \in Drafts
          /\ Stored(r, id) # NoOrder
          /\ Stored(r, id).ID = id /\ Stored(r, id).by = r
          /\ Stored(r, id).UserID = order[r].UserID
          /\ Stored(r, id).Total = order[r].Total
          /\ Stored(r, id).Status = "completed"
      BY <2>o, StoredType DEF OwnDraft
    <2>n. \A i \in OrderIds : orders[i] # NoOrder => orders[i].by # r
      BY DEF StoreInv
    <2>1. TypeOK'
      BY <2>o, <2>p, <2>d, <2>n, NoOrderIsNoOrder
      DEF TypeOK, HandlerInv, InFlight, serviceVars, brokerVars
    <2>2. DialInv'
      BY <2>o, <2>p, <2>d, <2>n, NoOrderIsNoOrder DEF DialInv, TypeOK, serviceVars, brokerVars
    <2>3. HandlerInv'
      BY <2>o, <2>p, <2>d, <2>n, NoOrderIsNoOrder
      DEF TypeOK, HandlerInv, Inserted, OwnDraft, InFlight, serviceVars, brokerVars
    <2>4. StoreInv'
      BY <2>o, <2>p, <2>d, <2>n, NoOrderIsNoOrder
      DEF TypeOK, StoreInv, HandlerInv, Inserted, InFlight, serviceVars, brokerVars
    <2>5. EventInv'
      BY <2>o, <2>p, <2>d, <2>n, NoOrderIsNoOrder
      DEF TypeOK, HandlerInv, StoreInv, EventInv, InFlight, serviceVars, brokerVars
    <2>6. WireInv'
      BY <2>o, <2>p, <2>d, <2>n, NoOrderIsNoOrder
      DEF TypeOK, WireInv, InFlight, serviceVars, brokerVars
    <2> QED
      BY <2>1, <2>2, <2>3, <2>4, <2>5, <2>6
  <1>6. ASSUME NEW r \in Requests, InsertFails(r) PROVE IInv'
    <2> USE <1>6 DEF InsertFails
    <2>o. OwnDraft(r) /\ order[r].Status = "completed" /\ r \in charged /\ reply[r] = 0
      BY DEF HandlerInv, InFlight
    <2>n. \A i \in OrderIds : orders[i] # NoOrder => orders[i].by # r
      BY DEF StoreInv
    <2>p. /\ orders' \in [OrderIds -> Orders \cup {NoOrder}]
          /\ \A i \in OrderIds : orders[i] # NoOrder => orders'[i] = orders[i]
          /\ \A i \in OrderIds : orders'[i] # orders[i] =>
               orders'[i].ID = i /\ orders'[i].by = r
          /\ \A i, j \in OrderIds :
               orders'[i] # orders[i] /\ orders'[j] # orders[j] => i = j
      <3>1. CASE orders' = orders
        BY <3>1 DEF TypeOK
      <3>2. CASE \E id \in OrderIds : InsertId(r, id)
                   /\ orders' = [orders EXCEPT ![id] = Stored(r, id)]
        <4>1. PICK id \in OrderIds : orders[id] = NoOrder
                   /\ orders' = [orders EXCEPT ![id] = Stored(r, id)]
          BY <3>2 DEF InsertId
        <4>2. Stored(r, id) \in Orders /\ Stored(r, id).ID = id /\ Stored(r, id).by = r
          BY <2>o, StoredType DEF OwnDraft
        <4> QED
          BY <4>1, <4>2 DEF TypeOK
      <3> QED
        BY <3>1, <3>2
    <2>1. TypeOK'
      BY <2>o, <2>p, <2>n, NoOrderIsNoOrder
      DEF TypeOK, HandlerInv, InFlight, Respond, serviceVars, brokerVars
    <2>2. DialInv'
      BY <2>o, <2>p, <2>n, NoOrderIsNoOrder DEF DialInv, TypeOK, Respond, serviceVars, brokerVars
    <2>3. HandlerInv'
      BY <2>o, <2>p, <2>n, NoOrderIsNoOrder
      DEF TypeOK, HandlerInv, Inserted, OwnDraft, InFlight, Respond, serviceVars, brokerVars
    <2>4. StoreInv'
      BY <2>o, <2>p, <2>n, NoOrderIsNoOrder
      DEF TypeOK, StoreInv, HandlerInv, Inserted, InFlight, Respond, serviceVars, brokerVars
    <2>5. EventInv'
      BY EventOrder, <2>o, <2>p, <2>n, NoOrderIsNoOrder
      DEF TypeOK, HandlerInv, StoreInv, EventInv, InFlight, Respond, serviceVars, brokerVars
    <2>6. WireInv'
      BY <2>o, <2>p, <2>n, NoOrderIsNoOrder
      DEF TypeOK, WireInv, InFlight, Respond, serviceVars, brokerVars
    <2> QED
      BY <2>1, <2>2, <2>3, <2>4, <2>5, <2>6
  <1>7. ASSUME NEW r \in Requests, PublishEvent(r) PROVE IInv'
    <2> USE <1>7 DEF PublishEvent
    <2>o. /\ OwnDraft(r) /\ order[r].ID \in OrderIds /\ reply[r] = 0
          /\ orders[order[r].ID] = order[r]
      BY DEF HandlerInv, InFlight, Inserted
    <2>n. \A i \in DOMAIN accepted : accepted[i].order_id # order[r].ID
      BY <2>o DEF EventInv, OwnDraft
    <2>1. TypeOK'
      BY DEF TypeOK, HandlerInv, InFlight, Respond, serviceVars, brokerVars
    <2>2. DialInv'
      BY DEF DialInv, TypeOK, Respond, serviceVars, brokerVars
    <2>3. HandlerInv'
      BY DEF TypeOK, HandlerInv, Inserted, OwnDraft, InFlight, Respond, serviceVars, brokerVars
    <2>4. StoreInv'
      BY DEF TypeOK, StoreInv, HandlerInv, Inserted, InFlight, Respond, serviceVars, brokerVars
    <2>5. EventInv'
      BY DEF TypeOK, HandlerInv, StoreInv, EventInv, InFlight, Respond, serviceVars, brokerVars
    <2>6. WireInv'
      BY <2>n DEF WireInv, TypeOK, serviceVars
    <2> QED
      BY <2>1, <2>2, <2>3, <2>4, <2>5, <2>6
  <1>8. ASSUME NEW r \in Requests, PublishFails(r) PROVE IInv'
    <2> USE <1>8 DEF PublishFails
    <2>1. TypeOK'
      BY DEF TypeOK, HandlerInv, InFlight, Respond, serviceVars, brokerVars
    <2>2. DialInv'
      BY DEF DialInv, TypeOK, Respond, serviceVars, brokerVars
    <2>3. HandlerInv'
      BY DEF TypeOK, HandlerInv, Inserted, OwnDraft, InFlight, Respond, serviceVars, brokerVars
    <2>4. StoreInv'
      BY DEF TypeOK, StoreInv, HandlerInv, Inserted, InFlight, Respond, serviceVars, brokerVars
    <2>5. EventInv'
      BY DEF TypeOK, HandlerInv, StoreInv, EventInv, InFlight, Respond, serviceVars, brokerVars
    <2>6. WireInv'
      BY DEF TypeOK, WireInv, InFlight, Respond, serviceVars, brokerVars
    <2> QED
      BY <2>1, <2>2, <2>3, <2>4, <2>5, <2>6
  <1>9. ASSUME NEW r \in Requests, CloseChannel(r) PROVE IInv'
    <2> USE <1>9 DEF CloseChannel
    <2>1. TypeOK'
      BY DEF TypeOK, HandlerInv, InFlight, Respond, serviceVars, brokerVars
    <2>2. DialInv'
      BY DEF DialInv, TypeOK, Respond, serviceVars, brokerVars
    <2>3. HandlerInv'
      BY DEF TypeOK, HandlerInv, Inserted, OwnDraft, InFlight, Respond, serviceVars, brokerVars
    <2>4. StoreInv'
      BY DEF TypeOK, StoreInv, HandlerInv, Inserted, InFlight, Respond, serviceVars, brokerVars
    <2>5. EventInv'
      BY DEF TypeOK, HandlerInv, StoreInv, EventInv, InFlight, Respond, serviceVars, brokerVars
    <2>6. WireInv'
      BY DEF TypeOK, WireInv, InFlight, Respond, serviceVars, brokerVars
    <2> QED
      BY <2>1, <2>2, <2>3, <2>4, <2>5, <2>6
  <1>10. ASSUME NEW r \in Requests, BrokerAccepts(r) PROVE IInv'
    <2> USE <1>10 DEF BrokerAccepts
    <2>o. /\ pc[r] = "closing" /\ OwnDraft(r) /\ order[r].ID \in OrderIds
          /\ orders[order[r].ID] = order[r]
      BY DEF WireInv, HandlerInv, InFlight, Inserted
    <2>d. order[r] \in Orders /\ order[r] # NoOrder /\ order[r].by = r
      BY <2>o, NoOrderIsNoOrder DEF OwnDraft, TypeOK
    <2>e. /\ Event(order[r]) \in Events
          /\ Event(order[r]).order_id = order[r].ID
      BY <2>d, EventType
    <2>l. /\ accepted' \in Seq(Events)
          /\ DOMAIN accepted' = DOMAIN accepted \cup {Len(accepted) + 1}
          /\ \A i \in DOMAIN accepted : accepted'[i] = accepted[i]
          /\ accepted'[Len(accepted) + 1] = Event(order[r])
      BY <2>e DEF TypeOK
    <2>w. \A i \in DOMAIN accepted : accepted[i].order_id # order[r].ID
      BY DEF WireInv
    <2>u. \A q \in wire \ {r} : order[q].ID # order[r].ID
      BY <2>o, <2>d DEF WireInv, HandlerInv, Inserted, OwnDraft, InFlight, TypeOK
    <2>1. TypeOK'
      BY <2>o, <2>d, <2>e, <2>l, <2>w, <2>u DEF TypeOK, HandlerInv, InFlight, serviceVars
    <2>2. DialInv'
      BY <2>o, <2>d, <2>e, <2>l, <2>w, <2>u DEF DialInv, TypeOK, serviceVars
    <2>3. HandlerInv'
      BY <2>o, <2>d, <2>e, <2>l, <2>w, <2>u
      DEF TypeOK, HandlerInv, Inserted, OwnDraft, InFlight, serviceVars
    <2>4. StoreInv'
      BY <2>o, <2>d, <2>e, <2>l, <2>w, <2>u
      DEF TypeOK, StoreInv, HandlerInv, Inserted, InFlight, serviceVars
    <2>5. EventInv'
      BY EventOrder, <2>o, <2>d, <2>e, <2>l, <2>w, <2>u
      DEF TypeOK, HandlerInv, StoreInv, EventInv, InFlight, serviceVars
    <2>6. WireInv'
      BY <2>o, <2>d, <2>e, <2>l, <2>w, <2>u DEF TypeOK, WireInv, InFlight, serviceVars
    <2> QED
      BY <2>1, <2>2, <2>3, <2>4, <2>5, <2>6
  <1>11. ASSUME DialSucceeds PROVE IInv'
    <2> USE <1>11 DEF DialSucceeds
    <2>1. TypeOK'
      BY BoundAssumption DEF TypeOK, InFlight, LoseConnection, serviceVars, brokerVars
    <2>2. DialInv'
      BY BoundAssumption DEF DialInv, TypeOK, serviceVars, LoseConnection
    <2>3. HandlerInv'
      BY
      DEF TypeOK, HandlerInv, Inserted, OwnDraft, InFlight, serviceVars, brokerVars,
          LoseConnection
    <2>4. StoreInv'
      BY
      DEF TypeOK, StoreInv, HandlerInv, Inserted, InFlight, serviceVars, brokerVars,
          LoseConnection
    <2>5. EventInv'
      BY
      DEF TypeOK, HandlerInv, StoreInv, EventInv, InFlight, serviceVars, brokerVars,
          LoseConnection
    <2>6. WireInv'
      BY DEF TypeOK, WireInv, InFlight, serviceVars, brokerVars, LoseConnection
    <2> QED
      BY <2>1, <2>2, <2>3, <2>4, <2>5, <2>6
  <1>12. ASSUME DialFails PROVE IInv'
    <2> USE <1>12 DEF DialFails
    <2>1. TypeOK'
      BY BoundAssumption DEF TypeOK, DialInv, serviceVars, brokerVars
    <2>2. DialInv'
      BY BoundAssumption DEF DialInv, TypeOK, serviceVars, LoseConnection
    <2>3. HandlerInv'
      BY
      DEF TypeOK, HandlerInv, Inserted, OwnDraft, InFlight, serviceVars, brokerVars,
          LoseConnection
    <2>4. StoreInv'
      BY
      DEF TypeOK, StoreInv, HandlerInv, Inserted, InFlight, serviceVars, brokerVars,
          LoseConnection
    <2>5. EventInv'
      BY
      DEF TypeOK, HandlerInv, StoreInv, EventInv, InFlight, serviceVars, brokerVars,
          LoseConnection
    <2>6. WireInv'
      BY DEF TypeOK, WireInv, InFlight, serviceVars, brokerVars, LoseConnection
    <2> QED
      BY <2>1, <2>2, <2>3, <2>4, <2>5, <2>6
  <1>13. ASSUME ConnectionLost PROVE IInv'
    <2> USE <1>13 DEF ConnectionLost
    <2>1. TypeOK'
      BY BoundAssumption DEF TypeOK, InFlight, LoseConnection, serviceVars, brokerVars
    <2>2. DialInv'
      BY BoundAssumption DEF DialInv, TypeOK, serviceVars, LoseConnection
    <2>3. HandlerInv'
      BY
      DEF TypeOK, HandlerInv, Inserted, OwnDraft, InFlight, serviceVars, brokerVars,
          LoseConnection
    <2>4. StoreInv'
      BY
      DEF TypeOK, StoreInv, HandlerInv, Inserted, InFlight, serviceVars, brokerVars,
          LoseConnection
    <2>5. EventInv'
      BY
      DEF TypeOK, HandlerInv, StoreInv, EventInv, InFlight, serviceVars, brokerVars,
          LoseConnection
    <2>6. WireInv'
      BY DEF TypeOK, WireInv, InFlight, serviceVars, brokerVars, LoseConnection
    <2> QED
      BY <2>1, <2>2, <2>3, <2>4, <2>5, <2>6
  <1>14. ASSUME BrokerStops PROVE IInv'
    <2> USE <1>14 DEF BrokerStops
    <2>1. TypeOK'
      BY BoundAssumption DEF TypeOK, InFlight, LoseConnection, serviceVars, brokerVars
    <2>2. DialInv'
      BY BoundAssumption DEF DialInv, TypeOK, serviceVars, LoseConnection
    <2>3. HandlerInv'
      BY
      DEF TypeOK, HandlerInv, Inserted, OwnDraft, InFlight, serviceVars, brokerVars,
          LoseConnection
    <2>4. StoreInv'
      BY
      DEF TypeOK, StoreInv, HandlerInv, Inserted, InFlight, serviceVars, brokerVars,
          LoseConnection
    <2>5. EventInv'
      BY
      DEF TypeOK, HandlerInv, StoreInv, EventInv, InFlight, serviceVars, brokerVars,
          LoseConnection
    <2>6. WireInv'
      BY DEF TypeOK, WireInv, InFlight, serviceVars, brokerVars, LoseConnection
    <2> QED
      BY <2>1, <2>2, <2>3, <2>4, <2>5, <2>6
  <1>15. ASSUME BrokerStarts PROVE IInv'
    <2> USE <1>15 DEF BrokerStarts
    <2>1. TypeOK'
      BY BoundAssumption DEF TypeOK, InFlight, LoseConnection, serviceVars, brokerVars
    <2>2. DialInv'
      BY BoundAssumption DEF DialInv, TypeOK, serviceVars, LoseConnection
    <2>3. HandlerInv'
      BY
      DEF TypeOK, HandlerInv, Inserted, OwnDraft, InFlight, serviceVars, brokerVars,
          LoseConnection
    <2>4. StoreInv'
      BY
      DEF TypeOK, StoreInv, HandlerInv, Inserted, InFlight, serviceVars, brokerVars,
          LoseConnection
    <2>5. EventInv'
      BY
      DEF TypeOK, HandlerInv, StoreInv, EventInv, InFlight, serviceVars, brokerVars,
          LoseConnection
    <2>6. WireInv'
      BY DEF TypeOK, WireInv, InFlight, serviceVars, brokerVars, LoseConnection
    <2> QED
      BY <2>1, <2>2, <2>3, <2>4, <2>5, <2>6
  <1>16. ASSUME ServiceCrashes PROVE IInv'
    <2> USE <1>16 DEF ServiceCrashes
    <2>1. TypeOK'
      BY BoundAssumption DEF TypeOK, InFlight, LoseConnection, serviceVars, brokerVars
    <2>2. DialInv'
      BY BoundAssumption DEF DialInv, TypeOK, serviceVars, LoseConnection
    <2>3. HandlerInv'
      BY
      DEF TypeOK, HandlerInv, Inserted, OwnDraft, InFlight, serviceVars, brokerVars,
          LoseConnection
    <2>4. StoreInv'
      BY
      DEF TypeOK, StoreInv, HandlerInv, Inserted, InFlight, serviceVars, brokerVars,
          LoseConnection
    <2>5. EventInv'
      BY EventOrder DEF EventInv, TypeOK, InFlight
    <2>6. WireInv'
      BY DEF TypeOK, WireInv, InFlight, serviceVars, brokerVars, LoseConnection
    <2> QED
      BY <2>1, <2>2, <2>3, <2>4, <2>5, <2>6
  <1>17. CASE UNCHANGED vars
    BY <1>17 DEF vars, TypeOK, DialInv, HandlerInv, Inserted, OwnDraft, StoreInv, EventInv, WireInv
  <1> QED
    BY <1>1, <1>2, <1>3, <1>4, <1>5, <1>6, <1>7, <1>8, <1>9, <1>10, <1>11, <1>12, <1>13, <1>14, <1>15, <1>16, <1>17
    DEF Next, Handle
-----------------------------------------------------------------------------
(* The inductive invariant holds in every behaviour of the service. *)
THEOREM InductiveInvariant == Spec => []IInv
  BY InitIInv, NextIInv, PTL DEF Spec

(* The variables of order-service keep their types for every set of requests,
   users and bodies and every number of faults. *)
THEOREM TypeCorrect == Spec => []TypeOK
  <1>1. IInv => TypeOK
    BY DEF IInv
  <1> QED
    BY <1>1, InductiveInvariant, PTL

(* CreateOrder's 201: paid for, stored once, and the token's user and the items'
   total in the order, in every interleaving of requests and faults. *)
THEOREM ConfirmedStored == Spec => []ConfirmedOrderIsStored
  <1>1. IInv => ConfirmedOrderIsStored
    <2> SUFFICES ASSUME IInv, NEW r \in Requests, reply[r] = 201
                 PROVE  /\ r \in charged
                        /\ OrdersBy(r) = {order[r].ID}
                        /\ orders[order[r].ID] =
                             [ ID |-> order[r].ID, UserID |-> input[r].credential,
                               Status |-> "completed",
                               Total |-> OrderTotal(input[r].body.Items), by |-> r ]
      BY DEF ConfirmedOrderIsStored
    <2>1. /\ OwnDraft(r) /\ r \in charged /\ order[r].Status = "completed"
          /\ order[r].ID \in OrderIds /\ orders[order[r].ID] = order[r]
      BY DEF IInv, HandlerInv, Inserted
    <2>2. OrdersBy(r) = {order[r].ID}
      BY <2>1, NoOrderIsNoOrder DEF OrdersBy, IInv, StoreInv, OwnDraft
    <2>3. order[r] = [ ID |-> order[r].ID, UserID |-> input[r].credential,
                       Status |-> "completed",
                       Total |-> OrderTotal(input[r].body.Items), by |-> r ]
      BY <2>1 DEF OwnDraft, Drafts
    <2> QED
      BY <2>1, <2>2, <2>3
  <1> QED
    BY <1>1, InductiveInvariant, PTL

(* The insert comes before the publish: whoever reads an event finds its order. *)
THEOREM EventStored == Spec => []EventTellsOfStoredOrder
  <1>1. IInv => EventTellsOfStoredOrder
    <2> SUFFICES ASSUME IInv, NEW i \in DOMAIN accepted
                 PROVE  \E id \in OrderIds : /\ orders[id] # NoOrder
                                            /\ accepted[i] = Event(orders[id])
                                            /\ orders[id].by \in charged
      BY DEF EventTellsOfStoredOrder
    <2>1. accepted[i].order_id \in OrderIds
      BY EventOrder DEF IInv
    <2>2. /\ orders[accepted[i].order_id] # NoOrder
          /\ accepted[i] = Event(orders[accepted[i].order_id])
      BY DEF IInv, EventInv
    <2> QED
      BY <2>1, <2>2 DEF IInv, StoreInv
  <1> QED
    BY <1>1, InductiveInvariant, PTL

(* One order for each request, one event for each order. *)
THEOREM NoDoubles == Spec => []NothingIsDoubled
  <1>1. IInv => NothingIsDoubled
    BY DEF IInv, StoreInv, EventInv, NothingIsDoubled
  <1> QED
    BY <1>1, InductiveInvariant, PTL

(* The events of r are those of orders whose handler has passed the insert. *)
LEMMA AnnouncedState ==
  ASSUME IInv, NEW r \in Requests, Announced(r)
  PROVE  pc[r] \in {"closing", "broken"} \/ reply[r] = 201
  BY DEF IInv, EventInv, Announced, OrdersBy

(* An error answer leaves no event, and a 400 or 401 no payment and no order. *)
THEOREM ErrorsNotAnnounced == Spec => []ErrorAnswerIsNotAnnounced
  <1>1. IInv => ErrorAnswerIsNotAnnounced
    <2> SUFFICES ASSUME IInv, NEW r \in Requests
                 PROVE  /\ reply[r] \in {400, 401} => r \notin charged /\ OrdersBy(r) = {}
                        /\ reply[r] \in {400, 401, 500} => ~ Announced(r)
      BY DEF ErrorAnswerIsNotAnnounced
    <2>1. reply[r] \in {400, 401} => r \notin charged /\ OrdersBy(r) = {}
      BY DEF IInv, HandlerInv, StoreInv, OrdersBy
    <2>2. reply[r] \in {400, 401, 500} => ~ Announced(r)
      BY AnnouncedState DEF IInv, HandlerInv, InFlight
    <2> QED
      BY <2>1, <2>2
  <1> QED
    BY <1>1, InductiveInvariant, PTL

(* No step of the service changes or removes a stored order. *)
THEOREM OrdersNeverChange == Spec => StoredOrdersNeverChange
  <1>1. IInv /\ [Next]_vars =>
          [\A id \in OrderIds : orders[id] # NoOrder => orders'[id] = orders[id]]_vars
    <2> SUFFICES ASSUME IInv, [Next]_vars, NEW id \in OrderIds, orders[id] # NoOrder
                 PROVE  orders'[id] = orders[id]
      OBVIOUS
    <2>1. ASSUME NEW r \in Requests, InsertOrder(r) \/ InsertFails(r)
          PROVE  orders'[id] = orders[id]
      BY <2>1 DEF InsertOrder, InsertFails, InsertId, IInv, TypeOK
    <2>2. ASSUME orders' = orders
          PROVE  orders'[id] = orders[id]
      BY <2>2
    <2> QED
      BY <2>1, <2>2 DEF Next, Handle, Refuse, Admit, PaymentApproved, PaymentDeclined,
         PublishEvent, PublishFails, CloseChannel, BrokerAccepts, DialSucceeds, DialFails,
         ConnectionLost, BrokerStops, BrokerStarts, ServiceCrashes, vars
  <1> QED
    BY <1>1, InductiveInvariant, PTL DEF Spec, StoredOrdersNeverChange
=============================================================================
