------------------------ MODULE OrderPlacementProofs ------------------------
(***************************************************************************)
(* OrderService implements OrderPlacement, and without an outage leaves no *)
(* confirmed order unannounced, but for those whose publish failed. Both   *)
(* rest on the inductive invariant of OrderServiceProofs.                  *)
(***************************************************************************)
EXTENDS OrderServiceProofs

Recorded == { r \in Requests : OrdersBy(r) # {} }
AnnouncedSet == { r \in Requests : Announced(r) }
Outcomes == [r \in Requests |-> Outcome(r)]

(* What the state functions of the refinement are made of. *)
LEMMA SameCollection ==
  ASSUME orders' = orders
  PROVE  Recorded' = Recorded
  BY DEF Recorded, OrdersBy

LEMMA SameEvents ==
  ASSUME orders' = orders, accepted' = accepted
  PROVE  AnnouncedSet' = AnnouncedSet
  BY DEF AnnouncedSet, Announced, OrdersBy

(* An answer concludes its request and no other. *)
LEMMA Concluded ==
  ASSUME TypeOK, NEW r \in Requests, NEW status, Respond(r, status),
         status # 0, UNCHANGED charged
  PROVE  Outcomes' = [Outcomes EXCEPT ![r] =
             IF status = 201 THEN "confirmed"
             ELSE IF r \in charged THEN "failed" ELSE "refused"]
  <1>1. reply'[r] = status /\ \A q \in Requests \ {r} : reply'[q] = reply[q]
    BY DEF Respond, TypeOK
  <1>2. \A q \in Requests \ {r} : Outcome(q)' = Outcome(q)
    BY <1>1 DEF Outcome
  <1>3. Outcome(r)' = IF status = 201 THEN "confirmed"
                      ELSE IF r \in charged THEN "failed" ELSE "refused"
    BY <1>1 DEF Outcome
  <1> QED
    BY <1>2, <1>3 DEF Outcomes

(* An insert records its request and tells nobody. *)
LEMMA InsertRecords ==
  ASSUME IInv, NEW r \in Requests, pc[r] = "inserting",
         NEW id \in OrderIds, InsertId(r, id),
         orders' = [orders EXCEPT ![id] = Stored(r, id)], accepted' = accepted
  PROVE  /\ r \notin Recorded
         /\ Recorded' = Recorded \cup {r}
         /\ AnnouncedSet' = AnnouncedSet
  <1>1. OwnDraft(r) /\ order[r].Status = "completed"
    BY DEF IInv, HandlerInv, InFlight
  <1>2. Stored(r, id) # NoOrder /\ Stored(r, id).by = r
    BY <1>1, StoredType DEF OwnDraft
  <1>3. OrdersBy(r) = {} /\ OrdersBy(r)' = {id}
    BY <1>2 DEF OrdersBy, IInv, StoreInv, TypeOK, InsertId
  <1>4. \A q \in Requests \ {r} : OrdersBy(q)' = OrdersBy(q)
    BY <1>2 DEF OrdersBy, IInv, TypeOK, InsertId
  <1>5. \A i \in DOMAIN accepted : accepted[i].order_id # id
    BY DEF IInv, EventInv, InsertId
  <1>6. ~ Announced(r) /\ ~ Announced(r)'
    BY <1>3, <1>5 DEF Announced
  <1>7. \A q \in Requests \ {r} : Announced(q)' <=> Announced(q)
    BY <1>4 DEF Announced
  <1> QED
    BY <1>3, <1>4, <1>6, <1>7 DEF Recorded, AnnouncedSet

(* What the broker takes off the wire was not announced and now is. *)
LEMMA AcceptAnnounces ==
  ASSUME IInv, NEW r \in Requests, BrokerAccepts(r)
  PROVE  /\ r \in Recorded \ AnnouncedSet
         /\ AnnouncedSet' = AnnouncedSet \cup {r}
         /\ reply[r] = 0
  <1>1. /\ r \in wire /\ orders' = orders
        /\ accepted' = Append(accepted, Event(order[r]))
    BY DEF BrokerAccepts
  <1>2. /\ pc[r] = "closing" /\ OwnDraft(r) /\ order[r].ID \in OrderIds /\ reply[r] = 0
        /\ orders[order[r].ID] = order[r] /\ order[r].by = r
    BY <1>1 DEF IInv, WireInv, HandlerInv, Inserted, InFlight, OwnDraft
  <1>3. order[r] \in Orders /\ Event(order[r]).order_id = order[r].ID
    BY <1>2, NoOrderIsNoOrder, EventType DEF OwnDraft, IInv, TypeOK
  <1>4. OrdersBy(r) = {order[r].ID}
    BY <1>2, NoOrderIsNoOrder DEF OrdersBy, IInv, StoreInv, OwnDraft
  <1>5. ~ Announced(r)
    BY <1>1, <1>4 DEF Announced, IInv, WireInv
  <1>6. /\ DOMAIN accepted' = DOMAIN accepted \cup {Len(accepted) + 1}
        /\ \A i \in DOMAIN accepted : accepted'[i] = accepted[i]
        /\ accepted'[Len(accepted) + 1] = Event(order[r])
    BY <1>1, <1>3, EventType DEF IInv, TypeOK
  <1>7. Announced(r)'
    BY <1>1, <1>3, <1>4, <1>6 DEF Announced, OrdersBy
  <1>8. ASSUME NEW q \in Requests, q # r
        PROVE  Announced(q)' <=> Announced(q)
    <2>1. order[r].ID \notin OrdersBy(q)
      BY <1>2, <1>8 DEF OrdersBy
    <2>2. OrdersBy(q)' = OrdersBy(q)
      BY <1>1 DEF OrdersBy
    <2> QED
      BY <1>3, <1>6, <2>1, <2>2 DEF Announced
  <1> QED
    BY <1>2, <1>4, <1>5, <1>7, <1>8 DEF Recorded, AnnouncedSet

LEMMA InitPlacement == Init => Placement!Init
  <1> SUFFICES ASSUME Init PROVE Placement!Init
    OBVIOUS
  <1>1. /\ charged = {}
        /\ \A r \in Requests : OrdersBy(r) = {} /\ ~ Announced(r) /\ Outcome(r) = "open"
    BY DEF Init, OrdersBy, Announced, Outcome
  <1> QED
    BY <1>1 DEF Placement!Init

LEMMA NextPlacement == IInv /\ [Next]_vars => [Placement!Next]_(Placement!vars)
  <1> SUFFICES ASSUME IInv, [Next]_vars PROVE [Placement!Next]_(Placement!vars)
    OBVIOUS
  <1> DEFINE Stutter == /\ charged' = charged /\ Recorded' = Recorded
                        /\ AnnouncedSet' = AnnouncedSet /\ Outcomes' = Outcomes
  <1>s. Stutter => UNCHANGED Placement!vars
    BY DEF Placement!vars, Recorded, AnnouncedSet, Outcomes
  <1>t. TypeOK
    BY DEF IInv
  <1>1. ASSUME NEW r \in Requests, Refuse(r) PROVE Placement!Next
    <2>1. PICK status \in {400, 401, 500} : Respond(r, status)
      BY <1>1, AnswerTypes DEF Refuse
    <2>2. reply[r] = 0 /\ r \notin charged
      BY <1>1 DEF Refuse, IInv, HandlerInv
    <2>3. Outcomes' = [Outcomes EXCEPT ![r] = "refused"]
      BY <1>1, <1>t, <2>1, <2>2, Concluded DEF Refuse
    <2>4. charged' = charged /\ Recorded' = Recorded /\ AnnouncedSet' = AnnouncedSet
      BY <1>1, SameCollection, SameEvents DEF Refuse, brokerVars
    <2> QED
      BY <2>2, <2>3, <2>4 DEF Placement!Next, Placement!Refuse, Placement!Conclude,
         Recorded, AnnouncedSet, Outcomes, Outcome
  <1>2. ASSUME NEW r \in Requests, PaymentDeclined(r) PROVE Placement!Next
    <2>1. Respond(r, 400)
      BY <1>2 DEF PaymentDeclined
    <2>2. reply[r] = 0 /\ r \notin charged
      BY <1>2 DEF PaymentDeclined, IInv, HandlerInv, InFlight
    <2>3. Outcomes' = [Outcomes EXCEPT ![r] = "refused"]
      BY <1>2, <1>t, <2>1, <2>2, Concluded DEF PaymentDeclined
    <2>4. charged' = charged /\ Recorded' = Recorded /\ AnnouncedSet' = AnnouncedSet
      BY <1>2, SameCollection, SameEvents DEF PaymentDeclined, brokerVars
    <2> QED
      BY <2>2, <2>3, <2>4 DEF Placement!Next, Placement!Refuse, Placement!Conclude,
         Recorded, AnnouncedSet, Outcomes, Outcome
  <1>3. ASSUME NEW r \in Requests, PaymentApproved(r) PROVE Placement!Next
    <2>1. reply[r] = 0 /\ r \notin charged /\ charged' = charged \cup {r} /\ reply' = reply
      BY <1>3 DEF PaymentApproved, IInv, HandlerInv, InFlight
    <2>2. Outcomes' = Outcomes
      BY <2>1 DEF Outcomes, Outcome
    <2>3. Recorded' = Recorded /\ AnnouncedSet' = AnnouncedSet
      BY <1>3, SameCollection, SameEvents DEF PaymentApproved, brokerVars
    <2> QED
      BY <2>1, <2>2, <2>3
      DEF Placement!Next, Placement!Pay, Recorded, AnnouncedSet, Outcomes, Outcome
  <1>4. ASSUME NEW r \in Requests, InsertOrder(r) PROVE Placement!Next
    <2>1. pc[r] = "inserting" /\ reply[r] = 0 /\ r \in charged
      BY <1>4 DEF InsertOrder, IInv, HandlerInv, InFlight
    <2>2. r \notin Recorded /\ Recorded' = Recorded \cup {r} /\ AnnouncedSet' = AnnouncedSet
      BY <1>4, <2>1, InsertRecords DEF InsertOrder, brokerVars
    <2>3. charged' = charged /\ Outcomes' = Outcomes
      BY <1>4 DEF InsertOrder, Outcomes, Outcome
    <2> QED
      BY <2>1, <2>2, <2>3
      DEF Placement!Next, Placement!Record, Recorded, AnnouncedSet, Outcomes, Outcome
  <1>5. ASSUME NEW r \in Requests, InsertFails(r) PROVE Placement!Next
    <2>1. /\ pc[r] = "inserting" /\ reply[r] = 0 /\ r \in charged
          /\ Respond(r, 500) /\ charged' = charged
      BY <1>5 DEF InsertFails, IInv, HandlerInv, InFlight
    <2>2. Outcomes' = [Outcomes EXCEPT ![r] = "failed"]
      BY <1>t, <2>1, Concluded
    <2>3. r \notin Recorded
      BY <2>1 DEF IInv, StoreInv, OrdersBy, Recorded
    <2>4. AnnouncedSet' = AnnouncedSet /\ Recorded' \in {Recorded, Recorded \cup {r}}
      <3>1. CASE orders' = orders
        BY <1>5, <3>1, SameCollection, SameEvents DEF InsertFails, brokerVars
      <3>2. CASE \E id \in OrderIds :
                   InsertId(r, id) /\ orders' = [orders EXCEPT ![id] = Stored(r, id)]
        BY <1>5, <2>1, <3>2, InsertRecords DEF InsertFails, brokerVars
      <3> QED
        BY <1>5, <3>1, <3>2 DEF InsertFails
    <2> QED
      BY <2>1, <2>2, <2>3, <2>4 DEF Placement!Next, Placement!Fail, Placement!Conclude,
         Recorded, AnnouncedSet, Outcomes, Outcome
  <1>6. ASSUME NEW r \in Requests, PublishFails(r) \/ CloseChannel(r) PROVE Placement!Next
    <2>1. /\ pc[r] \in {"publishing", "closing"} /\ Respond(r, 201)
          /\ charged' = charged /\ orders' = orders /\ accepted' = accepted
      BY <1>6 DEF PublishFails, CloseChannel, brokerVars
    <2>2. reply[r] = 0 /\ r \in Recorded
      BY <2>1, NoOrderIsNoOrder
      DEF IInv, HandlerInv, Inserted, InFlight, OwnDraft, Recorded, OrdersBy
    <2>3. Outcomes' = [Outcomes EXCEPT ![r] = "confirmed"]
      BY <1>t, <2>1, Concluded
    <2>4. Recorded' = Recorded /\ AnnouncedSet' = AnnouncedSet
      BY <2>1, SameCollection, SameEvents
    <2> QED
      BY <2>1, <2>2, <2>3, <2>4 DEF Placement!Next, Placement!Confirm, Placement!Conclude,
         Recorded, AnnouncedSet, Outcomes, Outcome
  <1>7. ASSUME NEW r \in Requests, BrokerAccepts(r) PROVE Placement!Next
    <2>1. /\ r \in Recorded \ AnnouncedSet /\ AnnouncedSet' = AnnouncedSet \cup {r}
          /\ reply[r] = 0
      BY <1>7, AcceptAnnounces
    <2>2. charged' = charged /\ Recorded' = Recorded /\ Outcomes' = Outcomes
      BY <1>7, SameCollection DEF BrokerAccepts, Outcomes, Outcome
    <2> QED
      BY <2>1, <2>2
      DEF Placement!Next, Placement!Announce, Recorded, AnnouncedSet, Outcomes, Outcome
  <1>8. ASSUME UNCHANGED << charged, reply, orders, accepted >> PROVE Stutter
    BY <1>8, SameCollection, SameEvents DEF Outcomes, Outcome
  <1> HIDE DEF Stutter
  <1>9. CASE Next
    <2>1. ASSUME NEW r \in Requests, Admit(r) \/ PublishEvent(r)
          PROVE  UNCHANGED << charged, reply, orders, accepted >>
      BY <2>1 DEF Admit, PublishEvent, brokerVars
    <2>2. ASSUME \/ DialSucceeds \/ DialFails \/ ConnectionLost \/ BrokerStops
                 \/ BrokerStarts \/ ServiceCrashes
          PROVE  UNCHANGED << charged, reply, orders, accepted >>
      BY <2>2 DEF DialSucceeds, DialFails, ConnectionLost, BrokerStops, BrokerStarts,
         ServiceCrashes, brokerVars
    <2> QED
      BY <1>s, <1>1, <1>2, <1>3, <1>4, <1>5, <1>6, <1>7, <1>8, <1>9, <2>1, <2>2
      DEF Next, Handle
  <1>10. CASE UNCHANGED vars
    BY <1>s, <1>8, <1>10 DEF vars
  <1> QED
    BY <1>9, <1>10

(* Payment, insert, event and answer of every request come in the order of
   OrderPlacement, whatever the other requests and the faults do. *)
THEOREM PlacementImplemented == Spec => ImplementsPlacement
  BY InductiveInvariant, InitPlacement, NextPlacement, PTL
  DEF Spec, ImplementsPlacement, Placement!Spec
-----------------------------------------------------------------------------
(* Without an outage the publisher is usable whenever requests are served, and
   what is neither on the wire nor still to be published has arrived, unless
   its publish failed. *)
NoOutageInv ==
    /\ publisher = "dialing" => \A r \in Requests : pc[r] \notin InFlight
    /\ outages = 0 =>
         /\ broker = "up"
         /\ publisher \in {"dialing", "open"}
         /\ \A r \in Requests :
              (pc[r] = "closing" /\ r \notin wire) \/ reply[r] = 201 =>
                Announced(r) \/ r \in unsent

(* Events and orders stay, so what is announced stays announced. *)
LEMMA AnnouncedStays ==
  ASSUME IInv, [Next]_vars, NEW r \in Requests, Announced(r)
  PROVE  Announced(r)'
  <1>1. \A id \in OrderIds : orders[id] # NoOrder => orders'[id] = orders[id]
    <2>1. ASSUME NEW q \in Requests, InsertOrder(q) \/ InsertFails(q)
          PROVE  \A id \in OrderIds : orders[id] # NoOrder => orders'[id] = orders[id]
      BY <2>1 DEF InsertOrder, InsertFails, InsertId, IInv, TypeOK
    <2> QED
      BY <2>1 DEF Next, Handle, Refuse, Admit, PaymentApproved, PaymentDeclined,
         PublishEvent, PublishFails, CloseChannel, BrokerAccepts, DialSucceeds, DialFails,
         ConnectionLost, BrokerStops, BrokerStarts, ServiceCrashes, vars
  <1>2. \A i \in DOMAIN accepted : i \in DOMAIN accepted' /\ accepted'[i] = accepted[i]
    <2>1. ASSUME NEW q \in Requests, BrokerAccepts(q)
          PROVE  \A i \in DOMAIN accepted : i \in DOMAIN accepted' /\ accepted'[i] = accepted[i]
      BY <2>1 DEF BrokerAccepts, IInv, TypeOK
    <2> QED
      BY <2>1 DEF Next, Handle, Refuse, Admit, PaymentApproved, PaymentDeclined, InsertOrder,
         InsertFails, PublishEvent, PublishFails, CloseChannel, DialSucceeds, DialFails,
         ConnectionLost, BrokerStops, BrokerStarts, ServiceCrashes, vars, brokerVars
  <1> QED
    BY <1>1, <1>2 DEF Announced, OrdersBy

(* What has failed to be published stays so. *)
LEMMA UnsentStays ==
  ASSUME [Next]_vars
  PROVE  unsent \subseteq unsent'
  BY DEF Next, Handle, Refuse, Admit, PaymentApproved, PaymentDeclined, InsertOrder,
     InsertFails, PublishEvent, PublishFails, CloseChannel, BrokerAccepts, DialSucceeds,
     DialFails, ConnectionLost, BrokerStops, BrokerStarts, ServiceCrashes, vars

LEMMA NextNoOutage == IInv /\ NoOutageInv /\ [Next]_vars => NoOutageInv'
  <1> SUFFICES ASSUME IInv, NoOutageInv, [Next]_vars PROVE NoOutageInv'
    OBVIOUS
  <1>1. (publisher = "dialing" => \A r \in Requests : pc[r] \notin InFlight)'
    BY DEF IInv, TypeOK, NoOutageInv, InFlight, Serving, Respond, LoseConnection, vars,
       serviceVars, brokerVars, Next, Handle, Refuse, Admit, PaymentApproved,
       PaymentDeclined, InsertOrder, InsertFails, PublishEvent, PublishFails, CloseChannel,
       BrokerAccepts, DialSucceeds, DialFails, ConnectionLost, BrokerStops, BrokerStarts,
       ServiceCrashes
  <1>2. ASSUME outages' = 0 PROVE outages = 0
    BY <1>2 DEF IInv, TypeOK, vars, serviceVars, Next, Handle, Refuse, Admit,
       PaymentApproved, PaymentDeclined, InsertOrder, InsertFails, PublishEvent,
       PublishFails, CloseChannel, BrokerAccepts, DialSucceeds, DialFails, ConnectionLost,
       BrokerStops, BrokerStarts, ServiceCrashes
  <1>3. ASSUME outages' = 0 PROVE broker' = "up" /\ publisher' \in {"dialing", "open"}
    BY <1>2, <1>3 DEF IInv, TypeOK, NoOutageInv, vars, serviceVars, brokerVars,
       LoseConnection, Next, Handle, Refuse, Admit, PaymentApproved, PaymentDeclined,
       InsertOrder, InsertFails, PublishEvent, PublishFails, CloseChannel, BrokerAccepts,
       DialSucceeds, DialFails, ConnectionLost, BrokerStops, BrokerStarts, ServiceCrashes
  <1>4. ASSUME outages' = 0, NEW r \in Requests,
               (pc'[r] = "closing" /\ r \notin wire') \/ reply'[r] = 201
        PROVE  Announced(r)' \/ r \in unsent'
    <2>1. CASE (pc[r] = "closing" /\ r \notin wire) \/ reply[r] = 201
      BY <1>2, <1>4, <2>1, AnnouncedStays, UnsentStays DEF NoOutageInv
    <2>2. CASE ~ ((pc[r] = "closing" /\ r \notin wire) \/ reply[r] = 201)
      <3>1. outages = 0 /\ publisher \in {"dialing", "open"}
            /\ (publisher = "dialing" => pc[r] \notin InFlight)
        BY <1>2, <1>4 DEF NoOutageInv
      <3>2. ASSUME NEW q \in Requests, Refuse(q) PROVE FALSE
        <4>1. PICK status \in {400, 401, 500} : Respond(q, status)
          BY <3>2, AnswerTypes DEF Refuse
        <4> QED
          BY <1>4, <2>2, <3>2, <4>1 DEF Refuse, Respond, IInv, TypeOK, brokerVars
      <3>3. ASSUME NEW q \in Requests, CloseChannel(q) PROVE FALSE
        BY <1>4, <2>2, <3>3 DEF CloseChannel, Respond, IInv, TypeOK, brokerVars
      <3>9. ASSUME NEW q \in Requests, PublishFails(q) PROVE r \in unsent'
        BY <1>4, <2>2, <3>9 DEF PublishFails, Respond, IInv, TypeOK, brokerVars
      <3>4. ASSUME NEW q \in Requests,
                   \/ Admit(q) \/ PaymentApproved(q) \/ PaymentDeclined(q)
                   \/ InsertOrder(q) \/ InsertFails(q) \/ PublishEvent(q)
            PROVE  FALSE
        BY <1>4, <2>2, <3>4 DEF Admit, PaymentApproved, PaymentDeclined, InsertOrder,
           InsertFails, PublishEvent, Respond, IInv, TypeOK, brokerVars
      <3>5. ASSUME NEW q \in Requests, BrokerAccepts(q) PROVE BrokerAccepts(r)
        BY <1>4, <2>2, <3>5 DEF BrokerAccepts
      <3>6. ASSUME DialSucceeds \/ DialFails \/ BrokerStarts \/ ServiceCrashes \/ UNCHANGED vars
            PROVE  FALSE
        BY <1>4, <2>2, <3>1, <3>6 DEF DialSucceeds, DialFails, BrokerStarts, ServiceCrashes,
           vars, serviceVars, brokerVars, IInv, TypeOK, InFlight
      <3>7. ASSUME ConnectionLost \/ BrokerStops PROVE FALSE
        BY <1>4, <3>1, <3>7 DEF ConnectionLost, BrokerStops, IInv, TypeOK
      <3>8. BrokerAccepts(r) \/ r \in unsent'
        BY <3>2, <3>3, <3>4, <3>5, <3>6, <3>7, <3>9 DEF Next, Handle
      <3> QED
        BY <3>8, AcceptAnnounces DEF AnnouncedSet
    <2> QED
      BY <2>1, <2>2
  <1> QED
    BY <1>1, <1>3, <1>4 DEF NoOutageInv

(* The deferred channel close is what makes the handler wait for the broker:
   without an outage, a confirmed order is left unannounced only when its
   publish failed, which the handler has logged. *)
THEOREM ConfirmedAnnounced == Spec => []ConfirmedIsAnnouncedUnlessOutage
  <1>1. Init => NoOutageInv
    BY DEF Init, NoOutageInv, InFlight
  <1>2. NoOutageInv => ConfirmedIsAnnouncedUnlessOutage
    BY DEF NoOutageInv, ConfirmedIsAnnouncedUnlessOutage
  <1> QED
    BY <1>1, <1>2, InductiveInvariant, NextNoOutage, PTL DEF Spec
=============================================================================
