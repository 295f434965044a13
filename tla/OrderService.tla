---------------------------- MODULE OrderService ----------------------------
(***************************************************************************)
(* order-service: the handler of POST /orders, the orders collection it    *)
(* writes and the RabbitMQ publisher it shares with every other request.   *)
(*                                                                         *)
(* A request is handled by a goroutine of its own, so the calls it makes   *)
(* (payment, MongoDB insert, channel open and publish, channel close) are  *)
(* separate steps between which other requests, the broker and a crash of  *)
(* the process may intervene. What runs between two such calls is local to *)
(* the goroutine and is part of the step before.                           *)
(***************************************************************************)
EXTENDS Integers, Sequences, FiniteSets, SequencesExt

CONSTANTS
    Requests,          \* POST /orders calls; each is sent at most once
    OrderIds,          \* ObjectIDs
    NoId,              \* the zero ObjectID, "not given" or "not assigned yet"
    Users,             \* user ids a token may carry
    Bodies,            \* request bodies that bind to models.Order
    MaxDialAttempts,   \* maxRetries of NewEventPublisher (10 in the code)
    MaxServiceCrashes, \* bound: crashes of the process
    MaxBrokerOutages   \* bound: outages of the broker or of the connection

(* What the Authorization header can be when it names no user. *)
CredentialFaults ==
    {"no_header", "bad_format", "unparseable", "rejected", "no_user_id"}

(* A body of another shape makes ShouldBindJSON fail. *)
Malformed == [malformed |-> TRUE]

ASSUME IdAssumption == NoId \notin OrderIds
ASSUME CredentialAssumption == Users \cap CredentialFaults = {}
ASSUME BodyAssumption ==
    /\ \A b \in Bodies : /\ b.ID \in OrderIds \cup {NoId}
                         /\ b.Items \in Seq([Price : Int, Quantity : Int])
    /\ Malformed \notin Bodies
ASSUME BoundAssumption ==
    /\ MaxDialAttempts \in Nat \ {0}
    /\ MaxServiceCrashes \in Nat
    /\ MaxBrokerOutages \in Nat

VARIABLES
    pc,         \* where the goroutine of each request is
    input,      \* credential and body of each request
    order,      \* the handler's local variable, one per request
    reply,      \* HTTP status the client saw, 0 while there is none
    charged,    \* requests whose payment succeeded
    unsent,     \* history: requests whose publish failed, which is only logged
    orders,     \* the orders collection, by _id
    publisher,  \* the process-wide EventPublisher and its connection
    attempts,   \* dial attempts of this start
    broker,     \* RabbitMQ as a process: "up" or "down"
    wire,       \* requests whose published event is on its way to the broker
    accepted,   \* events the broker has put in the queue, oldest first
    crashes, outages

vars == << pc, input, order, reply, charged, unsent, orders, publisher, attempts,
           broker, wire, accepted, crashes, outages >>

serviceVars == << publisher, attempts, crashes, outages >>
brokerVars == << broker, wire, accepted >>
-----------------------------------------------------------------------------
Credentials == Users \cup CredentialFaults

Inputs == [credential : Credentials, body : Bodies \cup {Malformed}]

(* order.Total: the sum over the items of price times quantity. *)
OrderTotal(items) ==
    FoldLeft(LAMBDA total, item : total + item.Price * item.Quantity, 0, items)

Totals == { OrderTotal(b.Items) : b \in Bodies }

NoOrder == [absent |-> TRUE]

(* models.Order. "by" is history: the request whose handler wrote it. *)
Orders == [ ID : OrderIds, UserID : Users, Total : Totals,
            Status : {"completed"}, by : Requests ]

(* The handler's copy before the insert has no _id unless the body had one. *)
Drafts == [ ID : OrderIds \cup {NoId}, UserID : Users, Total : Totals,
            Status : {"pending", "completed"}, by : Requests ]

(* OrderCreatedData of the event envelope. *)
Event(o) == [ order_id |-> o.ID, user_id |-> o.UserID, total |-> o.Total,
              status |-> o.Status ]

Events == [ order_id : OrderIds, user_id : Users, total : Totals,
            status : {"completed"} ]

(* The HTTP server is started after the publisher has been dialled. *)
Serving == publisher # "dialing"

InFlight == {"paying", "inserting", "publishing", "closing"}

(* Answer of AuthMiddleware, or 0 when the request goes on to the handler.
   jwt.Parse returns a nil token for text that has not three segments; its
   Claims are read before err is looked at, and gin's recovery answers 500. *)
AuthAnswer(credential) ==
    CASE credential \in {"no_header", "bad_format", "rejected"} -> 401
      [] credential = "unparseable" -> 500
      [] OTHER -> 0

(* Answer of the checks that open CreateOrder, or 0 when all of them pass. *)
ValidationAnswer(in) ==
    IF in.body = Malformed \/ in.credential = "no_user_id" THEN 400 ELSE 0

Init ==
    /\ pc = [r \in Requests |-> "idle"]
    /\ input = [r \in Requests |-> [credential |-> "no_header", body |-> Malformed]]
    /\ order = [r \in Requests |-> NoOrder]
    /\ reply = [r \in Requests |-> 0]
    /\ charged = {}
    /\ unsent = {}
    /\ orders = [i \in OrderIds |-> NoOrder]
    /\ publisher = "dialing"
    /\ attempts = 0
    /\ broker = "up"
    /\ wire = {}
    /\ accepted = << >>
    /\ crashes = 0
    /\ outages = 0
-----------------------------------------------------------------------------
(* The answer goes out and the goroutine ends. *)
Respond(r, status) ==
    /\ pc' = [pc EXCEPT ![r] = "done"]
    /\ reply' = [reply EXCEPT ![r] = status]

(* Mutant: the user of the token does not replace the one in the body. *)
Draft_KeepsOwner(r, in) ==
    [ ID |-> in.body.ID, UserID |-> in.body.UserID,
      Total |-> OrderTotal(in.body.Items), Status |-> "pending", by |-> r ]

(* The local order once the body is bound, the user and the total set. *)
Draft(r, in) ==
    [ ID |-> in.body.ID, UserID |-> in.credential,
      Total |-> OrderTotal(in.body.Items), Status |-> "pending", by |-> r ]

(* AuthMiddleware or a check of CreateOrder turns the request away. *)
Refuse(r) ==
    /\ Serving
    /\ pc[r] = "idle"
    /\ \E in \in Inputs :
         /\ input' = [input EXCEPT ![r] = in]
         /\ \/ /\ AuthAnswer(in.credential) # 0
               /\ Respond(r, AuthAnswer(in.credential))
            \/ /\ AuthAnswer(in.credential) = 0
               /\ ValidationAnswer(in) # 0
               /\ Respond(r, ValidationAnswer(in))
    /\ UNCHANGED << unsent, order, charged, orders, serviceVars, brokerVars >>

(* The request is authenticated and well formed: CreateOrder up to Process. *)
Admit(r) ==
    /\ Serving
    /\ pc[r] = "idle"
    /\ \E in \in Inputs :
         /\ AuthAnswer(in.credential) = 0
         /\ ValidationAnswer(in) = 0
         /\ input' = [input EXCEPT ![r] = in]
         /\ order' = [order EXCEPT ![r] = Draft(r, in)]
         /\ pc' = [pc EXCEPT ![r] = "paying"]
    /\ UNCHANGED << unsent, reply, charged, orders, serviceVars, brokerVars >>

(* paymentService.Process draws its answer at random. *)
PaymentApproved(r) ==
    /\ pc[r] = "paying"
    /\ charged' = charged \cup {r}
    /\ order' = [order EXCEPT ![r].Status = "completed"]
    /\ pc' = [pc EXCEPT ![r] = "inserting"]
    /\ UNCHANGED << input, unsent, reply, orders, serviceVars, brokerVars >>

PaymentDeclined(r) ==
    /\ pc[r] = "paying"
    /\ Respond(r, 400)
    /\ UNCHANGED << input, unsent, order, charged, orders, serviceVars, brokerVars >>

(* Mutant: an upsert by _id in place of an insert. *)
InsertId_Upsert(r, id) ==
    IF order[r].ID = NoId THEN orders[id] = NoOrder ELSE id = order[r].ID

(* The _id InsertOne writes: the body's, or a fresh one made by the driver. *)
InsertId(r, id) ==
    /\ orders[id] = NoOrder
    /\ order[r].ID \in {id, NoId}

Stored(r, id) == [order[r] EXCEPT !.ID = id]

(* Mutant: the InsertedID is not copied into the handler's order. *)
InsertOrder_KeepsNoId(r) ==
    /\ pc[r] = "inserting"
    /\ \E id \in OrderIds :
         /\ InsertId(r, id)
         /\ orders' = [orders EXCEPT ![id] = Stored(r, id)]
    /\ pc' = [pc EXCEPT ![r] = "publishing"]
    /\ UNCHANGED << input, unsent, order, reply, charged, serviceVars, brokerVars >>

(* repo.CreateOrder succeeds and order.ID is taken from the result. *)
InsertOrder(r) ==
    /\ pc[r] = "inserting"
    /\ \E id \in OrderIds :
         /\ InsertId(r, id)
         /\ orders' = [orders EXCEPT ![id] = Stored(r, id)]
         /\ order' = [order EXCEPT ![r] = Stored(r, id)]
    /\ pc' = [pc EXCEPT ![r] = "publishing"]
    /\ UNCHANGED << input, unsent, reply, charged, serviceVars, brokerVars >>

(* Mutant: an insert that failed is tried again, written or not. *)
InsertFails_Retries(r) ==
    /\ pc[r] = "inserting"
    /\ \E id \in OrderIds :
         /\ InsertId(r, id)
         /\ orders' = [orders EXCEPT ![id] = Stored(r, id)]
    /\ UNCHANGED << pc, unsent, reply, input, order, charged, serviceVars, brokerVars >>

(* Mutant: the return after the error answer is missing. *)
InsertFails_NoReturn(r) ==
    /\ pc[r] = "inserting"
    /\ \E id \in OrderIds :
         /\ InsertId(r, id)
         /\ orders' = [orders EXCEPT ![id] = Stored(r, id)]
         /\ order' = [order EXCEPT ![r] = Stored(r, id)]
    /\ reply' = [reply EXCEPT ![r] = 500]
    /\ pc' = [pc EXCEPT ![r] = "publishing"]
    /\ UNCHANGED << input, unsent, charged, serviceVars, brokerVars >>

(* repo.CreateOrder returns an error: a duplicate _id, or a failure (timeout,
   lost connection, cancelled request context) after which the document may
   or may not have been written. The payment is not undone. *)
InsertFails(r) ==
    /\ pc[r] = "inserting"
    /\ \/ orders' = orders
       \/ \E id \in OrderIds :
            /\ InsertId(r, id)
            /\ orders' = [orders EXCEPT ![id] = Stored(r, id)]
    /\ Respond(r, 500)
    /\ UNCHANGED << input, unsent, order, charged, serviceVars, brokerVars >>

(* Mutant: the event goes out before the insert. *)
PublishEvent_Early(r) ==
    /\ pc[r] = "inserting"
    /\ publisher = "open"
    /\ \E id \in OrderIds :
         /\ order[r].ID \in {id, NoId}
         /\ order' = [order EXCEPT ![r] = Stored(r, id)]
    /\ wire' = wire \cup {r}
    /\ UNCHANGED << pc, input, unsent, reply, charged, orders, broker, accepted, serviceVars >>

(* PublishOrderCreated with a usable connection: a channel is opened, the
   topology declared and the event written to the socket. *)
PublishEvent(r) ==
    /\ pc[r] = "publishing"
    /\ publisher = "open"
    /\ wire' = wire \cup {r}
    /\ pc' = [pc EXCEPT ![r] = "closing"]
    /\ UNCHANGED << input, unsent, order, reply, charged, orders, broker, accepted, serviceVars >>

(* There is no publisher, or PublishOrderCreated returns an error: on a broken
   connection always, and on a usable one when the channel is not opened, the
   topology not accepted or the event not encoded or written. The handler only
   logs it; nothing of the event is on the wire. *)
PublishFails(r) ==
    /\ pc[r] = "publishing"
    /\ unsent' = unsent \cup {r}
    /\ Respond(r, 201)
    /\ UNCHANGED << input, order, charged, orders, serviceVars, brokerVars >>

(* Mutant: the channel is left to be closed later. *)
CloseChannel_NoWait(r) ==
    /\ pc[r] = "closing"
    /\ Respond(r, 201)
    /\ UNCHANGED << input, unsent, order, charged, orders, serviceVars, brokerVars >>

(* Mutant: closing waits for close-ok on a connection that may be gone. *)
CloseChannel_WaitsForBroker(r) ==
    /\ pc[r] = "closing"
    /\ r \notin wire
    /\ publisher = "open"
    /\ Respond(r, 201)
    /\ UNCHANGED << input, unsent, order, charged, orders, serviceVars, brokerVars >>

(* The deferred ch.Close() waits for close-ok, which follows the event on the
   same connection, or for the connection to break; its result is dropped. *)
CloseChannel(r) ==
    /\ pc[r] = "closing"
    /\ r \notin wire
    /\ Respond(r, 201)
    /\ UNCHANGED << input, unsent, order, charged, orders, serviceVars, brokerVars >>

(* The broker routes the event to the durable queue. *)
BrokerAccepts(r) ==
    /\ r \in wire
    /\ wire' = wire \ {r}
    /\ accepted' = Append(accepted, Event(order[r]))
    /\ UNCHANGED << pc, input, unsent, order, reply, charged, orders, broker, serviceVars >>
-----------------------------------------------------------------------------
(* NewEventPublisher: a dial succeeds, and main goes on to serve. *)
DialSucceeds ==
    /\ publisher = "dialing"
    /\ broker = "up"
    /\ publisher' = "open"
    /\ UNCHANGED << pc, input, unsent, order, reply, charged, orders, attempts,
                    crashes, outages, brokerVars >>

(* Mutant: one dial too many, and no end once it has been made. *)
DialFails_NoLimit ==
    /\ publisher = "dialing"
    /\ broker = "down"
    /\ attempts' = attempts + 1
    /\ publisher' = IF attempts # MaxDialAttempts THEN "dialing" ELSE "nil"
    /\ UNCHANGED << pc, input, unsent, order, reply, charged, orders, crashes, outages,
                    brokerVars >>

(* A dial fails; after the last one main serves with a nil publisher. *)
DialFails ==
    /\ publisher = "dialing"
    /\ broker = "down"
    /\ attempts' = attempts + 1
    /\ publisher' = IF attempts + 1 < MaxDialAttempts THEN "dialing" ELSE "nil"
    /\ UNCHANGED << pc, input, unsent, order, reply, charged, orders, crashes, outages,
                    brokerVars >>

(* The connection breaks, alone or with the broker. Nothing dials again. *)
LoseConnection ==
    /\ wire' = {}
    /\ publisher' = IF publisher = "open" THEN "lost" ELSE publisher

ConnectionLost ==
    /\ outages < MaxBrokerOutages
    /\ publisher = "open"
    /\ LoseConnection
    /\ outages' = outages + 1
    /\ UNCHANGED << pc, input, unsent, order, reply, charged, orders, attempts, broker,
                    accepted, crashes >>

BrokerStops ==
    /\ outages < MaxBrokerOutages
    /\ broker = "up"
    /\ broker' = "down"
    /\ LoseConnection
    /\ outages' = outages + 1
    /\ UNCHANGED << pc, input, unsent, order, reply, charged, orders, attempts,
                    accepted, crashes >>

BrokerStarts ==
    /\ broker = "down"
    /\ broker' = "up"
    /\ UNCHANGED << pc, input, unsent, order, reply, charged, orders, wire, accepted, serviceVars >>

(* The process dies and the container is restarted: every goroutine and the
   publisher are gone, clients in flight see a broken connection. *)
ServiceCrashes ==
    /\ crashes < MaxServiceCrashes
    /\ crashes' = crashes + 1
    /\ pc' = [r \in Requests |-> IF pc[r] \in InFlight THEN "broken" ELSE pc[r]]
    /\ publisher' = "dialing"
    /\ attempts' = 0
    /\ wire' = {}
    /\ UNCHANGED << input, unsent, order, reply, charged, orders, broker, accepted, outages >>

Handle(r) ==
    \/ Refuse(r) \/ Admit(r)
    \/ PaymentApproved(r) \/ PaymentDeclined(r)
    \/ InsertOrder(r) \/ InsertFails(r)
    \/ PublishEvent(r) \/ PublishFails(r) \/ CloseChannel(r)

Next ==
    \/ \E r \in Requests : Handle(r) \/ BrokerAccepts(r)
    \/ DialSucceeds \/ DialFails
    \/ ConnectionLost \/ BrokerStops \/ BrokerStarts
    \/ ServiceCrashes

Spec == Init /\ [][Next]_vars

(* A goroutine that can go on does, every call it makes returns, and the broker
   takes what is on the wire (a broker that does not is cut off by the AMQP
   heartbeat, which is ConnectionLost). main's dial loop goes on. Nothing makes
   clients send requests, the broker come back or faults happen. *)
Fairness ==
    /\ \A r \in Requests :
         /\ WF_vars(PaymentApproved(r) \/ PaymentDeclined(r))
         /\ WF_vars(InsertOrder(r) \/ InsertFails(r))
         /\ WF_vars(PublishEvent(r) \/ PublishFails(r))
         /\ WF_vars(CloseChannel(r))
         /\ WF_vars(BrokerAccepts(r))
    /\ WF_vars(DialSucceeds \/ DialFails)

FairSpec == Spec /\ Fairness
-----------------------------------------------------------------------------
(* Every variable of the service, the collection and the publisher keeps its type. *)
TypeOK ==
    /\ pc \in [Requests -> {"idle", "done", "broken"} \cup InFlight]
    /\ input \in [Requests -> Inputs]
    /\ order \in [Requests -> Drafts \cup {NoOrder}]
    /\ reply \in [Requests -> {0, 201, 400, 401, 500}]
    /\ charged \subseteq Requests
    /\ unsent \subseteq Requests
    /\ orders \in [OrderIds -> Orders \cup {NoOrder}]
    /\ publisher \in {"dialing", "nil", "open", "lost"}
    /\ attempts \in 0..MaxDialAttempts
    /\ broker \in {"up", "down"}
    /\ wire \subseteq Requests
    /\ accepted \in Seq(Events)
    /\ crashes \in 0..MaxServiceCrashes
    /\ outages \in 0..MaxBrokerOutages

OrdersBy(r) == { id \in OrderIds : orders[id] # NoOrder /\ orders[id].by = r }

Announced(r) == \E i \in DOMAIN accepted : accepted[i].order_id \in OrdersBy(r)

(* A 201 (CreateOrder's last line) means that this request's own payment went
   through and that its one order is in the collection, owned by the user of
   the token whatever UserID the body had, with the total of the items the
   client sent, whatever the other requests, the broker and crashes did. *)
ConfirmedOrderIsStored ==
    \A r \in Requests : reply[r] = 201 =>
        /\ r \in charged
        /\ OrdersBy(r) = {order[r].ID}
        /\ orders[order[r].ID] =
             [ ID |-> order[r].ID, UserID |-> input[r].credential, Status |-> "completed",
               Total |-> OrderTotal(input[r].body.Items), by |-> r ]

(* An event the broker holds (PublishOrderCreated) tells of an order that is
   already in the collection, word for word, and has been paid for: consumers
   that look the order up find it. *)
EventTellsOfStoredOrder ==
    \A i \in DOMAIN accepted : \E id \in OrderIds :
        /\ orders[id] # NoOrder
        /\ accepted[i] = Event(orders[id])
        /\ orders[id].by \in charged

(* One request leaves at most one order and an order is announced at most once,
   over retries of the dial, lost connections and restarts. *)
NothingIsDoubled ==
    /\ \A i, j \in OrderIds :
         orders[i] # NoOrder /\ orders[j] # NoOrder /\ orders[i].by = orders[j].by => i = j
    /\ \A i, j \in DOMAIN accepted : accepted[i].order_id = accepted[j].order_id => i = j

(* A client told 400 or 401 pays nothing and leaves no order; one told 500 may
   have paid and may even have its order stored, but no event tells of it. *)
ErrorAnswerIsNotAnnounced ==
    \A r \in Requests :
        /\ reply[r] \in {400, 401} => r \notin charged /\ OrdersBy(r) = {}
        /\ reply[r] \in {400, 401, 500} => ~ Announced(r)

(* While neither the broker nor the connection has failed, an order confirmed
   to a client has its event in the queue or a line in the log that it was not
   published, even over crashes of the service: Publish returns before the
   broker has the event, and the deferred channel close makes the handler wait
   for it. *)
ConfirmedIsAnnouncedUnlessOutage ==
    \A r \in Requests :
        reply[r] = 201 /\ outages = 0 => Announced(r) \/ r \in unsent

(* Orders are only ever added by this service: an _id the client chose, which
   the handler passes on to the insert, never changes an order already there. *)
StoredOrdersNeverChange ==
    [][\A id \in OrderIds : orders[id] # NoOrder => orders'[id] = orders[id]]_vars

(* A request that reached the handler is answered or its process dies: the
   handler never waits for ever, in particular not for a broker that is gone. *)
RequestsAreAnswered ==
    \A r \in Requests : pc[r] \in InFlight ~> pc[r] \in {"done", "broken"}

(* README.md, "How The Services Connect", 3: order-service "publishes
   order_created to RabbitMQ". Stated of an order confirmed while RabbitMQ is
   up by a service that has no connection to it; the publisher dials once and
   never again, so the code breaks it. *)
ConfirmedWhileBrokerUpIsAnnounced ==
    [][\A r \in Requests :
        reply[r] # 201 /\ reply'[r] = 201 /\ broker = "up" /\ publisher # "open"
          => Announced(r)']_vars
-----------------------------------------------------------------------------
(* How far a request has got, in the terms of OrderPlacement. *)
Outcome(r) ==
    IF reply[r] = 0 THEN "open"
    ELSE IF reply[r] = 201 THEN "confirmed"
    ELSE IF r \in charged THEN "failed" ELSE "refused"

Placement == INSTANCE OrderPlacement WITH
    paid <- charged,
    recorded <- { r \in Requests : OrdersBy(r) # {} },
    announced <- { r \in Requests : Announced(r) },
    outcome <- [r \in Requests |-> Outcome(r)]

(* CreateOrder, its collection and its publisher implement OrderPlacement:
   payment, insert, event and answer come in that order for every request,
   each at most once, and a crash at any point only leaves the request open. *)
ImplementsPlacement == Placement!Spec
=============================================================================
