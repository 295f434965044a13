---------------------------- MODULE OrderPipeline ----------------------------
(***************************************************************************)
(* The way of an order from POST /orders to the customer's e-mail and      *)
(* text: order-service, the queue with the two kinds of workers and        *)
(* notification-celery on one RabbitMQ.                                    *)
(*                                                                         *)
(* The event in accepted[i] is the message in slot i of the queue, and     *)
(* delay() in notification-worker is a new task message for Celery.        *)
(***************************************************************************)
EXTENDS OrderConsumers, NotificationTasks

CONSTANTS
    Requests, OrderIds, NoId, Users, Bodies,
    MaxDialAttempts, MaxServiceCrashes, MaxBrokerOutages, \* as in OrderService
    MaxFaults          \* bound: faults of all kinds taken together

VARIABLES pc, input, order, reply, charged, unsent, orders, publisher, attempts,
          broker, wire, accepted, crashes, outages  \* as in OrderService

Shop == INSTANCE OrderService

ASSUME PipelineAssumption ==
    /\ Shop!IdAssumption /\ Shop!CredentialAssumption
    /\ Shop!BodyAssumption /\ Shop!BoundAssumption
    /\ Subjects = Slots
    /\ Messages = {"envelope"} /\ Kind["envelope"] = "envelope"
    /\ Cardinality(OrderIds) <= MaxPublished
    /\ MaxFaults \in Nat

shopVars == << pc, input, order, reply, charged, unsent, orders, publisher, attempts,
               broker, wire, accepted, crashes, outages >>

pipelineVars == << shopVars, vars, taskVars >>

PipelineInit == Shop!Init /\ Init /\ TasksInit
-----------------------------------------------------------------------------
(* Every event the broker accepts from order-service is a message of the queue. *)
Accept ==
    \E r \in Requests :
        /\ Shop!BrokerAccepts(r)
        /\ Produce("envelope")
        /\ UNCHANGED taskVars

(* Requests, payments, the collection and the dial concern no other part. *)
Handle(r) == Shop!Handle(r) /\ UNCHANGED << vars, taskVars >>

Dial == Shop!DialSucceeds /\ UNCHANGED << vars, taskVars >>

ShopFault ==
    /\ Shop!ConnectionLost \/ Shop!ServiceCrashes
    /\ UNCHANGED << vars, taskVars >>

(* RabbitMQ is stopped and started again: every connection breaks, and what is
   in its durable queues, unacknowledged messages included, is queued. *)
BrokerRestarts ==
    /\ outages < MaxBrokerOutages
    /\ outages' = outages + 1
    /\ Shop!LoseConnection
    /\ session' = [c \in Consumers |-> "closed"]
    /\ ready' = ready \cup ({ held[c] : c \in Consumers } \ {NoSlot})
    /\ held' = [c \in Consumers |-> NoSlot]
    /\ tasks' = Redelivered
    /\ UNCHANGED << pc, input, order, reply, charged, unsent, orders, attempts, broker, accepted,
                    crashes, log, aged, acked, expired, losses, notificationVars, retrainingVars,
                    sent, failed, taskFaults, redeliveries >>

(* What a step of notification-worker schedules is a new task for Celery. *)
Scheduling ==
    \/ << emails, texts >>' = << emails, texts >> /\ UNCHANGED taskVars
    \/ \E i \in Slots : emails'[i] > emails[i] /\ Delay("email", i)
    \/ \E i \in Slots : texts'[i] > texts[i] /\ Delay("sms", i)

NotifierStep(c) ==
    /\ NotificationStep(c)
    /\ Scheduling
    /\ UNCHANGED << retrainingVars, shopVars >>

NotifierFault(c) ==
    /\ NotificationFault(c)
    /\ Scheduling
    /\ UNCHANGED << retrainingVars, shopVars >>

TrainerStep(c) ==
    /\ RetrainingStep(c)
    /\ UNCHANGED << notificationVars, shopVars, taskVars >>

(* No event gets as old as its TTL here; OrderConsumers has those that do. *)
SessionBreaks ==
    /\ \E c \in Consumers : LoseSession(c)
    /\ UNCHANGED << notificationVars, retrainingVars, shopVars, taskVars >>

CeleryStep == TaskStep /\ UNCHANGED << shopVars, vars >>

CeleryFault == TaskFault /\ UNCHANGED << shopVars, vars >>

(* Whatever goes wrong in any of the parts; recommendation-worker only takes
   events here, what fails in it is in OrderConsumers. *)
Faults == crashes + outages + losses + nFaults + taskFaults + redeliveries

Fault ==
    /\ Faults < MaxFaults
    /\ \/ ShopFault \/ BrokerRestarts \/ SessionBreaks \/ CeleryFault
       \/ \E c \in NotificationConsumers : NotifierFault(c)

PipelineNext ==
    \/ Accept
    \/ \E r \in Requests : Handle(r)
    \/ Dial
    \/ \E c \in NotificationConsumers : NotifierStep(c)
    \/ \E c \in RetrainingConsumers : TrainerStep(c)
    \/ CeleryStep
    \/ Fault

(* As in the parts: a request, an event on the wire, a worker and a task that
   can go on do. *)
PipelineFairness ==
    /\ WF_pipelineVars(Accept)
    /\ \A r \in Requests : WF_pipelineVars(pc[r] \in Shop!InFlight /\ Handle(r))
    /\ \A c \in NotificationConsumers : WF_pipelineVars(NotifierStep(c))
    /\ \A c \in RetrainingConsumers : WF_pipelineVars(TrainerStep(c))
    /\ WF_pipelineVars(CeleryStep)

PipelineSpec == PipelineInit /\ [][PipelineNext]_pipelineVars /\ PipelineFairness
-----------------------------------------------------------------------------
(* The parts keep their types, and the queue holds what the broker accepted. *)
PipelineTypeOK ==
    /\ Shop!TypeOK /\ TypeOK /\ TasksTypeOK
    /\ Len(log) = Len(accepted)

TimesScheduled(channel, i) == IF channel = "email" THEN emails[i] ELSE texts[i]

(* A customer is mailed and texted about an order that is stored and paid for,
   once for each time notification-worker scheduled it: neither retries nor
   dying pool processes repeat it, only a lost connection of the Celery worker
   does; and once in all when nothing has failed. *)
NotificationsAreDue ==
    \A channel \in Channels, i \in Slots : sent[channel][i] > 0 =>
        /\ \E id \in OrderIds :
             /\ i \in DOMAIN accepted /\ accepted[i] = Shop!Event(orders[id])
             /\ orders[id].by \in charged
        /\ redeliveries + outages = 0 =>
             /\ sent[channel][i] <= TimesScheduled(channel, i)
             /\ sent[channel][i] <= 1 + nFaults + losses

SlotOf(r, i) ==
    i \in DOMAIN accepted /\ accepted[i].order_id \in Shop!OrdersBy(r)

Notified(i) == \A channel \in Channels : sent[channel][i] > 0

(* The order of a client that got 201 reaches its customer by e-mail and text,
   over crashes of any of the processes, lost sessions, tasks that cannot be
   scheduled and restarts of the broker, unless its event was not published
   (which order-service logs) or was on its way when the connection was lost,
   recommendation-worker got it or Celery gave a task up. *)
ConfirmedIsNotified ==
    \A r \in Requests :
        reply[r] = 201 ~>
          \/ r \in unsent
          \/ outages > 0 /\ ~ Shop!Announced(r)
          \/ \E i \in Slots :
               /\ SlotOf(r, i)
               /\ \/ Notified(i)
                  \/ \E c \in RetrainingConsumers : i \in acked[c]
                  \/ \E channel \in Channels : << channel, i >> \in failed
=============================================================================
