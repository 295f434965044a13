--------------------------- MODULE OrderConsumers ---------------------------
(***************************************************************************)
(* notification-worker and recommendation-worker on the one queue they     *)
(* share, with producers that put any message into it.                     *)
(***************************************************************************)
EXTENDS NotificationWorker, RetrainingWorker

ASSUME ConsumersAssumption ==
    /\ Consumers = NotificationConsumers \cup RetrainingConsumers
    /\ NotificationConsumers \cap RetrainingConsumers = {}

vars == << queueVars, notificationVars, retrainingVars >>

Init == QueueInit /\ NotificationInit /\ RetrainingInit

(* What the broker and the connections do by themselves. *)
QueueStep ==
    /\ \/ \E c \in Consumers : LoseSession(c)
       \/ \E i \in Published : Age(i) \/ Expire(i)
    /\ UNCHANGED << notificationVars, retrainingVars >>

WorkerStep ==
    \/ /\ \E c \in NotificationConsumers : NotificationStep(c) \/ NotificationFault(c)
       /\ UNCHANGED retrainingVars
    \/ /\ \E c \in RetrainingConsumers : RetrainingStep(c) \/ RetrainingFault(c)
       /\ UNCHANGED notificationVars

Produce(m) ==
    /\ Enqueue(m)
    /\ UNCHANGED << notificationVars, retrainingVars >>

Next == QueueStep \/ WorkerStep \/ \E m \in Messages : Produce(m)

Spec == Init /\ [][Next]_vars

(* A worker that can take its next step takes it (RabbitMQ is reachable again
   after a loss, containers restart), a day passes and the broker removes what
   is past its TTL. Producers and faults are not fair. *)
Fairness ==
    /\ \A c \in NotificationConsumers :
         WF_vars(NotificationStep(c) /\ UNCHANGED retrainingVars)
    /\ \A c \in RetrainingConsumers :
         WF_vars(RetrainingStep(c) /\ UNCHANGED notificationVars)
    /\ \A i \in Slots :
         WF_vars((Age(i) \/ Expire(i)) /\ UNCHANGED << notificationVars, retrainingVars >>)

FairSpec == Spec /\ Fairness
-----------------------------------------------------------------------------
TypeOK == QueueTypeOK /\ NotificationTypeOK /\ RetrainingTypeOK

(* No message stays for ever, not even one that every worker that gets it puts
   back: each is acknowledged or outlives its TTL in the queue, which takes
   the workers to answer for what they hold after every fault. *)
EveryMessageLeaves == \A i \in Slots : i \in Published ~> i \in Gone

(* README.md, "How The Services Connect", 6: "notification-worker consumes the
   same order_created event" as recommendation-worker (4). The workers compete
   for one queue, so an event that is gone has been to only one of them. *)
BothWorkersConsumeEachOrder ==
    \A i \in Slots : i \in AckedSlots /\ Kind[log[i]] = "envelope" =>
        emails[i] > 0 /\ i \in counted
=============================================================================
