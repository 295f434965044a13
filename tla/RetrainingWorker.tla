-------------------------- MODULE RetrainingWorker --------------------------
(***************************************************************************)
(* recommendation-worker: OrderRetrainingConsumer, which counts the order  *)
(* events it gets from the same queue and retrains the model on every      *)
(* TrainInterval-th. The count is kept in memory only. Training is a call  *)
(* of train_model, here a step that succeeds or raises.                    *)
(***************************************************************************)
EXTENDS EventQueue

CONSTANTS
    RetrainingConsumers,  \* the worker processes among Consumers
    TrainInterval,        \* settings.train_interval
    MaxRetrainingFaults   \* bound: failed trainings and crashes

ASSUME RetrainingAssumption ==
    /\ RetrainingConsumers \subseteq Consumers
    /\ TrainInterval \in Nat \ {0}
    /\ MaxRetrainingFaults \in Nat

VARIABLES
    rStage,      \* where each worker is in start and _handle_message
    rJob,        \* the slot whose body the handler works on, or NoSlot
    orderCount,  \* _order_count of each worker
    counted,     \* history: slots some worker has counted
    untrained,   \* history: slots each process has counted since it last trained
    rFaults

retrainingVars ==
    << rStage, rJob, orderCount, counted, untrained, rFaults >>

RetrainingStages ==
    {"booting", "connecting", "consuming", "judging", "training", "acking", "nacking"}

RetrainingTypeOK ==
    /\ rStage \in [RetrainingConsumers -> RetrainingStages]
    /\ rJob \in [RetrainingConsumers -> Published \cup {NoSlot}]
    /\ orderCount \in [RetrainingConsumers -> Nat]
    /\ counted \subseteq Published
    /\ untrained \in [RetrainingConsumers -> SUBSET Published]
    /\ rFaults \in 0..MaxRetrainingFaults

RetrainingInit ==
    /\ rStage = [c \in RetrainingConsumers |-> "booting"]
    /\ rJob = [c \in RetrainingConsumers |-> NoSlot]
    /\ orderCount = [c \in RetrainingConsumers |-> 0]
    /\ counted = {}
    /\ untrained = [c \in RetrainingConsumers |-> {}]
    /\ rFaults = 0
-----------------------------------------------------------------------------
MoveTo(c, stage) == rStage' = [rStage EXCEPT ![c] = stage]

(* A new process knows nothing of what the last one has counted. *)
StartOver(c) ==
    /\ MoveTo(c, "booting")
    /\ rJob' = [rJob EXCEPT ![c] = NoSlot]
    /\ orderCount' = [orderCount EXCEPT ![c] = 0]
    /\ untrained' = [untrained EXCEPT ![c] = {}]

(* worker_consumer: a model is loaded, or trained before anything else. The
   count starts at zero whichever it was. *)
WorkerBoots(c) ==
    /\ rStage[c] = "booting"
    /\ MoveTo(c, "connecting")
    /\ UNCHANGED << rJob, orderCount, counted, untrained, rFaults, queueVars >>

RetrainingConnects(c) ==
    /\ rStage[c] = "connecting"
    /\ OpenSession(c)
    /\ MoveTo(c, "consuming")
    /\ UNCHANGED << rJob, orderCount, counted, untrained, rFaults >>

RetrainingReceives(c) ==
    /\ rStage[c] = "consuming"
    /\ \E i \in ready :
         /\ Deliver(c, i)
         /\ rJob' = [rJob EXCEPT ![c] = i]
    /\ MoveTo(c, "judging")
    /\ UNCHANGED << orderCount, counted, untrained, rFaults >>

EventKind(c) == Kind[log[rJob[c]]]

(* json.loads raises, or payload.get does: the message is put back. *)
RejectEvent(c) ==
    /\ rStage[c] = "judging"
    /\ EventKind(c) \in {"not_json", "not_object"}
    /\ MoveTo(c, "nacking")
    /\ UNCHANGED << rJob, orderCount, counted, untrained, rFaults, queueVars >>

(* Mutant: the event_type looked for is not the one order-service sends. *)
SkipEvent_Envelope(c) ==
    /\ rStage[c] = "judging"
    /\ EventKind(c) \in {"envelope", "other_event", "incomplete"}
    /\ MoveTo(c, "acking")
    /\ UNCHANGED << rJob, orderCount, counted, untrained, rFaults, queueVars >>

(* An object _is_supported_order_event says no to is acknowledged. *)
SkipEvent(c) ==
    /\ rStage[c] = "judging"
    /\ EventKind(c) \in {"other_event", "incomplete"}
    /\ MoveTo(c, "acking")
    /\ UNCHANGED << rJob, orderCount, counted, untrained, rFaults, queueVars >>

(* An order is counted, whatever its total, each time it is delivered. *)
CountOrder(c) ==
    /\ rStage[c] = "judging"
    /\ EventKind(c) \in {"envelope", "legacy", "bad_total"}
    /\ orderCount' = [orderCount EXCEPT ![c] = @ + 1]
    /\ counted' = counted \cup {rJob[c]}
    /\ untrained' = [untrained EXCEPT ![c] = @ \cup {rJob[c]}]
    /\ MoveTo(c, IF orderCount[c] + 1 >= TrainInterval THEN "training" ELSE "acking")
    /\ UNCHANGED << rJob, rFaults, queueVars >>

TrainingSucceeds(c) ==
    /\ rStage[c] = "training"
    /\ orderCount' = [orderCount EXCEPT ![c] = 0]
    /\ untrained' = [untrained EXCEPT ![c] = {}]
    /\ MoveTo(c, "acking")
    /\ UNCHANGED << rJob, counted, rFaults, queueVars >>

(* Mutant: the count is reset before the training that fails. *)
TrainingFails_Resets(c) ==
    /\ rFaults < MaxRetrainingFaults
    /\ rFaults' = rFaults + 1
    /\ rStage[c] = "training"
    /\ orderCount' = [orderCount EXCEPT ![c] = 0]
    /\ MoveTo(c, "nacking")
    /\ UNCHANGED << rJob, counted, untrained, queueVars >>

(* train_model raises: the count stays and the message is put back. *)
TrainingFails(c) ==
    /\ rFaults < MaxRetrainingFaults
    /\ rFaults' = rFaults + 1
    /\ rStage[c] = "training"
    /\ MoveTo(c, "nacking")
    /\ UNCHANGED << rJob, orderCount, counted, untrained, queueVars >>

RetrainingAcks(c) ==
    /\ rStage[c] = "acking"
    /\ Ack(c)
    /\ MoveTo(c, "consuming")
    /\ rJob' = [rJob EXCEPT ![c] = NoSlot]
    /\ UNCHANGED << orderCount, counted, untrained, rFaults >>

RetrainingNacks(c) ==
    /\ rStage[c] = "nacking"
    /\ Requeue(c)
    /\ MoveTo(c, "consuming")
    /\ rJob' = [rJob EXCEPT ![c] = NoSlot]
    /\ UNCHANGED << orderCount, counted, untrained, rFaults >>

(* The connection turns out to be gone. start catches AMQPConnectionError and
   connects again with the count it has; the channel error that a second
   answer on the dead channel raises is not one, and ends the process. *)
RetrainingReconnects(c) ==
    /\ rStage[c] \in {"consuming", "acking", "nacking"}
    /\ session[c] = "closed"
    /\ \/ /\ MoveTo(c, "connecting")
          /\ rJob' = [rJob EXCEPT ![c] = NoSlot]
          /\ UNCHANGED << orderCount, untrained >>
       \/ StartOver(c)
    /\ UNCHANGED << counted, rFaults, queueVars >>

(* The process dies, in the boot training or later; it is started again. *)
RetrainingCrashes(c) ==
    /\ rFaults < MaxRetrainingFaults
    /\ rFaults' = rFaults + 1
    /\ CloseSession(c)
    /\ StartOver(c)
    /\ UNCHANGED counted

RetrainingStep(c) ==
    \/ WorkerBoots(c) \/ RetrainingConnects(c) \/ RetrainingReceives(c)
    \/ RejectEvent(c) \/ SkipEvent(c) \/ CountOrder(c) \/ TrainingSucceeds(c)
    \/ RetrainingAcks(c) \/ RetrainingNacks(c) \/ RetrainingReconnects(c)

RetrainingFault(c) == TrainingFails(c) \/ RetrainingCrashes(c)
-----------------------------------------------------------------------------
(* An order event acknowledged by the worker has been counted, whatever failed
   in between; only objects that are no order events go uncounted. *)
CountedBeforeAck ==
    \A c \in RetrainingConsumers : \A i \in acked[c] :
        i \in counted \/ Kind[log[i]] \in {"other_event", "incomplete"}

(* A worker never has TrainInterval acknowledged orders that no training of
   its process has seen: a training that fails, however often, is retried
   before the order that called for it is acknowledged. *)
TrainingIsNotOverdue ==
    \A c \in RetrainingConsumers :
        Cardinality(untrained[c] \cap acked[c]) < TrainInterval
=============================================================================
