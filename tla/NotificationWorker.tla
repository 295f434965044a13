------------------------- MODULE NotificationWorker -------------------------
(***************************************************************************)
(* notification-worker: OrderCreatedConsumer, which turns an order event   *)
(* into an e-mail task and an SMS task for Celery and then acknowledges    *)
(* it. The handler's two publishes to Celery and its answer to the broker  *)
(* are separate steps; the connection may be gone when the answer is due.  *)
(***************************************************************************)
EXTENDS EventQueue

CONSTANTS
    NotificationConsumers, \* the worker processes among Consumers
    MaxNotificationFaults  \* bound: failed publishes and crashes

ASSUME NotificationAssumption ==
    NotificationConsumers \subseteq Consumers /\ MaxNotificationFaults \in Nat

VARIABLES
    nStage,   \* where each worker is in start and _handle_message
    nJob,     \* the slot whose body the handler works on, or NoSlot
    emails,   \* send_email tasks scheduled for each slot
    texts,    \* send_sms tasks scheduled for each slot
    nFaults

notificationVars == << nStage, nJob, emails, texts, nFaults >>

NotificationStages ==
    {"connecting", "consuming", "parsing", "emailing", "texting", "acking", "nacking"}

NotificationTypeOK ==
    /\ nStage \in [NotificationConsumers -> NotificationStages]
    /\ nJob \in [NotificationConsumers -> Published \cup {NoSlot}]
    /\ emails \in [Slots -> Nat]
    /\ texts \in [Slots -> Nat]
    /\ nFaults \in 0..MaxNotificationFaults

NotificationInit ==
    /\ nStage = [c \in NotificationConsumers |-> "connecting"]
    /\ nJob = [c \in NotificationConsumers |-> NoSlot]
    /\ emails = [i \in Slots |-> 0]
    /\ texts = [i \in Slots |-> 0]
    /\ nFaults = 0
-----------------------------------------------------------------------------
GoTo(c, stage) == nStage' = [nStage EXCEPT ![c] = stage]

(* One connection attempt of start succeeds: topology, prefetch, consume. *)
NotificationConnects(c) ==
    /\ nStage[c] = "connecting"
    /\ OpenSession(c)
    /\ GoTo(c, "consuming")
    /\ UNCHANGED << nJob, emails, texts, nFaults >>

NotificationReceives(c) ==
    /\ nStage[c] = "consuming"
    /\ \E i \in ready :
         /\ Deliver(c, i)
         /\ nJob' = [nJob EXCEPT ![c] = i]
    /\ GoTo(c, "parsing")
    /\ UNCHANGED << emails, texts, nFaults >>

Body(c) == Kind[log[nJob[c]]]

(* Where json.loads and parse_order_event lead: order data of any event_type
   is scheduled, text that is no JSON is acknowledged away, and the rest
   raises (ValueError, AttributeError) and is put back. *)
ParsedStage(kind) ==
    CASE kind \in {"envelope", "legacy", "other_event"} -> "emailing"
      [] kind = "not_json" -> "acking"
      [] OTHER -> "nacking"

ParseEvent(c) ==
    /\ nStage[c] = "parsing"
    /\ GoTo(c, ParsedStage(Body(c)))
    /\ UNCHANGED << nJob, emails, texts, nFaults, queueVars >>

ScheduleEmail(c) ==
    /\ nStage[c] = "emailing"
    /\ emails' = [emails EXCEPT ![nJob[c]] = @ + 1]
    /\ GoTo(c, "texting")
    /\ UNCHANGED << nJob, texts, nFaults, queueVars >>

(* Mutant: the handler raises once both tasks are scheduled. *)
ScheduleText_ThenRaises(c) ==
    /\ nStage[c] = "texting"
    /\ texts' = [texts EXCEPT ![nJob[c]] = @ + 1]
    /\ GoTo(c, "nacking")
    /\ UNCHANGED << nJob, emails, nFaults, queueVars >>

ScheduleText(c) ==
    /\ nStage[c] = "texting"
    /\ texts' = [texts EXCEPT ![nJob[c]] = @ + 1]
    /\ GoTo(c, "acking")
    /\ UNCHANGED << nJob, emails, nFaults, queueVars >>

(* Mutant: an exception of delay() is logged and nothing more. *)
ScheduleFails_Swallowed(c) ==
    /\ nFaults < MaxNotificationFaults
    /\ nFaults' = nFaults + 1
    /\ nStage[c] \in {"emailing", "texting"}
    /\ GoTo(c, "acking")
    /\ UNCHANGED << nJob, emails, texts, queueVars >>

(* Mutant: the handler returns without an answer to the broker. *)
ScheduleFails_NoAnswer(c) ==
    /\ nFaults < MaxNotificationFaults
    /\ nFaults' = nFaults + 1
    /\ nStage[c] \in {"emailing", "texting"}
    /\ GoTo(c, "consuming")
    /\ nJob' = [nJob EXCEPT ![c] = NoSlot]
    /\ UNCHANGED << emails, texts, queueVars >>

(* delay() raises; the task may have reached Celery's broker all the same. *)
ScheduleFails(c) ==
    /\ nFaults < MaxNotificationFaults
    /\ nFaults' = nFaults + 1
    /\ \/ /\ nStage[c] = "emailing"
          /\ emails' \in {emails, [emails EXCEPT ![nJob[c]] = @ + 1]}
          /\ texts' = texts
       \/ /\ nStage[c] = "texting"
          /\ texts' \in {texts, [texts EXCEPT ![nJob[c]] = @ + 1]}
          /\ emails' = emails
    /\ GoTo(c, "nacking")
    /\ UNCHANGED << nJob, queueVars >>

(* The handler's answer reaches the broker and the callback returns. *)
NotificationAcks(c) ==
    /\ nStage[c] = "acking"
    /\ Ack(c)
    /\ GoTo(c, "consuming")
    /\ nJob' = [nJob EXCEPT ![c] = NoSlot]
    /\ UNCHANGED << emails, texts, nFaults >>

NotificationNacks(c) ==
    /\ nStage[c] = "nacking"
    /\ Requeue(c)
    /\ GoTo(c, "consuming")
    /\ nJob' = [nJob EXCEPT ![c] = NoSlot]
    /\ UNCHANGED << emails, texts, nFaults >>

(* The connection turns out to be gone, while waiting or when answering (the
   nack after a failed ack fails too); start catches it and connects again. *)
NotificationReconnects(c) ==
    /\ nStage[c] \in {"consuming", "acking", "nacking"}
    /\ session[c] = "closed"
    /\ GoTo(c, "connecting")
    /\ nJob' = [nJob EXCEPT ![c] = NoSlot]
    /\ UNCHANGED << emails, texts, nFaults, queueVars >>

(* The process dies; the container is started again. *)
NotificationCrashes(c) ==
    /\ nFaults < MaxNotificationFaults
    /\ nFaults' = nFaults + 1
    /\ CloseSession(c)
    /\ GoTo(c, "connecting")
    /\ nJob' = [nJob EXCEPT ![c] = NoSlot]
    /\ UNCHANGED << emails, texts >>

NotificationStep(c) ==
    \/ NotificationConnects(c) \/ NotificationReceives(c) \/ ParseEvent(c)
    \/ ScheduleEmail(c) \/ ScheduleText(c)
    \/ NotificationAcks(c) \/ NotificationNacks(c) \/ NotificationReconnects(c)

NotificationFault(c) == ScheduleFails(c) \/ NotificationCrashes(c)
-----------------------------------------------------------------------------
(* An event acknowledged by _handle_message has both its tasks scheduled, or
   was no JSON: no crash, failed publish or lost connection on the way makes
   the worker acknowledge an order it has not notified in full. *)
NotifiedBeforeAck ==
    \A c \in NotificationConsumers : \A i \in acked[c] :
        \/ emails[i] > 0 /\ texts[i] > 0
        \/ Kind[log[i]] = "not_json"

(* A customer is mailed or texted about an order once, and once more at most
   for every crash, failed publish or lost session: requeueing by itself never
   repeats a notification, and what no parser accepts causes none. *)
RepeatsNeedFaults ==
    \A i \in Slots :
        /\ emails[i] <= 1 + nFaults + losses
        /\ texts[i] <= 1 + nFaults + losses
        /\ texts[i] > 0 => emails[i] > 0 /\ Kind[log[i]] \in {"envelope", "legacy", "other_event"}
=============================================================================
