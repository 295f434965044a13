-------------------------- MODULE NotificationTasks --------------------------
(***************************************************************************)
(* notification-celery: the tasks send_email and send_sms in Celery's      *)
(* queue and the worker that runs them, with task_acks_late and            *)
(* max_retries = 3. Celery and its broker are not in the repository; what  *)
(* they do follows from how app/tasks/notifications.py configures them.    *)
(*                                                                         *)
(* Tasks run in a pool and wait for countdowns, so their order says        *)
(* nothing: the queue is a bag. A message the worker has fetched goes back *)
(* when the connection breaks, so it is "queued" until its body has ended. *)
(***************************************************************************)
EXTENDS Naturals, FiniteSets, Bags

CONSTANTS
    Subjects,       \* what tasks are about: the messages of the order queue
    MaxRetries,     \* max_retries of both tasks (3 in the code)
    MaxTaskFaults,  \* bound: bodies that raise and pool processes that die
    MaxRedeliveries \* bound: connections lost and restarts of the worker

ASSUME TasksAssumption ==
    MaxRetries \in Nat /\ MaxTaskFaults \in Nat /\ MaxRedeliveries \in Nat

VARIABLES
    tasks,        \* the task messages that nobody has acknowledged
    sent,         \* history: e-mails and texts sent about each subject
    failed,       \* history: the tasks given up, by channel and subject
    taskFaults, redeliveries

taskVars == << tasks, sent, failed, taskFaults, redeliveries >>

Channels == {"email", "sms"}

(* The body of a task has "ran" and its message is not acknowledged yet. *)
Tasks == [channel : Channels, about : Subjects, retries : 0..MaxRetries,
          stage : {"queued", "ran"}]

NewTask(channel, subject) ==
    [channel |-> channel, about |-> subject, retries |-> 0, stage |-> "queued"]

TasksInit ==
    /\ tasks = EmptyBag
    /\ sent = [channel \in Channels |-> [s \in Subjects |-> 0]]
    /\ failed = {}
    /\ taskFaults = 0
    /\ redeliveries = 0
-----------------------------------------------------------------------------
(* One message of task t. *)
One(t) == SetToBag({t})

(* delay() publishes a task. *)
Delay(channel, subject) ==
    /\ tasks' = tasks (+) One(NewTask(channel, subject))
    /\ UNCHANGED << sent, failed, taskFaults, redeliveries >>

Ran(t) == [t EXCEPT !.stage = "ran"]

(* The body of t has ended; the message waits to be acknowledged. *)
RanBag(t) == (tasks (-) One(t)) (+) One(Ran(t))

(* The body returns: the e-mail or text is out. *)
TaskSends(t) ==
    /\ t.stage = "queued"
    /\ sent' = [sent EXCEPT ![t.channel][t.about] = @ + 1]
    /\ tasks' = RanBag(t)
    /\ UNCHANGED << failed, taskFaults, redeliveries >>

(* The message of a task that has run is acknowledged (task_acks_late). *)
TaskAcknowledged(t) ==
    /\ t.stage = "ran"
    /\ tasks' = tasks (-) One(t)
    /\ UNCHANGED << sent, failed, taskFaults, redeliveries >>

Fails(t) ==
    /\ t.stage = "queued"
    /\ taskFaults < MaxTaskFaults
    /\ taskFaults' = taskFaults + 1

Retry(t) == [t EXCEPT !.retries = @ + 1]

(* Mutant: the number of retries is not limited. *)
TaskRetries_NoLimit(t) ==
    /\ Fails(t)
    /\ tasks' = RanBag(t) (+) One(Retry(t))
    /\ UNCHANGED << sent, failed, redeliveries >>

(* Mutant: the message that is tried again is put back as well. *)
TaskRetries_PutBack(t) ==
    /\ Fails(t)
    /\ t.retries < MaxRetries
    /\ tasks' = tasks (+) One(Retry(t))
    /\ UNCHANGED << sent, failed, redeliveries >>

(* The body raises and self.retry publishes the task anew, with a countdown;
   the message of this attempt is acknowledged like that of a task that ran. *)
TaskRetries(t) ==
    /\ Fails(t)
    /\ t.retries < MaxRetries
    /\ tasks' = RanBag(t) (+) One(Retry(t))
    /\ UNCHANGED << sent, failed, redeliveries >>

(* The body raises after the last retry, the retry cannot be published, or the
   pool process dies (task_reject_on_worker_lost is not set): the message is
   acknowledged all the same and this task sends nothing any more. *)
TaskFails(t) ==
    /\ Fails(t)
    /\ tasks' = tasks (-) One(t)
    /\ failed' = failed \cup {<< t.channel, t.about >>}
    /\ UNCHANGED << sent, redeliveries >>

(* Mutant: messages are acknowledged before the tasks are run. *)
WorkerReconnects_AckedEarly ==
    /\ redeliveries < MaxRedeliveries
    /\ redeliveries' = redeliveries + 1
    /\ tasks' = EmptyBag
    /\ UNCHANGED << sent, failed, taskFaults >>

Copies(t) == IF t \in BagToSet(tasks) THEN tasks[t] ELSE 0

(* What is not acknowledged is queued, whether it has run or not. *)
Redelivered ==
    [t \in { [u EXCEPT !.stage = "queued"] : u \in BagToSet(tasks) } |->
        Copies(t) + Copies(Ran(t))]

(* The worker restarts, or its connection breaks: what it has not acknowledged
   is queued again. *)
WorkerReconnects ==
    /\ redeliveries < MaxRedeliveries
    /\ redeliveries' = redeliveries + 1
    /\ tasks' = Redelivered
    /\ UNCHANGED << sent, failed, taskFaults >>

TaskStep == \E t \in BagToSet(tasks) : TaskSends(t) \/ TaskAcknowledged(t)

TaskFault ==
    \/ \E t \in BagToSet(tasks) : TaskRetries(t) \/ TaskFails(t)
    \/ WorkerReconnects
-----------------------------------------------------------------------------
(* Task messages keep their shape, the limit of retries included, and what was
   sent and given up keeps its type. *)
TasksTypeOK ==
    /\ IsABag(tasks) /\ BagToSet(tasks) \subseteq Tasks
    /\ sent \in [Channels -> [Subjects -> Nat]]
    /\ failed \subseteq Channels \X Subjects
    /\ taskFaults \in 0..MaxTaskFaults
    /\ redeliveries \in 0..MaxRedeliveries
=============================================================================
