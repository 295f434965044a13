----------------------------- MODULE EventQueue -----------------------------
(***************************************************************************)
(* The durable RabbitMQ queue "order_created" and its consumer sessions,   *)
(* as the services use it: one queue bound to one key of one exchange,     *)
(* manual acknowledgement, prefetch_count = 1 and a message TTL. The       *)
(* broker itself is not in the repository; the operators of this module    *)
(* are the parts of it that the workers' actions are made of.              *)
(*                                                                         *)
(* A message is known by its slot, its position in the order of arrival.   *)
(***************************************************************************)
EXTENDS Naturals, Sequences, FiniteSets

CONSTANTS
    Messages,          \* message bodies
    Kind,              \* the shape of each body, one of Kinds
    Consumers,         \* worker processes that consume the queue
    MaxPublished,      \* bound: messages published
    MaxSessionLosses   \* bound: sessions that break

(* What both workers' parsers tell apart: the order.created envelope, the bare
   order of older producers, an envelope of another event_type, order data
   whose total is no number, an object without the fields, JSON that is no
   object, and text that is no JSON. *)
Kinds == {"envelope", "legacy", "other_event", "bad_total", "incomplete",
          "not_object", "not_json"}

ASSUME KindAssumption == Kind \in [Messages -> Kinds]
ASSUME QueueBoundAssumption ==
    MaxPublished \in Nat /\ MaxSessionLosses \in Nat

VARIABLES
    log,      \* every message the queue has taken, by slot
    ready,    \* slots waiting for a consumer
    held,     \* the one unacknowledged slot of each session, or NoSlot
    session,  \* broker's view of each consumer's connection and channel
    aged,     \* slots older than the TTL
    acked,    \* slots each consumer has acknowledged
    expired,  \* slots the TTL has removed
    losses

queueVars == << log, ready, held, session, aged, acked, expired, losses >>

Slots == 1..MaxPublished
NoSlot == 0
Published == 1..Len(log)

AckedSlots == UNION { acked[c] : c \in Consumers }
Gone == AckedSlots \cup expired

QueueTypeOK ==
    /\ log \in Seq(Messages) /\ Len(log) <= MaxPublished
    /\ ready \subseteq Published
    /\ held \in [Consumers -> Published \cup {NoSlot}]
    /\ session \in [Consumers -> {"open", "closed"}]
    /\ aged \subseteq Published
    /\ acked \in [Consumers -> SUBSET Published]
    /\ expired \subseteq Published
    /\ losses \in 0..MaxSessionLosses

QueueInit ==
    /\ log = << >>
    /\ ready = {}
    /\ held = [c \in Consumers |-> NoSlot]
    /\ session = [c \in Consumers |-> "closed"]
    /\ aged = {}
    /\ acked = [c \in Consumers |-> {}]
    /\ expired = {}
    /\ losses = 0
-----------------------------------------------------------------------------
(* A producer's message is routed to the queue. *)
Enqueue(m) ==
    /\ Len(log) < MaxPublished
    /\ log' = Append(log, m)
    /\ ready' = ready \cup {Len(log) + 1}
    /\ UNCHANGED << held, session, aged, acked, expired, losses >>

IsHead(i) == i \in ready /\ \A j \in ready : i <= j

(* A consumer with nothing unacknowledged gets the oldest message; messages
   past their TTL are removed, not delivered. *)
Deliver(c, i) ==
    /\ session[c] = "open"
    /\ held[c] = NoSlot
    /\ IsHead(i) /\ i \notin aged
    /\ held' = [held EXCEPT ![c] = i]
    /\ ready' = ready \ {i}
    /\ UNCHANGED << log, session, aged, acked, expired, losses >>

(* Mutant: an answer counts although its session is gone. *)
Ack_OnDeadSession(c) ==
    /\ acked' = [acked EXCEPT ![c] = @ \cup {held[c]}]
    /\ held' = [held EXCEPT ![c] = NoSlot]
    /\ UNCHANGED << log, ready, session, aged, expired, losses >>

(* basic_ack *)
Ack(c) ==
    /\ session[c] = "open"
    /\ acked' = [acked EXCEPT ![c] = @ \cup {held[c]}]
    /\ held' = [held EXCEPT ![c] = NoSlot]
    /\ UNCHANGED << log, ready, session, aged, expired, losses >>

(* Mutant: what is not acknowledged is dropped (requeue=False). *)
Release_Drops(c) ==
    /\ ready' = ready
    /\ held' = [held EXCEPT ![c] = NoSlot]

(* What a session holds goes back to its old place. *)
Release(c) ==
    /\ ready' = ready \cup ({held[c]} \ {NoSlot})
    /\ held' = [held EXCEPT ![c] = NoSlot]

(* basic_nack with requeue=True *)
Requeue(c) ==
    /\ session[c] = "open"
    /\ Release(c)
    /\ UNCHANGED << log, session, aged, acked, expired, losses >>

OpenSession(c) ==
    /\ session[c] = "closed"
    /\ session' = [session EXCEPT ![c] = "open"]
    /\ UNCHANGED << log, ready, held, aged, acked, expired, losses >>

(* The consumer's process ends and its connection with it. *)
CloseSession(c) ==
    /\ session' = [session EXCEPT ![c] = "closed"]
    /\ Release(c)
    /\ UNCHANGED << log, aged, acked, expired, losses >>

(* The connection breaks or the broker closes it (a restart, or a heartbeat
   missed while the handler runs), unnoticed by the consumer. *)
LoseSession(c) ==
    /\ losses < MaxSessionLosses
    /\ losses' = losses + 1
    /\ session[c] = "open"
    /\ session' = [session EXCEPT ![c] = "closed"]
    /\ Release(c)
    /\ UNCHANGED << log, aged, acked, expired >>

(* A day has passed since the message came in (x-message-ttl); messages come
   of age in order, delivered or not. *)
Age(i) ==
    /\ i \in Published \ (Gone \cup aged)
    /\ \A j \in 1..(i - 1) : j \in Gone \cup aged
    /\ aged' = aged \cup {i}
    /\ UNCHANGED << log, ready, held, session, acked, expired, losses >>

(* A message past its TTL is removed when it reaches the head of the queue. *)
Expire(i) ==
    /\ IsHead(i) /\ i \in aged
    /\ ready' = ready \ {i}
    /\ expired' = expired \cup {i}
    /\ UNCHANGED << log, held, session, aged, acked, losses >>

NothingIsLost ==
    \A i \in Published : i \in ready \cup Gone \/ \E c \in Consumers : held[c] = i

NothingIsTwice ==
    /\ ready \cap Gone = {}
    /\ AckedSlots \cap expired = {}

SessionsAreApart ==
    \A c \in Consumers :
      /\ held[c] \notin ready \cup Gone
      /\ session[c] = "closed" => held[c] = NoSlot
      /\ \A d \in Consumers : c # d =>
           /\ held[c] = held[d] => held[c] = NoSlot
           /\ acked[c] \cap acked[d] = {}

(* Every message is in one place: waiting, with one session, acknowledged by
   one worker or removed. What a worker had when its session broke is back in
   the queue, so a late answer must not count. *)
QueueConsistent == NothingIsLost /\ NothingIsTwice /\ SessionsAreApart
=============================================================================
