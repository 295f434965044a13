------------------------ MODULE OrderPipelineProofs ------------------------
(***************************************************************************)
(* Proofs about OrderPipeline: the parts' own invariants hold when they    *)
(* run together, and what is sent is what was scheduled, for any requests, *)
(* orders, workers and retries and any number of faults.                   *)
(***************************************************************************)
EXTENDS OrderPipeline, OrderConsumersProofs

(* order-service with what OrderServiceProofs proves about it. *)
SP == INSTANCE OrderServiceProofs

(* How often task t is in bag B. *)
CountIn(B, t) == IF t \in DOMAIN B THEN B[t] ELSE 0

(* The queued tasks of a channel about a slot, one pair for each copy. *)
Mine(t, channel, i) == t.channel = channel /\ t.about = i /\ t.stage = "queued"
Waiting(B, channel, i) ==
    { p \in Tasks \X Nat : Mine(p[1], channel, i) /\ p[2] \in 1..CountIn(B, p[1]) }

(* Every e-mail and text sent or still to be sent has been scheduled. *)
TasksCounted ==
    \A channel \in Channels : \A i \in Slots :
        /\ IsFiniteSet(Waiting(tasks, channel, i))
        /\ sent[channel][i] + Cardinality(Waiting(tasks, channel, i))
             <= TimesScheduled(channel, i)

(* Tasks, and what they sent, are about messages that the queue has taken. *)
TasksOfOrders ==
    /\ \A t \in DOMAIN tasks : t.about \in Published
    /\ \A channel \in Channels : \A i \in Slots : sent[channel][i] > 0 => i \in Published

(* A restart of the broker takes sessions away without counting them as
   losses, and queues what has run again: accounts are kept until then. *)
PipelineInv ==
    /\ SP!IInv
    /\ IInv
    /\ TasksTypeOK
    /\ Len(log) = Len(accepted)
    /\ TasksOfOrders
    /\ outages = 0 => OrdersOnly /\ Budgets
    /\ outages + redeliveries = 0 => TasksCounted
-----------------------------------------------------------------------------
(* OrderService is the same module in OrderPipeline and here. *)
LEMMA SameAssumptions ==
  SP!IdAssumption /\ SP!CredentialAssumption /\ SP!BodyAssumption /\ SP!BoundAssumption
  BY PipelineAssumption
  DEF Shop!IdAssumption, Shop!CredentialAssumption, Shop!BodyAssumption, Shop!BoundAssumption,
      SP!IdAssumption, SP!CredentialAssumption, SP!BodyAssumption, SP!BoundAssumption,
      Shop!CredentialFaults, SP!CredentialFaults, Shop!Malformed, SP!Malformed

LEMMA SameTotal == \A items : Shop!OrderTotal(items) = SP!OrderTotal(items)
  BY Zenon
  DEF Shop!OrderTotal, SP!OrderTotal, Shop!FoldLeft, SP!FoldLeft, Shop!MapThenFoldSet,
      SP!MapThenFoldSet, Shop!Max, SP!Max

LEMMA SameData ==
  /\ Shop!Totals = SP!Totals
  /\ Shop!Inputs = SP!Inputs
  /\ Shop!InFlight = SP!InFlight
  /\ Shop!NoOrder = SP!NoOrder
  /\ \A o : Shop!Event(o) = SP!Event(o)
  /\ \A r, in : Shop!Draft(r, in) = SP!Draft(r, in)
  <1>1. Shop!Totals = SP!Totals
    BY SameTotal DEF Shop!Totals, SP!Totals
  <1>2. Shop!Inputs = SP!Inputs
    BY DEF Shop!Inputs, SP!Inputs, Shop!Credentials, SP!Credentials, Shop!CredentialFaults,
           SP!CredentialFaults, Shop!Malformed, SP!Malformed
  <1>3. Shop!InFlight = SP!InFlight /\ Shop!NoOrder = SP!NoOrder
    BY DEF Shop!InFlight, SP!InFlight, Shop!NoOrder, SP!NoOrder
  <1>4. \A o : Shop!Event(o) = SP!Event(o)
    BY DEF Shop!Event, SP!Event
  <1>5. \A r, in : Shop!Draft(r, in) = SP!Draft(r, in)
    BY SameTotal DEF Shop!Draft, SP!Draft
  <1> QED
    BY <1>1, <1>2, <1>3, <1>4, <1>5

LEMMA SameType == SP!TypeOK => Shop!TypeOK
  <1>1. Shop!Orders = SP!Orders /\ Shop!Drafts = SP!Drafts /\ Shop!Events = SP!Events
    BY SameData DEF Shop!Orders, SP!Orders, Shop!Drafts, SP!Drafts, Shop!Events, SP!Events
  <1> QED
    BY <1>1, SameData DEF Shop!TypeOK, SP!TypeOK

LEMMA SameInit == Shop!Init => SP!Init
  BY SameData DEF Shop!Init, SP!Init, Shop!Malformed, SP!Malformed

LEMMA SameHandler == ASSUME NEW r, Shop!Handle(r) PROVE SP!Handle(r)
  <1>0. /\ Shop!serviceVars = SP!serviceVars /\ Shop!brokerVars = SP!brokerVars
        /\ Shop!Serving = SP!Serving
    BY DEF Shop!serviceVars, SP!serviceVars, Shop!brokerVars, SP!brokerVars, Shop!Serving, SP!Serving
  <1>a. \A in : /\ Shop!AuthAnswer(in.credential) = SP!AuthAnswer(in.credential)
                /\ Shop!ValidationAnswer(in) = SP!ValidationAnswer(in)
    BY DEF Shop!AuthAnswer, SP!AuthAnswer, Shop!ValidationAnswer, SP!ValidationAnswer, Shop!Malformed,
           SP!Malformed
  <1>i. \A id : /\ Shop!InsertId(r, id) <=> SP!InsertId(r, id)
                /\ Shop!Stored(r, id) = SP!Stored(r, id)
    BY SameData DEF Shop!InsertId, SP!InsertId, Shop!Stored, SP!Stored
  <1>u. UNCHANGED Shop!serviceVars => UNCHANGED SP!serviceVars
    BY DEF Shop!serviceVars, SP!serviceVars
  <1>v. UNCHANGED Shop!brokerVars => UNCHANGED SP!brokerVars
    BY DEF Shop!brokerVars, SP!brokerVars
  <1>w. \A status : Shop!Respond(r, status) => SP!Respond(r, status)
    BY DEF Shop!Respond, SP!Respond
  <1>1. CASE Shop!Refuse(r)
    <2>1. SP!Refuse(r)
      BY <1>1, <1>0, <1>a, <1>u, <1>v, <1>w, SameData DEF Shop!Refuse, SP!Refuse
    <2> QED
      BY <2>1 DEF SP!Handle
  <1>2. CASE Shop!Admit(r)
    <2>1. SP!Admit(r)
      BY <1>2, <1>0, <1>a, <1>u, <1>v, SameData DEF Shop!Admit, SP!Admit
    <2> QED
      BY <2>1 DEF SP!Handle
  <1>3. CASE Shop!PaymentApproved(r) \/ Shop!PaymentDeclined(r)
    BY <1>3, <1>u, <1>v, <1>w
    DEF Shop!PaymentApproved, SP!PaymentApproved, Shop!PaymentDeclined, SP!PaymentDeclined, SP!Handle
  <1>4. CASE Shop!InsertOrder(r) \/ Shop!InsertFails(r)
    BY <1>4, <1>i, <1>u, <1>v, <1>w
    DEF Shop!InsertOrder, SP!InsertOrder, Shop!InsertFails, SP!InsertFails, SP!Handle
  <1>5. CASE Shop!PublishEvent(r) \/ Shop!PublishFails(r) \/ Shop!CloseChannel(r)
    BY <1>5, <1>u, <1>v, <1>w
    DEF Shop!PublishEvent, SP!PublishEvent, Shop!PublishFails, SP!PublishFails, Shop!CloseChannel,
        SP!CloseChannel, SP!Handle
  <1> QED
    BY <1>1, <1>2, <1>3, <1>4, <1>5 DEF Shop!Handle

(* What RabbitMQ's restart does to order-service is no step of OrderService
   when there is no connection to lose: its invariant holds all the same. *)
LEMMA RestartKeepsShop == ASSUME SP!IInv, BrokerRestarts PROVE SP!IInv'
  <1>1. /\ UNCHANGED << pc, input, order, reply, charged, unsent, orders, attempts, broker, accepted, crashes >>
        /\ wire' = {} /\ publisher' = (IF publisher = "open" THEN "lost" ELSE publisher)
        /\ outages < MaxBrokerOutages /\ outages' = outages + 1
    BY DEF BrokerRestarts, Shop!LoseConnection
  <1>2. SP!TypeOK'
    BY <1>1, SameAssumptions DEF SP!IInv, SP!TypeOK, SP!BoundAssumption
  <1>3. SP!DialInv' /\ SP!WireInv'
    BY <1>1 DEF SP!IInv, SP!DialInv, SP!WireInv, SP!TypeOK
  <1>4. SP!HandlerInv'
    BY <1>1 DEF SP!IInv, SP!HandlerInv, SP!OwnDraft, SP!Inserted
  <1>5. SP!StoreInv' /\ SP!EventInv'
    BY <1>1 DEF SP!IInv, SP!StoreInv, SP!EventInv
  <1> QED
    BY <1>2, <1>3, <1>4, <1>5 DEF SP!IInv

(* What happens to order-service in any step of the pipeline. *)
LEMMA ShopStep == PipelineNext /\ ~BrokerRestarts => [SP!Next]_(SP!vars)
  <1> SUFFICES ASSUME PipelineNext, ~BrokerRestarts PROVE [SP!Next]_(SP!vars)
    OBVIOUS
  <1>1. CASE Accept
    <2>1. PICK r \in Requests : Shop!BrokerAccepts(r)
      BY <1>1 DEF Accept
    <2>2. SP!BrokerAccepts(r)
      BY <2>1, SameData
      DEF Shop!BrokerAccepts, SP!BrokerAccepts, Shop!serviceVars, SP!serviceVars
    <2> QED
      BY <2>2 DEF SP!Next
  <1>2. ASSUME NEW r \in Requests, Handle(r) PROVE SP!Next
    BY <1>2, SameHandler DEF Handle, SP!Next
  <1>3. CASE Dial
    <2>1. SP!DialSucceeds
      BY <1>3 DEF Dial, Shop!DialSucceeds, SP!DialSucceeds, Shop!brokerVars, SP!brokerVars
    <2> QED
      BY <2>1 DEF SP!Next
  <1>4. CASE ShopFault
    <2>1. CASE Shop!ConnectionLost
      <3>1. SP!ConnectionLost
        BY <2>1 DEF Shop!ConnectionLost, SP!ConnectionLost, Shop!LoseConnection, SP!LoseConnection
      <3> QED
        BY <3>1 DEF SP!Next
    <2>2. CASE Shop!ServiceCrashes
      <3>1. SP!ServiceCrashes
        BY <2>2, SameData DEF Shop!ServiceCrashes, SP!ServiceCrashes
      <3> QED
        BY <3>1 DEF SP!Next
    <2> QED
      BY <1>4, <2>1, <2>2 DEF ShopFault
  <1>5. UNCHANGED shopVars => UNCHANGED SP!vars
    BY DEF shopVars, SP!vars
  <1>6. CASE UNCHANGED shopVars
    BY <1>5, <1>6
  <1> QED
    BY <1>1, <1>2, <1>3, <1>4, <1>6
    DEF PipelineNext, NotifierStep, NotifierFault, TrainerStep, CeleryStep, CeleryFault, Fault, SessionBreaks
-----------------------------------------------------------------------------
(* What happens to the queue and its workers in any step of the pipeline. *)
LEMMA ConsumersStep == PipelineNext /\ ~BrokerRestarts => [Next]_vars
  <1> SUFFICES ASSUME PipelineNext, ~BrokerRestarts PROVE [Next]_vars
    OBVIOUS
  <1>1. CASE Accept
    <2>1. Produce("envelope") /\ "envelope" \in Messages
      BY <1>1, PipelineAssumption DEF Accept
    <2> QED
      BY <2>1 DEF Next
  <1>2. ASSUME NEW c \in NotificationConsumers, NotifierStep(c) \/ NotifierFault(c)
        PROVE  [Next]_vars
    <2>1. (NotificationStep(c) \/ NotificationFault(c)) /\ UNCHANGED retrainingVars
      BY <1>2 DEF NotifierStep, NotifierFault
    <2> QED
      BY <2>1 DEF Next, WorkerStep
  <1>3. ASSUME NEW c \in RetrainingConsumers, TrainerStep(c) PROVE [Next]_vars
    <2>1. RetrainingStep(c) /\ UNCHANGED notificationVars
      BY <1>3 DEF TrainerStep
    <2> QED
      BY <2>1 DEF Next, WorkerStep
  <1>4. CASE SessionBreaks
    <2>1. (\E c \in Consumers : LoseSession(c)) /\ UNCHANGED << notificationVars, retrainingVars >>
      BY <1>4 DEF SessionBreaks
    <2> QED
      BY <2>1 DEF Next, QueueStep
  <1>5. CASE UNCHANGED vars
    BY <1>5
  <1> QED
    BY <1>1, <1>2, <1>3, <1>4, <1>5
    DEF PipelineNext, Handle, Dial, ShopFault, CeleryStep, CeleryFault, Fault

(* Every session ends at once; what the sessions held is queued. *)
LEMMA RestartKeepsQueue == ASSUME QueueInv, BrokerRestarts PROVE QueueInv'
  <1>1. /\ UNCHANGED << log, aged, acked, expired, losses >>
        /\ session' = [c \in Consumers |-> "closed"]
        /\ held' = [c \in Consumers |-> NoSlot]
        /\ ready' = ready \cup ({ held[c] : c \in Consumers } \ {NoSlot})
    BY DEF BrokerRestarts
  <1>2. /\ AckedSlots' = AckedSlots /\ Published' = Published /\ Gone' = Gone /\ NoSlot \notin Published
    BY <1>1 DEF AckedSlots, Published, NoSlot, Gone
  <1>3. /\ held \in [Consumers -> Published \cup {NoSlot}] /\ ready \subseteq Published
        /\ \A c \in Consumers : acked[c] \subseteq Published
        /\ expired \subseteq Published
    BY DEF QueueInv, QueueTypeOK
  <1>4. QueueTypeOK'
    BY <1>1, <1>2, <1>3 DEF QueueInv, QueueTypeOK
  <1>5. NothingIsLost'
    BY <1>1, <1>2 DEF QueueInv, QueueConsistent, NothingIsLost
  <1>6. \A c \in Consumers : held[c] \notin Gone
    BY DEF QueueInv, QueueConsistent, SessionsAreApart
  <1>7. NothingIsTwice'
    BY <1>1, <1>2, <1>6 DEF QueueInv, QueueConsistent, NothingIsTwice
  <1>8. NoSlot \notin ready' \cup Gone
    BY <1>1, <1>2, <1>3 DEF Gone, AckedSlots
  <1>9. SessionsAreApart'
    BY <1>1, <1>2, <1>8 DEF QueueInv, QueueConsistent, SessionsAreApart
  <1> QED
    BY <1>4, <1>5, <1>7, <1>9 DEF QueueInv, QueueConsistent

LEMMA RestartKeepsConsumers == ASSUME IInv, BrokerRestarts PROVE IInv'
  <1>1. QueueInv'
    BY RestartKeepsQueue DEF IInv
  <1>2. LogStays /\ \A d \in Consumers : Aside(d)
    BY DEF BrokerRestarts, LogStays, Published, Aside
  <1>3. UNCHANGED notificationVars /\ UNCHANGED retrainingVars
    BY DEF BrokerRestarts
  <1> QED
    BY <1>1, <1>2, <1>3, NotificationFrame, RetrainingFrame, NotificationAssumption, RetrainingAssumption
    DEF IInv

(* The queue grows with what the broker accepts, and only with that. *)
LEMMA SameLength ==
  ASSUME SP!IInv, IInv, Len(log) = Len(accepted), [PipelineNext]_pipelineVars
  PROVE  Len(log)' = Len(accepted)' /\ Published \subseteq Published'
  <1>1. accepted \in Seq(SP!Events) /\ log \in Seq(Messages)
    BY DEF SP!IInv, SP!TypeOK, IInv, QueueInv, QueueTypeOK
  <1>2. CASE Accept
    <2>1. (\E e : accepted' = Append(accepted, e)) /\ \E m : log' = Append(log, m)
      BY <1>2 DEF Accept, Shop!BrokerAccepts, Produce, Enqueue
    <2> QED
      BY <1>1, <2>1 DEF Published
  <1>3. CASE UNCHANGED << log, accepted >>
    BY <1>3 DEF Published
  <1>4. ASSUME NEW c \in NotificationConsumers, NotificationStep(c) \/ NotificationFault(c) PROVE log' = log
    BY <1>4 DEF NotificationStep, NotificationFault, NotificationConnects, NotificationReceives,
       ParseEvent, ScheduleEmail, ScheduleText, ScheduleFails, NotificationAcks, NotificationNacks,
       NotificationReconnects, NotificationCrashes, OpenSession, CloseSession, Deliver, Requeue,
       Ack, queueVars
  <1>5. ASSUME NEW c \in RetrainingConsumers, RetrainingStep(c) PROVE log' = log
    BY <1>5 DEF RetrainingStep, WorkerBoots, RetrainingConnects, RetrainingReceives,
       RejectEvent, SkipEvent, CountOrder, TrainingSucceeds, TrainingFails, RetrainingAcks,
       RetrainingNacks, RetrainingReconnects, OpenSession, CloseSession, Deliver, Requeue, Ack, queueVars
  <1>6. ASSUME NEW r \in Requests, Handle(r) PROVE UNCHANGED << log, accepted >>
    BY <1>6 DEF Handle, Shop!Handle, Shop!Refuse, Shop!Admit, Shop!PaymentApproved, Shop!PaymentDeclined,
       Shop!InsertOrder, Shop!InsertFails, Shop!PublishEvent, Shop!PublishFails, Shop!CloseChannel,
       Shop!brokerVars, vars, queueVars
  <1>7. ASSUME Dial \/ ShopFault \/ BrokerRestarts \/ SessionBreaks \/ CeleryStep \/ CeleryFault
               \/ UNCHANGED pipelineVars
        PROVE  UNCHANGED << log, accepted >>
    BY <1>7 DEF Dial, ShopFault, BrokerRestarts, SessionBreaks, CeleryStep, CeleryFault, Shop!DialSucceeds,
       Shop!ConnectionLost, Shop!ServiceCrashes, Shop!brokerVars, vars, queueVars, shopVars,
       pipelineVars, LoseSession
  <1>8. ASSUME NEW c \in NotificationConsumers, NotifierStep(c) \/ NotifierFault(c)
        PROVE  UNCHANGED << log, accepted >>
    BY <1>4, <1>8 DEF NotifierStep, NotifierFault, shopVars
  <1>9. ASSUME NEW c \in RetrainingConsumers, TrainerStep(c) PROVE UNCHANGED << log, accepted >>
    BY <1>5, <1>9 DEF TrainerStep, shopVars
  <1>10. Accept \/ UNCHANGED << log, accepted >>
    BY <1>6, <1>7, <1>8, <1>9 DEF PipelineNext, Fault
  <1> QED
    BY <1>2, <1>3, <1>10
-----------------------------------------------------------------------------
(* Adding a copy to a bag and taking one away. *)
LEMMA BagAddCounts ==
  ASSUME NEW B, IsABag(B), NEW x
  PROVE  /\ IsABag(B (+) One(x)) /\ DOMAIN (B (+) One(x)) = DOMAIN B \cup {x}
         /\ \A t : CountIn(B, t) \in Nat
         /\ \A t : CountIn(B (+) One(x), t) = IF t = x THEN CountIn(B, t) + 1 ELSE CountIn(B, t)
  <1> DEFINE C == [t \in DOMAIN B \cup {x} |-> (IF t \in DOMAIN B THEN B[t] ELSE 0)
                                              + (IF t \in {x} THEN [e \in {x} |-> 1][t] ELSE 0)]
  <1>1. B (+) One(x) = C
    BY DEF One, SetToBag, (+)
  <1>2. \A t \in DOMAIN B : B[t] \in Nat /\ B[t] > 0
    BY DEF IsABag
  <1>3. \A t : CountIn(B, t) \in Nat
    BY <1>2 DEF CountIn
  <1>4. DOMAIN C = DOMAIN B \cup {x}
    OBVIOUS
  <1>5. \A t \in DOMAIN C : C[t] \in Nat /\ C[t] > 0
    BY <1>2
  <1>6. \A t : CountIn(C, t) = IF t = x THEN CountIn(B, t) + 1 ELSE CountIn(B, t)
    BY <1>2 DEF CountIn
  <1>7. IsABag(C)
    BY <1>5 DEF IsABag
  <1> HIDE DEF C
  <1> QED
    BY <1>1, <1>3, <1>4, <1>6, <1>7

LEMMA BagRemoveCounts ==
  ASSUME NEW B, IsABag(B), NEW x \in DOMAIN B
  PROVE  /\ IsABag(B (-) One(x)) /\ DOMAIN (B (-) One(x)) \subseteq DOMAIN B
         /\ CountIn(B, x) \in Nat /\ CountIn(B, x) > 0
         /\ \A t : CountIn(B (-) One(x), t) = IF t = x THEN CountIn(B, t) - 1 ELSE CountIn(B, t)
  <1> DEFINE D == [t \in DOMAIN B |-> IF t \in {x} THEN B[t] - [e \in {x} |-> 1][t] ELSE B[t]]
             C == [t \in { u \in DOMAIN D : D[u] > 0 } |-> D[t]]
  <1>1. B (-) One(x) = C
    BY DEF One, SetToBag, (-)
  <1>2. \A t \in DOMAIN B : B[t] \in Nat /\ B[t] > 0
    BY DEF IsABag
  <1>3. CountIn(B, x) \in Nat /\ CountIn(B, x) > 0
    BY <1>2 DEF CountIn
  <1>4. \A t \in DOMAIN B : D[t] = (IF t = x THEN B[t] - 1 ELSE B[t]) /\ D[t] \in Nat
    BY <1>2
  <1>5. DOMAIN D = DOMAIN B
    OBVIOUS
  <1> HIDE DEF D
  <1>6. DOMAIN C = { u \in DOMAIN B : D[u] > 0 } /\ \A t \in DOMAIN C : C[t] = D[t]
    BY <1>5
  <1>7. \A t \in DOMAIN C : C[t] \in Nat /\ C[t] > 0
    BY <1>4, <1>6
  <1>8. IsABag(C)
    BY <1>7 DEF IsABag
  <1> HIDE DEF C
  <1>9. \A t : CountIn(C, t) = IF t = x THEN CountIn(B, t) - 1 ELSE CountIn(B, t)
    BY <1>2, <1>4, <1>6 DEF CountIn
  <1> QED
    BY <1>1, <1>3, <1>6, <1>8, <1>9

(* A task added to a bag, or taken from it, is one more to wait for, or one
   less, on its own channel and about its own subject while it is queued. *)
LEMMA WaitingAdd ==
  ASSUME NEW B, IsABag(B), NEW x \in Tasks, NEW channel, NEW i, IsFiniteSet(Waiting(B, channel, i))
  PROVE  LET W == Waiting(B (+) One(x), channel, i) IN
         /\ IsFiniteSet(W)
         /\ Cardinality(W) = IF Mine(x, channel, i) THEN Cardinality(Waiting(B, channel, i)) + 1
                             ELSE Cardinality(Waiting(B, channel, i))
  <1> DEFINE n == CountIn(B, x)
             V == Waiting(B, channel, i)
             W == Waiting(B (+) One(x), channel, i)
  <1>1. /\ \A t : CountIn(B, t) \in Nat
        /\ \A t : CountIn(B (+) One(x), t) = IF t = x THEN CountIn(B, t) + 1 ELSE CountIn(B, t)
    BY BagAddCounts
  <1>2. CASE ~Mine(x, channel, i)
    <2>1. \A t \in Tasks : Mine(t, channel, i) => CountIn(B (+) One(x), t) = CountIn(B, t)
      BY <1>1, <1>2
    <2>2. W = V
      BY <2>1 DEF Waiting
    <2> QED
      BY <1>2, <2>2
  <1>3. CASE Mine(x, channel, i)
    <2>0. n \in Nat /\ 1..(n + 1) = 1..n \cup {n + 1} /\ n + 1 \notin 1..n
      BY <1>1
    <2>1. \A p \in Tasks \X Nat : p \in W <=> p \in V \/ p = << x, n + 1 >>
      <3> SUFFICES ASSUME NEW t \in Tasks, NEW k \in Nat
                   PROVE  << t, k >> \in W <=> << t, k >> \in V \/ << t, k >> = << x, n + 1 >>
        OBVIOUS
      <3>1. << t, k >> \in W <=> Mine(t, channel, i) /\ k \in 1..CountIn(B (+) One(x), t)
        BY DEF Waiting
      <3>2. << t, k >> \in V <=> Mine(t, channel, i) /\ k \in 1..CountIn(B, t)
        BY DEF Waiting
      <3>3. CASE t = x
        BY <1>1, <1>3, <2>0, <3>1, <3>2, <3>3
      <3>4. CASE t # x
        BY <1>1, <3>1, <3>2, <3>4
      <3> QED
        BY <3>3, <3>4
    <2>2. W \subseteq Tasks \X Nat /\ V \subseteq Tasks \X Nat /\ << x, n + 1 >> \in Tasks \X Nat
      BY <2>0 DEF Waiting
    <2>3. << x, n + 1 >> \notin V
      BY <2>0 DEF Waiting
    <2>4. W = V \cup {<< x, n + 1 >>}
      BY <2>1, <2>2
    <2>f. IsFiniteSet(V)
      OBVIOUS
    <2> HIDE DEF W, V
    <2>5. IsFiniteSet(W) /\ Cardinality(W) = Cardinality(V) + 1
      BY <2>3, <2>4, <2>f, FS_AddElement
    <2> QED
      BY <1>3, <2>5 DEF W, V
  <1> QED
    BY <1>2, <1>3

LEMMA WaitingRemove ==
  ASSUME NEW B, IsABag(B), NEW x \in Tasks, x \in DOMAIN B, NEW channel, NEW i,
         IsFiniteSet(Waiting(B, channel, i))
  PROVE  LET W == Waiting(B (-) One(x), channel, i) IN
         /\ IsFiniteSet(W)
         /\ Cardinality(W) = IF Mine(x, channel, i) THEN Cardinality(Waiting(B, channel, i)) - 1
                             ELSE Cardinality(Waiting(B, channel, i))
  <1> DEFINE n == CountIn(B, x)
             V == Waiting(B, channel, i)
             W == Waiting(B (-) One(x), channel, i)
  <1>1. /\ n \in Nat /\ n > 0
        /\ \A t : CountIn(B (-) One(x), t) = IF t = x THEN CountIn(B, t) - 1 ELSE CountIn(B, t)
    BY BagRemoveCounts
  <1>2. CASE ~Mine(x, channel, i)
    <2>1. \A t \in Tasks : Mine(t, channel, i) => CountIn(B (-) One(x), t) = CountIn(B, t)
      BY <1>1, <1>2
    <2>2. W = V
      BY <2>1 DEF Waiting
    <2> QED
      BY <1>2, <2>2
  <1>3. CASE Mine(x, channel, i)
    <2>0. 1..(n - 1) = 1..n \ {n} /\ n \in 1..n
      BY <1>1
    <2>1. \A p \in Tasks \X Nat : p \in W <=> p \in V /\ p # << x, n >>
      <3> SUFFICES ASSUME NEW t \in Tasks, NEW k \in Nat
                   PROVE  << t, k >> \in W <=> << t, k >> \in V /\ << t, k >> # << x, n >>
        OBVIOUS
      <3>1. << t, k >> \in W <=> Mine(t, channel, i) /\ k \in 1..CountIn(B (-) One(x), t)
        BY DEF Waiting
      <3>2. << t, k >> \in V <=> Mine(t, channel, i) /\ k \in 1..CountIn(B, t)
        BY DEF Waiting
      <3>3. CASE t = x
        BY <1>1, <1>3, <2>0, <3>1, <3>2, <3>3
      <3>4. CASE t # x
        BY <1>1, <3>1, <3>2, <3>4
      <3> QED
        BY <3>3, <3>4
    <2>2. W \subseteq Tasks \X Nat /\ V \subseteq Tasks \X Nat
      BY DEF Waiting
    <2>3. << x, n >> \in V
      BY <1>1, <1>3, <2>0 DEF Waiting
    <2>4. W = V \ {<< x, n >>}
      BY <2>1, <2>2
    <2>f. IsFiniteSet(V)
      OBVIOUS
    <2> HIDE DEF W, V
    <2>5. IsFiniteSet(W) /\ Cardinality(W) = Cardinality(V) - 1
      BY <2>3, <2>4, <2>f, FS_RemoveElement
    <2> QED
      BY <1>3, <2>5 DEF W, V
  <1> QED
    BY <1>2, <1>3
-----------------------------------------------------------------------------
LEMMA TasksFacts ==
  ASSUME TasksTypeOK
  PROVE  /\ IsABag(tasks) /\ DOMAIN tasks \subseteq Tasks
         /\ sent \in [Channels -> [Slots -> Nat]]
         /\ Slots = Subjects /\ MaxRetries \in Nat
  BY PipelineAssumption, TasksAssumption DEF TasksTypeOK, BagToSet

LEMMA NewTaskType ==
  ASSUME NEW channel \in Channels, NEW i \in Slots
  PROVE  /\ NewTask(channel, i) \in Tasks /\ NewTask(channel, i).about = i
         /\ \A ch, s : Mine(NewTask(channel, i), ch, s) <=> channel = ch /\ i = s
  BY PipelineAssumption, TasksAssumption DEF NewTask, Tasks, Mine

LEMMA TaskForms ==
  ASSUME NEW t \in Tasks
  PROVE  /\ Ran(t) \in Tasks /\ Ran(t).about = t.about /\ \A ch, s : ~Mine(Ran(t), ch, s)
         /\ t.retries < MaxRetries =>
              /\ Retry(t) \in Tasks /\ Retry(t).about = t.about
              /\ \A ch, s : Mine(Retry(t), ch, s) <=> Mine(t, ch, s)
  BY TasksAssumption DEF Tasks, Ran, Retry, Mine

(* The tasks after a step of a task are about what they were about. *)
LEMMA TaskKeeps ==
  ASSUME TasksTypeOK, NEW t \in BagToSet(tasks),
         TaskSends(t) \/ TaskAcknowledged(t) \/ TaskRetries(t) \/ TaskFails(t)
  PROVE  /\ TasksTypeOK'
         /\ \A u \in DOMAIN tasks' : \E v \in DOMAIN tasks : u.about = v.about
  <1>1. /\ IsABag(tasks) /\ DOMAIN tasks \subseteq Tasks /\ t \in DOMAIN tasks /\ t \in Tasks
    BY TasksFacts DEF BagToSet
  <1>2. /\ IsABag(tasks (-) One(t)) /\ DOMAIN (tasks (-) One(t)) \subseteq DOMAIN tasks
    BY <1>1, BagRemoveCounts
  <1>3. /\ IsABag(RanBag(t)) /\ DOMAIN RanBag(t) = DOMAIN (tasks (-) One(t)) \cup {Ran(t)}
    BY <1>2, BagAddCounts DEF RanBag
  <1>4. /\ IsABag(RanBag(t) (+) One(Retry(t)))
        /\ DOMAIN (RanBag(t) (+) One(Retry(t))) = DOMAIN RanBag(t) \cup {Retry(t)}
    BY <1>3, BagAddCounts
  <1>5. /\ Ran(t) \in Tasks /\ Ran(t).about = t.about
        /\ t.retries < MaxRetries => Retry(t) \in Tasks /\ Retry(t).about = t.about
    BY <1>1, TaskForms
  <1>6. \/ tasks' = tasks (-) One(t) \/ tasks' = RanBag(t)
        \/ tasks' = RanBag(t) (+) One(Retry(t)) /\ t.retries < MaxRetries
    BY DEF TaskSends, TaskAcknowledged, TaskRetries, TaskFails
  <1>7. /\ IsABag(tasks') /\ DOMAIN tasks' \subseteq Tasks
        /\ \A u \in DOMAIN tasks' : \E v \in DOMAIN tasks : u.about = v.about
    BY <1>1, <1>2, <1>3, <1>4, <1>5, <1>6
  <1>8. t.channel \in Channels /\ t.about \in Subjects
    BY <1>1 DEF Tasks
  <1>9. sent' \in [Channels -> [Subjects -> Nat]]
    <2>1. sent' = sent \/ sent' = [sent EXCEPT ![t.channel][t.about] = @ + 1]
      BY DEF TaskSends, TaskAcknowledged, TaskRetries, TaskFails
    <2> QED
      BY <1>8, <2>1 DEF TasksTypeOK
  <1>10. /\ failed' \subseteq Channels \X Subjects /\ taskFaults' \in 0..MaxTaskFaults
         /\ redeliveries' \in 0..MaxRedeliveries
    BY <1>8, TasksAssumption
    DEF TasksTypeOK, TaskSends, TaskAcknowledged, TaskRetries, TaskFails, Fails
  <1> QED
    BY <1>7, <1>9, <1>10 DEF TasksTypeOK, BagToSet

(* All that is not acknowledged is queued again. *)
LEMMA RedeliveredType ==
  ASSUME TasksTypeOK
  PROVE  /\ IsABag(Redelivered) /\ DOMAIN Redelivered \subseteq Tasks
         /\ \A u \in DOMAIN Redelivered : \E v \in DOMAIN tasks : u.about = v.about
  <1> DEFINE Q(u) == [u EXCEPT !.stage = "queued"]
  <1>1. /\ DOMAIN tasks \subseteq Tasks /\ \A t \in DOMAIN tasks : tasks[t] \in Nat /\ tasks[t] > 0
    BY TasksFacts DEF IsABag
  <1>2. DOMAIN Redelivered = { Q(u) : u \in DOMAIN tasks }
    BY DEF Redelivered, BagToSet
  <1>3. \A t : Copies(t) \in Nat /\ (t \in DOMAIN tasks => Copies(t) > 0)
    BY <1>1 DEF Copies, BagToSet
  <1>4. ASSUME NEW u \in DOMAIN tasks
        PROVE  Q(u) \in Tasks /\ Q(u).about = u.about /\ (u = Q(u) \/ u = Ran(Q(u)))
    <2>1. u \in Tasks
      BY <1>1
    <2> QED
      BY <2>1 DEF Tasks, Ran
  <1>5. \A t \in DOMAIN Redelivered : Redelivered[t] = Copies(t) + Copies(Ran(t))
    BY DEF Redelivered
  <1>6. \A t \in DOMAIN Redelivered : Redelivered[t] \in Nat /\ Redelivered[t] > 0
    <2> SUFFICES ASSUME NEW t \in DOMAIN Redelivered
                 PROVE  Copies(t) + Copies(Ran(t)) \in Nat /\ Copies(t) + Copies(Ran(t)) > 0
      BY <1>5
    <2>1. PICK u \in DOMAIN tasks : t = Q(u)
      BY <1>2
    <2>2. u = t \/ u = Ran(t)
      BY <1>4, <2>1
    <2>3. Copies(t) > 0 \/ Copies(Ran(t)) > 0
      BY <1>3, <2>2
    <2> QED
      BY <1>3, <2>3
  <1>7. Redelivered = [t \in DOMAIN Redelivered |-> Redelivered[t]]
    BY DEF Redelivered
  <1>8. Redelivered \in [DOMAIN Redelivered -> {n \in Nat : n > 0}]
    BY <1>6, <1>7
  <1>9. IsABag(Redelivered)
    BY <1>8 DEF IsABag
  <1> HIDE DEF Q
  <1> QED
    BY <1>2, <1>4, <1>1, <1>9

(* A step of a notification worker schedules tasks for a message it holds. *)
LEMMA WorkerSchedules ==
  ASSUME IInv, NEW c \in NotificationConsumers, NotificationStep(c) \/ NotificationFault(c)
  PROVE  \A channel \in Channels : \A i \in Slots :
           LET n == TimesScheduled(channel, i)
           IN  /\ n \in Nat /\ TimesScheduled(channel, i)' \in Nat
               /\ TimesScheduled(channel, i)' >= n
               /\ TimesScheduled(channel, i)' > n => i \in Published /\ TimesScheduled(channel, i)' = n + 1
  <1>1. /\ emails \in [Slots -> Nat] /\ texts \in [Slots -> Nat]
        /\ nJob[c] \in Published \cup {NoSlot} /\ NoSlot \notin Slots
    BY DEF IInv, NotificationPart, NotificationTypeOK, NoSlot, Slots
  <1>2. /\ emails' = emails \/ emails' = [emails EXCEPT ![nJob[c]] = @ + 1]
        /\ texts' = texts \/ texts' = [texts EXCEPT ![nJob[c]] = @ + 1]
    BY DEF NotificationStep, NotificationFault, NotificationConnects, NotificationReceives,
       ParseEvent, ScheduleEmail, ScheduleText, ScheduleFails, NotificationAcks, NotificationNacks,
       NotificationReconnects, NotificationCrashes
  <1> QED
    BY <1>1, <1>2 DEF TimesScheduled, Channels

(* The sum of what was sent about a slot and what waits does not grow but by
   what a worker schedules. *)
LEMMA CountedDelay ==
  ASSUME TasksTypeOK, NEW channel \in Channels, NEW i \in Slots, Delay(channel, i),
         TasksCounted,
         \A ch \in Channels : \A s \in Slots :
           /\ TimesScheduled(ch, s) \in Nat /\ TimesScheduled(ch, s)' \in Nat
           /\ TimesScheduled(ch, s)' >= TimesScheduled(ch, s),
         TimesScheduled(channel, i)' > TimesScheduled(channel, i)
  PROVE  TasksCounted'
  <1> SUFFICES ASSUME NEW ch \in Channels, NEW s \in Slots
               PROVE  /\ IsFiniteSet(Waiting(tasks', ch, s))
                      /\ sent'[ch][s] + Cardinality(Waiting(tasks', ch, s)) <= TimesScheduled(ch, s)'
    BY DEF TasksCounted, Slots
  <1> DEFINE x == NewTask(channel, i)
             w == Cardinality(Waiting(tasks, ch, s))
             v == Cardinality(Waiting(tasks', ch, s))
  <1>1. /\ IsABag(tasks) /\ x \in Tasks /\ sent' = sent /\ tasks' = tasks (+) One(x)
        /\ Mine(x, ch, s) <=> channel = ch /\ i = s
    BY TasksFacts, NewTaskType DEF Delay
  <1>2. /\ IsFiniteSet(Waiting(tasks, ch, s)) /\ sent[ch][s] + w <= TimesScheduled(ch, s)
    BY DEF TasksCounted
  <1>3. /\ IsFiniteSet(Waiting(tasks', ch, s))
        /\ v = IF Mine(x, ch, s) THEN w + 1 ELSE w
    BY <1>1, <1>2, WaitingAdd
  <1>4. w \in Nat /\ v \in Nat /\ sent[ch][s] \in Nat
    BY <1>2, <1>3, FS_CardinalityType, TasksFacts
  <1> HIDE DEF w, v, x
  <1>5. sent[ch][s] + v <= TimesScheduled(ch, s)'
    BY <1>1, <1>2, <1>3, <1>4
  <1> QED
    BY <1>1, <1>3, <1>5 DEF v

LEMMA CountedTask ==
  ASSUME TasksTypeOK, NEW t \in BagToSet(tasks), TasksCounted,
         TaskSends(t) \/ TaskAcknowledged(t) \/ TaskRetries(t) \/ TaskFails(t),
         UNCHANGED << emails, texts >>, emails \in [Slots -> Nat], texts \in [Slots -> Nat]
  PROVE  TasksCounted'
  <1> SUFFICES ASSUME NEW ch \in Channels, NEW s \in Slots
               PROVE  /\ IsFiniteSet(Waiting(tasks', ch, s))
                      /\ sent'[ch][s] + Cardinality(Waiting(tasks', ch, s)) <= TimesScheduled(ch, s)'
    BY DEF TasksCounted, Slots
  <1> DEFINE B == tasks (-) One(t)
             w == Cardinality(Waiting(tasks, ch, s))
             b == Cardinality(Waiting(B, ch, s))
             m == IF Mine(t, ch, s) THEN 1 ELSE 0
  <1>1. /\ IsABag(tasks) /\ DOMAIN tasks \subseteq Tasks /\ t \in DOMAIN tasks /\ t \in Tasks
        /\ sent \in [Channels -> [Slots -> Nat]]
    BY TasksFacts DEF BagToSet
  <1>2. /\ IsFiniteSet(Waiting(tasks, ch, s)) /\ sent[ch][s] + w <= TimesScheduled(ch, s)
        /\ TimesScheduled(ch, s)' = TimesScheduled(ch, s) /\ TimesScheduled(ch, s) \in Nat
    BY DEF TasksCounted, TimesScheduled
  <1>3. IsABag(B) /\ IsFiniteSet(Waiting(B, ch, s))
        /\ b = (IF Mine(t, ch, s) THEN w - 1 ELSE w)
    BY <1>1, <1>2, BagRemoveCounts, WaitingRemove
  <1>4. /\ IsABag(RanBag(t)) /\ IsFiniteSet(Waiting(RanBag(t), ch, s))
        /\ Cardinality(Waiting(RanBag(t), ch, s)) = b
    <2>1. Ran(t) \in Tasks /\ ~Mine(Ran(t), ch, s) /\ RanBag(t) = B (+) One(Ran(t))
      BY <1>1, TaskForms DEF RanBag
    <2> HIDE DEF B
    <2>2. IsABag(B (+) One(Ran(t)))
      BY <1>3, BagAddCounts
    <2>3. /\ IsFiniteSet(Waiting(B (+) One(Ran(t)), ch, s))
          /\ Cardinality(Waiting(B (+) One(Ran(t)), ch, s)) = Cardinality(Waiting(B, ch, s))
      BY <1>3, <2>1, WaitingAdd
    <2> QED
      BY <2>1, <2>2, <2>3
  <1>5. t.retries < MaxRetries =>
          /\ IsFiniteSet(Waiting(RanBag(t) (+) One(Retry(t)), ch, s))
          /\ Cardinality(Waiting(RanBag(t) (+) One(Retry(t)), ch, s))
               = (IF Mine(t, ch, s) THEN b + 1 ELSE b)
    BY <1>1, <1>4, TaskForms, WaitingAdd
  <1>6. w \in Nat /\ b \in Nat /\ sent[ch][s] \in Nat
    BY <1>1, <1>2, <1>3, FS_CardinalityType
  <1>7. \/ tasks' = B /\ sent' = sent
        \/ tasks' = RanBag(t) /\ sent' = [sent EXCEPT ![t.channel][t.about] = @ + 1] /\ t.stage = "queued"
        \/ tasks' = RanBag(t) (+) One(Retry(t)) /\ t.retries < MaxRetries /\ sent' = sent
    BY DEF TaskSends, TaskAcknowledged, TaskRetries, TaskFails
  <1>8. t.channel \in Channels /\ t.about \in Slots
    BY <1>1, TasksFacts DEF Tasks
  <1>9. sent' = [sent EXCEPT ![t.channel][t.about] = @ + 1] /\ t.stage = "queued" =>
          sent'[ch][s] = sent[ch][s] + m
    BY <1>1, <1>8 DEF Mine
  <1>10. b = w - m /\ m \in {0, 1}
    BY <1>3, <1>6
  <1> HIDE DEF B, b, w, m
  <1>11. CASE tasks' = B /\ sent' = sent
    <2>1. Cardinality(Waiting(tasks', ch, s)) = b /\ IsFiniteSet(Waiting(tasks', ch, s))
      BY <1>11, <1>3 DEF b
    <2> QED
      BY <2>1, <1>2, <1>6, <1>10, <1>11
  <1>12. CASE tasks' = RanBag(t) /\ sent' = [sent EXCEPT ![t.channel][t.about] = @ + 1] /\ t.stage = "queued"
    <2>1. Cardinality(Waiting(tasks', ch, s)) = b /\ IsFiniteSet(Waiting(tasks', ch, s))
      BY <1>12, <1>4
    <2>2. sent'[ch][s] = sent[ch][s] + m
      BY <1>9, <1>12
    <2> QED
      BY <2>1, <2>2, <1>2, <1>6, <1>10
  <1>13. CASE tasks' = RanBag(t) (+) One(Retry(t)) /\ t.retries < MaxRetries /\ sent' = sent
    <2>1. /\ IsFiniteSet(Waiting(tasks', ch, s))
          /\ Cardinality(Waiting(tasks', ch, s)) = (IF Mine(t, ch, s) THEN b + 1 ELSE b)
      BY <1>13, <1>5
    <2>2. Cardinality(Waiting(tasks', ch, s)) = b + m
      BY <2>1, <1>6 DEF m
    <2> QED
      BY <2>1, <2>2, <1>2, <1>6, <1>10, <1>13
  <1> QED
    BY <1>7, <1>11, <1>12, <1>13
-----------------------------------------------------------------------------
LEMMA InitPipeline == PipelineInit => PipelineInv
  <1> SUFFICES ASSUME PipelineInit PROVE PipelineInv
    OBVIOUS
  <1>1. SP!IInv
    BY SameInit, SameAssumptions, SP!InitIInv DEF PipelineInit
  <1>2. RepeatsInv
    BY InitRepeats DEF PipelineInit
  <1>3. Len(log) = Len(accepted)
    BY DEF PipelineInit, Shop!Init, Init, QueueInit
  <1>4. tasks = EmptyBag /\ DOMAIN tasks = {} /\ IsABag(tasks)
    BY DEF PipelineInit, TasksInit, EmptyBag, SetToBag, IsABag
  <1>5. TasksTypeOK
    BY <1>4, TasksAssumption DEF PipelineInit, TasksInit, TasksTypeOK, BagToSet
  <1>6. \A channel \in Channels : \A i \in Slots : sent[channel][i] = 0
    BY PipelineAssumption DEF PipelineInit, TasksInit
  <1>7. TasksOfOrders
    BY <1>4, <1>6 DEF TasksOfOrders
  <1>8. \A channel, i : Waiting(tasks, channel, i) = {}
    BY <1>4 DEF Waiting, CountIn
  <1>9. \A channel \in Channels : \A i \in Slots : TimesScheduled(channel, i) = 0
    BY DEF PipelineInit, Init, NotificationInit, TimesScheduled
  <1>10. TasksCounted
    BY <1>6, <1>8, <1>9, FS_EmptySet DEF TasksCounted
  <1> QED
    BY <1>1, <1>2, <1>3, <1>5, <1>7, <1>10 DEF PipelineInv, RepeatsInv

(* The parts' invariants, and the number of outages, in any step. *)
LEMMA PartsKept ==
  ASSUME PipelineInv, [PipelineNext]_pipelineVars
  PROVE  /\ SP!IInv' /\ IInv'
         /\ outages \in Nat /\ outages' \in Nat /\ outages' >= outages
         /\ BrokerRestarts => outages' > 0
         /\ outages' = 0 => OrdersOnly' /\ Budgets'
  <1>1. SP!IInv /\ IInv
    BY DEF PipelineInv
  <1>2. CASE BrokerRestarts
    <2>1. SP!IInv' /\ IInv'
      BY <1>1, <1>2, RestartKeepsShop, RestartKeepsConsumers
    <2>2. outages \in Nat /\ outages' = outages + 1
      BY <1>1, <1>2, SameAssumptions DEF BrokerRestarts, SP!IInv, SP!TypeOK, SP!BoundAssumption
    <2> QED
      BY <2>1, <2>2
  <1>3. CASE ~BrokerRestarts
    <2>1. [SP!Next]_(SP!vars) /\ [Next]_vars
      BY <1>3, ShopStep, ConsumersStep DEF pipelineVars, shopVars, SP!vars
    <2>2. SP!IInv'
      BY <1>1, <2>1, SameAssumptions, SP!NextIInv
    <2>3. IInv'
      BY <1>1, <2>1, NextConsumers
    <2>4. outages \in Nat /\ outages' \in Nat
      BY <1>1, <2>2, SameAssumptions DEF SP!IInv, SP!TypeOK, SP!BoundAssumption
    <2>5. outages' = outages \/ outages' = outages + 1
      BY <2>1 DEF SP!Next, SP!vars, SP!Handle, SP!Refuse, SP!Admit, SP!PaymentApproved,
         SP!PaymentDeclined, SP!InsertOrder, SP!InsertFails, SP!PublishEvent, SP!PublishFails,
         SP!CloseChannel, SP!BrokerAccepts, SP!DialSucceeds, SP!DialFails, SP!ConnectionLost,
         SP!BrokerStops, SP!BrokerStarts, SP!ServiceCrashes, SP!serviceVars
    <2>6. outages' = 0 => OrdersOnly' /\ Budgets'
      <3>1. outages' = 0 => RepeatsInv
        BY <2>4, <2>5 DEF PipelineInv, RepeatsInv
      <3> QED
        BY <2>1, <3>1, RepeatsInduction DEF RepeatsInv
    <2> QED
      BY <1>3, <2>2, <2>3, <2>4, <2>5, <2>6
  <1> QED
    BY <1>2, <1>3

(* Tasks and what they sent, in any step. *)
LEMMA TasksKept ==
  ASSUME PipelineInv, [PipelineNext]_pipelineVars
  PROVE  /\ TasksTypeOK' /\ TasksOfOrders'
         /\ redeliveries \in Nat /\ redeliveries' >= redeliveries
         /\ TasksCounted /\ redeliveries' = 0 /\ ~BrokerRestarts => TasksCounted'
  <1>1. /\ IInv /\ IInv' /\ TasksTypeOK /\ TasksOfOrders /\ Published \subseteq Published'
        /\ redeliveries \in Nat
    BY PartsKept, SameLength, TasksAssumption DEF PipelineInv, TasksTypeOK
  <1>2. emails \in [Slots -> Nat] /\ texts \in [Slots -> Nat]
    BY <1>1 DEF IInv, NotificationPart, NotificationTypeOK
  <1>3. ASSUME UNCHANGED taskVars,
               \A channel \in Channels : \A i \in Slots :
                 TimesScheduled(channel, i)' = TimesScheduled(channel, i)
        PROVE  TasksTypeOK' /\ TasksOfOrders' /\ redeliveries' = redeliveries
               /\ (TasksCounted => TasksCounted')
    BY <1>1, <1>3 DEF taskVars, TasksTypeOK, TasksOfOrders, TasksCounted, Slots
  <1>4. ASSUME UNCHANGED taskVars, UNCHANGED << emails, texts >>
        PROVE  TasksTypeOK' /\ TasksOfOrders' /\ redeliveries' = redeliveries
               /\ (TasksCounted => TasksCounted')
    BY <1>3, <1>4 DEF TimesScheduled
  <1>5. ASSUME NEW c \in NotificationConsumers, NotifierStep(c) \/ NotifierFault(c)
        PROVE  TasksTypeOK' /\ TasksOfOrders' /\ redeliveries' = redeliveries
               /\ (TasksCounted => TasksCounted')
    <2>1. Scheduling /\ (NotificationStep(c) \/ NotificationFault(c))
      BY <1>5 DEF NotifierStep, NotifierFault
    <2>2. \A channel \in Channels : \A i \in Slots :
            LET n == TimesScheduled(channel, i)
            IN  /\ n \in Nat /\ TimesScheduled(channel, i)' \in Nat
                /\ TimesScheduled(channel, i)' >= n
                /\ TimesScheduled(channel, i)' > n => i \in Published
      BY <1>1, <2>1, WorkerSchedules
    <2>3. CASE << emails, texts >>' = << emails, texts >> /\ UNCHANGED taskVars
      BY <1>4, <2>3
    <2>4. ASSUME NEW channel \in Channels, NEW i \in Slots, Delay(channel, i),
                 TimesScheduled(channel, i)' > TimesScheduled(channel, i)
          PROVE  TasksTypeOK' /\ TasksOfOrders' /\ redeliveries' = redeliveries
                 /\ (TasksCounted => TasksCounted')
      <3>1. /\ IsABag(tasks') /\ DOMAIN tasks' = DOMAIN tasks \cup {NewTask(channel, i)}
            /\ UNCHANGED << sent, failed, taskFaults, redeliveries >>
        BY <1>1, <2>4, TasksFacts, BagAddCounts DEF Delay
      <3>2. NewTask(channel, i) \in Tasks /\ NewTask(channel, i).about = i
        BY NewTaskType
      <3>3. i \in Published
        BY <2>2, <2>4
      <3>4. TasksTypeOK'
        BY <1>1, <3>1, <3>2 DEF TasksTypeOK, BagToSet
      <3>5. TasksOfOrders'
        BY <1>1, <3>1, <3>2, <3>3 DEF TasksOfOrders, Slots
      <3>6. TasksCounted => TasksCounted'
        BY <1>1, <2>2, <2>4, CountedDelay
      <3> QED
        BY <3>1, <3>4, <3>5, <3>6
    <2>5. /\ "email" \in Channels /\ "sms" \in Channels
          /\ \A i : /\ TimesScheduled("email", i) = emails[i] /\ TimesScheduled("email", i)' = emails'[i]
                    /\ TimesScheduled("sms", i) = texts[i] /\ TimesScheduled("sms", i)' = texts'[i]
      BY DEF Channels, TimesScheduled
    <2> QED
      BY <2>1, <2>3, <2>4, <2>5 DEF Scheduling
  <1>6. ASSUME NEW t \in BagToSet(tasks), UNCHANGED vars,
               TaskSends(t) \/ TaskAcknowledged(t) \/ TaskRetries(t) \/ TaskFails(t)
        PROVE  TasksTypeOK' /\ TasksOfOrders' /\ redeliveries' = redeliveries
               /\ (TasksCounted => TasksCounted')
    <2>1. UNCHANGED << emails, texts >>
      BY <1>6 DEF vars, notificationVars
    <2>2. /\ TasksTypeOK'
          /\ \A u \in DOMAIN tasks' : \E v \in DOMAIN tasks : u.about = v.about
      BY <1>1, <1>6, TaskKeeps
    <2>3. sent' = sent \/ sent' = [sent EXCEPT ![t.channel][t.about] = @ + 1]
      BY <1>6 DEF TaskSends, TaskAcknowledged, TaskRetries, TaskFails
    <2>4. t.about \in Published /\ sent \in [Channels -> [Slots -> Nat]]
      BY <1>1, TasksFacts DEF TasksOfOrders, BagToSet
    <2>5. \A channel \in Channels : \A i \in Slots : sent'[channel][i] > 0 => i \in Published'
      BY <1>1, <2>3, <2>4 DEF TasksOfOrders
    <2>6. TasksOfOrders'
      BY <1>1, <2>2, <2>5 DEF TasksOfOrders, Slots
    <2>7. redeliveries' = redeliveries
      BY <1>6 DEF TaskSends, TaskAcknowledged, TaskRetries, TaskFails
    <2>8. TasksCounted => TasksCounted'
      BY <1>1, <1>2, <1>6, <2>1, CountedTask
    <2> QED
      BY <2>2, <2>6, <2>7, <2>8
  <1>7. ASSUME tasks' = Redelivered, UNCHANGED << sent, failed, taskFaults >>,
               redeliveries' \in 0..MaxRedeliveries
        PROVE  TasksTypeOK' /\ TasksOfOrders'
    <2>1. /\ IsABag(tasks') /\ DOMAIN tasks' \subseteq Tasks
          /\ \A u \in DOMAIN tasks' : \E v \in DOMAIN tasks : u.about = v.about
      BY <1>1, <1>7, RedeliveredType
    <2> QED
      BY <1>1, <1>7, <2>1 DEF TasksTypeOK, TasksOfOrders, BagToSet, Slots
  <1>8. CASE BrokerRestarts
    <2>1. tasks' = Redelivered /\ UNCHANGED << sent, failed, taskFaults, redeliveries >>
      BY <1>8 DEF BrokerRestarts
    <2>2. redeliveries' \in 0..MaxRedeliveries
      BY <1>1, <2>1 DEF TasksTypeOK
    <2> QED
      BY <1>1, <1>7, <1>8, <2>1, <2>2
  <1>9. CASE CeleryFault /\ WorkerReconnects
    <2>1. /\ tasks' = Redelivered /\ UNCHANGED << sent, failed, taskFaults >>
          /\ redeliveries' = redeliveries + 1 /\ redeliveries < MaxRedeliveries
      BY <1>9 DEF WorkerReconnects
    <2>2. redeliveries' \in 0..MaxRedeliveries
      BY <1>1, <2>1, TasksAssumption
    <2>3. redeliveries' # 0 /\ redeliveries' >= redeliveries
      BY <1>1, <2>1
    <2> QED
      BY <1>1, <1>7, <2>1, <2>2, <2>3
  <1>10. CASE CeleryStep \/ (CeleryFault /\ ~WorkerReconnects)
    <2>1. /\ UNCHANGED vars
          /\ \E t \in BagToSet(tasks) :
               TaskSends(t) \/ TaskAcknowledged(t) \/ TaskRetries(t) \/ TaskFails(t)
      BY <1>10 DEF CeleryStep, CeleryFault, TaskStep, TaskFault
    <2> QED
      BY <1>1, <1>6, <2>1
  <1>11. CASE \/ Accept \/ Dial \/ ShopFault \/ SessionBreaks
              \/ (\E r \in Requests : Handle(r)) \/ (\E c \in RetrainingConsumers : TrainerStep(c))
              \/ UNCHANGED pipelineVars
    <2>1. UNCHANGED taskVars /\ UNCHANGED << emails, texts >>
      BY <1>11 DEF Accept, Produce, Dial, ShopFault, SessionBreaks, Handle, TrainerStep, pipelineVars,
         vars, notificationVars
    <2> QED
      BY <1>1, <1>4, <2>1
  <1> QED
    BY <1>1, <1>5, <1>8, <1>9, <1>10, <1>11 DEF PipelineNext, Fault

LEMMA NextPipeline == PipelineInv /\ [PipelineNext]_pipelineVars => PipelineInv'
  <1> SUFFICES ASSUME PipelineInv, [PipelineNext]_pipelineVars PROVE PipelineInv'
    OBVIOUS
  <1>1. /\ SP!IInv' /\ IInv'
        /\ outages \in Nat /\ outages' \in Nat /\ outages' >= outages
        /\ BrokerRestarts => outages' > 0
        /\ outages' = 0 => OrdersOnly' /\ Budgets'
    BY PartsKept
  <1>2. /\ TasksTypeOK' /\ TasksOfOrders'
        /\ redeliveries \in Nat /\ redeliveries' >= redeliveries
        /\ TasksCounted /\ redeliveries' = 0 /\ ~BrokerRestarts => TasksCounted'
    BY TasksKept
  <1>3. Len(log)' = Len(accepted)'
    BY SameLength DEF PipelineInv
  <1>4. redeliveries' \in Nat
    BY <1>2, TasksAssumption DEF TasksTypeOK
  <1>5. ASSUME outages' + redeliveries' = 0 PROVE TasksCounted'
    <2>0. /\ outages \in Nat /\ outages' \in Nat /\ outages' >= outages
          /\ redeliveries \in Nat /\ redeliveries' \in Nat /\ redeliveries' >= redeliveries
          /\ outages' + redeliveries' = 0
      BY <1>1, <1>2, <1>4, <1>5
    <2>1. outages' = 0 /\ redeliveries' = 0 /\ outages = 0 /\ redeliveries = 0
      <3>1. \A a, b, c, d \in Nat : a + b = 0 /\ a >= c /\ b >= d => a = 0 /\ b = 0 /\ c = 0 /\ d = 0
        OBVIOUS
      <3> QED
        BY <2>0, <3>1
    <2>3. ~BrokerRestarts
      BY <1>1, <2>1
    <2>2. TasksCounted
      BY <2>1 DEF PipelineInv
    <2> QED
      BY <1>2, <2>1, <2>2, <2>3
  <1> QED
    BY <1>1, <1>2, <1>3, <1>5 DEF PipelineInv

(* The parts keep their invariants when they run together, each message of the
   queue is an event order-service published, each task is about one of them,
   and what was scheduled covers what was sent and what waits. *)
THEOREM PipelineInvariant == PipelineSpec => []PipelineInv
  BY InitPipeline, NextPipeline, PTL DEF PipelineSpec

(* Every variable of every part has its type, and the queue holds as many
   messages as the broker accepted events. *)
THEOREM PipelineTypeCorrect == PipelineSpec => []PipelineTypeOK
  <1>1. PipelineInv => PipelineTypeOK
    <2> SUFFICES ASSUME PipelineInv PROVE PipelineTypeOK
      OBVIOUS
    <2>1. Shop!TypeOK
      BY SameType DEF PipelineInv, SP!IInv
    <2>2. TypeOK
      BY DEF PipelineInv, IInv, QueueInv, NotificationPart, RetrainingPart, TypeOK
    <2> QED
      BY <2>1, <2>2 DEF PipelineInv, PipelineTypeOK
  <1> QED
    BY <1>1, PipelineInvariant, PTL

(* Customers are only mailed and texted about orders that are stored and paid
   for, never more often than notification-worker scheduled it, nor more often
   than faults explain, for any number of orders, workers, retries and faults
   but losses of the Celery worker's connection and of RabbitMQ. *)
THEOREM NotificationsDue == PipelineSpec => []NotificationsAreDue
  <1>1. PipelineInv => NotificationsAreDue
    <2> SUFFICES ASSUME PipelineInv, NEW channel \in Channels, NEW i \in Slots, sent[channel][i] > 0
                 PROVE  /\ \E id \in OrderIds :
                             /\ i \in DOMAIN accepted /\ accepted[i] = Shop!Event(orders[id])
                             /\ orders[id].by \in charged
                        /\ redeliveries + outages = 0 =>
                             /\ sent[channel][i] <= TimesScheduled(channel, i)
                             /\ sent[channel][i] <= 1 + nFaults + losses
      BY DEF NotificationsAreDue
    <2>1. /\ SP!IInv /\ IInv /\ TasksTypeOK /\ Len(log) = Len(accepted) /\ i \in Published
      BY DEF PipelineInv, TasksOfOrders
    <2>2. i \in DOMAIN accepted
      <3>1. accepted \in Seq(SP!Events)
        BY <2>1 DEF SP!IInv, SP!TypeOK
      <3> QED
        BY <2>1, <3>1 DEF Published
    <2>3. /\ accepted[i].order_id \in OrderIds
          /\ LET o == orders[accepted[i].order_id] IN
             o # SP!NoOrder /\ accepted[i] = SP!Event(o) /\ o.by \in charged
      <3>1. SP!TypeOK /\ SP!EventInv /\ SP!StoreInv
        BY <2>1 DEF SP!IInv
      <3>2. accepted[i].order_id \in OrderIds
        BY <2>2, <3>1, SameAssumptions, SP!EventOrder
      <3> QED
        BY <2>2, <3>1, <3>2 DEF SP!EventInv, SP!StoreInv
    <2>4. ASSUME redeliveries + outages = 0
          PROVE  /\ sent[channel][i] <= TimesScheduled(channel, i)
                 /\ sent[channel][i] <= 1 + nFaults + losses
      <3>1. redeliveries \in Nat /\ outages \in Nat
        BY <2>1, SameAssumptions, TasksAssumption
        DEF TasksTypeOK, SP!IInv, SP!TypeOK, SP!BoundAssumption
      <3>2. TasksCounted /\ RepeatsNeedFaults
        BY <2>4, <3>1, <2>1, RepeatsState DEF PipelineInv, RepeatsInv
      <3>3. /\ IsFiniteSet(Waiting(tasks, channel, i))
            /\ sent[channel][i] + Cardinality(Waiting(tasks, channel, i)) <= TimesScheduled(channel, i)
        BY <3>2 DEF TasksCounted
      <3>4. Cardinality(Waiting(tasks, channel, i)) \in Nat
        BY <3>3, FS_CardinalityType
      <3>5. sent[channel][i] \in Nat
        BY <2>1, TasksFacts
      <3>6. emails[i] \in Nat /\ texts[i] \in Nat /\ nFaults \in Nat /\ losses \in Nat
        BY <2>1, NotificationAssumption, QueueBoundAssumption
        DEF IInv, NotificationPart, NotificationTypeOK, QueueInv, QueueTypeOK
      <3>7. TimesScheduled(channel, i) \in Nat /\ TimesScheduled(channel, i) <= 1 + nFaults + losses
        BY <3>2, <3>6 DEF TimesScheduled, RepeatsNeedFaults
      <3> QED
        BY <3>3, <3>4, <3>5, <3>6, <3>7
    <2> QED
      BY <2>2, <2>3, <2>4, SameData
  <1> QED
    BY <1>1, PipelineInvariant, PTL
=============================================================================
