------------------------ MODULE OrderConsumersProofs ------------------------
(***************************************************************************)
(* Proofs about the two workers on their queue, for any number of workers, *)
(* any messages, any TrainInterval and any number of faults.               *)
(***************************************************************************)
EXTENDS OrderConsumers, FiniteSetTheorems, TLAPS

QueueInv == QueueTypeOK /\ QueueConsistent

LEMMA AckedSlotsDef == \A i : i \in AckedSlots <=> \E c \in Consumers : i \in acked[c]
  BY DEF AckedSlots

LEMMA QueueInitInv == QueueInit => QueueInv
  BY QueueBoundAssumption
  DEF QueueInit, QueueInv, QueueTypeOK, QueueConsistent, NothingIsLost, NothingIsTwice,
      SessionsAreApart, Published, NoSlot, Gone, AckedSlots

LEMMA EnqueueInv ==
  ASSUME QueueInv, NEW m \in Messages, Enqueue(m)
  PROVE  QueueInv'
  <1>1. /\ log' \in Seq(Messages) /\ Len(log') = Len(log) + 1
        /\ Len(log) \in Nat /\ Len(log) < MaxPublished
    BY DEF QueueInv, QueueTypeOK, Enqueue
  <1>2. Published' = Published \cup {Len(log) + 1} /\ Len(log) + 1 \notin Published
    BY <1>1 DEF Published
  <1>3. QueueTypeOK'
    BY <1>1, <1>2, QueueBoundAssumption DEF QueueInv, QueueTypeOK, Enqueue
  <1>4. QueueConsistent'
    BY <1>1, <1>2
    DEF QueueInv, QueueTypeOK, QueueConsistent, NothingIsLost, NothingIsTwice, SessionsAreApart,
        Enqueue, Gone, AckedSlots, NoSlot
  <1> QED
    BY <1>3, <1>4 DEF QueueInv

LEMMA DeliverInv ==
  ASSUME QueueInv, NEW c \in Consumers, NEW i, Deliver(c, i)
  PROVE  QueueInv'
  <1>g. AckedSlots' = AckedSlots /\ Published' = Published
    BY DEF Deliver, AckedSlots, Published
  <1>h. i \in Published /\ NoSlot \notin Published /\ i \in ready
    BY DEF Deliver, IsHead, QueueInv, QueueTypeOK, Published, NoSlot
  <1>1. QueueTypeOK'
    BY <1>g, <1>h
    DEF QueueInv, QueueConsistent, QueueTypeOK, NothingIsLost, NothingIsTwice, SessionsAreApart,
        Deliver, Gone
  <1>2. NothingIsLost'
    BY <1>g, <1>h
    DEF QueueInv, QueueConsistent, QueueTypeOK, NothingIsLost, NothingIsTwice, SessionsAreApart,
        Deliver, Gone
  <1>3. NothingIsTwice'
    BY <1>g, <1>h
    DEF QueueInv, QueueConsistent, QueueTypeOK, NothingIsLost, NothingIsTwice, SessionsAreApart,
        Deliver, Gone
  <1>4. SessionsAreApart'
    BY <1>g, <1>h
    DEF QueueInv, QueueConsistent, QueueTypeOK, NothingIsLost, NothingIsTwice, SessionsAreApart,
        Deliver, Gone
  <1> QED
    BY <1>1, <1>2, <1>3, <1>4 DEF QueueInv, QueueConsistent

LEMMA AckInv ==
  ASSUME QueueInv, NEW c \in Consumers, held[c] # NoSlot, Ack(c)
  PROVE  QueueInv'
  <1>1. AckedSlots' = AckedSlots \cup {held[c]}
    BY DEF QueueInv, QueueTypeOK, Ack, AckedSlots
  <1> QED
    BY <1>1, AckedSlotsDef
    DEF QueueInv, QueueTypeOK, QueueConsistent, NothingIsLost, NothingIsTwice, SessionsAreApart,
        Ack, Gone, NoSlot, Published

LEMMA ReleaseInv ==
  ASSUME QueueInv, NEW c \in Consumers, Release(c),
         \/ session' = session \/ session' = [session EXCEPT ![c] = "closed"],
         UNCHANGED << log, aged, acked, expired >>, losses' \in 0..MaxSessionLosses
  PROVE  QueueInv'
  <1>g. /\ AckedSlots' = AckedSlots /\ Published' = Published /\ Gone' = Gone
        /\ NoSlot \notin Published
    BY DEF AckedSlots, Published, NoSlot, Gone
  <1>1. QueueTypeOK'
    BY <1>g
    DEF QueueInv, QueueConsistent, QueueTypeOK, NothingIsLost, NothingIsTwice, SessionsAreApart,
        Release
  <1>2. NothingIsLost'
    BY <1>g
    DEF QueueInv, QueueConsistent, QueueTypeOK, NothingIsLost, NothingIsTwice, SessionsAreApart,
        Release
  <1>3. NothingIsTwice'
    BY <1>g
    DEF QueueInv, QueueConsistent, QueueTypeOK, NothingIsLost, NothingIsTwice, SessionsAreApart,
        Release
  <1>4. SessionsAreApart'
    <2> SUFFICES ASSUME NEW a \in Consumers
                 PROVE  /\ held'[a] \notin ready' \cup Gone
                        /\ session'[a] = "closed" => held'[a] = NoSlot
                        /\ \A d \in Consumers : a # d =>
                             /\ held'[a] = held'[d] => held'[a] = NoSlot
                             /\ acked[a] \cap acked[d] = {}
      BY <1>g DEF SessionsAreApart
    <2>1. /\ held'[c] = NoSlot /\ \A d \in Consumers \ {c} : held'[d] = held[d]
          /\ ready' = ready \cup ({held[c]} \ {NoSlot})
      BY DEF Release, QueueInv, QueueTypeOK
    <2>2. NoSlot \notin ready' \cup Gone
      BY <1>g, <2>1 DEF QueueInv, QueueTypeOK, Gone, AckedSlots
    <2>3. session'[a] = "closed" => a = c \/ session[a] = "closed"
      BY DEF QueueInv, QueueTypeOK
    <2> QED
      BY <2>1, <2>2, <2>3 DEF QueueInv, QueueConsistent, SessionsAreApart
  <1> QED
    BY <1>1, <1>2, <1>3, <1>4 DEF QueueInv, QueueConsistent

LEMMA OpenInv ==
  ASSUME QueueInv, NEW c \in Consumers, OpenSession(c)
  PROVE  QueueInv'
  BY
  DEF QueueInv, QueueTypeOK, QueueConsistent, NothingIsLost, NothingIsTwice, SessionsAreApart,
      OpenSession, Gone, AckedSlots, NoSlot, Published

LEMMA LoseInv ==
  ASSUME QueueInv, NEW c \in Consumers, LoseSession(c)
  PROVE  QueueInv'
  <1>1. losses' \in 0..MaxSessionLosses
    BY QueueBoundAssumption DEF LoseSession, QueueInv, QueueTypeOK
  <1> QED
    BY <1>1, ReleaseInv DEF LoseSession

LEMMA AgeInv ==
  ASSUME QueueInv, NEW i, Age(i) \/ Expire(i)
  PROVE  QueueInv'
  <1>g. AckedSlots' = AckedSlots /\ Published' = Published
    BY DEF Age, Expire, AckedSlots, Published
  <1>1. QueueTypeOK'
    BY <1>g
    DEF QueueInv, QueueConsistent, QueueTypeOK, NothingIsLost, NothingIsTwice, SessionsAreApart,
        Age, Expire, IsHead, Gone
  <1>2. NothingIsLost'
    BY <1>g
    DEF QueueInv, QueueConsistent, QueueTypeOK, NothingIsLost, NothingIsTwice, SessionsAreApart,
        Age, Expire, IsHead, Gone
  <1>3. NothingIsTwice'
    BY <1>g
    DEF QueueInv, QueueConsistent, QueueTypeOK, NothingIsLost, NothingIsTwice, SessionsAreApart,
        Age, Expire, IsHead, Gone
  <1>4. SessionsAreApart'
    BY <1>g
    DEF QueueInv, QueueConsistent, QueueTypeOK, NothingIsLost, NothingIsTwice, SessionsAreApart,
        Age, Expire, IsHead, Gone
  <1> QED
    BY <1>1, <1>2, <1>3, <1>4 DEF QueueInv, QueueConsistent

LEMMA RequeueInv ==
  ASSUME QueueInv, NEW c \in Consumers, Requeue(c) \/ CloseSession(c)
  PROVE  QueueInv'
  BY ReleaseInv DEF Requeue, CloseSession, QueueInv, QueueTypeOK
-----------------------------------------------------------------------------
(* The workers' own invariants. A handler's job is what its session holds for
   as long as the session lasts, and is not acknowledged before it is dealt
   with; the count of a retraining worker covers all it has yet to train on. *)
Handling == {"parsing", "judging", "emailing", "texting", "training", "acking", "nacking"}

NotificationOK(c) ==
    /\ nStage[c] \in Handling <=> nJob[c] # NoSlot
    /\ session[c] = "open" => held[c] = nJob[c]
    /\ nStage[c] = "connecting" => session[c] = "closed"
    /\ nStage[c] = "texting" => emails[nJob[c]] > 0
    /\ nStage[c] = "acking" =>
         \/ emails[nJob[c]] > 0 /\ texts[nJob[c]] > 0
         \/ Kind[log[nJob[c]]] = "not_json"
    /\ \A i \in acked[c] :
         \/ emails[i] > 0 /\ texts[i] > 0
         \/ Kind[log[i]] = "not_json"

RetrainingOK(c) ==
    /\ rStage[c] \in Handling <=> rJob[c] # NoSlot
    /\ session[c] = "open" => held[c] = rJob[c]
    /\ rStage[c] \in {"booting", "connecting"} => session[c] = "closed"
    /\ rJob[c] \notin acked[c]
    /\ IsFiniteSet(untrained[c]) /\ Cardinality(untrained[c]) <= orderCount[c]
    /\ \A i \in untrained[c] : Kind[log[i]] \notin {"other_event", "incomplete"}
    /\ rStage[c] = "training" => rJob[c] \in counted
    /\ rStage[c] = "acking" =>
         /\ rJob[c] \in counted \/ Kind[log[rJob[c]]] \in {"other_event", "incomplete"}
         /\ rJob[c] \in untrained[c] => orderCount[c] < TrainInterval
    /\ \A i \in acked[c] :
         i \in counted \/ Kind[log[i]] \in {"other_event", "incomplete"}
    /\ Cardinality(untrained[c] \cap acked[c]) < TrainInterval

NotificationPart ==
    NotificationTypeOK /\ \A c \in NotificationConsumers : NotificationOK(c)
RetrainingPart ==
    RetrainingTypeOK /\ \A c \in RetrainingConsumers : RetrainingOK(c)

IInv == QueueInv /\ NotificationPart /\ RetrainingPart

(* What is in the log stays there. *)
LogStays == /\ Published \subseteq Published'
            /\ \A i \in Published : log'[i] = log[i]

(* A consumer to which the queue does nothing, or at most breaks its session. *)
Aside(c) == /\ acked'[c] = acked[c]
            /\ \/ session'[c] = session[c] /\ held'[c] = held[c]
               \/ session'[c] = "closed"

QueueStays == QueueInv' /\ LogStays

LEMMA InitConsumers == Init => IInv
  <1> SUFFICES ASSUME Init PROVE IInv
    OBVIOUS
  <1>1. QueueInv
    BY QueueInitInv DEF Init
  <1>2. NotificationPart
    BY NotificationAssumption
    DEF Init, QueueInit, NotificationInit, NotificationPart, NotificationTypeOK, NotificationOK,
        NotificationStages, Handling, NoSlot
  <1>3. RetrainingPart
    BY RetrainingAssumption, FS_EmptySet
    DEF Init, QueueInit, RetrainingInit, RetrainingPart, RetrainingTypeOK, RetrainingOK,
        RetrainingStages, Handling, NoSlot
  <1> QED
    BY <1>1, <1>2, <1>3 DEF IInv

(* A step that leaves the queue alone. *)
LEMMA QueueUntouched ==
  ASSUME QueueInv, UNCHANGED queueVars
  PROVE  QueueStays /\ \A d \in Consumers : Aside(d)
  BY DEF queueVars, QueueInv, QueueTypeOK, QueueConsistent, NothingIsLost, NothingIsTwice,
     SessionsAreApart, Gone, AckedSlots, Published, QueueStays, LogStays, Aside

(* The queue's operators as the consumers they are not for see them. *)
LEMMA QueueAside ==
  ASSUME QueueInv, NEW c \in Consumers,
         \/ \E i : Deliver(c, i)
         \/ Ack(c) \/ Requeue(c) \/ OpenSession(c) \/ CloseSession(c)
  PROVE  LogStays /\ \A d \in Consumers \ {c} : Aside(d)
  BY DEF QueueInv, QueueTypeOK, LogStays, Aside, Published, Deliver, Ack, Requeue, OpenSession,
     CloseSession, Release
-----------------------------------------------------------------------------
(* What the step of one notification worker leaves to the others. *)
LEMMA NotificationOthers ==
  ASSUME IInv, LogStays, NEW C \in SUBSET NotificationConsumers,
         \A d \in C : Aside(d) /\ nStage'[d] = nStage[d] /\ nJob'[d] = nJob[d],
         \A i \in Slots : emails'[i] >= emails[i] /\ texts'[i] >= texts[i],
         emails' \in [Slots -> Nat], texts' \in [Slots -> Nat]
  PROVE  \A d \in C : NotificationOK(d)'
  <1> SUFFICES ASSUME NEW d \in C PROVE NotificationOK(d)'
    OBVIOUS
  <1>1. NotificationOK(d) /\ Aside(d) /\ nStage'[d] = nStage[d] /\ nJob'[d] = nJob[d]
    BY DEF IInv, NotificationPart
  <1>2. acked[d] \subseteq Published /\ nJob[d] \in Published \cup {NoSlot} /\ Published \subseteq Slots
    BY NotificationAssumption, QueueBoundAssumption
    DEF IInv, QueueInv, QueueTypeOK, NotificationPart, NotificationTypeOK, Published, Slots
  <1>3. \A i \in Published : /\ emails[i] > 0 => emails'[i] > 0
                             /\ texts[i] > 0 => texts'[i] > 0
                             /\ log'[i] = log[i]
    BY <1>2 DEF IInv, NotificationPart, NotificationTypeOK, LogStays
  <1>4. \A i \in acked'[d] :
          \/ emails'[i] > 0 /\ texts'[i] > 0
          \/ Kind[log'[i]] = "not_json"
    BY <1>1, <1>2, <1>3 DEF NotificationOK, Aside
  <1>5. nStage[d] \in {"texting", "acking"} => nJob[d] \in Published
    BY <1>1, <1>2 DEF NotificationOK, Handling
  <1>6. nStage[d] = "texting" => emails'[nJob[d]] > 0
    BY <1>1, <1>3, <1>5 DEF NotificationOK
  <1>7. nStage[d] = "acking" =>
          \/ emails'[nJob[d]] > 0 /\ texts'[nJob[d]] > 0
          \/ Kind[log'[nJob[d]]] = "not_json"
    BY <1>1, <1>3, <1>5 DEF NotificationOK
  <1>8. session'[d] = "open" => held'[d] = nJob[d]
    BY <1>1 DEF NotificationOK, Aside
  <1>9. nStage[d] = "connecting" => session'[d] = "closed"
    BY <1>1 DEF NotificationOK, Aside
  <1> QED
    BY <1>1, <1>4, <1>6, <1>7, <1>8, <1>9 DEF NotificationOK

LEMMA NotificationFrame ==
  ASSUME IInv, LogStays, UNCHANGED notificationVars, \A d \in NotificationConsumers : Aside(d)
  PROVE  NotificationPart'
  <1>1. NotificationTypeOK'
    BY DEF IInv, NotificationPart, NotificationTypeOK, LogStays, notificationVars
  <1>2. \A i \in Slots : emails[i] \in Nat /\ texts[i] \in Nat
    BY DEF IInv, NotificationPart, NotificationTypeOK
  <1>3. \A d \in NotificationConsumers : NotificationOK(d)'
    BY <1>1, <1>2, NotificationOthers DEF notificationVars, NotificationTypeOK
  <1> QED
    BY <1>1, <1>3 DEF NotificationPart

LEMMA NotificationKeeps ==
  ASSUME IInv, NEW c \in NotificationConsumers, NotificationStep(c) \/ NotificationFault(c)
  PROVE  QueueStays /\ NotificationPart' /\ \A d \in Consumers \ {c} : Aside(d)
  <1> DEFINE j == nJob[c]
  <1>c. c \in Consumers /\ NotificationConsumers \subseteq Consumers
    BY NotificationAssumption
  <1>k. NotificationTypeOK /\ NotificationOK(c) /\ QueueTypeOK
    BY DEF IInv, NotificationPart, QueueInv
  <1>l. Published \subseteq Slots /\ NoSlot \notin Published
    BY <1>k, QueueBoundAssumption DEF QueueTypeOK, Published, Slots, NoSlot
  <1>m. j # NoSlot => j \in Published
    BY <1>k DEF NotificationTypeOK
  <1>n. nStage \in [NotificationConsumers -> NotificationStages]
    BY <1>k DEF NotificationTypeOK
  <1>t. /\ NotificationTypeOK /\ NotificationOK(c) /\ QueueTypeOK
        /\ j # NoSlot => j \in Published
        /\ Published \subseteq Slots /\ NoSlot \notin Published
        /\ nStage \in [NotificationConsumers -> NotificationStages]
    BY <1>k, <1>l, <1>m, <1>n
  <1>h. nStage[c] \in Handling => j \in Published /\ j \in Slots
    BY <1>t DEF NotificationOK
  <1>q. QueueStays /\ \A d \in Consumers \ {c} : Aside(d)
    <2>0. QueueInv
      BY DEF IInv
    <2>1. CASE NotificationConnects(c)
      BY <1>c, <2>0, <2>1, OpenInv, QueueAside DEF NotificationConnects, QueueStays
    <2>2. CASE NotificationReceives(c)
      BY <1>c, <2>0, <2>2, DeliverInv, QueueAside DEF NotificationReceives, QueueStays
    <2>3. CASE NotificationAcks(c)
      <3>1. held[c] # NoSlot
        BY <1>t, <1>h, <2>3 DEF NotificationAcks, Ack, NotificationOK, Handling
      <3> QED
        BY <1>c, <2>0, <2>3, <3>1, AckInv, QueueAside DEF NotificationAcks, QueueStays
    <2>4. CASE NotificationNacks(c)
      BY <1>c, <2>0, <2>4, RequeueInv, QueueAside DEF NotificationNacks, QueueStays
    <2>5. CASE NotificationCrashes(c)
      BY <1>c, <2>0, <2>5, RequeueInv, QueueAside DEF NotificationCrashes, QueueStays
    <2>6. CASE \/ ParseEvent(c) \/ ScheduleEmail(c) \/ ScheduleText(c) \/ ScheduleFails(c)
               \/ NotificationReconnects(c)
      BY <2>0, <2>6, QueueUntouched
      DEF ParseEvent, ScheduleEmail, ScheduleText, ScheduleFails, NotificationReconnects
    <2> QED
      BY <2>1, <2>2, <2>3, <2>4, <2>5, <2>6 DEF NotificationStep, NotificationFault
  <1>g. LogStays
    BY <1>q DEF QueueStays
  <1>f. /\ emails' \in [Slots -> Nat] /\ texts' \in [Slots -> Nat]
        /\ \A i \in Slots : emails'[i] >= emails[i] /\ texts'[i] >= texts[i]
    <2>0. /\ emails \in [Slots -> Nat] /\ texts \in [Slots -> Nat]
          /\ \A i \in Slots : emails[i] \in Nat /\ texts[i] \in Nat
      BY <1>t DEF NotificationTypeOK
    <2>1. \/ emails' = emails
          \/ j \in Slots /\ emails' = [emails EXCEPT ![j] = @ + 1]
      BY <1>h DEF NotificationStep, NotificationFault, NotificationConnects, NotificationReceives,
         ParseEvent, ScheduleEmail, ScheduleText, ScheduleFails, NotificationAcks,
         NotificationNacks, NotificationReconnects, NotificationCrashes, Handling
    <2>2. \/ texts' = texts
          \/ j \in Slots /\ texts' = [texts EXCEPT ![j] = @ + 1]
      BY <1>h DEF NotificationStep, NotificationFault, NotificationConnects, NotificationReceives,
         ParseEvent, ScheduleEmail, ScheduleText, ScheduleFails, NotificationAcks,
         NotificationNacks, NotificationReconnects, NotificationCrashes, Handling
    <2>3. emails' \in [Slots -> Nat] /\ \A i \in Slots : emails'[i] >= emails[i]
      BY <2>0, <2>1
    <2>4. texts' \in [Slots -> Nat] /\ \A i \in Slots : texts'[i] >= texts[i]
      BY <2>0, <2>2
    <2> QED
      BY <2>3, <2>4
  <1>s. /\ \E s \in NotificationStages : nStage' = [nStage EXCEPT ![c] = s]
        /\ nFaults' \in 0..MaxNotificationFaults
    BY <1>t, NotificationAssumption
    DEF NotificationStep, NotificationFault, NotificationConnects, NotificationReceives,
        ParseEvent, ParsedStage, ScheduleEmail, ScheduleText, ScheduleFails, NotificationAcks,
        NotificationNacks, NotificationReconnects, NotificationCrashes, GoTo,
        NotificationTypeOK, NotificationStages
  <1>i. \E i \in Published \cup {NoSlot} : nJob' = [nJob EXCEPT ![c] = i]
    <2>1. nJob \in [NotificationConsumers -> Published \cup {NoSlot}] /\ ready \subseteq Published
      BY <1>t DEF NotificationTypeOK, QueueTypeOK
    <2>2. nJob = [nJob EXCEPT ![c] = j] /\ j \in Published \cup {NoSlot}
      BY <2>1
    <2> QED
      BY <2>1, <2>2
      DEF NotificationStep, NotificationFault, NotificationConnects, NotificationReceives,
          ParseEvent, ScheduleEmail, ScheduleText, ScheduleFails, NotificationAcks,
          NotificationNacks, NotificationReconnects, NotificationCrashes
  <1>1. NotificationTypeOK'
    BY <1>t, <1>g, <1>f, <1>s, <1>i DEF NotificationTypeOK, LogStays
  <1>2. \A d \in NotificationConsumers \ {c} : NotificationOK(d)'
    <2>1. \A d \in NotificationConsumers \ {c} :
            Aside(d) /\ nStage'[d] = nStage[d] /\ nJob'[d] = nJob[d]
      BY <1>c, <1>q, <1>s, <1>i, <1>t DEF NotificationTypeOK
    <2> QED
      BY <2>1, <1>g, <1>f, NotificationOthers
  <1>3. NotificationOK(c)'
    <2>0. \A i \in acked[c] : \/ emails'[i] > 0 /\ texts'[i] > 0
                              \/ Kind[log'[i]] = "not_json"
      <3> SUFFICES ASSUME NEW i \in acked[c]
                   PROVE  (emails'[i] > 0 /\ texts'[i] > 0) \/ Kind[log'[i]] = "not_json"
        OBVIOUS
      <3>1. i \in Published /\ i \in Slots /\ log'[i] = log[i]
        BY <1>t, <1>c, <1>g DEF QueueTypeOK, LogStays
      <3>2. (emails[i] > 0 /\ texts[i] > 0) \/ Kind[log[i]] = "not_json"
        BY <1>t DEF NotificationOK
      <3>3. emails[i] \in Nat /\ texts[i] \in Nat
        BY <3>1, <1>t DEF NotificationTypeOK
      <3> QED
        BY <3>1, <3>2, <3>3, <1>f
    <2>h. nStage[c] \in Handling /\ UNCHANGED queueVars => log'[j] = log[j]
      BY DEF queueVars
    <2>1. CASE NotificationConnects(c)
      <3>1. /\ nStage'[c] = "consuming" /\ nJob'[c] = NoSlot
            /\ held'[c] = NoSlot /\ acked'[c] = acked[c]
        BY <2>1, <1>t, <1>c
        DEF NotificationConnects, GoTo, NotificationTypeOK, NotificationOK, OpenSession,
            Handling, IInv, QueueInv, QueueConsistent, SessionsAreApart
      <3> QED
        BY <3>1, <2>0 DEF NotificationOK, Handling
    <2>2. CASE NotificationReceives(c)
      <3>1. /\ nStage'[c] = "parsing" /\ nJob'[c] # NoSlot
            /\ held'[c] = nJob'[c] /\ acked'[c] = acked[c]
        BY <2>2, <1>t, <1>c
        DEF NotificationReceives, GoTo, NotificationTypeOK, Deliver, QueueTypeOK
      <3> QED
        BY <3>1, <2>0 DEF NotificationOK, Handling
    <2>3. CASE ParseEvent(c)
      <3>1. /\ nStage'[c] \in {"emailing", "acking", "nacking"} /\ nJob'[c] = j /\ j # NoSlot
            /\ nStage'[c] = "acking" => Kind[log'[j]] = "not_json"
            /\ held' = held /\ acked' = acked /\ session' = session
        BY <2>3, <1>t
        DEF ParseEvent, ParsedStage, Body, GoTo, NotificationTypeOK, NotificationOK, Handling,
            queueVars
      <3> QED
        BY <3>1, <2>0, <1>t DEF NotificationOK, Handling
    <2>4. CASE ScheduleEmail(c)
      <3>1. /\ nStage'[c] = "texting" /\ nJob'[c] = j /\ j # NoSlot /\ emails'[j] > 0
            /\ held' = held /\ acked' = acked /\ session' = session
        BY <2>4, <1>t, <1>h
        DEF ScheduleEmail, GoTo, NotificationTypeOK, NotificationOK, Handling, queueVars
      <3> QED
        BY <3>1, <2>0, <1>t DEF NotificationOK, Handling
    <2>5. CASE ScheduleText(c)
      <3>1. /\ nStage'[c] = "acking" /\ nJob'[c] = j /\ j # NoSlot
            /\ emails'[j] > 0 /\ texts'[j] > 0
            /\ held' = held /\ acked' = acked /\ session' = session
        BY <2>5, <1>t, <1>h
        DEF ScheduleText, GoTo, NotificationTypeOK, NotificationOK, Handling, queueVars
      <3> QED
        BY <3>1, <2>0, <1>t DEF NotificationOK, Handling
    <2>6. CASE ScheduleFails(c)
      <3>1. /\ nStage'[c] = "nacking" /\ nJob'[c] = j /\ j # NoSlot
            /\ held' = held /\ acked' = acked /\ session' = session
        BY <2>6, <1>t, <1>h
        DEF ScheduleFails, GoTo, NotificationTypeOK, NotificationOK, Handling, queueVars
      <3> QED
        BY <3>1, <2>0, <1>t DEF NotificationOK, Handling
    <2>7. CASE NotificationAcks(c)
      <3>1. /\ nStage'[c] = "consuming" /\ nJob'[c] = NoSlot /\ held'[c] = NoSlot
            /\ session' = session /\ acked'[c] = acked[c] \cup {j}
            /\ log' = log /\ emails' = emails /\ texts' = texts
        BY <2>7, <1>t, <1>c
        DEF NotificationAcks, Ack, GoTo, NotificationTypeOK, NotificationOK, QueueTypeOK
      <3>2. (emails[j] > 0 /\ texts[j] > 0) \/ Kind[log[j]] = "not_json"
        BY <2>7, <1>t DEF NotificationAcks, NotificationOK
      <3> QED
        BY <3>1, <3>2, <2>0 DEF NotificationOK, Handling
    <2>8. CASE NotificationNacks(c)
      <3>1. /\ nStage'[c] = "consuming" /\ nJob'[c] = NoSlot /\ held'[c] = NoSlot
            /\ acked' = acked
        BY <2>8, <1>t, <1>c
        DEF NotificationNacks, Requeue, Release, GoTo, NotificationTypeOK, QueueTypeOK
      <3> QED
        BY <3>1, <2>0 DEF NotificationOK, Handling
    <2>9. CASE NotificationReconnects(c) \/ NotificationCrashes(c)
      <3>1. /\ nStage'[c] = "connecting" /\ nJob'[c] = NoSlot /\ session'[c] = "closed"
            /\ acked' = acked
        BY <2>9, <1>t, <1>c
        DEF NotificationReconnects, NotificationCrashes, CloseSession, GoTo, NotificationTypeOK,
            QueueTypeOK, queueVars
      <3> QED
        BY <3>1, <2>0 DEF NotificationOK, Handling
    <2> QED
      BY <2>1, <2>2, <2>3, <2>4, <2>5, <2>6, <2>7, <2>8, <2>9
      DEF NotificationStep, NotificationFault
  <1> QED
    BY <1>q, <1>1, <1>2, <1>3 DEF NotificationPart
-----------------------------------------------------------------------------
(* What the step of one retraining worker leaves to the others. *)
LEMMA RetrainingOthers ==
  ASSUME IInv, LogStays, NEW C \in SUBSET RetrainingConsumers,
         \A d \in C : /\ Aside(d) /\ rStage'[d] = rStage[d] /\ rJob'[d] = rJob[d]
                      /\ orderCount'[d] = orderCount[d] /\ untrained'[d] = untrained[d],
         counted \subseteq counted'
  PROVE  \A d \in C : RetrainingOK(d)'
  <1> SUFFICES ASSUME NEW d \in C PROVE RetrainingOK(d)'
    OBVIOUS
  <1>1. /\ RetrainingOK(d) /\ Aside(d) /\ rStage'[d] = rStage[d] /\ rJob'[d] = rJob[d]
        /\ orderCount'[d] = orderCount[d] /\ untrained'[d] = untrained[d]
    BY DEF IInv, RetrainingPart
  <1>2. acked[d] \subseteq Published /\ rJob[d] \in Published \cup {NoSlot}
    BY RetrainingAssumption
    DEF IInv, QueueInv, QueueTypeOK, RetrainingPart, RetrainingTypeOK
  <1>3. \A i \in acked'[d] :
          i \in counted' \/ Kind[log'[i]] \in {"other_event", "incomplete"}
    BY <1>1, <1>2 DEF RetrainingOK, Aside, LogStays
  <1>4. rStage[d] = "acking" =>
          rJob[d] \in counted' \/ Kind[log'[rJob[d]]] \in {"other_event", "incomplete"}
    BY <1>1, <1>2 DEF RetrainingOK, Handling, LogStays
  <1>5. /\ session'[d] = "open" => held'[d] = rJob[d]
        /\ rStage[d] \in {"booting", "connecting"} => session'[d] = "closed"
    BY <1>1 DEF RetrainingOK, Aside
  <1>6. acked'[d] = acked[d]
    BY <1>1 DEF Aside
  <1>7. \A i \in untrained[d] : Kind[log'[i]] \notin {"other_event", "incomplete"}
    <2>1. untrained[d] \subseteq Published
      BY DEF IInv, RetrainingPart, RetrainingTypeOK
    <2> QED
      BY <1>1, <2>1 DEF RetrainingOK, LogStays
  <1> QED
    BY <1>1, <1>3, <1>4, <1>5, <1>6, <1>7 DEF RetrainingOK

LEMMA RetrainingFrame ==
  ASSUME IInv, LogStays, UNCHANGED retrainingVars, \A d \in RetrainingConsumers : Aside(d)
  PROVE  RetrainingPart'
  <1>1. RetrainingTypeOK'
    BY DEF IInv, RetrainingPart, RetrainingTypeOK, LogStays, retrainingVars
  <1>2. \A d \in RetrainingConsumers : RetrainingOK(d)'
    BY RetrainingOthers DEF retrainingVars
  <1> QED
    BY <1>1, <1>2 DEF RetrainingPart

LEMMA RetrainingKeeps ==
  ASSUME IInv, NEW c \in RetrainingConsumers, RetrainingStep(c) \/ RetrainingFault(c)
  PROVE  QueueStays /\ RetrainingPart' /\ \A d \in Consumers \ {c} : Aside(d)
  <1> DEFINE j == rJob[c]
  <1>c. c \in Consumers /\ RetrainingConsumers \subseteq Consumers
    BY RetrainingAssumption
  <1>k. RetrainingTypeOK /\ RetrainingOK(c) /\ QueueTypeOK
    BY DEF IInv, RetrainingPart, QueueInv
  <1>n. /\ rStage \in [RetrainingConsumers -> RetrainingStages]
        /\ rJob \in [RetrainingConsumers -> Published \cup {NoSlot}]
        /\ orderCount \in [RetrainingConsumers -> Nat]
        /\ untrained \in [RetrainingConsumers -> SUBSET Published]
        /\ ready \subseteq Published
        /\ NoSlot \notin Published /\ rFaults \in 0..MaxRetrainingFaults
    BY <1>k DEF RetrainingTypeOK, QueueTypeOK, Published, NoSlot
  <1>h. j \in Published \cup {NoSlot} /\ (rStage[c] \in Handling => j \in Published)
    BY <1>k, <1>n DEF RetrainingOK
  <1>q. QueueStays /\ \A d \in Consumers \ {c} : Aside(d)
    <2>0. QueueInv
      BY DEF IInv
    <2>1. CASE RetrainingConnects(c)
      BY <1>c, <2>0, <2>1, OpenInv, QueueAside DEF RetrainingConnects, QueueStays
    <2>2. CASE RetrainingReceives(c)
      BY <1>c, <2>0, <2>2, DeliverInv, QueueAside DEF RetrainingReceives, QueueStays
    <2>3. CASE RetrainingAcks(c)
      <3>1. held[c] # NoSlot
        BY <1>k, <2>3 DEF RetrainingAcks, Ack, RetrainingOK, Handling
      <3> QED
        BY <1>c, <2>0, <2>3, <3>1, AckInv, QueueAside DEF RetrainingAcks, QueueStays
    <2>4. CASE RetrainingNacks(c)
      BY <1>c, <2>0, <2>4, RequeueInv, QueueAside DEF RetrainingNacks, QueueStays
    <2>5. CASE RetrainingCrashes(c)
      BY <1>c, <2>0, <2>5, RequeueInv, QueueAside DEF RetrainingCrashes, QueueStays
    <2>6. CASE \/ WorkerBoots(c) \/ RejectEvent(c) \/ SkipEvent(c) \/ CountOrder(c)
               \/ TrainingSucceeds(c) \/ TrainingFails(c) \/ RetrainingReconnects(c)
      BY <2>0, <2>6, QueueUntouched
      DEF WorkerBoots, RejectEvent, SkipEvent, CountOrder, TrainingSucceeds, TrainingFails,
          RetrainingReconnects
    <2> QED
      BY <2>1, <2>2, <2>3, <2>4, <2>5, <2>6 DEF RetrainingStep, RetrainingFault
  <1>g. LogStays
    BY <1>q DEF QueueStays
  <1>s. \E s \in RetrainingStages : rStage' = [rStage EXCEPT ![c] = s]
    BY DEF RetrainingStep, RetrainingFault, WorkerBoots, RetrainingConnects, RetrainingReceives,
       RejectEvent, SkipEvent, CountOrder, TrainingSucceeds, TrainingFails, RetrainingAcks,
       RetrainingNacks, RetrainingReconnects, RetrainingCrashes, StartOver, MoveTo,
       RetrainingStages
  <1>i. \E i \in Published \cup {NoSlot} : rJob' = [rJob EXCEPT ![c] = i]
    <2>1. rJob = [rJob EXCEPT ![c] = j]
      BY <1>n
    <2> QED
      BY <1>n, <1>h, <2>1
      DEF RetrainingStep, RetrainingFault, WorkerBoots, RetrainingConnects, RetrainingReceives,
          RejectEvent, SkipEvent, CountOrder, TrainingSucceeds, TrainingFails, RetrainingAcks,
          RetrainingNacks, RetrainingReconnects, RetrainingCrashes, StartOver
  <1>o. \E n \in Nat : orderCount' = [orderCount EXCEPT ![c] = n]
    <2>1. orderCount = [orderCount EXCEPT ![c] = orderCount[c]]
          /\ orderCount[c] \in Nat /\ orderCount[c] + 1 \in Nat /\ 0 \in Nat
      BY <1>n
    <2> QED
      BY <2>1
      DEF RetrainingStep, RetrainingFault, WorkerBoots, RetrainingConnects, RetrainingReceives,
          RejectEvent, SkipEvent, CountOrder, TrainingSucceeds, TrainingFails, RetrainingAcks,
          RetrainingNacks, RetrainingReconnects, RetrainingCrashes, StartOver
  <1>u. \E U \in SUBSET Published : untrained' = [untrained EXCEPT ![c] = U]
    <2>1. /\ untrained = [untrained EXCEPT ![c] = untrained[c]]
          /\ untrained[c] \in SUBSET Published /\ {} \in SUBSET Published
      BY <1>n
    <2>2. CASE CountOrder(c)
      BY <1>h, <2>1, <2>2 DEF CountOrder, Handling
    <2>3. CASE ~CountOrder(c)
      BY <2>1, <2>3
      DEF RetrainingStep, RetrainingFault, WorkerBoots, RetrainingConnects, RetrainingReceives,
          RejectEvent, SkipEvent, TrainingSucceeds, TrainingFails, RetrainingAcks,
          RetrainingNacks, RetrainingReconnects, RetrainingCrashes, StartOver
    <2> QED
      BY <2>2, <2>3
  <1>v. counted' = counted \/ (CountOrder(c) /\ counted' = counted \cup {j})
    BY DEF RetrainingStep, RetrainingFault, WorkerBoots, RetrainingConnects, RetrainingReceives,
       RejectEvent, SkipEvent, CountOrder, TrainingSucceeds, TrainingFails, RetrainingAcks,
       RetrainingNacks, RetrainingReconnects, RetrainingCrashes
  <1>x. rFaults' \in 0..MaxRetrainingFaults
    <2>1. CASE RetrainingStep(c)
      <3>1. rFaults' = rFaults
        BY <2>1
        DEF RetrainingStep, WorkerBoots, RetrainingConnects, RetrainingReceives, RejectEvent,
            SkipEvent, CountOrder, TrainingSucceeds, RetrainingAcks, RetrainingNacks,
            RetrainingReconnects
      <3> QED
        BY <1>n, <3>1
    <2>2. CASE RetrainingFault(c)
      BY <1>n, <2>2, RetrainingAssumption DEF RetrainingFault, TrainingFails, RetrainingCrashes
    <2> QED
      BY <2>1, <2>2
  <1>w. counted \subseteq counted' /\ counted' \subseteq Published
    BY <1>v, <1>h, <1>k DEF CountOrder, Handling, RetrainingTypeOK
  <1>1. RetrainingTypeOK'
    <2>1. Published \subseteq Published'
      BY <1>g DEF LogStays
    <2>2. rStage' \in [RetrainingConsumers -> RetrainingStages]
      BY <1>n, <1>s
    <2>3. rJob' \in [RetrainingConsumers -> Published' \cup {NoSlot}]
      BY <1>n, <1>i, <2>1
    <2>4. orderCount' \in [RetrainingConsumers -> Nat]
      BY <1>n, <1>o
    <2>5. untrained' \in [RetrainingConsumers -> SUBSET Published']
      BY <1>n, <1>u, <2>1
    <2> QED
      BY <1>x, <1>w, <2>1, <2>2, <2>3, <2>4, <2>5 DEF RetrainingTypeOK
  <1>2. \A d \in RetrainingConsumers \ {c} : RetrainingOK(d)'
    <2>1. \A d \in RetrainingConsumers \ {c} :
            /\ Aside(d) /\ rStage'[d] = rStage[d] /\ rJob'[d] = rJob[d]
            /\ orderCount'[d] = orderCount[d] /\ untrained'[d] = untrained[d]
      BY <1>c, <1>q, <1>s, <1>i, <1>o, <1>u, <1>n
    <2> QED
      BY <2>1, <1>g, <1>w, RetrainingOthers
  <1>3. RetrainingOK(c)'
    <2>0. \A i \in acked[c] : i \in counted' \/ Kind[log'[i]] \in {"other_event", "incomplete"}
      <3>1. \A i \in acked[c] : i \in Published /\ log'[i] = log[i]
        BY <1>c, <1>k, <1>g DEF QueueTypeOK, LogStays
      <3> QED
        BY <3>1, <1>k, <1>w DEF RetrainingOK
    <2>a. NoSlot \notin acked[c] /\ acked[c] \subseteq Published
      BY <1>c, <1>k, <1>n DEF QueueTypeOK
    <2>u. /\ IsFiniteSet(untrained[c]) /\ Cardinality(untrained[c]) <= orderCount[c]
          /\ Cardinality(untrained[c] \cap acked[c]) < TrainInterval
          /\ Cardinality(untrained[c]) \in Nat /\ orderCount[c] \in Nat
      BY <1>k, <1>n, FS_CardinalityType DEF RetrainingOK
    <2>e. IsFiniteSet({}) /\ Cardinality({}) = 0 /\ Cardinality({}) < TrainInterval
      BY FS_EmptySet, RetrainingAssumption
    <2>k. \A i \in untrained[c] : Kind[log'[i]] \notin {"other_event", "incomplete"}
      BY <1>k, <1>n, <1>g DEF RetrainingOK, LogStays
    (* Steps that give up the job and count nothing. *)
    <2>1. ASSUME rStage'[c] \in {"booting", "connecting", "consuming"}, rJob'[c] = NoSlot,
                 session'[c] = "open" => held'[c] = NoSlot,
                 rStage'[c] # "consuming" => session'[c] = "closed",
                 acked'[c] = acked[c],
                 \/ untrained'[c] = untrained[c] /\ orderCount'[c] = orderCount[c]
                 \/ untrained'[c] = {} /\ orderCount'[c] = 0
          PROVE  RetrainingOK(c)'
      <3>1. /\ IsFiniteSet(untrained'[c]) /\ Cardinality(untrained'[c]) <= orderCount'[c]
            /\ Cardinality(untrained'[c] \cap acked'[c]) < TrainInterval
            /\ \A i \in untrained'[c] : Kind[log'[i]] \notin {"other_event", "incomplete"}
        <4>1. CASE untrained'[c] = untrained[c] /\ orderCount'[c] = orderCount[c]
          BY <2>1, <2>u, <2>k, <4>1
        <4>2. CASE untrained'[c] = {} /\ orderCount'[c] = 0
          <5>1. untrained'[c] \cap acked'[c] = {}
            BY <4>2
          <5> QED
            BY <2>e, <4>2, <5>1
        <4> QED
          BY <2>1, <4>1, <4>2
      <3> QED
        BY <2>0, <2>a, <2>1, <3>1 DEF RetrainingOK, Handling
    <2>2. CASE WorkerBoots(c) \/ RetrainingConnects(c)
      <3>1. /\ rStage'[c] \in {"connecting", "consuming"} /\ rJob'[c] = NoSlot
            /\ session'[c] = "open" => held'[c] = NoSlot
            /\ rStage'[c] # "consuming" => session'[c] = "closed"
            /\ acked'[c] = acked[c] /\ untrained' = untrained /\ orderCount' = orderCount
        BY <2>2, <1>k, <1>n, <1>c
        DEF WorkerBoots, RetrainingConnects, MoveTo, RetrainingOK, OpenSession, Handling, IInv,
            QueueInv, QueueConsistent, SessionsAreApart, queueVars
      <3> QED
        BY <3>1, <2>1, <2>u
    <2>3. CASE RetrainingReceives(c)
      <3>1. PICK i \in ready : Deliver(c, i) /\ rJob' = [rJob EXCEPT ![c] = i]
        BY <2>3 DEF RetrainingReceives
      <3>2. /\ rStage'[c] = "judging" /\ rJob'[c] = i /\ held'[c] = i /\ i # NoSlot
            /\ acked' = acked /\ untrained' = untrained /\ orderCount' = orderCount
        BY <2>3, <3>1, <1>k, <1>n, <1>c DEF RetrainingReceives, MoveTo, Deliver, QueueTypeOK
      <3>3. i \notin acked[c]
        BY <1>c, AckedSlotsDef
        DEF IInv, QueueInv, QueueConsistent, NothingIsTwice, Gone
      <3> QED
        BY <3>2, <3>3, <2>0, <2>u, <2>k DEF RetrainingOK, Handling
    <2>4. CASE RejectEvent(c) \/ SkipEvent(c)
      <3>1. /\ rStage'[c] \in {"nacking", "acking"} /\ rJob'[c] = j /\ j # NoSlot
            /\ rStage'[c] = "acking" => Kind[log'[j]] \in {"other_event", "incomplete"}
            /\ held' = held /\ session' = session /\ acked' = acked
            /\ untrained' = untrained /\ orderCount' = orderCount
        BY <2>4, <1>k, <1>n
        DEF RejectEvent, SkipEvent, EventKind, MoveTo, RetrainingOK, Handling, queueVars
      <3>2. rStage'[c] = "acking" => j \notin untrained[c]
        BY <3>1, <2>k
      <3> QED
        BY <3>1, <3>2, <2>0, <2>u, <2>k, <1>k DEF RetrainingOK, Handling
    <2>5. CASE CountOrder(c)
      <3>1. /\ rStage'[c] \in {"training", "acking"} /\ rJob'[c] = j /\ j # NoSlot
            /\ rStage'[c] = "acking" => orderCount'[c] < TrainInterval
            /\ held' = held /\ session' = session /\ acked' = acked
            /\ untrained'[c] = untrained[c] \cup {j} /\ orderCount'[c] = orderCount[c] + 1
            /\ j \in counted'
        BY <2>5, <1>k, <1>n, RetrainingAssumption
        DEF CountOrder, MoveTo, RetrainingOK, Handling, queueVars
      <3>2. j \notin acked[c]
        BY <1>k DEF RetrainingOK
      <3>3. untrained'[c] \cap acked'[c] = untrained[c] \cap acked[c]
        BY <3>1, <3>2
      <3>4. /\ IsFiniteSet(untrained'[c])
            /\ Cardinality(untrained'[c]) <= orderCount'[c]
        <4> DEFINE U == untrained[c]
        <4>1. /\ IsFiniteSet(U \cup {j})
              /\ Cardinality(U \cup {j}) = IF j \in U THEN Cardinality(U) ELSE Cardinality(U) + 1
          BY <2>u, FS_AddElement
        <4> QED
          BY <3>1, <4>1, <2>u
      <3>5. \A i \in untrained'[c] : Kind[log'[i]] \notin {"other_event", "incomplete"}
        BY <3>1, <2>k, <2>5 DEF CountOrder, EventKind, queueVars
      <3>6. \A i \in acked'[c] :
              i \in counted' \/ Kind[log'[i]] \in {"other_event", "incomplete"}
        BY <3>1, <2>0
      <3> QED
        BY <3>1, <3>2, <3>3, <3>4, <3>5, <3>6, <2>u, <1>k DEF RetrainingOK, Handling
    <2>6. CASE TrainingSucceeds(c)
      <3>1. /\ rStage'[c] = "acking" /\ rJob'[c] = j /\ j # NoSlot
            /\ held' = held /\ session' = session /\ acked' = acked
            /\ untrained'[c] = {} /\ orderCount'[c] = 0
        BY <2>6, <1>k, <1>n DEF TrainingSucceeds, MoveTo, RetrainingOK, Handling, queueVars
      <3>2. untrained'[c] \cap acked'[c] = {}
        BY <3>1
      <3>3. rStage[c] = "training" /\ counted' = counted /\ log' = log
        BY <2>6 DEF TrainingSucceeds, queueVars
      <3>4. j \in counted' \/ Kind[log'[j]] \in {"other_event", "incomplete"}
        BY <3>3, <1>k DEF RetrainingOK
      <3> QED
        BY <3>1, <3>2, <3>4, <2>0, <2>e, <1>k DEF RetrainingOK, Handling
    <2>7. CASE TrainingFails(c)
      <3>1. /\ rStage'[c] = "nacking" /\ rJob'[c] = j /\ j # NoSlot
            /\ held' = held /\ session' = session /\ acked' = acked
            /\ untrained' = untrained /\ orderCount' = orderCount
        BY <2>7, <1>k, <1>n DEF TrainingFails, MoveTo, RetrainingOK, Handling, queueVars
      <3> QED
        BY <3>1, <2>0, <2>u, <2>k, <1>k DEF RetrainingOK, Handling
    <2>8. CASE RetrainingAcks(c)
      <3>1. /\ rStage'[c] = "consuming" /\ rJob'[c] = NoSlot /\ held'[c] = NoSlot
            /\ acked'[c] = acked[c] \cup {j} /\ counted' = counted /\ log' = log
            /\ untrained' = untrained /\ orderCount' = orderCount /\ j # NoSlot
        BY <2>8, <1>k, <1>n, <1>c
        DEF RetrainingAcks, Ack, MoveTo, RetrainingOK, QueueTypeOK, Handling
      <3>2. /\ j \in counted \/ Kind[log[j]] \in {"other_event", "incomplete"}
            /\ j \in untrained[c] => orderCount[c] < TrainInterval
        BY <2>8, <1>k DEF RetrainingAcks, RetrainingOK
      <3>3. Cardinality(untrained[c] \cap (acked[c] \cup {j})) < TrainInterval
        <4>1. CASE j \in untrained[c]
          <5> DEFINE U == untrained[c] \cap (acked[c] \cup {j})
          <5>1. Cardinality(U) <= Cardinality(untrained[c]) /\ Cardinality(U) \in Nat
            BY <2>u, FS_Subset, FS_CardinalityType
          <5> QED
            BY <5>1, <2>u, <3>2, <4>1, RetrainingAssumption
        <4>2. CASE j \notin untrained[c]
          <5>1. untrained[c] \cap (acked[c] \cup {j}) = untrained[c] \cap acked[c]
            BY <4>2
          <5> QED
            BY <5>1, <2>u
        <4> QED
          BY <4>1, <4>2
      <3>4. NoSlot \notin acked'[c]
        BY <3>1, <2>a
      <3> QED
        BY <3>1, <3>2, <3>3, <3>4, <2>0, <2>u, <2>k DEF RetrainingOK, Handling
    <2>9. CASE RetrainingNacks(c)
      <3>1. /\ rStage'[c] = "consuming" /\ rJob'[c] = NoSlot /\ held'[c] = NoSlot
            /\ acked' = acked /\ untrained' = untrained /\ orderCount' = orderCount
        BY <2>9, <1>k, <1>n, <1>c
        DEF RetrainingNacks, Requeue, Release, MoveTo, QueueTypeOK
      <3> QED
        BY <3>1, <2>1, <2>u
    <2>10. CASE RetrainingReconnects(c) \/ RetrainingCrashes(c)
      <3>1. /\ rStage'[c] \in {"booting", "connecting"} /\ rJob'[c] = NoSlot
            /\ session'[c] = "closed" /\ acked' = acked
            /\ \/ untrained' = untrained /\ orderCount' = orderCount
               \/ untrained'[c] = {} /\ orderCount'[c] = 0
        BY <2>10, <1>k, <1>n, <1>c
        DEF RetrainingReconnects, RetrainingCrashes, CloseSession, StartOver, MoveTo, QueueTypeOK,
            queueVars
      <3> QED
        BY <3>1, <2>1, <2>u
    <2> QED
      BY <2>2, <2>3, <2>4, <2>5, <2>6, <2>7, <2>8, <2>9, <2>10
      DEF RetrainingStep, RetrainingFault
  <1> QED
    BY <1>q, <1>1, <1>2, <1>3 DEF RetrainingPart
-----------------------------------------------------------------------------
LEMMA NextConsumers == IInv /\ [Next]_vars => IInv'
  <1> SUFFICES ASSUME IInv, [Next]_vars PROVE IInv'
    OBVIOUS
  <1>0. QueueInv /\ NotificationConsumers \subseteq Consumers /\ RetrainingConsumers \subseteq Consumers
    BY NotificationAssumption, RetrainingAssumption DEF IInv
  <1>1. ASSUME QueueStays, UNCHANGED << notificationVars, retrainingVars >>,
               \A d \in Consumers : Aside(d)
        PROVE  IInv'
    BY <1>0, <1>1, NotificationFrame, RetrainingFrame DEF IInv, QueueStays
  <1>2. CASE QueueStep
    <2>1. ASSUME NEW c \in Consumers, LoseSession(c)
          PROVE  QueueStays /\ \A d \in Consumers : Aside(d)
      <3>1. LogStays /\ \A d \in Consumers : Aside(d)
        BY <2>1, <1>0 DEF LoseSession, Release, LogStays, Published, Aside, QueueInv, QueueTypeOK
      <3> QED
        BY <3>1, <2>1, <1>0, LoseInv DEF QueueStays
    <2>2. ASSUME NEW i \in Published, Age(i) \/ Expire(i)
          PROVE  QueueStays /\ \A d \in Consumers : Aside(d)
      <3>1. LogStays /\ \A d \in Consumers : Aside(d)
        BY <2>2 DEF Age, Expire, LogStays, Published, Aside
      <3> QED
        BY <3>1, <2>2, <1>0, AgeInv DEF QueueStays
    <2> QED
      BY <2>1, <2>2, <1>1, <1>2 DEF QueueStep
  <1>3. ASSUME NEW m \in Messages, Produce(m) PROVE IInv'
    <2>1. LogStays /\ \A d \in Consumers : Aside(d)
      BY <1>0, <1>3 DEF Produce, Enqueue, LogStays, Published, Aside, QueueInv, QueueTypeOK
    <2> QED
      BY <2>1, <1>0, <1>1, <1>3, EnqueueInv DEF Produce, QueueStays
  <1>4. ASSUME NEW c \in NotificationConsumers, NotificationStep(c) \/ NotificationFault(c),
               UNCHANGED retrainingVars
        PROVE  IInv'
    <2>1. QueueStays /\ NotificationPart' /\ \A d \in Consumers \ {c} : Aside(d)
      BY <1>4, NotificationKeeps
    <2>2. \A d \in RetrainingConsumers : Aside(d)
      BY <2>1, <1>0, ConsumersAssumption
    <2> QED
      BY <2>1, <2>2, <1>4, RetrainingFrame DEF IInv, QueueStays
  <1>5. ASSUME NEW c \in RetrainingConsumers, RetrainingStep(c) \/ RetrainingFault(c),
               UNCHANGED notificationVars
        PROVE  IInv'
    <2>1. QueueStays /\ RetrainingPart' /\ \A d \in Consumers \ {c} : Aside(d)
      BY <1>5, RetrainingKeeps
    <2>2. \A d \in NotificationConsumers : Aside(d)
      BY <2>1, <1>0, ConsumersAssumption
    <2> QED
      BY <2>1, <2>2, <1>5, NotificationFrame DEF IInv, QueueStays
  <1>6. CASE UNCHANGED vars
    BY <1>0, <1>1, <1>6, QueueUntouched DEF vars
  <1> QED
    BY <1>2, <1>3, <1>4, <1>5, <1>6 DEF Next, WorkerStep

(* The queue and both workers keep their invariants in every reachable state. *)
THEOREM ConsumersInvariant == Spec => []IInv
  BY InitConsumers, NextConsumers, PTL DEF Spec

(* Every variable of the queue and of both workers has its type. *)
THEOREM ConsumersTypeCorrect == Spec => []TypeOK
  <1>1. IInv => TypeOK
    BY DEF IInv, QueueInv, NotificationPart, RetrainingPart, TypeOK
  <1> QED
    BY <1>1, ConsumersInvariant, PTL

(* No message is lost, kept twice or acknowledged twice, whatever sessions
   break and whichever worker crashes while it holds one. *)
THEOREM MessagesInOnePlace == Spec => []QueueConsistent
  <1>1. IInv => QueueConsistent
    BY DEF IInv, QueueInv
  <1> QED
    BY <1>1, ConsumersInvariant, PTL

(* notification-worker acknowledges an order only after both its tasks. *)
THEOREM NotifiedFirst == Spec => []NotifiedBeforeAck
  <1>1. IInv => NotifiedBeforeAck
    BY DEF IInv, NotificationPart, NotificationOK, NotifiedBeforeAck
  <1> QED
    BY <1>1, ConsumersInvariant, PTL

(* recommendation-worker acknowledges an order only after counting it. *)
THEOREM CountedFirst == Spec => []CountedBeforeAck
  <1>1. IInv => CountedBeforeAck
    BY DEF IInv, RetrainingPart, RetrainingOK, CountedBeforeAck
  <1> QED
    BY <1>1, ConsumersInvariant, PTL

(* Fewer than TrainInterval acknowledged orders ever wait for a training, for
   every TrainInterval and any number of failed trainings and crashes. *)
THEOREM TrainingInTime == Spec => []TrainingIsNotOverdue
  <1>1. IInv => TrainingIsNotOverdue
    BY DEF IInv, RetrainingPart, RetrainingOK, TrainingIsNotOverdue
  <1> QED
    BY <1>1, ConsumersInvariant, PTL
-----------------------------------------------------------------------------
(* How often the tasks of a slot are scheduled. A handler's stages before it
   has published one of its tasks, and those after: *)
TaskKinds == {"email", "text"}
Scheduled(k) == IF k = "email" THEN emails ELSE texts
Ahead(k) == {"parsing", "emailing"} \cup (IF k = "email" THEN {} ELSE {"texting"})
Behind(k) == {"acking"} \cup (IF k = "email" THEN {"texting"} ELSE {})

(* The workers that have lost the session of slot i and will still publish, ... *)
Late(k, i) ==
    { c \in NotificationConsumers :
        nJob[c] = i /\ session[c] = "closed" /\ nStage[c] \in Ahead(k) }

(* ... and whether slot i has been published from and not put back. *)
Served(k, i) ==
    i \in Gone \/ \E c \in NotificationConsumers : held[c] = i /\ nStage[c] \in Behind(k)

(* Each task of a slot, published or to come from a late worker, is paid for
   by a fault or a lost session, or is the one the slot is entitled to. *)
Budget(k, i) ==
    /\ IsFiniteSet(Late(k, i))
    /\ Scheduled(k)[i] + Cardinality(Late(k, i))
         <= nFaults + losses + (IF Served(k, i) THEN 1 ELSE 0)

Budgets == \A k \in TaskKinds : \A i \in Slots : Budget(k, i)

OrderKinds == {"envelope", "legacy", "other_event"}

OrdersOnly ==
    /\ \A c \in NotificationConsumers :
         nStage[c] \in {"emailing", "texting"} => Kind[log[nJob[c]]] \in OrderKinds
    /\ \A i \in Slots : texts[i] > 0 =>
         i \in Published /\ emails[i] > 0 /\ Kind[log[i]] \in OrderKinds

RepeatsInv == IInv /\ OrdersOnly /\ Budgets

Counts ==
    /\ nFaults \in Nat /\ losses \in Nat
    /\ \A k \in TaskKinds : Scheduled(k) \in [Slots -> Nat]

LEMMA CountsType == (IInv => Counts) /\ (IInv' => Counts')
  BY NotificationAssumption, QueueBoundAssumption
  DEF IInv, QueueInv, QueueTypeOK, NotificationPart, NotificationTypeOK, Counts, Scheduled

(* The ways in which a step may keep the budget of a slot. *)
LEMMA BudgetKept ==
  ASSUME Counts, Counts', NEW k \in TaskKinds, NEW i \in Slots, Budget(k, i), NEW c,
         LET n == Scheduled(k)[i]
             faults == nFaults + losses
         IN \/ /\ Scheduled(k)'[i] = n /\ nFaults' + losses' >= faults
               /\ Late(k, i)' \subseteq Late(k, i) /\ (Served(k, i) => Served(k, i)')
            \/ /\ Scheduled(k)'[i] = n /\ nFaults' + losses' = faults + 1
               /\ \/ Late(k, i)' \subseteq Late(k, i)
                  \/ Late(k, i)' = Late(k, i) \cup {c} /\ (Served(k, i) => Served(k, i)')
            \/ /\ Scheduled(k)'[i] = n + 1 /\ nFaults' + losses' = faults + 1
               /\ Late(k, i)' \subseteq Late(k, i) /\ (Served(k, i) => Served(k, i)')
            \/ /\ Scheduled(k)'[i] = n + 1 /\ nFaults' + losses' = faults
               /\ \/ c \in Late(k, i) /\ Late(k, i)' \subseteq Late(k, i) \ {c}
                     /\ (Served(k, i) => Served(k, i)')
                  \/ Late(k, i)' \subseteq Late(k, i) /\ ~Served(k, i) /\ Served(k, i)'
  PROVE  Budget(k, i)'
  <1> DEFINE L == Late(k, i)
  <1> DEFINE M == Late(k, i)'
  <1> DEFINE s == IF Served(k, i) THEN 1 ELSE 0
  <1> DEFINE t == IF Served(k, i)' THEN 1 ELSE 0
  <1>1. IsFiniteSet(L) /\ Cardinality(L) \in Nat
    BY FS_CardinalityType DEF Budget
  <1>2. /\ IsFiniteSet(L \cup {c}) /\ Cardinality(L \cup {c}) <= Cardinality(L) + 1
        /\ Cardinality(L \cup {c}) \in Nat
    <2>1. /\ IsFiniteSet(L \cup {c})
          /\ Cardinality(L \cup {c}) = IF c \in L THEN Cardinality(L) ELSE Cardinality(L) + 1
      BY <1>1, FS_AddElement
    <2> QED
      BY <1>1, <2>1
  <1>3. c \in L => /\ IsFiniteSet(L \ {c}) /\ Cardinality(L \ {c}) = Cardinality(L) - 1
                   /\ Cardinality(L \ {c}) \in Nat
    BY <1>1, FS_RemoveElement, FS_CardinalityType
  <1> HIDE DEF L, M
  <1>4. M \subseteq L => IsFiniteSet(M) /\ Cardinality(M) <= Cardinality(L)
    BY <1>1, FS_Subset
  <1>5. c \in L /\ M \subseteq L \ {c} => IsFiniteSet(M) /\ Cardinality(M) <= Cardinality(L) - 1
    BY <1>1, <1>3, FS_Subset
  <1>6. M \subseteq L \/ M = L \cup {c} => IsFiniteSet(M) /\ Cardinality(M) \in Nat
    BY <1>2, <1>4, FS_CardinalityType
  <1>7. IsFiniteSet(M) /\ Cardinality(M) \in Nat
    BY <1>4, <1>6 DEF L, M
  <1>8. /\ Scheduled(k)[i] \in Nat /\ Scheduled(k)'[i] \in Nat /\ nFaults \in Nat /\ losses \in Nat
        /\ nFaults' \in Nat /\ losses' \in Nat
    BY DEF Counts
  <1>9. Scheduled(k)[i] + Cardinality(L) <= nFaults + losses + s
    BY DEF Budget, L
  <1>10. s \in {0, 1} /\ t \in {0, 1} /\ ((Served(k, i) => Served(k, i)') => s <= t)
         /\ (~Served(k, i) /\ Served(k, i)' => s = 0 /\ t = 1)
    OBVIOUS
  <1> HIDE DEF s, t
  <1>11. \/ /\ Scheduled(k)'[i] = Scheduled(k)[i] /\ nFaults' + losses' >= nFaults + losses
            /\ Cardinality(M) <= Cardinality(L) /\ s <= t
         \/ /\ Scheduled(k)'[i] = Scheduled(k)[i] /\ nFaults' + losses' = nFaults + losses + 1
            /\ Cardinality(M) <= Cardinality(L)
         \/ /\ Scheduled(k)'[i] = Scheduled(k)[i] /\ nFaults' + losses' = nFaults + losses + 1
            /\ Cardinality(M) <= Cardinality(L) + 1 /\ s <= t
         \/ /\ Scheduled(k)'[i] = Scheduled(k)[i] + 1 /\ nFaults' + losses' = nFaults + losses + 1
            /\ Cardinality(M) <= Cardinality(L) /\ s <= t
         \/ /\ Scheduled(k)'[i] = Scheduled(k)[i] + 1 /\ nFaults' + losses' = nFaults + losses
            /\ Cardinality(M) <= Cardinality(L) - 1 /\ s <= t
         \/ /\ Scheduled(k)'[i] = Scheduled(k)[i] + 1 /\ nFaults' + losses' = nFaults + losses
            /\ Cardinality(M) <= Cardinality(L) /\ s = 0 /\ t = 1
    BY <1>2, <1>4, <1>5, <1>10 DEF L, M
  <1>12. Scheduled(k)'[i] + Cardinality(M) <= nFaults' + losses' + t
    BY <1>1, <1>7, <1>8, <1>9, <1>10, <1>11
  <1> QED
    BY <1>7, <1>12 DEF Budget, M, t

(* A step of which the notification workers notice nothing. *)
LEMMA BudgetFrame ==
  ASSUME RepeatsInv, IInv', UNCHANGED notificationVars, losses' = losses, Gone \subseteq Gone',
         \A c \in NotificationConsumers : held'[c] = held[c] /\ session'[c] = session[c]
  PROVE  Budgets'
  <1> SUFFICES ASSUME NEW k \in TaskKinds, NEW i \in Slots PROVE Budget(k, i)'
    BY DEF Budgets, Slots
  <1>1. Counts /\ Counts' /\ Budget(k, i)
    BY CountsType DEF RepeatsInv, Budgets
  <1>2. Scheduled(k)' = Scheduled(k) /\ nFaults' = nFaults /\ losses' = losses
    BY DEF Scheduled, notificationVars
  <1>3. Late(k, i)' \subseteq Late(k, i) /\ (Served(k, i) => Served(k, i)')
    BY DEF Late, Served, notificationVars
  <1>4. nFaults' + losses' >= nFaults + losses
    BY <1>1, <1>2 DEF Counts
  <1> QED
    BY <1>1, <1>2, <1>3, <1>4, BudgetKept

(* What a step of worker c does not touch. *)
LEMMA NotificationApart ==
  ASSUME IInv, NEW c \in NotificationConsumers, NotificationStep(c) \/ NotificationFault(c)
  PROVE  /\ \A d \in NotificationConsumers \ {c} :
              /\ held'[d] = held[d] /\ session'[d] = session[d]
              /\ nStage'[d] = nStage[d] /\ nJob'[d] = nJob[d]
         /\ Gone \subseteq Gone' /\ losses' = losses
  <1>1. /\ held \in [Consumers -> Published \cup {NoSlot}] /\ session \in [Consumers -> {"open", "closed"}]
        /\ acked \in [Consumers -> SUBSET Published]
        /\ nStage \in [NotificationConsumers -> NotificationStages]
        /\ nJob \in [NotificationConsumers -> Published \cup {NoSlot}]
        /\ NotificationConsumers \subseteq Consumers
    BY NotificationAssumption DEF IInv, QueueInv, QueueTypeOK, NotificationPart, NotificationTypeOK
  <1>2. \A d \in NotificationConsumers \ {c} : nStage'[d] = nStage[d] /\ nJob'[d] = nJob[d]
    BY <1>1 DEF NotificationStep, NotificationFault, NotificationConnects, NotificationReceives, ParseEvent,
          ScheduleEmail, ScheduleText, ScheduleFails, NotificationAcks, NotificationNacks,
          NotificationReconnects, NotificationCrashes, GoTo
  <1>3. CASE NotificationAcks(c)
    <2>1. /\ held' = [held EXCEPT ![c] = NoSlot] /\ acked' = [acked EXCEPT ![c] = @ \cup {held[c]}]
          /\ UNCHANGED << session, expired, losses >>
      BY <1>3 DEF NotificationAcks, Ack
    <2>2. \A d \in Consumers : acked[d] \subseteq acked'[d]
      BY <1>1, <2>1
    <2> QED
      BY <1>1, <1>2, <2>1, <2>2 DEF Gone, AckedSlots
  <1>4. CASE ~NotificationAcks(c)
    <2>1. /\ held' = held \/ \E x : held' = [held EXCEPT ![c] = x]
          /\ session' = session \/ \E x : session' = [session EXCEPT ![c] = x]
          /\ UNCHANGED << acked, expired, losses >>
      BY <1>4 DEF NotificationStep, NotificationFault, NotificationConnects, NotificationReceives, ParseEvent,
          ScheduleEmail, ScheduleText, ScheduleFails, NotificationNacks, NotificationReconnects,
          NotificationCrashes, OpenSession, CloseSession, Deliver, Requeue, Release, queueVars
    <2> QED
      BY <1>1, <1>2, <2>1 DEF Gone, AckedSlots
  <1> QED
    BY <1>3, <1>4

(* A publish that succeeds: of kind k by worker c. *)
LEMMA BudgetPublish ==
  ASSUME RepeatsInv, IInv', NEW c \in NotificationConsumers, NEW k \in TaskKinds, NEW i \in Slots,
         NotificationStep(c),
         nStage[c] \in Ahead(k), nStage'[c] \in Behind(k), nStage'[c] \notin Ahead(k), nJob' = nJob,
         UNCHANGED queueVars, nFaults' = nFaults,
         Scheduled(k)' = [Scheduled(k) EXCEPT ![nJob[c]] = @ + 1]
  PROVE  Budget(k, i)'
  <1>1. Counts /\ Counts' /\ Budget(k, i) /\ NotificationOK(c) /\ IInv
    BY CountsType DEF RepeatsInv, Budgets, IInv, NotificationPart
  <1>2. /\ \A d \in NotificationConsumers \ {c} :
             /\ held'[d] = held[d] /\ session'[d] = session[d]
             /\ nStage'[d] = nStage[d] /\ nJob'[d] = nJob[d]
        /\ Gone \subseteq Gone' /\ losses' = losses
    BY <1>1, NotificationApart
  <1>3. Late(k, i)' \subseteq Late(k, i) \ {c}
    BY <1>2 DEF Late
  <1>4. nStage[c] \notin Behind(k)
    BY DEF Ahead, Behind
  <1>5. Served(k, i) => Served(k, i)'
    BY <1>2, <1>4 DEF Served
  <1>6. nFaults' + losses' = nFaults + losses /\ nFaults' + losses' >= nFaults + losses
    BY <1>1, <1>2 DEF Counts
  <1>7. CASE i # nJob[c]
    <2>1. Scheduled(k)'[i] = Scheduled(k)[i]
      BY <1>1, <1>7 DEF Counts
    <2> QED
      BY <1>1, <1>3, <1>5, <1>6, <2>1, BudgetKept
  <1>8. CASE i = nJob[c]
    <2>1. Scheduled(k)'[i] = Scheduled(k)[i] + 1
      BY <1>1, <1>8 DEF Counts
    <2>2. CASE session[c] = "closed"
      <3>1. c \in Late(k, i)
        BY <1>8, <2>2 DEF Late
      <3> QED
        BY <1>1, <1>3, <1>5, <1>6, <2>1, <3>1, BudgetKept
    <2>3. CASE session[c] # "closed"
      <3>1. held[c] = i /\ i # NoSlot /\ c \in Consumers /\ NotificationConsumers \subseteq Consumers
        BY <1>1, <1>8, <2>3, NotificationAssumption
        DEF NotificationOK, IInv, QueueInv, QueueTypeOK, Slots, NoSlot
      <3>2. i \notin Gone /\ \A d \in NotificationConsumers \ {c} : held[d] # i
        BY <1>1, <3>1 DEF IInv, QueueInv, QueueConsistent, SessionsAreApart
      <3>3. ~Served(k, i)
        BY <1>4, <3>2 DEF Served
      <3>4. Served(k, i)'
        BY <3>1 DEF Served, queueVars
      <3> QED
        BY <1>1, <1>3, <1>6, <2>1, <3>3, <3>4, BudgetKept
    <2> QED
      BY <2>2, <2>3
  <1> QED
    BY <1>7, <1>8

(* A step of worker c. *)
LEMMA BudgetStep ==
  ASSUME RepeatsInv, IInv', NEW c \in NotificationConsumers, NotificationStep(c) \/ NotificationFault(c)
  PROVE  Budgets'
  <1> SUFFICES ASSUME NEW k \in TaskKinds, NEW i \in Slots PROVE Budget(k, i)'
    BY DEF Budgets, Slots
  <1>1. Counts /\ Counts' /\ Budget(k, i) /\ NotificationOK(c) /\ IInv
    BY CountsType DEF RepeatsInv, Budgets, IInv, NotificationPart
  <1>2. /\ \A d \in NotificationConsumers \ {c} :
             /\ held'[d] = held[d] /\ session'[d] = session[d]
             /\ nStage'[d] = nStage[d] /\ nJob'[d] = nJob[d]
        /\ Gone \subseteq Gone' /\ losses' = losses
    BY <1>1, NotificationApart
  <1>3. /\ nStage \in [NotificationConsumers -> NotificationStages]
        /\ session \in [Consumers -> {"open", "closed"}] /\ held \in [Consumers -> Published \cup {NoSlot}]
        /\ acked \in [Consumers -> SUBSET Published]
        /\ NotificationConsumers \subseteq Consumers /\ c \in Consumers
    BY <1>1, NotificationAssumption
    DEF IInv, NotificationPart, NotificationTypeOK, QueueInv, QueueTypeOK
  <1>4. (c \in Late(k, i)' => c \in Late(k, i)) => Late(k, i)' \subseteq Late(k, i)
    BY <1>2 DEF Late
  <1>5. (held[c] = i /\ nStage[c] \in Behind(k) => Served(k, i)') => (Served(k, i) => Served(k, i)')
    BY <1>2 DEF Served
  <1>6. nFaults' = nFaults => nFaults' + losses' >= nFaults + losses
    BY <1>1, <1>2 DEF Counts
  <1>7. nFaults' = nFaults + 1 => nFaults' + losses' = nFaults + losses + 1
    BY <1>1, <1>2 DEF Counts
  <1>8. k \in {"email", "text"}
    BY DEF TaskKinds
  <1>9. i # NoSlot
    BY DEF Slots, NoSlot
  (* Steps that publish nothing and end outside the stages ahead. *)
  <1>10. ASSUME Scheduled(k)' = Scheduled(k), nFaults' = nFaults, nStage'[c] \notin Ahead(k),
                held[c] = i /\ nStage[c] \in Behind(k) => Served(k, i)'
         PROVE  Budget(k, i)'
    <2>1. c \notin Late(k, i)'
      BY <1>10 DEF Late
    <2> QED
      BY <1>1, <1>4, <1>5, <1>6, <1>10, <2>1, BudgetKept
  <1>11. CASE NotificationConnects(c) \/ NotificationReceives(c) \/ NotificationNacks(c)
    <2>1. /\ nStage[c] \in {"connecting", "consuming", "nacking"} /\ nFaults' = nFaults
          /\ nStage'[c] \in {"consuming", "parsing"} /\ (session'[c] = "open" \/ nStage'[c] = "consuming")
      BY <1>3, <1>11 DEF NotificationConnects, NotificationReceives, NotificationNacks, GoTo, OpenSession,
            Deliver, Requeue, Scheduled
    <2>2. c \notin Late(k, i)'
      BY <2>1 DEF Late, Ahead
    <2>3. nStage[c] \notin Behind(k)
      BY <2>1 DEF Behind
    <2>4. Scheduled(k)' = Scheduled(k)
      BY <1>11 DEF NotificationConnects, NotificationReceives, NotificationNacks, Scheduled
    <2> QED
      BY <1>1, <1>4, <1>5, <1>6, <2>1, <2>2, <2>3, <2>4, BudgetKept
  <1>12. CASE ParseEvent(c)
    <2>1. /\ nStage[c] = "parsing" /\ nFaults' = nFaults /\ session' = session /\ nJob' = nJob
          /\ Scheduled(k)' = Scheduled(k)
      BY <1>12 DEF ParseEvent, queueVars, Scheduled
    <2>2. c \in Late(k, i)' => c \in Late(k, i)
      BY <2>1 DEF Late, Ahead
    <2>3. nStage[c] \notin Behind(k)
      BY <2>1 DEF Behind
    <2> QED
      BY <1>1, <1>4, <1>5, <1>6, <2>1, <2>2, <2>3, BudgetKept
  <1>13. CASE ScheduleEmail(c)
    <2>1. /\ nStage[c] = "emailing" /\ nStage'[c] = "texting" /\ nFaults' = nFaults /\ nJob' = nJob
          /\ UNCHANGED queueVars /\ emails' = [emails EXCEPT ![nJob[c]] = @ + 1] /\ texts' = texts
      BY <1>3, <1>13 DEF ScheduleEmail, GoTo
    <2>2. CASE k = "email"
      BY <1>13, <2>1, <2>2, BudgetPublish DEF Ahead, Behind, Scheduled, NotificationStep
    <2>3. CASE k = "text"
      <3>1. c \in Late(k, i)' => c \in Late(k, i)
        BY <2>1, <2>3 DEF Late, Ahead, queueVars
      <3>2. nStage[c] \notin Behind(k) /\ Scheduled(k)' = Scheduled(k)
        BY <2>1, <2>3 DEF Behind, Scheduled
      <3> QED
        BY <1>1, <1>4, <1>5, <1>6, <2>1, <3>1, <3>2, BudgetKept
    <2> QED
      BY <1>8, <2>2, <2>3
  <1>14. CASE ScheduleText(c)
    <2>1. /\ nStage[c] = "texting" /\ nStage'[c] = "acking" /\ nFaults' = nFaults /\ nJob' = nJob
          /\ UNCHANGED queueVars /\ texts' = [texts EXCEPT ![nJob[c]] = @ + 1] /\ emails' = emails
      BY <1>3, <1>14 DEF ScheduleText, GoTo
    <2>2. CASE k = "text"
      BY <1>14, <2>1, <2>2, BudgetPublish DEF Ahead, Behind, Scheduled, NotificationStep
    <2>3. CASE k = "email"
      <3>1. Scheduled(k)' = Scheduled(k) /\ nStage'[c] \notin Ahead(k)
        BY <2>1, <2>3 DEF Ahead, Scheduled
      <3>2. held[c] = i => Served(k, i)'
        BY <2>1 DEF Served, Behind, queueVars
      <3> QED
        BY <1>10, <2>1, <3>1, <3>2
    <2> QED
      BY <1>8, <2>2, <2>3
  <1>15. CASE ScheduleFails(c)
    <2>1. nStage'[c] = "nacking" /\ nFaults' = nFaults + 1 /\ nJob' = nJob
      BY <1>3, <1>15 DEF ScheduleFails, GoTo
    <2>2. Late(k, i)' \subseteq Late(k, i)
      BY <1>4, <2>1 DEF Late, Ahead
    <2>3. CASE Scheduled(k)' = Scheduled(k)
      BY <1>1, <1>7, <2>1, <2>2, <2>3, BudgetKept
    <2>4. CASE Scheduled(k)' # Scheduled(k)
      <3>1. /\ Scheduled(k)' = [Scheduled(k) EXCEPT ![nJob[c]] = @ + 1]
            /\ nStage[c] = IF k = "email" THEN "emailing" ELSE "texting"
        BY <1>8, <1>15, <2>4 DEF ScheduleFails, Scheduled
      <3>2. nStage[c] \notin Behind(k)
        BY <1>8, <3>1 DEF Behind
      <3>3. Scheduled(k)'[i] \in {Scheduled(k)[i], Scheduled(k)[i] + 1}
        BY <1>1, <3>1 DEF Counts
      <3> QED
        BY <1>1, <1>5, <1>7, <2>1, <2>2, <3>2, <3>3, BudgetKept
    <2> QED
      BY <2>3, <2>4
  <1>16. CASE NotificationAcks(c)
    <2>1. /\ nStage[c] = "acking" /\ nStage'[c] = "consuming" /\ nFaults' = nFaults
          /\ acked' = [acked EXCEPT ![c] = @ \cup {held[c]}]
      BY <1>3, <1>16 DEF NotificationAcks, Ack, GoTo
    <2>2. held[c] = i => Served(k, i)'
      <3>1. held[c] \in acked'[c]
        BY <1>3, <2>1
      <3> QED
        BY <1>3, <3>1 DEF Served, Gone, AckedSlots
    <2>3. Scheduled(k)' = Scheduled(k) /\ nStage'[c] \notin Ahead(k)
      BY <1>16, <2>1 DEF NotificationAcks, Scheduled, Ahead
    <2> QED
      BY <1>10, <2>1, <2>2, <2>3
  <1>17. CASE NotificationReconnects(c)
    <2>1. nStage'[c] = "connecting" /\ nFaults' = nFaults /\ session[c] = "closed"
      BY <1>3, <1>17 DEF NotificationReconnects, GoTo
    <2>2. held[c] # i
      BY <1>1, <1>3, <1>9, <2>1 DEF IInv, QueueInv, QueueConsistent, SessionsAreApart
    <2>3. Scheduled(k)' = Scheduled(k) /\ nStage'[c] \notin Ahead(k)
      BY <1>17, <2>1 DEF NotificationReconnects, Scheduled, Ahead
    <2> QED
      BY <1>10, <2>1, <2>2, <2>3
  <1>18. CASE NotificationCrashes(c)
    <2>1. nStage'[c] = "connecting" /\ nFaults' = nFaults + 1
      BY <1>3, <1>18 DEF NotificationCrashes, GoTo
    <2>2. Late(k, i)' \subseteq Late(k, i)
      BY <1>4, <2>1 DEF Late, Ahead
    <2>3. Scheduled(k)' = Scheduled(k)
      BY <1>18 DEF NotificationCrashes, Scheduled
    <2> QED
      BY <1>1, <1>7, <2>1, <2>2, <2>3, BudgetKept
  <1> QED
    BY <1>11, <1>12, <1>13, <1>14, <1>15, <1>16, <1>17, <1>18 DEF NotificationStep, NotificationFault

(* A session that breaks. *)
LEMMA BudgetLoss ==
  ASSUME RepeatsInv, IInv', UNCHANGED notificationVars, NEW c \in Consumers, LoseSession(c)
  PROVE  Budgets'
  <1> SUFFICES ASSUME NEW k \in TaskKinds, NEW i \in Slots PROVE Budget(k, i)'
    BY DEF Budgets, Slots
  <1>1. Counts /\ Counts' /\ Budget(k, i)
    BY CountsType DEF RepeatsInv, Budgets
  <1>2. /\ session \in [Consumers -> {"open", "closed"}] /\ held \in [Consumers -> Published \cup {NoSlot}]
        /\ NotificationConsumers \subseteq Consumers
    BY NotificationAssumption DEF RepeatsInv, IInv, QueueInv, QueueTypeOK
  <1>3. /\ session[c] = "open" /\ session'[c] = "closed" /\ Gone' = Gone
        /\ \A d \in Consumers \ {c} : session'[d] = session[d] /\ held'[d] = held[d]
        /\ nFaults' = nFaults /\ losses' = losses + 1 /\ nJob' = nJob /\ nStage' = nStage
        /\ Scheduled(k)' = Scheduled(k)
    BY <1>2 DEF LoseSession, Release, notificationVars, Gone, AckedSlots, Scheduled
  <1>4. nFaults' + losses' = nFaults + losses + 1
    BY <1>1, <1>3 DEF Counts
  <1>5. CASE c \in NotificationConsumers /\ nJob[c] = i /\ nStage[c] \in Ahead(k)
    <2>1. Late(k, i)' = Late(k, i) \cup {c}
      BY <1>2, <1>3, <1>5 DEF Late
    <2>2. nStage[c] \notin Behind(k)
      BY <1>5 DEF Ahead, Behind
    <2>3. Served(k, i) => Served(k, i)'
      BY <1>2, <1>3, <2>2 DEF Served
    <2> QED
      BY <1>1, <1>3, <1>4, <2>1, <2>3, BudgetKept
  <1>6. CASE ~(c \in NotificationConsumers /\ nJob[c] = i /\ nStage[c] \in Ahead(k))
    <2>1. Late(k, i)' \subseteq Late(k, i)
      BY <1>2, <1>3, <1>6 DEF Late
    <2> QED
      BY <1>1, <1>3, <1>4, <2>1, BudgetKept
  <1> QED
    BY <1>5, <1>6

(* What the step of a retraining worker does not touch. *)
LEMMA RetrainingApart ==
  ASSUME IInv, NEW c \in RetrainingConsumers, RetrainingStep(c) \/ RetrainingFault(c)
  PROVE  /\ \A d \in NotificationConsumers : held'[d] = held[d] /\ session'[d] = session[d]
         /\ Gone \subseteq Gone' /\ losses' = losses
  <1>1. /\ held \in [Consumers -> Published \cup {NoSlot}] /\ session \in [Consumers -> {"open", "closed"}]
        /\ acked \in [Consumers -> SUBSET Published]
        /\ c \notin NotificationConsumers /\ NotificationConsumers \subseteq Consumers /\ c \in Consumers
    BY NotificationAssumption, RetrainingAssumption, ConsumersAssumption DEF IInv, QueueInv, QueueTypeOK
  <1>2. CASE RetrainingAcks(c)
    <2>1. /\ held' = [held EXCEPT ![c] = NoSlot] /\ acked' = [acked EXCEPT ![c] = @ \cup {held[c]}]
          /\ UNCHANGED << session, expired, losses >>
      BY <1>2 DEF RetrainingAcks, Ack
    <2>2. \A d \in Consumers : acked[d] \subseteq acked'[d]
      BY <1>1, <2>1
    <2> QED
      BY <1>1, <2>1, <2>2 DEF Gone, AckedSlots
  <1>3. CASE ~RetrainingAcks(c)
    <2>1. /\ held' = held \/ \E x : held' = [held EXCEPT ![c] = x]
          /\ session' = session \/ \E x : session' = [session EXCEPT ![c] = x]
          /\ UNCHANGED << acked, expired, losses >>
      BY <1>3 DEF RetrainingStep, RetrainingFault, WorkerBoots, RetrainingConnects, RetrainingReceives,
          RejectEvent, SkipEvent, CountOrder, TrainingSucceeds, TrainingFails, RetrainingNacks,
          RetrainingReconnects, RetrainingCrashes, OpenSession, CloseSession, Deliver, Requeue, Release,
          queueVars
    <2> QED
      BY <1>1, <2>1 DEF Gone, AckedSlots
  <1> QED
    BY <1>2, <1>3

LEMMA NextBudgets == RepeatsInv /\ [Next]_vars => Budgets'
  <1> SUFFICES ASSUME RepeatsInv, [Next]_vars PROVE Budgets'
    OBVIOUS
  <1>1. IInv /\ IInv' /\ QueueTypeOK /\ NotificationConsumers \subseteq Consumers
    BY NextConsumers, NotificationAssumption DEF RepeatsInv, IInv, QueueInv
  <1>2. ASSUME NEW c \in Consumers, LoseSession(c), UNCHANGED notificationVars PROVE Budgets'
    BY <1>1, <1>2, BudgetLoss
  <1>3. ASSUME UNCHANGED << notificationVars, held, session, acked, losses >>, expired \subseteq expired'
        PROVE  Budgets'
    <2>1. Gone \subseteq Gone'
      BY <1>3 DEF Gone, AckedSlots
    <2> QED
      BY <1>1, <1>3, <2>1, BudgetFrame
  <1>4. ASSUME NEW i, Age(i) \/ Expire(i), UNCHANGED notificationVars PROVE Budgets'
    BY <1>3, <1>4 DEF Age, Expire
  <1>5. ASSUME NEW m \in Messages, Produce(m) PROVE Budgets'
    BY <1>3, <1>5 DEF Produce, Enqueue
  <1>6. ASSUME NEW c \in NotificationConsumers, NotificationStep(c) \/ NotificationFault(c) PROVE Budgets'
    BY <1>1, <1>6, BudgetStep
  <1>7. ASSUME NEW c \in RetrainingConsumers, RetrainingStep(c) \/ RetrainingFault(c), UNCHANGED notificationVars
        PROVE  Budgets'
    BY <1>1, <1>7, RetrainingApart, BudgetFrame
  <1>8. CASE UNCHANGED vars
    BY <1>3, <1>8 DEF vars, queueVars
  <1> QED
    BY <1>2, <1>4, <1>5, <1>6, <1>7, <1>8 DEF Next, QueueStep, WorkerStep

LEMMA NextOrders == RepeatsInv /\ [Next]_vars => OrdersOnly'
  <1> SUFFICES ASSUME RepeatsInv, [Next]_vars PROVE OrdersOnly'
    OBVIOUS
  <1>1. IInv /\ IInv' /\ OrdersOnly
    BY NextConsumers DEF RepeatsInv
  <1>2. /\ nStage \in [NotificationConsumers -> NotificationStages]
        /\ nJob \in [NotificationConsumers -> Published \cup {NoSlot}]
        /\ emails \in [Slots -> Nat] /\ texts \in [Slots -> Nat]
        /\ \A c \in NotificationConsumers : NotificationOK(c)
    BY <1>1 DEF IInv, NotificationPart, NotificationTypeOK
  <1>3. LogStays
    <2>1. log \in Seq(Messages)
      BY <1>1 DEF IInv, QueueInv, QueueTypeOK
    <2>2. log' = log \/ \E m \in Messages : log' = Append(log, m)
      <3>1. ASSUME NEW c \in NotificationConsumers, NotificationStep(c) \/ NotificationFault(c) PROVE log' = log
        BY <3>1 DEF NotificationStep, NotificationFault, NotificationConnects, NotificationReceives,
            ParseEvent, ScheduleEmail, ScheduleText, ScheduleFails, NotificationAcks, NotificationNacks,
            NotificationReconnects, NotificationCrashes, OpenSession, CloseSession, Deliver, Requeue,
            Ack, queueVars
      <3>2. ASSUME NEW c \in RetrainingConsumers, RetrainingStep(c) \/ RetrainingFault(c) PROVE log' = log
        BY <3>2 DEF RetrainingStep, RetrainingFault, WorkerBoots, RetrainingConnects, RetrainingReceives,
          RejectEvent, SkipEvent, CountOrder, TrainingSucceeds, TrainingFails, RetrainingAcks,
          RetrainingNacks, RetrainingReconnects, RetrainingCrashes, OpenSession, CloseSession, Deliver,
          Requeue, Ack, queueVars
      <3>3. CASE QueueStep
        BY <3>3 DEF QueueStep, LoseSession, Age, Expire
      <3>4. ASSUME NEW m \in Messages, Produce(m) PROVE log' = Append(log, m)
        BY <3>4 DEF Produce, Enqueue
      <3> QED
        BY <3>1, <3>2, <3>3, <3>4 DEF Next, WorkerStep, vars, queueVars
    <2> QED
      BY <2>1, <2>2 DEF LogStays, Published
  <1>4. ASSUME UNCHANGED notificationVars PROVE OrdersOnly'
    <2>1. \A c \in NotificationConsumers : nStage[c] \in {"emailing", "texting"} => nJob[c] \in Published
      BY <1>2 DEF NotificationOK, Handling
    <2> QED
      BY <1>1, <1>3, <1>4, <2>1 DEF OrdersOnly, notificationVars, LogStays, Slots
  <1>5. ASSUME NEW c \in NotificationConsumers, NotificationStep(c) \/ NotificationFault(c) PROVE OrdersOnly'
    <2> DEFINE j == nJob[c]
    <2>1. log' = log /\ Published' = Published
      BY <1>5 DEF NotificationStep, NotificationFault, NotificationConnects, NotificationReceives,
            ParseEvent, ScheduleEmail, ScheduleText, ScheduleFails, NotificationAcks, NotificationNacks,
            NotificationReconnects, NotificationCrashes, OpenSession, CloseSession, Deliver, Requeue,
            Ack, queueVars, Published
    <2>2. ASSUME NEW d \in NotificationConsumers, nStage'[d] \in {"emailing", "texting"}
          PROVE  Kind[log'[nJob'[d]]] \in OrderKinds
      <3>1. CASE d # c
        BY <1>1, <1>5, <2>1, <2>2, <3>1, NotificationApart DEF OrdersOnly
      <3>2. CASE d = c
        <4>1. ParseEvent(c) \/ ScheduleEmail(c)
          BY <1>2, <1>5, <2>2, <3>2 DEF NotificationStep, NotificationFault, NotificationConnects,
             NotificationReceives, ScheduleText, ScheduleFails, NotificationAcks, NotificationNacks,
             NotificationReconnects, NotificationCrashes, GoTo
        <4>2. CASE ParseEvent(c)
          BY <1>2, <2>1, <2>2, <3>2, <4>2 DEF ParseEvent, ParsedStage, Body, GoTo, OrderKinds
        <4>3. CASE ScheduleEmail(c)
          BY <1>1, <2>1, <3>2, <4>3 DEF ScheduleEmail, OrdersOnly
        <4> QED
          BY <4>1, <4>2, <4>3
      <3> QED
        BY <3>1, <3>2
    <2>3. ASSUME NEW i \in Slots, texts'[i] > 0
          PROVE  i \in Published /\ emails'[i] > 0 /\ Kind[log[i]] \in OrderKinds
      <3>1. emails'[i] >= emails[i]
        <4>1. emails' = emails \/ emails' = [emails EXCEPT ![j] = @ + 1]
          BY <1>5 DEF NotificationStep, NotificationFault, NotificationConnects, NotificationReceives,
            ParseEvent, ScheduleEmail, ScheduleText, ScheduleFails, NotificationAcks, NotificationNacks,
            NotificationReconnects, NotificationCrashes
        <4> QED
          BY <1>2, <4>1
      <3>2. texts' = texts \/ (nStage[c] = "texting" /\ texts' = [texts EXCEPT ![j] = @ + 1])
        BY <1>5 DEF NotificationStep, NotificationFault, NotificationConnects, NotificationReceives,
            ParseEvent, ScheduleEmail, ScheduleText, ScheduleFails, NotificationAcks, NotificationNacks,
            NotificationReconnects, NotificationCrashes
      <3>3. emails[i] \in Nat /\ emails'[i] \in Nat
        BY <1>1, <1>2 DEF IInv, NotificationPart, NotificationTypeOK, Slots
      <3>4. CASE texts[i] > 0
        BY <1>1, <3>1, <3>3, <3>4 DEF OrdersOnly
      <3>5. CASE ~(texts[i] > 0)
        <4>1. nStage[c] = "texting" /\ i = j
          BY <1>2, <2>3, <3>2, <3>5
        <4>2. j \in Published /\ emails[j] > 0 /\ Kind[log[j]] \in OrderKinds
          BY <1>1, <1>2, <4>1 DEF NotificationOK, Handling, OrdersOnly
        <4> QED
          BY <3>1, <3>3, <4>1, <4>2
      <3> QED
        BY <3>4, <3>5
    <2> QED
      BY <2>1, <2>2, <2>3 DEF OrdersOnly, Slots
  <1> QED
    BY <1>4, <1>5 DEF Next, QueueStep, WorkerStep, Produce, vars

LEMMA InitRepeats == Init => RepeatsInv
  <1> SUFFICES ASSUME Init PROVE RepeatsInv
    OBVIOUS
  <1>1. IInv
    BY InitConsumers
  <1>2. OrdersOnly
    BY DEF Init, NotificationInit, OrdersOnly
  <1>3. ASSUME NEW k \in TaskKinds, NEW i \in Slots PROVE Budget(k, i)
    <2>1. Late(k, i) = {}
      BY DEF Init, NotificationInit, Late, Ahead
    <2>2. Scheduled(k)[i] = 0 /\ nFaults = 0 /\ losses = 0
      BY DEF Init, QueueInit, NotificationInit, Scheduled
    <2> QED
      BY <2>1, <2>2, FS_EmptySet DEF Budget
  <1> QED
    BY <1>1, <1>2, <1>3 DEF RepeatsInv, Budgets

LEMMA RepeatsInduction == RepeatsInv /\ [Next]_vars => RepeatsInv'
  BY NextConsumers, NextOrders, NextBudgets DEF RepeatsInv

LEMMA RepeatsState == RepeatsInv => RepeatsNeedFaults
  <1> SUFFICES ASSUME RepeatsInv, NEW i \in Slots
               PROVE  /\ emails[i] <= 1 + nFaults + losses
                      /\ texts[i] <= 1 + nFaults + losses
                      /\ texts[i] > 0 => emails[i] > 0 /\ Kind[log[i]] \in OrderKinds
    BY DEF RepeatsNeedFaults, OrderKinds
  <1>1. Counts
    BY CountsType DEF RepeatsInv
  <1>2. ASSUME NEW k \in TaskKinds PROVE Scheduled(k)[i] <= 1 + nFaults + losses
    <2>1. Budget(k, i)
      BY DEF RepeatsInv, Budgets
    <2>2. Cardinality(Late(k, i)) \in Nat
      BY <2>1, FS_CardinalityType DEF Budget
    <2>3. Scheduled(k)[i] \in Nat /\ nFaults \in Nat /\ losses \in Nat
      BY <1>1 DEF Counts
    <2> QED
      BY <2>1, <2>2, <2>3 DEF Budget
  <1> QED
    BY <1>2 DEF RepeatsInv, OrdersOnly, Scheduled, TaskKinds

(* An order's customer is mailed and texted once, and once more for each crash,
   failed publish and lost session at most, for any number of workers that
   compete for the queue. *)
THEOREM RepeatsPaidFor == Spec => []RepeatsNeedFaults
  BY InitRepeats, RepeatsInduction, RepeatsState, PTL DEF Spec
=============================================================================
