---------------------------- MODULE CatalogProofs ----------------------------
(***************************************************************************)
(* Proofs about Catalog for any requests, categories, initial collections, *)
(* faults and restarts.                                                    *)
(***************************************************************************)
EXTENDS Catalog, SequenceTheorems, TLAPS

Writers(p) == ToSet(writes[p])

(* What each goroutine is there for, and that it answers once, at its end. *)
HandlerInv ==
    \A r \in Requests :
      /\ pc[r] = "idle" => input[r] = NoInput
      /\ pc[r] = "checking" => Op(r) \in {"create", "update"}
      /\ pc[r] = "reading" => Op(r) = "update"
      /\ pc[r] \in {"looking", "deleting"} => Op(r) = "delete"
      /\ pc[r] = "adding" => Op(r) = "category"
      /\ answer[r] # 0 => pc[r] = "done"

(* The categories of a request are there once they have been looked up. *)
CheckedInv ==
    \A r \in Requests :
      /\ pc[r] = "checking" => ToSet(input[r].list) \subseteq categories \cup ToSet(unchecked[r])
      /\ pc[r] = "reading" => ToSet(input[r].list) \subseteq categories

(* Who is before its write, or was refused, has written nothing. *)
NotYet(r) ==
    pc[r] \in {"idle", "checking", "looking", "deleting", "adding"} \/ answer[r] \in {400, 404}

WritersInv ==
    \A r \in Requests : NotYet(r) => \A p \in DOMAIN products : r \notin Writers(p)

(* Nobody has written twice. *)
OnceInv ==
    \A p, q \in DOMAIN products : \A i \in DOMAIN writes[p], j \in DOMAIN writes[q] :
        writes[p][i] = writes[q][j] => p = q /\ i = j

(* What is stored is the last writer's. *)
StoredInv ==
    \A p \in DOMAIN products :
        Exists(p) => products[p] = IF writes[p] = << >> THEN InitialProducts[p]
                                   ELSE Asked(Last(writes[p]))

(* An update that reads its product back has written it. *)
ReadingInv ==
    \A r \in Requests : pc[r] = "reading" =>
        Target(r) \in DOMAIN products /\ r \in Writers(Target(r))

(* Nobody has removed a product that is there. *)
PresentInv == \A p \in DOMAIN products : Exists(p) => deleters[p] = {}

(* What was removed by the request that says so stays away. *)
DeletersInv ==
    \A r \in Requests : Op(r) = "delete" /\ answer[r] = 200 =>
        /\ Target(r) \in DOMAIN products /\ products[Target(r)] = Gone
        /\ deleters[Target(r)] = {r}

(* An update that was answered had written, at position i, and the answer is
   what the write at position j stored. *)
ShowsWrite(r, i, j) ==
    /\ i \in DOMAIN writes[Target(r)] /\ j \in DOMAIN writes[Target(r)] /\ i <= j
    /\ writes[Target(r)][i] = r
    /\ shown[r].details = input[writes[Target(r)][j]].details

ShownInv ==
    \A r \in Requests : Op(r) = "update" /\ answer[r] = 200 =>
        Target(r) \in DOMAIN products /\ \E i, j \in Nat : ShowsWrite(r, i, j)

IInv ==
    /\ TypeOK /\ HandlerInv /\ CheckedInv /\ ProductsHaveCategories
    /\ WritersInv /\ OnceInv /\ StoredInv /\ ReadingInv /\ PresentInv
    /\ DeletersInv /\ ShownInv
-----------------------------------------------------------------------------
LEMMA GoneIsNoProduct == Gone \notin Products
  BY DEF Gone, Products

(* Lists are sequences, and so is what is left of one. *)
LEMMA ListType ==
  ASSUME NEW l \in Lists
  PROVE  /\ l \in Seq(CategoryIds \cup {NotAnId})
         /\ l # << >> => Tail(l) \in Lists
         /\ l # << >> => ToSet(l) = {Head(l)} \cup ToSet(Tail(l))
  <1>1. PICK n \in 0..MaxListed : l \in [1..n -> CategoryIds \cup {NotAnId}]
    BY DEF Lists
  <1>2. n \in Nat /\ l \in Seq(CategoryIds \cup {NotAnId}) /\ Len(l) = n
    BY <1>1, CatalogAssumption
  <1>3. ASSUME l # << >> PROVE Tail(l) \in Lists
    <2>1. n # 0
      BY <1>2, <1>3
    <2>2. Tail(l) \in [1..(n - 1) -> CategoryIds \cup {NotAnId}] /\ n - 1 \in 0..MaxListed
      <3>1. Tail(l) \in Seq(CategoryIds \cup {NotAnId}) /\ Len(Tail(l)) = n - 1
        BY <1>2, <1>3, HeadTailProperties
      <3>2. Tail(l) \in [1..(n - 1) -> CategoryIds \cup {NotAnId}]
        BY <3>1, LenProperties
      <3>3. n - 1 \in 0..MaxListed
        BY <1>2, <2>1, CatalogAssumption
      <3> QED
        BY <3>2, <3>3
    <2> QED
      BY <2>2 DEF Lists
  <1>4. ASSUME l # << >> PROVE ToSet(l) = {Head(l)} \cup ToSet(Tail(l))
    <2>1. /\ Len(Tail(l)) = Len(l) - 1 /\ DOMAIN Tail(l) = 1..(Len(l) - 1)
          /\ \A i \in 1..(Len(l) - 1) : Tail(l)[i] = l[i + 1]
      BY <1>2, <1>4
    <2>2. \A i \in 1..Len(l) : i = 1 \/ (i - 1 \in 1..(Len(l) - 1) /\ Tail(l)[i - 1] = l[i])
      BY <1>2, <2>1
    <2>3. ToSet(l) \subseteq {Head(l)} \cup ToSet(Tail(l))
      <3> SUFFICES ASSUME NEW i \in 1..Len(l) PROVE l[i] \in {Head(l)} \cup ToSet(Tail(l))
        BY <1>2 DEF ToSet
      <3>1. CASE i = 1
        BY <3>1, <1>4
      <3>2. CASE i # 1
        BY <3>2, <2>1, <2>2 DEF ToSet
      <3> QED
        BY <3>1, <3>2
    <2>4. {Head(l)} \cup ToSet(Tail(l)) \subseteq ToSet(l)
      BY <1>2, <1>4, <2>1 DEF ToSet
    <2> QED
      BY <2>3, <2>4
  <1> QED
    BY <1>2, <1>3, <1>4

(* A list of categories that are there can be stored. *)
LEMMA ListStorable ==
  ASSUME NEW l \in Lists, ToSet(l) \subseteq CategoryIds
  PROVE  l \in Seq(CategoryIds)
  <1>1. l \in Seq(CategoryIds \cup {NotAnId})
    BY ListType
  <1>2. \A i \in 1..Len(l) : l[i] \in CategoryIds
    BY <1>1 DEF ToSet
  <1> QED
    BY <1>1, <1>2, SeqMonotonic

LEMMA InputShape ==
  ASSUME TypeOK, NEW r \in Requests
  PROVE  /\ Op(r) \in {"create", "update"} => input[r].details \in Details /\ input[r].list \in Lists
         /\ Op(r) \in {"update", "delete"} => Target(r) \in Targets
  BY DEF TypeOK, Inputs, NoInput, Op, Target
-----------------------------------------------------------------------------
(* What a step of r does to the collections and their histories. *)
CollectionsStep(r) ==
    \/ UNCHANGED << products, writes, deleters >>
    \/ Checked(r) /\ Op(r) = "create" /\ Insert(r)
    \/ Checked(r) /\ Op(r) = "update" /\ Overwrite(r) /\ UNCHANGED deleters
    \/ pc[r] = "deleting" /\ Delete(r) /\ UNCHANGED writes

(* The two steps after which the handler goes on without having written ... *)
GoesOn(r) ==
    /\ UNCHANGED << products, writes, deleters, shown, answer >>
    /\ \/ /\ pc'[r] = "checking" /\ pc[r] = "checking"
          /\ unchecked[r] # << >> /\ Head(unchecked[r]) \in categories
          /\ unchecked' = [unchecked EXCEPT ![r] = Tail(@)]
       \/ pc'[r] = "deleting" /\ pc[r] = "looking" /\ unchecked' = unchecked

(* ... the one before it reads back ... *)
Rereads(r) ==
    /\ Checked(r) /\ Op(r) = "update" /\ Overwrite(r)
    /\ pc'[r] = "reading"
    /\ UNCHANGED << deleters, unchecked, shown, answer >>

(* ... and those that answer. *)
Answers(r) ==
    /\ pc'[r] = "done" /\ answer'[r] \in {200, 201, 400, 404, 500}
    /\ answer'[r] \in {400, 404} =>
         pc[r] \in {"checking", "looking"} /\ UNCHANGED << products, writes, deleters >>
    /\ answer'[r] = 200 => pc[r] = "reading" \/ (pc[r] = "deleting" /\ Delete(r))
    /\ unchecked' = unchecked
    /\ \/ shown' = shown /\ (pc[r] = "reading" => answer'[r] # 200)
       \/ /\ pc[r] = "reading" /\ Exists(Target(r))
          /\ UNCHANGED << products, writes, deleters >>
          /\ shown' = [shown EXCEPT ![r] =
               [details |-> products[Target(r)].details, categories |-> input[r].list]]

(* A step of r after its first one: it concerns r's own state only, apart from
   the collections. *)
OwnStep(r) ==
    /\ pc[r] \in InFlight
    /\ CollectionsStep(r)
    /\ categories \subseteq categories' /\ categories' \subseteq CategoryIds
    /\ input' = input
    /\ pc' = [pc EXCEPT ![r] = pc'[r]] /\ answer' = [answer EXCEPT ![r] = answer'[r]]
    /\ GoesOn(r) \/ Rereads(r) \/ Answers(r)

LEMMA HandleCases ==
  ASSUME IInv, NEW r \in Requests, Handle(r)
  PROVE  Arrive(r) \/ OwnStep(r)
  <1>t. /\ pc \in [Requests -> {"idle", "done", "broken"} \cup InFlight]
        /\ answer \in [Requests -> {0, 200, 201, 400, 404, 500}]
        /\ categories \subseteq CategoryIds
        /\ pc[r] \in InFlight => answer[r] = 0
    BY DEF IInv, TypeOK, HandlerInv, InFlight
  <1> USE DEF OwnStep, CollectionsStep, InFlight, GoTo, Respond, collections
  <1>1. CASE CheckCategory(r)
    BY <1>1, <1>t DEF CheckCategory, CategoryAccepted, GoesOn, Answers
  <1>2. CASE LookFails(r)
    BY <1>2, <1>t DEF LookFails, Answers
  <1>3. CASE InsertProduct(r) \/ InsertFails(r)
    BY <1>3, <1>t DEF InsertProduct, InsertFails, Checked, Answers
  <1>4. CASE UpdateProduct(r)
    BY <1>4, <1>t DEF UpdateProduct, Checked, Answers, Rereads, Overwrite
  <1>5. CASE UpdateFails(r)
    BY <1>5, <1>t DEF UpdateFails, Checked, Answers, Overwrite
  <1>6. CASE ReadBack(r)
    BY <1>6, <1>t DEF ReadBack, Answers
  <1>7. CASE DeleteLooks(r)
    BY <1>7, <1>t DEF DeleteLooks, GoesOn, Answers
  <1>8. CASE DeleteProduct(r)
    BY <1>8, <1>t DEF DeleteProduct, DeleteMissed, Answers
  <1>9. CASE DeleteFails(r)
    BY <1>9, <1>t DEF DeleteFails, Answers
  <1>10. CASE AddCategory(r) \/ AddFails(r)
    BY <1>10, <1>t DEF AddCategory, AddFails, Answers
  <1> QED
    BY <1>1, <1>2, <1>3, <1>4, <1>5, <1>6, <1>7, <1>8, <1>9, <1>10 DEF Handle
-----------------------------------------------------------------------------
(* What has been checked can be stored. *)
LEMMA CheckedStorable ==
  ASSUME IInv, NEW r \in Requests, Checked(r) \/ pc[r] = "reading"
  PROVE  /\ ToSet(input[r].list) \subseteq categories
         /\ input[r].list \in Seq(CategoryIds)
         /\ Asked(r) \in Products /\ Asked(r) # Gone
  <1>1. input[r].details \in Details /\ input[r].list \in Lists
    BY InputShape DEF IInv, HandlerInv, Checked
  <1>2. ToSet(input[r].list) \subseteq categories /\ categories \subseteq CategoryIds
    BY DEF IInv, CheckedInv, Checked, ToSet, TypeOK
  <1>3. input[r].list \in Seq(CategoryIds)
    BY <1>1, <1>2, ListStorable
  <1> QED
    BY <1>1, <1>2, <1>3, GoneIsNoProduct DEF Asked, Products

(* The collections keep their types and never get shorter. *)
LEMMA CollectionsType ==
  ASSUME IInv, NEW r \in Requests, CollectionsStep(r)
  PROVE  /\ products' \in Seq(Products \cup {Gone}) /\ Len(products') \in Nat
         /\ Len(writes') = Len(products') /\ writes' \in Seq(Seq(Requests))
         /\ Len(deleters') = Len(products') /\ deleters' \in Seq(SUBSET Requests)
         /\ Len(products') >= Len(products)
  <1> USE DEF IInv, TypeOK
  <1>1. CASE UNCHANGED << products, writes, deleters >>
    BY <1>1
  <1>2. CASE Checked(r) /\ Insert(r)
    BY <1>2, CheckedStorable DEF Insert
  <1>3. CASE Checked(r) /\ Overwrite(r) /\ UNCHANGED deleters
    <2>1. Target(r) \in 1..Len(products)
      BY <1>3 DEF Overwrite, Exists
    <2>2. products' \in Seq(Products \cup {Gone}) /\ Len(products') = Len(products)
      <3>1. products' = [products EXCEPT ![Target(r)] = Asked(r)]
        BY <1>3 DEF Overwrite
      <3>2. Asked(r) \in Products \cup {Gone}
        BY <1>3, CheckedStorable
      <3> QED
        BY <2>1, <3>1, <3>2, ExceptSeq
    <2>3. Append(writes[Target(r)], r) \in Seq(Requests)
      BY <2>1
    <2>4. writes' \in Seq(Seq(Requests)) /\ Len(writes') = Len(writes)
      BY <1>3, <2>1, <2>3, ExceptSeq DEF Overwrite
    <2> QED
      BY <1>3, <2>2, <2>4
  <1>4. CASE Delete(r) /\ UNCHANGED writes
    <2>1. Target(r) \in 1..Len(products)
      BY <1>4 DEF Delete, Exists
    <2>2. products' \in Seq(Products \cup {Gone}) /\ Len(products') = Len(products)
      <3>1. Gone \in Products \cup {Gone}
        OBVIOUS
      <3>2. products' = [products EXCEPT ![Target(r)] = Gone]
        BY <1>4 DEF Delete
      <3> QED
        BY <2>1, <3>1, <3>2, ExceptSeq
    <2>3. deleters[Target(r)] \cup {r} \in SUBSET Requests
      BY <2>1
    <2>4. deleters' \in Seq(SUBSET Requests) /\ Len(deleters') = Len(deleters)
      BY <1>4, <2>1, <2>3, ExceptSeq DEF Delete
    <2> QED
      BY <1>4, <2>2, <2>4
  <1> QED
    BY <1>1, <1>2, <1>3, <1>4 DEF CollectionsStep, Checked
LEMMA TargetsGrow ==
  ASSUME Len(products) \in Nat, Len(products') \in Nat, Len(products') >= Len(products)
  PROVE  Targets \subseteq Targets' /\ Inputs \subseteq Inputs'
  <1>1. Targets \subseteq Targets'
    BY DEF Targets
  <1> QED
    BY <1>1 DEF Inputs

(* What r's own step leaves in the variables that only r uses. *)
LEMMA OwnTypes ==
  ASSUME IInv, NEW r \in Requests, Handle(r)
  PROVE  /\ unchecked' \in [Requests -> Lists]
         /\ shown' \in [Requests -> Products \cup {Gone}]
         /\ faults' \in 0..MaxFaults /\ restarts' = restarts
  <1>t. /\ unchecked \in [Requests -> Lists] /\ shown \in [Requests -> Products \cup {Gone}]
        /\ faults \in 0..MaxFaults /\ MaxFaults \in Nat
    BY CatalogAssumption DEF IInv, TypeOK
  <1>0. << >> \in Lists
    <2>1. << >> \in [1..0 -> CategoryIds \cup {NotAnId}]
      OBVIOUS
    <2>2. 0 \in 0..MaxListed
      BY CatalogAssumption
    <2> QED
      BY <2>1, <2>2 DEF Lists
  <1>1. CASE Arrive(r)
    <2>1. UNCHANGED << shown, faults, restarts >>
      BY <1>1 DEF Arrive
    <2>2. \/ unchecked' = unchecked
          \/ \E in \in Inputs : /\ unchecked' = [unchecked EXCEPT ![r] =
                                    IF in.op \in {"create", "update"} THEN in.list ELSE << >>]
      BY <1>1 DEF Arrive
    <2>3. \A in \in Inputs : in.op \in {"create", "update"} => in.list \in Lists
      BY DEF Inputs
    <2>4. unchecked' = unchecked \/ \E l \in Lists : unchecked' = [unchecked EXCEPT ![r] = l]
      BY <1>0, <2>2, <2>3
    <2>5. unchecked' \in [Requests -> Lists]
      BY <1>t, <2>4
    <2> QED
      BY <1>t, <2>1, <2>5
  <1>2. CASE CheckCategory(r)
    <2>1. UNCHANGED << shown, faults, restarts >>
      BY <1>2 DEF CheckCategory
    <2>2. unchecked[r] # << >> => Tail(unchecked[r]) \in Lists
      BY <1>t, ListType
    <2>3. unchecked' = unchecked \/ \E l \in Lists : unchecked' = [unchecked EXCEPT ![r] = l]
      BY <1>2, <2>2 DEF CheckCategory
    <2> QED
      BY <1>t, <2>1, <2>3
  <1>3. CASE ReadBack(r)
    <2>1. ASSUME Exists(Target(r)) PROVE products[Target(r)] \in Products
      BY <2>1 DEF Exists, IInv, TypeOK
    <2>2. ASSUME Exists(Target(r))
          PROVE  [details |-> products[Target(r)].details, categories |-> input[r].list] \in Products
      BY <1>3, <2>1, <2>2, CheckedStorable DEF Products, ReadBack
    <2>3. \/ shown' = shown
          \/ /\ Exists(Target(r))
             /\ shown' = [shown EXCEPT ![r] =
                  [details |-> products[Target(r)].details, categories |-> input[r].list]]
      BY <1>3 DEF ReadBack
    <2>4. UNCHANGED << unchecked, faults, restarts >>
      BY <1>3 DEF ReadBack
    <2>5. shown' = shown \/ \E e \in Products : shown' = [shown EXCEPT ![r] = e]
      BY <2>2, <2>3
    <2>6. shown' \in [Requests -> Products \cup {Gone}]
      BY <1>t, <2>5
    <2> QED
      BY <1>t, <2>4, <2>6
  <1>4. CASE LookFails(r) \/ InsertProduct(r) \/ InsertFails(r) \/ UpdateProduct(r) \/ UpdateFails(r)
    BY <1>4, <1>t
    DEF LookFails, InsertProduct, InsertFails, UpdateProduct, UpdateFails, Fault
  <1>5. CASE DeleteLooks(r) \/ DeleteProduct(r) \/ DeleteFails(r) \/ AddCategory(r) \/ AddFails(r)
    BY <1>5, <1>t
    DEF DeleteLooks, DeleteProduct, DeleteFails, AddCategory, AddFails, Fault
  <1> QED
    BY <1>1, <1>2, <1>3, <1>4, <1>5 DEF Handle

(* Arrive in the form of its two outcomes. *)
LEMMA ArriveCases ==
  ASSUME IInv, NEW r \in Requests, Arrive(r)
  PROVE  /\ pc[r] = "idle" /\ UNCHANGED << products, categories, writes, deleters, shown >>
         /\ input' = [input EXCEPT ![r] = input'[r]] /\ input'[r] \in Inputs
         /\ pc' = [pc EXCEPT ![r] = pc'[r]] /\ answer' = [answer EXCEPT ![r] = answer'[r]]
         /\ unchecked' = [unchecked EXCEPT ![r] = unchecked'[r]]
         /\ \/ pc'[r] = "done" /\ answer'[r] = 400
            \/ /\ answer'[r] = answer[r]
               /\ input'[r].op # "malformed"
               /\ pc'[r] = FirstStage(input'[r])
               /\ input'[r].op \in {"create", "update"} => unchecked'[r] = input'[r].list
  BY DEF Arrive, BadRequest, Respond, GoTo, collections, IInv, TypeOK

LEMMA StageType ==
  ASSUME NEW in, in.op \in {"create", "update", "delete", "category"}
  PROVE  /\ FirstStage(in) \in {"checking", "looking", "adding"}
         /\ FirstStage(in) = "checking" <=> in.op \in {"create", "update"}
         /\ FirstStage(in) = "looking" <=> in.op = "delete"
         /\ FirstStage(in) = "adding" <=> in.op = "category"
  BY DEF FirstStage
LEMMA NextType == IInv /\ [Next]_vars => TypeOK'
  <1> SUFFICES ASSUME IInv, [Next]_vars PROVE TypeOK'
    OBVIOUS
  <1>t. /\ pc \in [Requests -> {"idle", "done", "broken"} \cup InFlight]
        /\ answer \in [Requests -> {0, 200, 201, 400, 404, 500}]
        /\ input \in [Requests -> Inputs \cup {NoInput}]
        /\ restarts \in 0..MaxRestarts /\ MaxRestarts \in Nat
    BY CatalogAssumption DEF IInv, TypeOK
  <1>1. ASSUME NEW r \in Requests, Arrive(r) PROVE TypeOK'
    <2>1. UNCHANGED << products, categories, writes, deleters >> /\ Targets' = Targets
      BY <1>1, ArriveCases DEF Targets
    <2>2. Inputs' = Inputs
      BY <2>1 DEF Inputs
    <2>3. input'[r] \in Inputs /\ input' = [input EXCEPT ![r] = input'[r]]
      BY <1>1, ArriveCases
    <2>4. pc'[r] \in {"done"} \cup InFlight
      <3>1. \A in \in Inputs : in.op # "malformed" => in.op \in {"create", "update", "delete", "category"}
        BY DEF Inputs
      <3> QED
        BY <1>1, <2>3, <3>1, ArriveCases, StageType DEF InFlight
    <2>5. pc' \in [Requests -> {"idle", "done", "broken"} \cup InFlight]
      BY <1>1, <1>t, <2>4, ArriveCases
    <2>6. answer' \in [Requests -> {0, 200, 201, 400, 404, 500}]
      <3>1. answer'[r] \in {0, 200, 201, 400, 404, 500} /\ answer' = [answer EXCEPT ![r] = answer'[r]]
        BY <1>1, <1>t, ArriveCases
      <3> QED
        BY <1>t, <3>1
    <2>7. input' \in [Requests -> Inputs \cup {NoInput}]'
      BY <1>t, <2>2, <2>3 DEF NoInput
    <2> QED
      BY <1>1, <2>1, <2>5, <2>6, <2>7, OwnTypes DEF Handle, IInv, TypeOK
  <1>2. ASSUME NEW r \in Requests, Handle(r), OwnStep(r) PROVE TypeOK'
    <2>1. pc' \in [Requests -> {"idle", "done", "broken"} \cup InFlight]
      BY <1>2, <1>t DEF OwnStep, GoesOn, Rereads, Answers, InFlight
    <2>2. answer' \in [Requests -> {0, 200, 201, 400, 404, 500}]
      BY <1>2, <1>t DEF OwnStep, GoesOn, Rereads, Answers
    <2>3. CollectionsStep(r)
      BY <1>2 DEF OwnStep
    <2>4. Len(products) \in Nat
      BY DEF IInv, TypeOK
    <2>5. input' \in [Requests -> Inputs \cup {NoInput}]'
      BY <1>2, <2>3, <2>4, <1>t, CollectionsType, TargetsGrow DEF OwnStep, NoInput
    <2> QED
      BY <1>2, <1>t, <2>1, <2>2, <2>3, <2>5, CollectionsType, OwnTypes DEF OwnStep, TypeOK
  <1>3. CASE Restart
    <2>1. pc' \in [Requests -> {"idle", "done", "broken"} \cup InFlight]
      BY <1>3, <1>t DEF Restart
    <2>2. restarts' \in 0..MaxRestarts
      BY <1>3, <1>t DEF Restart
    <2> QED
      BY <1>3, <2>1, <2>2 DEF Restart, collections, IInv, TypeOK, Inputs, Targets
  <1>4. CASE UNCHANGED vars
    BY <1>4 DEF vars, IInv, TypeOK, Inputs, Targets
  <1> QED
    BY <1>1, <1>2, <1>3, <1>4, HandleCases DEF Next
-----------------------------------------------------------------------------
(* Restart and stuttering leave the collections and what is known of them. *)
Quiet ==
    /\ UNCHANGED << products, categories, writes, deleters, input, unchecked, answer, shown >>
    /\ \/ pc' = pc
       \/ pc' = [r \in Requests |-> IF pc[r] \in InFlight THEN "broken" ELSE pc[r]]

LEMMA NextCases ==
  ASSUME IInv, [Next]_vars
  PROVE  Quiet \/ \E r \in Requests : Arrive(r) \/ OwnStep(r)
  BY HandleCases DEF Next, Quiet, Restart, collections, vars

LEMMA NextHandler == IInv /\ [Next]_vars => HandlerInv'
  <1> SUFFICES ASSUME IInv, [Next]_vars PROVE HandlerInv'
    OBVIOUS
  <1>t. /\ pc \in [Requests -> {"idle", "done", "broken"} \cup InFlight]
        /\ answer \in [Requests -> {0, 200, 201, 400, 404, 500}]
        /\ input \in [Requests -> Inputs \cup {NoInput}] /\ HandlerInv
    BY DEF IInv, TypeOK
  <1>1. ASSUME NEW r \in Requests, Arrive(r) PROVE HandlerInv'
    <2>1. input'[r] \in Inputs /\ (input'[r].op # "malformed" =>
             input'[r].op \in {"create", "update", "delete", "category"})
      BY <1>1, ArriveCases DEF Inputs
    <2>2. \A q \in Requests \ {r} : pc'[q] = pc[q] /\ answer'[q] = answer[q] /\ input'[q] = input[q]
      BY <1>1, <1>t, ArriveCases
    <2>3. \/ pc'[r] = "done" 
          \/ answer'[r] = 0 /\ input'[r].op # "malformed" /\ pc'[r] = FirstStage(input'[r])
      BY <1>1, <1>t, ArriveCases DEF HandlerInv
    <2> QED
      BY <1>t, <2>1, <2>2, <2>3, StageType DEF HandlerInv, Op
  <1>2. ASSUME NEW r \in Requests, OwnStep(r) PROVE HandlerInv'
    <2>1. input' = input /\ \A q \in Requests \ {r} : pc'[q] = pc[q] /\ answer'[q] = answer[q]
      BY <1>2, <1>t DEF OwnStep
    <2>2. /\ pc'[r] \in {"checking", "deleting", "reading"} => answer'[r] = 0
          /\ pc'[r] \in {"checking", "deleting", "reading", "done"}
          /\ pc'[r] = "checking" => pc[r] = "checking"
          /\ pc'[r] = "deleting" => pc[r] = "looking"
          /\ pc'[r] = "reading" => Op(r) = "update"
      BY <1>2, <1>t DEF OwnStep, GoesOn, Rereads, Answers, HandlerInv, InFlight
    <2> QED
      BY <1>t, <2>1, <2>2 DEF HandlerInv, Op
  <1>3. CASE Quiet
    BY <1>3, <1>t DEF Quiet, HandlerInv, Op, InFlight
  <1> QED
    BY <1>1, <1>2, <1>3, NextCases

LEMMA NextChecked == IInv /\ [Next]_vars => CheckedInv'
  <1> SUFFICES ASSUME IInv, [Next]_vars PROVE CheckedInv'
    OBVIOUS
  <1>t. /\ pc \in [Requests -> {"idle", "done", "broken"} \cup InFlight]
        /\ input \in [Requests -> Inputs \cup {NoInput}]
        /\ unchecked \in [Requests -> Lists] /\ CheckedInv
    BY DEF IInv, TypeOK
  <1>1. ASSUME NEW r \in Requests, Arrive(r) PROVE CheckedInv'
    <2>1. input'[r] \in Inputs /\ (input'[r].op # "malformed" =>
             input'[r].op \in {"create", "update", "delete", "category"})
      BY <1>1, ArriveCases DEF Inputs
    <2>2. /\ \A q \in Requests \ {r} :
                pc'[q] = pc[q] /\ unchecked'[q] = unchecked[q] /\ input'[q] = input[q]
          /\ categories' = categories
      BY <1>1, <1>t, ArriveCases
    <2>3. pc'[r] = "checking" => unchecked'[r] = input'[r].list
      BY <1>1, <1>t, <2>1, ArriveCases, StageType
    <2>4. pc'[r] # "reading"
      BY <1>1, <1>t, <2>1, ArriveCases, StageType
    <2> QED
      BY <1>t, <2>2, <2>3, <2>4 DEF CheckedInv
  <1>2. ASSUME NEW r \in Requests, OwnStep(r) PROVE CheckedInv'
    <2>1. \A q \in Requests \ {r} : pc'[q] = pc[q] /\ unchecked'[q] = unchecked[q]
      BY <1>2, <1>t DEF OwnStep, GoesOn, Rereads, Answers
    <2>2. input' = input /\ categories \subseteq categories'
      BY <1>2 DEF OwnStep
    <2>3. ASSUME pc'[r] = "checking"
          PROVE  ToSet(input[r].list) \subseteq categories \cup ToSet(unchecked'[r])
      <3>1. /\ pc[r] = "checking" /\ unchecked[r] # << >> /\ Head(unchecked[r]) \in categories
            /\ unchecked'[r] = Tail(unchecked[r])
        BY <1>2, <1>t, <2>3 DEF OwnStep, GoesOn, Rereads, Answers
      <3>2. ToSet(unchecked[r]) = {Head(unchecked[r])} \cup ToSet(Tail(unchecked[r]))
        BY <1>t, <3>1, ListType
      <3> QED
        BY <1>t, <3>1, <3>2 DEF CheckedInv
    <2>4. ASSUME pc'[r] = "reading" PROVE ToSet(input[r].list) \subseteq categories
      BY <1>2, <2>4, CheckedStorable DEF OwnStep, GoesOn, Rereads, Answers
    <2> QED
      BY <1>t, <2>1, <2>2, <2>3, <2>4 DEF CheckedInv
  <1>3. CASE Quiet
    BY <1>3, <1>t DEF Quiet, CheckedInv, InFlight
  <1> QED
    BY <1>1, <1>2, <1>3, NextCases
-----------------------------------------------------------------------------
(* What a write of r leaves at its position t. *)
WroteAt(r, t) ==
    /\ DOMAIN products' = DOMAIN products \cup {t}
    /\ DOMAIN writes' = DOMAIN products' /\ DOMAIN deleters' = DOMAIN products'
    /\ \A p \in DOMAIN products \ {t} :
         products'[p] = products[p] /\ writes'[p] = writes[p] /\ deleters'[p] = deleters[p]
    /\ products'[t] = Asked(r) /\ Asked(r) \in Products /\ deleters'[t] = {}
    /\ Len(writes'[t]) \in DOMAIN writes'[t] /\ Last(writes'[t]) = r
    /\ \A i \in DOMAIN writes'[t] :
         \/ i = Len(writes'[t])
         \/ t \in DOMAIN products /\ i \in DOMAIN writes[t] /\ writes'[t][i] = writes[t][i]
    /\ t \in DOMAIN products =>
         /\ Exists(t)
         /\ \A i \in DOMAIN writes[t] :
              /\ i \in DOMAIN writes'[t] /\ i <= Len(writes'[t])
              /\ writes'[t][i] = writes[t][i]

(* What a removal by r leaves. *)
RemovedAt(r, t) ==
    /\ t \in DOMAIN products /\ Exists(t)
    /\ DOMAIN products' = DOMAIN products /\ writes' = writes
    /\ DOMAIN deleters' = DOMAIN deleters
    /\ \A p \in DOMAIN products \ {t} :
         products'[p] = products[p] /\ deleters'[p] = deleters[p]
    /\ products'[t] = Gone /\ deleters'[t] = {r}

LEMMA CollectionsEffect ==
  ASSUME IInv, NEW r \in Requests, CollectionsStep(r)
  PROVE  \/ UNCHANGED << products, writes, deleters >>
         \/ /\ Checked(r) /\ Op(r) \in {"create", "update"}
            /\ \E t \in Nat : WroteAt(r, t) /\ (Op(r) = "update" => t = Target(r))
         \/ pc[r] = "deleting" /\ RemovedAt(r, Target(r))
  <1>t. /\ products \in Seq(Products \cup {Gone})
        /\ Len(writes) = Len(products) /\ writes \in Seq(Seq(Requests))
        /\ Len(deleters) = Len(products) /\ deleters \in Seq(SUBSET Requests)
        /\ PresentInv
    BY DEF IInv, TypeOK
  <1>1. ASSUME Checked(r), Insert(r) PROVE WroteAt(r, Len(products) + 1)
    <2>1. Asked(r) \in Products
      BY <1>1, CheckedStorable
    <2>2. << r >> \in Seq(Requests) /\ {} \in SUBSET Requests
      OBVIOUS
    <2> QED
      <3> DEFINE n == Len(products) + 1
      <3>1. /\ DOMAIN products = 1..Len(products) /\ DOMAIN products' = 1..n
            /\ \A p \in 1..Len(products) : products'[p] = products[p]
            /\ products'[n] = Asked(r)
        BY <1>t, <1>1, <2>1 DEF Insert
      <3>2. /\ DOMAIN writes' = 1..n /\ writes'[n] = << r >>
            /\ \A p \in 1..Len(products) : writes'[p] = writes[p]
        BY <1>t, <1>1, <2>2 DEF Insert
      <3>3. /\ DOMAIN deleters' = 1..n /\ deleters'[n] = {}
            /\ \A p \in 1..Len(products) : deleters'[p] = deleters[p]
        BY <1>t, <1>1, <2>2 DEF Insert
      <3>4. n \notin DOMAIN products /\ DOMAIN products' = DOMAIN products \cup {n}
        BY <1>t, <3>1
      <3> HIDE DEF n
      <3>5. WroteAt(r, n)
        <4>1. Len(<< r >>) = 1 /\ DOMAIN << r >> = {1} /\ << r >>[1] = r
          OBVIOUS
        <4> QED
          BY <2>1, <3>1, <3>2, <3>3, <3>4, <4>1 DEF WroteAt, Last
      <3> QED
        BY <3>5 DEF n
  <1>2. ASSUME Checked(r), Overwrite(r), UNCHANGED deleters PROVE WroteAt(r, Target(r))
    <2>1. Asked(r) \in Products
      BY <1>2, CheckedStorable
    <2>2. Target(r) \in DOMAIN products /\ Exists(Target(r)) /\ deleters[Target(r)] = {}
      BY <1>2, <1>t DEF Overwrite, Exists, PresentInv
    <2>3. writes[Target(r)] \in Seq(Requests)
      BY <1>t, <2>2
    <2> QED
      <3> DEFINE t == Target(r)
      <3>1. /\ DOMAIN products' = DOMAIN products /\ products'[t] = Asked(r)
            /\ \A p \in DOMAIN products \ {t} : products'[p] = products[p]
        BY <1>t, <1>2, <2>2 DEF Overwrite
      <3>2. /\ DOMAIN writes' = DOMAIN products /\ writes'[t] = Append(writes[t], r)
            /\ \A p \in DOMAIN products \ {t} : writes'[p] = writes[p]
        BY <1>t, <1>2, <2>2 DEF Overwrite
      <3>3. DOMAIN deleters' = DOMAIN products /\ deleters' = deleters
        BY <1>t, <1>2
      <3>4. /\ Len(writes'[t]) \in DOMAIN writes'[t] /\ Last(writes'[t]) = r
            /\ \A i \in DOMAIN writes'[t] :
                 i = Len(writes'[t]) \/ (i \in DOMAIN writes[t] /\ writes'[t][i] = writes[t][i])
            /\ \A i \in DOMAIN writes[t] :
                 i \in DOMAIN writes'[t] /\ i <= Len(writes'[t]) /\ writes'[t][i] = writes[t][i]
        BY <2>3, <3>2 DEF Last
      <3> HIDE DEF t
      <3>5. WroteAt(r, t)
        BY <2>1, <2>2, <3>1, <3>2, <3>3, <3>4 DEF WroteAt, t
      <3> QED
        BY <3>5 DEF t
  <1>3. ASSUME Delete(r), UNCHANGED writes PROVE RemovedAt(r, Target(r))
    <2>1. Target(r) \in DOMAIN products /\ Exists(Target(r)) /\ deleters[Target(r)] = {}
      BY <1>3, <1>t DEF Delete, Exists, PresentInv
    <2> QED
      BY <1>t, <1>3, <2>1 DEF Delete, RemovedAt
  <1>4. Len(products) + 1 \in Nat /\ (Overwrite(r) => Target(r) \in Nat)
    BY <1>t DEF Overwrite, Exists
  <1> QED
    BY <1>1, <1>2, <1>3, <1>4 DEF CollectionsStep
(* Who wrote a product, in terms of positions. *)
LEMMA WritersAre ==
  \A p : Writers(p) = { writes[p][i] : i \in DOMAIN writes[p] }
  BY DEF Writers, ToSet

LEMMA NextProductsHaveCategories == IInv /\ [Next]_vars => ProductsHaveCategories'
  <1> SUFFICES ASSUME IInv, [Next]_vars PROVE ProductsHaveCategories'
    OBVIOUS
  <1>t. ProductsHaveCategories
    BY DEF IInv
  <1>1. ASSUME NEW r \in Requests, OwnStep(r) PROVE ProductsHaveCategories'
    <2>1. CollectionsStep(r) /\ categories \subseteq categories'
      BY <1>1 DEF OwnStep
    <2>2. ASSUME NEW t, WroteAt(r, t), Checked(r) PROVE ProductsHaveCategories'
      <3>1. ToSet(products'[t].categories) \subseteq categories'
        <4>1. products'[t] = Asked(r) /\ Asked(r).categories = input[r].list
          BY <2>2 DEF WroteAt, Asked
        <4> QED
          BY <2>1, <2>2, <4>1, CheckedStorable
      <3> QED
        BY <1>t, <2>1, <2>2, <3>1 DEF WroteAt, ProductsHaveCategories, Exists
    <2> QED
      BY <1>t, <2>1, <2>2, CollectionsEffect DEF RemovedAt, ProductsHaveCategories, Exists
  <1>2. ASSUME Quiet \/ \E r \in Requests : Arrive(r) PROVE ProductsHaveCategories'
    <2>1. UNCHANGED << products, categories >>
      BY <1>2, ArriveCases DEF Quiet
    <2> QED
      BY <1>t, <2>1 DEF ProductsHaveCategories, Exists
  <1> QED
    BY <1>1, <1>2, NextCases

LEMMA NextWriters == IInv /\ [Next]_vars => WritersInv'
  <1> SUFFICES ASSUME IInv, [Next]_vars PROVE WritersInv'
    OBVIOUS
  <1>t. /\ pc \in [Requests -> {"idle", "done", "broken"} \cup InFlight]
        /\ answer \in [Requests -> {0, 200, 201, 400, 404, 500}] /\ WritersInv
    BY DEF IInv, TypeOK
  <1>1. ASSUME NEW r \in Requests, Arrive(r) PROVE WritersInv'
    <2>1. /\ \A q \in Requests \ {r} : pc'[q] = pc[q] /\ answer'[q] = answer[q]
          /\ pc[r] = "idle" /\ UNCHANGED << products, writes >>
      BY <1>1, <1>t, ArriveCases
    <2> QED
      BY <1>t, <2>1 DEF WritersInv, NotYet, Writers
  <1>2. ASSUME NEW r \in Requests, OwnStep(r) PROVE WritersInv'
    <2>1. /\ \A q \in Requests \ {r} : pc'[q] = pc[q] /\ answer'[q] = answer[q]
          /\ CollectionsStep(r)
      BY <1>2, <1>t DEF OwnStep
    <2>2. NotYet(r)' => UNCHANGED << products, writes >> /\ NotYet(r)
      BY <1>2, <1>t DEF OwnStep, GoesOn, Rereads, Answers, NotYet, IInv, HandlerInv, InFlight
    <2>3. CASE UNCHANGED << products, writes >>
      BY <1>t, <2>1, <2>2, <2>3 DEF WritersInv, NotYet, Writers
    <2>4. ASSUME NEW t, WroteAt(r, t), Checked(r), ~ NotYet(r)' PROVE WritersInv'
      <3> SUFFICES ASSUME NEW q \in Requests, NotYet(q)', NEW p \in DOMAIN products'
                   PROVE  q \notin Writers(p)'
        BY DEF WritersInv
      <3>1. q # r /\ NotYet(q)
        BY <2>1, <2>4 DEF NotYet
      <3>2. CASE p # t
        BY <1>t, <2>4, <3>1, <3>2 DEF WroteAt, WritersInv, Writers
      <3>3. CASE p = t
        <4>1. ASSUME NEW i \in DOMAIN writes'[t] PROVE writes'[t][i] # q
          <5>1. CASE i = Len(writes'[t])
            BY <2>4, <3>1, <5>1 DEF WroteAt, Last
          <5>2. CASE t \in DOMAIN products /\ i \in DOMAIN writes[t] /\ writes'[t][i] = writes[t][i]
            BY <1>t, <3>1, <5>2, WritersAre DEF WritersInv
          <5> QED
            BY <2>4, <5>1, <5>2 DEF WroteAt
        <4> QED
          BY <3>3, <4>1 DEF Writers, ToSet
      <3> QED
        BY <3>2, <3>3
    <2>5. ASSUME pc[r] = "deleting", RemovedAt(r, Target(r)) PROVE WritersInv'
      <3>1. NotYet(r) /\ \A q \in Requests : NotYet(q)' => NotYet(q)
        BY <2>1, <2>5 DEF NotYet
      <3> QED
        BY <1>t, <2>5, <3>1 DEF RemovedAt, WritersInv, Writers
    <2> QED
      BY <2>1, <2>2, <2>3, <2>4, <2>5, CollectionsEffect
  <1>3. CASE Quiet
    BY <1>3, <1>t DEF Quiet, WritersInv, NotYet, Writers, InFlight
  <1> QED
    BY <1>1, <1>2, <1>3, NextCases
(* An entry of a history is the one r makes or was there before. *)
LEMMA OldOrNew ==
  ASSUME IInv, NEW r \in Requests, NEW t, WroteAt(r, t),
         NEW p \in DOMAIN products', NEW i \in DOMAIN writes'[p]
  PROVE  \/ p = t /\ i = Len(writes'[t]) /\ writes'[p][i] = r
         \/ p \in DOMAIN products /\ i \in DOMAIN writes[p] /\ writes'[p][i] = writes[p][i]
  BY DEF WroteAt, Last

(* A request that may write has not done so. *)
LEMMA CheckedIsNew ==
  ASSUME IInv, NEW r \in Requests, Checked(r) \/ pc[r] = "idle", NEW p \in DOMAIN products,
         NEW i \in DOMAIN writes[p]
  PROVE  writes[p][i] # r
  BY WritersAre DEF IInv, WritersInv, NotYet, Checked

(* The histories keep who wrote what. *)
LEMMA HistoryTypes ==
  ASSUME IInv, NEW p \in DOMAIN products
  PROVE  /\ writes[p] \in Seq(Requests) /\ DOMAIN writes[p] = 1..Len(writes[p]) /\ Len(writes[p]) \in Nat
         /\ writes[p] # << >> => Len(writes[p]) \in DOMAIN writes[p] /\ Last(writes[p]) \in Requests
  <1>1. writes[p] \in Seq(Requests)
    BY DEF IInv, TypeOK
  <1> QED
    BY <1>1 DEF Last

LEMMA NextOnce == IInv /\ [Next]_vars => OnceInv'
  <1> SUFFICES ASSUME IInv, [Next]_vars PROVE OnceInv'
    OBVIOUS
  <1>t. OnceInv
    BY DEF IInv
  <1>1. ASSUME UNCHANGED << products, writes >> PROVE OnceInv'
    BY <1>t, <1>1 DEF OnceInv
  <1>2. ASSUME NEW r \in Requests, OwnStep(r) PROVE OnceInv'
    <2>1. ASSUME NEW t, WroteAt(r, t), Checked(r) PROVE OnceInv'
      <3> SUFFICES ASSUME NEW p \in DOMAIN products', NEW q \in DOMAIN products',
                          NEW i \in DOMAIN writes'[p], NEW j \in DOMAIN writes'[q],
                          writes'[p][i] = writes'[q][j]
                   PROVE  p = q /\ i = j
        BY DEF OnceInv
      <3>1. \/ p = t /\ i = Len(writes'[t]) /\ writes'[p][i] = r
            \/ p \in DOMAIN products /\ i \in DOMAIN writes[p] /\ writes'[p][i] = writes[p][i]
        BY <2>1, OldOrNew
      <3>2. \/ q = t /\ j = Len(writes'[t]) /\ writes'[q][j] = r
            \/ q \in DOMAIN products /\ j \in DOMAIN writes[q] /\ writes'[q][j] = writes[q][j]
        BY <2>1, OldOrNew
      <3> QED
        BY <1>t, <2>1, <3>1, <3>2, CheckedIsNew DEF OnceInv
    <2> QED
      BY <1>t, <1>1, <1>2, <2>1, CollectionsEffect DEF OwnStep, RemovedAt, OnceInv
  <1> QED
    BY <1>1, <1>2, NextCases, ArriveCases DEF Quiet

(* Nobody's request changes once it has written. *)
LEMMA InputOfWriters ==
  ASSUME IInv, [Next]_vars, NEW p \in DOMAIN products, NEW i \in DOMAIN writes[p]
  PROVE  input'[writes[p][i]] = input[writes[p][i]]
  <1>1. ASSUME NEW r \in Requests, Arrive(r) PROVE input'[writes[p][i]] = input[writes[p][i]]
    <2>1. writes[p][i] \in Requests /\ writes[p][i] # r
      BY <1>1, ArriveCases, CheckedIsNew, HistoryTypes
    <2> QED
      BY <1>1, <2>1, ArriveCases DEF IInv, TypeOK
  <1> QED
    BY <1>1, NextCases DEF Quiet, OwnStep

LEMMA NextStored == IInv /\ [Next]_vars => StoredInv'
  <1> SUFFICES ASSUME IInv, [Next]_vars PROVE StoredInv'
    OBVIOUS
  <1>t. StoredInv
    BY DEF IInv
  <1>1. ASSUME NEW p \in DOMAIN products, products'[p] = products[p], writes'[p] = writes[p], Exists(p)
        PROVE  products'[p] = IF writes'[p] = << >> THEN InitialProducts[p] ELSE Asked(Last(writes[p]))'
    <2>1. CASE writes[p] = << >>
      BY <1>t, <1>1, <2>1 DEF StoredInv
    <2>2. CASE writes[p] # << >>
      <3>1. Len(writes[p]) \in DOMAIN writes[p]
        BY <2>2, HistoryTypes
      <3>2. input'[Last(writes[p])] = input[Last(writes[p])]
        BY <3>1, InputOfWriters DEF Last
      <3>3. Asked(Last(writes[p]))' = Asked(Last(writes[p]))
        BY <1>1, <3>2 DEF Asked, Last
      <3> QED
        BY <1>t, <1>1, <2>2, <3>3 DEF StoredInv
    <2> QED
      BY <2>1, <2>2
  <1>2. ASSUME UNCHANGED << products, writes >> PROVE StoredInv'
    BY <1>1, <1>2 DEF StoredInv, Exists, Asked, Last
  <1>3. ASSUME NEW r \in Requests, OwnStep(r) PROVE StoredInv'
    <2>0. input' = input
      BY <1>3 DEF OwnStep
    <2>1. ASSUME NEW t, WroteAt(r, t), Checked(r) PROVE StoredInv'
      <3>1. /\ writes'[t] # << >> /\ Last(writes'[t]) = r /\ products'[t] = Asked(r)
            /\ Asked(r)' = Asked(r)
        BY <2>0, <2>1 DEF WroteAt, Asked
      <3>2. \A p \in DOMAIN products \ {t} : products'[p] = products[p] /\ writes'[p] = writes[p]
        BY <2>1 DEF WroteAt
      <3>3. DOMAIN products' = DOMAIN products \cup {t}
        BY <2>1 DEF WroteAt
      <3> QED
        BY <1>t, <2>0, <3>1, <3>2, <3>3 DEF StoredInv, Exists, Asked, Last
    <2>2. ASSUME RemovedAt(r, Target(r)) PROVE StoredInv'
      BY <1>t, <2>0, <2>2 DEF StoredInv, RemovedAt, Exists, Asked, Last
    <2> QED
      BY <1>2, <1>3, <2>1, <2>2, CollectionsEffect DEF OwnStep
  <1> QED
    BY <1>2, <1>3, NextCases, ArriveCases DEF Quiet
LEMMA NextReading == IInv /\ [Next]_vars => ReadingInv'
  <1> SUFFICES ASSUME IInv, [Next]_vars, NEW q \in Requests, pc'[q] = "reading"
               PROVE  Target(q)' \in DOMAIN products' /\ q \in Writers(Target(q))'
    BY DEF ReadingInv
  <1>t. /\ pc \in [Requests -> {"idle", "done", "broken"} \cup InFlight]
        /\ input \in [Requests -> Inputs \cup {NoInput}] /\ ReadingInv
    BY DEF IInv, TypeOK
  <1>1. ASSUME NEW r \in Requests, Arrive(r)
        PROVE  Target(q)' \in DOMAIN products' /\ q \in Writers(Target(q))'
    <2>1. pc'[r] # "reading"
      <3>1. input'[r] \in Inputs /\ (input'[r].op # "malformed" =>
               input'[r].op \in {"create", "update", "delete", "category"})
        BY <1>1, ArriveCases DEF Inputs
      <3> QED
        BY <1>1, <1>t, <3>1, ArriveCases, StageType
    <2>2. q # r /\ pc[q] = "reading" /\ input'[q] = input[q] /\ UNCHANGED << products, writes >>
      BY <1>1, <1>t, <2>1, ArriveCases
    <2> QED
      BY <1>t, <2>2 DEF ReadingInv, Target, Writers
  <1>2. ASSUME NEW r \in Requests, OwnStep(r)
        PROVE  Target(q)' \in DOMAIN products' /\ q \in Writers(Target(q))'
    <2>0. input' = input /\ Target(q)' = Target(q)
      BY <1>2 DEF OwnStep, Target
    <2>1. CASE q # r
      <3>1. Target(q) \in DOMAIN products /\ q \in Writers(Target(q))
        BY <1>2, <1>t, <2>1 DEF OwnStep, ReadingInv
      <3>2. ASSUME NEW t, WroteAt(r, t)
            PROVE  Target(q) \in DOMAIN products' /\ q \in Writers(Target(q))'
        <4>1. Target(q) \in DOMAIN products'
          BY <3>1, <3>2 DEF WroteAt
        <4>2. PICK i \in DOMAIN writes[Target(q)] : writes[Target(q)][i] = q
          BY <3>1, WritersAre
        <4>3. i \in DOMAIN writes'[Target(q)] /\ writes'[Target(q)][i] = q
          BY <3>1, <3>2, <4>2 DEF WroteAt
        <4> QED
          BY <2>0, <4>1, <4>3 DEF Writers, ToSet
      <3> QED
        BY <1>2, <2>0, <3>1, <3>2, CollectionsEffect DEF OwnStep, RemovedAt, Writers
    <2>2. CASE q = r
      <3>1. Rereads(r)
        BY <1>2, <2>2 DEF OwnStep, GoesOn, Answers
      <3>2. Checked(r) /\ Target(r) \in DOMAIN products /\ writes[Target(r)] \in Seq(Requests)
        BY <3>1 DEF Rereads, Overwrite, Exists, IInv, TypeOK
      <3>3. /\ DOMAIN products' = DOMAIN products
            /\ writes'[Target(r)] = Append(writes[Target(r)], r)
        BY <3>1, <3>2 DEF Rereads, Overwrite, IInv, TypeOK
      <3>4. r \in ToSet(writes'[Target(r)])
        BY <3>2, <3>3 DEF ToSet
      <3> QED
        BY <2>0, <2>2, <3>2, <3>3, <3>4 DEF Writers
    <2> QED
      BY <2>1, <2>2
  <1>3. CASE Quiet
    BY <1>3, <1>t DEF Quiet, ReadingInv, Target, Writers, InFlight
  <1> QED
    BY <1>1, <1>2, <1>3, NextCases

LEMMA NextPresent == IInv /\ [Next]_vars => PresentInv'
  <1> SUFFICES ASSUME IInv, [Next]_vars PROVE PresentInv'
    OBVIOUS
  <1>t. PresentInv
    BY DEF IInv
  <1>1. ASSUME UNCHANGED << products, deleters >> PROVE PresentInv'
    BY <1>t, <1>1 DEF PresentInv, Exists
  <1>2. ASSUME NEW r \in Requests, OwnStep(r) PROVE PresentInv'
    <2>1. ASSUME NEW t, WroteAt(r, t) PROVE PresentInv'
      BY <1>t, <2>1 DEF PresentInv, Exists, WroteAt
    <2>2. ASSUME RemovedAt(r, Target(r)) PROVE PresentInv'
      BY <1>t, <2>2 DEF PresentInv, Exists, RemovedAt
    <2> QED
      BY <1>1, <1>2, <2>1, <2>2, CollectionsEffect DEF OwnStep
  <1> QED
    BY <1>1, <1>2, NextCases, ArriveCases DEF Quiet

LEMMA NextDeleters == IInv /\ [Next]_vars => DeletersInv'
  <1> SUFFICES ASSUME IInv, [Next]_vars, NEW q \in Requests,
                      Op(q)' = "delete", answer'[q] = 200
               PROVE  (/\ Target(q) \in DOMAIN products /\ products[Target(q)] = Gone
                       /\ deleters[Target(q)] = {q})'
    BY DEF DeletersInv
  <1>t. /\ pc \in [Requests -> {"idle", "done", "broken"} \cup InFlight]
        /\ input \in [Requests -> Inputs \cup {NoInput}]
        /\ answer \in [Requests -> {0, 200, 201, 400, 404, 500}] /\ DeletersInv /\ HandlerInv
    BY DEF IInv, TypeOK
  <1>1. ASSUME NEW r \in Requests, Arrive(r)
        PROVE  (/\ Target(q) \in DOMAIN products /\ products[Target(q)] = Gone
                /\ deleters[Target(q)] = {q})'
    <2>1. q # r
      BY <1>1, <1>t, ArriveCases DEF HandlerInv
    <2>2. input'[q] = input[q] /\ answer'[q] = answer[q] /\ UNCHANGED << products, deleters >>
      BY <1>1, <1>t, <2>1, ArriveCases
    <2> QED
      BY <1>t, <2>2 DEF DeletersInv, Op, Target
  <1>2. ASSUME NEW r \in Requests, OwnStep(r)
        PROVE  (/\ Target(q) \in DOMAIN products /\ products[Target(q)] = Gone
                /\ deleters[Target(q)] = {q})'
    <2>0. input' = input /\ Target(q)' = Target(q) /\ Op(q) = "delete" /\ CollectionsStep(r)
      BY <1>2 DEF OwnStep, Target, Op
    <2>1. CASE q # r
      <3>1. /\ Target(q) \in DOMAIN products /\ products[Target(q)] = Gone
            /\ deleters[Target(q)] = {q}
        BY <1>2, <1>t, <2>0, <2>1 DEF OwnStep, DeletersInv
      <3>2. ASSUME NEW t, WroteAt(r, t) \/ RemovedAt(r, t)
            PROVE  /\ Target(q) \in DOMAIN products' /\ products'[Target(q)] = Gone
                   /\ deleters'[Target(q)] = {q}
        BY <3>1, <3>2 DEF WroteAt, RemovedAt, Exists
      <3> QED
        BY <2>0, <3>1, <3>2, CollectionsEffect
    <2>2. CASE q = r
      <3>1. pc[r] = "deleting" /\ Delete(r)
        BY <1>2, <1>t, <2>0, <2>2 DEF OwnStep, GoesOn, Rereads, Answers, HandlerInv, InFlight
      <3>2. Target(r) \in DOMAIN products /\ Exists(Target(r)) /\ deleters[Target(r)] = {}
        BY <3>1 DEF Delete, Exists, IInv, PresentInv
      <3>3. /\ DOMAIN products' = DOMAIN products /\ products'[Target(r)] = Gone
            /\ deleters'[Target(r)] = {r}
        BY <3>1, <3>2 DEF Delete, IInv, TypeOK
      <3> QED
        BY <2>0, <2>2, <3>2, <3>3
    <2> QED
      BY <2>1, <2>2
  <1>3. CASE Quiet
    BY <1>3, <1>t DEF Quiet, DeletersInv, Op, Target
  <1> QED
    BY <1>1, <1>2, <1>3, NextCases

(* An answer that was not stale does not become so. *)
LEMMA ShownStays ==
  ASSUME IInv, [Next]_vars, NEW q \in Requests, Target(q) \in DOMAIN products,
         NEW i \in Nat, NEW j \in Nat, ShowsWrite(q, i, j),
         input'[q] = input[q], shown'[q] = shown[q]
  PROVE  Target(q)' \in DOMAIN products' /\ ShowsWrite(q, i, j)'
  <1>0. Target(q)' = Target(q)
    BY DEF Target
  <1>1. ASSUME UNCHANGED << products, writes >> PROVE Target(q)' \in DOMAIN products' /\ ShowsWrite(q, i, j)'
    BY <1>0, <1>1, InputOfWriters DEF ShowsWrite
  <1>2. ASSUME NEW r \in Requests, NEW t, WroteAt(r, t)
        PROVE  Target(q)' \in DOMAIN products' /\ ShowsWrite(q, i, j)'
    <2>1. /\ Target(q) \in DOMAIN products'
          /\ \A k \in DOMAIN writes[Target(q)] :
               /\ k \in DOMAIN writes'[Target(q)]
               /\ writes'[Target(q)][k] = writes[Target(q)][k]
      BY <1>2 DEF WroteAt
    <2> QED
      BY <1>0, <2>1, InputOfWriters DEF ShowsWrite
  <1>3. ASSUME NEW r \in Requests, RemovedAt(r, Target(r))
        PROVE  Target(q)' \in DOMAIN products' /\ ShowsWrite(q, i, j)'
    BY <1>0, <1>3, InputOfWriters DEF ShowsWrite, RemovedAt
  <1> QED
    BY <1>1, <1>2, <1>3, NextCases, ArriveCases, CollectionsEffect DEF Quiet, OwnStep

LEMMA NextShown == IInv /\ [Next]_vars => ShownInv'
  <1> SUFFICES ASSUME IInv, [Next]_vars, NEW q \in Requests,
                      Op(q)' = "update", answer'[q] = 200
               PROVE  Target(q)' \in DOMAIN products' /\ \E i, j \in Nat : ShowsWrite(q, i, j)'
    BY DEF ShownInv
  <1>t. /\ pc \in [Requests -> {"idle", "done", "broken"} \cup InFlight]
        /\ input \in [Requests -> Inputs \cup {NoInput}]
        /\ shown \in [Requests -> Products \cup {Gone}]
        /\ answer \in [Requests -> {0, 200, 201, 400, 404, 500}] /\ ShownInv /\ HandlerInv
    BY DEF IInv, TypeOK
  <1>1. ASSUME input'[q] = input[q], shown'[q] = shown[q], answer'[q] = answer[q]
        PROVE  Target(q)' \in DOMAIN products' /\ \E i, j \in Nat : ShowsWrite(q, i, j)'
    <2>1. Target(q) \in DOMAIN products /\ \E i, j \in Nat : ShowsWrite(q, i, j)
      BY <1>t, <1>1 DEF ShownInv, Op
    <2> QED
      BY <1>1, <2>1, ShownStays
  <1>2. ASSUME NEW r \in Requests, Arrive(r), q = r PROVE FALSE
    BY <1>2, <1>t, ArriveCases DEF HandlerInv
  <1>3. ASSUME NEW r \in Requests, Arrive(r) \/ OwnStep(r), q # r
        PROVE  input'[q] = input[q] /\ shown'[q] = shown[q] /\ answer'[q] = answer[q]
    BY <1>3, <1>t, ArriveCases DEF OwnStep, GoesOn, Rereads, Answers
  <1>4. ASSUME OwnStep(q)
        PROVE  Target(q)' \in DOMAIN products' /\ \E i, j \in Nat : ShowsWrite(q, i, j)'
    <2>0. input' = input /\ Target(q)' = Target(q) /\ Op(q) = "update"
      BY <1>4 DEF OwnStep, Target, Op
    <2>1. /\ pc[q] = "reading" /\ Exists(Target(q)) /\ UNCHANGED << products, writes >>
          /\ shown'[q].details = products[Target(q)].details
      BY <1>4, <1>t, <2>0 DEF OwnStep, GoesOn, Rereads, Answers, HandlerInv, InFlight
    <2>2. Target(q) \in DOMAIN products /\ q \in Writers(Target(q))
      BY <2>1 DEF IInv, ReadingInv
    <2>3. PICK i \in DOMAIN writes[Target(q)] : writes[Target(q)][i] = q
      BY <2>2, WritersAre
    <2>4. /\ writes[Target(q)] \in Seq(Requests) /\ writes[Target(q)] # << >>
          /\ i \in 1..Len(writes[Target(q)]) /\ Len(writes[Target(q)]) \in Nat
      BY <2>2, <2>3, HistoryTypes
    <2>5. products[Target(q)].details = input[Last(writes[Target(q)])].details
      BY <2>1, <2>2, <2>4 DEF IInv, StoredInv, Asked
    <2>6. ShowsWrite(q, i, Len(writes[Target(q)]))'
      BY <2>0, <2>1, <2>3, <2>4, <2>5 DEF ShowsWrite, Last
    <2> QED
      BY <2>0, <2>1, <2>2, <2>4, <2>6
  <1> QED
    BY <1>1, <1>2, <1>3, <1>4, NextCases DEF Quiet
-----------------------------------------------------------------------------
LEMMA InitIInv == Init => IInv
  <1> SUFFICES ASSUME Init PROVE IInv
    OBVIOUS
  <1> USE DEF Init
  <1>1. TypeOK
    <2>1. InitialProducts \in Seq(Products \cup {Gone}) /\ InitialCategories \subseteq CategoryIds
      BY CatalogAssumption, SeqMonotonic
    <2>2. << >> \in Lists
      <3>1. << >> \in [1..0 -> CategoryIds \cup {NotAnId}] /\ 0 \in 0..MaxListed
        BY CatalogAssumption
      <3> QED
        BY <3>1 DEF Lists
    <2>3. /\ Len(writes) = Len(products) /\ writes \in Seq(Seq(Requests))
          /\ Len(deleters) = Len(products) /\ deleters \in Seq(SUBSET Requests)
      <3>1. DOMAIN InitialProducts = 1..Len(InitialProducts) /\ Len(InitialProducts) \in Nat
        BY CatalogAssumption
      <3>2. << >> \in Seq(Requests) /\ {} \in SUBSET Requests
        OBVIOUS
      <3> QED
        BY <3>1, <3>2
    <2>4. faults \in 0..MaxFaults /\ restarts \in 0..MaxRestarts
      BY CatalogAssumption
    <2> QED
      BY <2>1, <2>2, <2>3, <2>4 DEF TypeOK
  <1>2. HandlerInv /\ CheckedInv /\ DeletersInv /\ ShownInv /\ ReadingInv
    BY DEF HandlerInv, CheckedInv, DeletersInv, ShownInv, ReadingInv
  <1>3. ProductsHaveCategories
    BY CatalogAssumption DEF ProductsHaveCategories
  <1>4. WritersInv /\ OnceInv
    BY DEF WritersInv, OnceInv, Writers, ToSet
  <1>5. StoredInv /\ PresentInv
    BY DEF StoredInv, PresentInv
  <1> QED
    BY <1>1, <1>2, <1>3, <1>4, <1>5 DEF IInv

(* The invariant that all requests, however they interleave, fail or are cut
   off by a restart, keep to. *)
THEOREM InductiveInvariant == Spec => []IInv
  <1>1. IInv /\ [Next]_vars => IInv'
    BY NextType, NextHandler, NextChecked, NextProductsHaveCategories, NextWriters, NextOnce,
       NextStored, NextReading, NextPresent, NextDeleters, NextShown DEF IInv
  <1> QED
    BY <1>1, InitIInv, PTL DEF Spec

(* Collections, requests and histories keep their types. *)
THEOREM TypeCorrect == Spec => []TypeOK
  <1>1. IInv => TypeOK
    BY DEF IInv
  <1> QED
    BY <1>1, InductiveInvariant, PTL

(* Every product there is is listed under categories there are. *)
THEOREM CategoriesThere == Spec => []ProductsHaveCategories
  <1>1. IInv => ProductsHaveCategories
    BY DEF IInv
  <1> QED
    BY <1>1, InductiveInvariant, PTL

(* What is stored is what the last of its writers asked for, and who was
   refused wrote nothing. *)
THEOREM LastWriterStored == Spec => []StoredAsLastAsked
  <1>1. ASSUME IInv PROVE StoredAsLastAsked
    <2>1. \A p \in DOMAIN products : \A i \in DOMAIN writes[p] : answer[writes[p][i]] \notin {400, 404}
      BY <1>1, HistoryTypes, WritersAre DEF IInv, WritersInv, NotYet
    <2>2. \A p \in DOMAIN products : \A i \in DOMAIN writes[p] :
            \A q \in DOMAIN products : \A j \in DOMAIN writes[q] :
              writes[q][j] = writes[p][i] => << q, j >> = << p, i >>
      BY <1>1 DEF IInv, OnceInv
    <2> QED
      BY <1>1, <2>1, <2>2 DEF StoredAsLastAsked, IInv, StoredInv
  <1> QED
    BY <1>1, InductiveInvariant, PTL

(* One delete of a product at most is answered 200, and it removed it. *)
THEOREM OneDeletes == Spec => []DeletedOnce
  <1>1. IInv => DeletedOnce
    BY DEF IInv, DeletersInv, DeletedOnce
  <1> QED
    BY <1>1, InductiveInvariant, PTL

(* An update's answer shows its own write or a later one. *)
THEOREM AnswerNotStale == Spec => []UpdateAnswerIsNotStale
  <1>1. IInv => UpdateAnswerIsNotStale
    BY DEF IInv, ShownInv, ShowsWrite, UpdateAnswerIsNotStale
  <1> QED
    BY <1>1, InductiveInvariant, PTL

(* No step brings a deleted product back. *)
THEOREM DeletedStays == Spec => DeletedForGood
  <1>1. ASSUME IInv, [Next]_vars
        PROVE  \A p \in DOMAIN products : products[p] = Gone => products'[p] = Gone
    <2>1. ASSUME NEW r \in Requests, NEW t, WroteAt(r, t) \/ RemovedAt(r, t)
          PROVE  \A p \in DOMAIN products : products[p] = Gone => products'[p] = Gone
      BY <2>1 DEF WroteAt, RemovedAt, Exists
    <2> QED
      BY <1>1, <2>1, NextCases, ArriveCases, CollectionsEffect DEF Quiet, OwnStep
  <1>2. IInv /\ [Next]_vars =>
          [\A p \in DOMAIN products : products[p] = Gone => products'[p] = Gone]_vars
    BY <1>1
  <1> QED
    BY <1>2, InductiveInvariant, PTL DEF Spec, DeletedForGood
=============================================================================
