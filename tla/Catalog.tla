------------------------------- MODULE Catalog -------------------------------
(***************************************************************************)
(* product-service: the products and categories collections and the        *)
(* requests that write them, POST, PUT and DELETE /products and            *)
(* POST /categories. A request is a goroutine; each call it makes to       *)
(* MongoDB is a step, and none of them is part of a transaction.           *)
(***************************************************************************)
EXTENDS Naturals, Sequences, SequencesExt

CONSTANTS
    Requests,      \* requests that passed the token check; each is sent once
    Details,       \* name, description and price together
    CategoryIds,   \* ids categories may get
    NotAnId,       \* a string that is no ObjectID
    InitialProducts, InitialCategories,  \* what the collections hold at first
    MaxListed,     \* bound: categories of one request
    MaxFaults,     \* bound: MongoDB calls that fail
    MaxRestarts    \* bound: restarts of the process

(* models.Product *)
Products == [details : Details, categories : Seq(CategoryIds)]

ASSUME CatalogAssumption ==
    /\ NotAnId \notin CategoryIds
    /\ InitialCategories \subseteq CategoryIds
    /\ InitialProducts \in Seq(Products)
    /\ \A p \in DOMAIN InitialProducts :
         ToSet(InitialProducts[p].categories) \subseteq InitialCategories
    /\ MaxListed \in Nat /\ MaxFaults \in Nat /\ MaxRestarts \in Nat

VARIABLES
    products,    \* every product there has been, by the order of insertion
    categories,  \* ids of the categories there are
    pc,          \* where the goroutine of each request is
    input,       \* what each request asks
    unchecked,   \* categories each handler has yet to look up
    answer,      \* HTTP status of each answer, 0 while there is none
    shown,       \* the product in the answer to an update
    writes,      \* history: the requests that wrote each product, oldest first
    deleters,    \* history: the requests that removed each product
    faults, restarts

vars == << products, categories, pc, input, unchecked, answer, shown, writes,
           deleters, faults, restarts >>

collections == << products, categories, writes, deleters >>

Gone == [gone |-> TRUE]
Exists(p) == p \in DOMAIN products /\ products[p] # Gone

Lists == UNION { [1..n -> CategoryIds \cup {NotAnId}] : n \in 0..MaxListed }

(* The path of PUT and DELETE names a product, one there is not (yet), or 0:
   no ObjectID at all. *)
Targets == 0..(Len(products) + 1)

Inputs ==
    [op : {"create"}, details : Details, list : Lists]
      \cup [op : {"update"}, target : Targets, details : Details, list : Lists]
      \cup [op : {"delete"}, target : Targets]
      \cup [op : {"category", "malformed"}]

NoInput == [op |-> "none"]
InFlight == {"checking", "reading", "looking", "deleting", "adding"}

Init ==
    /\ products = InitialProducts
    /\ categories = InitialCategories
    /\ pc = [r \in Requests |-> "idle"]
    /\ input = [r \in Requests |-> NoInput]
    /\ unchecked = [r \in Requests |-> << >>]
    /\ answer = [r \in Requests |-> 0]
    /\ shown = [r \in Requests |-> Gone]
    /\ writes = [p \in DOMAIN InitialProducts |-> << >>]
    /\ deleters = [p \in DOMAIN InitialProducts |-> {}]
    /\ faults = 0
    /\ restarts = 0
-----------------------------------------------------------------------------
GoTo(r, stage) == pc' = [pc EXCEPT ![r] = stage]

Respond(r, status) ==
    /\ GoTo(r, "done")
    /\ answer' = [answer EXCEPT ![r] = status]

(* A call to MongoDB fails. *)
Fault == faults < MaxFaults /\ faults' = faults + 1

Op(r) == input[r].op
Target(r) == input[r].target

BadRequest(in) ==
    in.op = "malformed" \/ (in.op \in {"update", "delete"} /\ in.target = 0)

FirstStage(in) ==
    CASE in.op \in {"create", "update"} -> "checking"
      [] in.op = "delete" -> "looking"
      [] in.op = "category" -> "adding"

(* ValidateObjectID and the binding of the body to its struct. *)
Arrive(r) ==
    /\ pc[r] = "idle"
    /\ \E in \in Inputs :
         /\ input' = [input EXCEPT ![r] = in]
         /\ IF BadRequest(in)
            THEN Respond(r, 400) /\ UNCHANGED unchecked
            ELSE /\ GoTo(r, FirstStage(in))
                 /\ unchecked' = [unchecked EXCEPT ![r] =
                      IF in.op \in {"create", "update"} THEN in.list ELSE << >>]
                 /\ UNCHANGED answer
    /\ UNCHANGED << collections, shown, faults, restarts >>

(* Mutant: only the form of the ids is checked. *)
CategoryAccepted_AnyId(c) == c # NotAnId

(* ObjectIDFromHex and CategoryExists *)
CategoryAccepted(c) == c \in categories

(* One category of the request at a time. *)
CheckCategory(r) ==
    /\ pc[r] = "checking" /\ unchecked[r] # << >>
    /\ IF CategoryAccepted(Head(unchecked[r]))
       THEN /\ unchecked' = [unchecked EXCEPT ![r] = Tail(@)]
            /\ UNCHANGED << pc, answer >>
       ELSE Respond(r, 400) /\ UNCHANGED unchecked
    /\ UNCHANGED << collections, input, shown, faults, restarts >>

Checked(r) == pc[r] = "checking" /\ unchecked[r] = << >>

Asked(r) == [details |-> input[r].details, categories |-> input[r].list]
-----------------------------------------------------------------------------
(* InsertOne gives the product a new id. *)
Insert(r) ==
    /\ products' = Append(products, Asked(r))
    /\ writes' = Append(writes, << r >>)
    /\ deleters' = Append(deleters, {})

InsertProduct(r) ==
    /\ Checked(r) /\ Op(r) = "create"
    /\ Insert(r)
    /\ Respond(r, 201)
    /\ UNCHANGED << categories, input, unchecked, shown, faults, restarts >>

(* A failed insert may have been carried out. *)
InsertFails(r) ==
    /\ Checked(r) /\ Op(r) = "create"
    /\ Fault
    /\ Insert(r) \/ UNCHANGED << products, writes, deleters >>
    /\ Respond(r, 500)
    /\ UNCHANGED << categories, input, unchecked, shown, restarts >>

(* Mutant: the update is an upsert. *)
Overwrite_Upsert(r) ==
    /\ Target(r) \in DOMAIN products
    /\ products' = [products EXCEPT ![Target(r)] = Asked(r)]
    /\ writes' = [writes EXCEPT ![Target(r)] = Append(@, r)]

(* Mutant: the update writes the details only. *)
Overwrite_DetailsOnly(r) ==
    /\ Exists(Target(r))
    /\ products' = [products EXCEPT ![Target(r)].details = input[r].details]
    /\ writes' = [writes EXCEPT ![Target(r)] = Append(@, r)]

(* UpdateByID matches the product and sets every field of the request. *)
Overwrite(r) ==
    /\ Exists(Target(r))
    /\ products' = [products EXCEPT ![Target(r)] = Asked(r)]
    /\ writes' = [writes EXCEPT ![Target(r)] = Append(@, r)]

(* Mutant: the answer is made from a product read before the update. *)
UpdateProduct_ReadFirst(r) ==
    /\ Checked(r) /\ Op(r) = "update"
    /\ IF Exists(Target(r))
       THEN Overwrite(r) /\ Respond(r, 200)
            /\ shown' = [shown EXCEPT ![r] = products[Target(r)]]
       ELSE Respond(r, 500) /\ UNCHANGED << products, writes, shown >>
    /\ UNCHANGED << categories, deleters, input, unchecked, faults, restarts >>

UpdateProduct(r) ==
    /\ Checked(r) /\ Op(r) = "update"
    /\ \/ Overwrite(r) /\ GoTo(r, "reading") /\ UNCHANGED answer
       \/ ~Exists(Target(r)) /\ Respond(r, 500) /\ UNCHANGED << products, writes >>
    /\ UNCHANGED << categories, deleters, input, unchecked, shown, faults, restarts >>

UpdateFails(r) ==
    /\ Checked(r) /\ Op(r) = "update"
    /\ Fault
    /\ Overwrite(r) \/ UNCHANGED << products, writes >>
    /\ Respond(r, 500)
    /\ UNCHANGED << categories, deleters, input, unchecked, shown, restarts >>

(* GetProductByID reads the product back; the answer has its details and, of
   the request, the categories. *)
ReadBack(r) ==
    /\ pc[r] = "reading"
    /\ IF Exists(Target(r))
       THEN /\ Respond(r, 200)
            /\ shown' = [shown EXCEPT ![r] =
                 [details |-> products[Target(r)].details, categories |-> input[r].list]]
       ELSE Respond(r, 500) /\ UNCHANGED shown
    /\ UNCHANGED << collections, input, unchecked, faults, restarts >>
-----------------------------------------------------------------------------
(* DeleteProduct of the handler looks first... *)
DeleteLooks(r) ==
    /\ pc[r] = "looking"
    /\ IF Exists(Target(r))
       THEN GoTo(r, "deleting") /\ UNCHANGED answer
       ELSE Respond(r, 404)
    /\ UNCHANGED << collections, input, unchecked, shown, faults, restarts >>

Delete(r) ==
    /\ Exists(Target(r))
    /\ products' = [products EXCEPT ![Target(r)] = Gone]
    /\ deleters' = [deleters EXCEPT ![Target(r)] = @ \cup {r}]

(* Mutant: DeletedCount is not looked at. *)
DeleteMissed_Ignored(r) == ~Exists(Target(r)) /\ Respond(r, 200)

(* Another request deleted it after the look: DeletedCount is 0. *)
DeleteMissed(r) == ~Exists(Target(r)) /\ Respond(r, 500)

(* ... and DeleteOne then counts what it deleted. *)
DeleteProduct(r) ==
    /\ pc[r] = "deleting"
    /\ \/ Delete(r) /\ Respond(r, 200)
       \/ DeleteMissed(r) /\ UNCHANGED << products, deleters >>
    /\ UNCHANGED << categories, writes, input, unchecked, shown, faults, restarts >>

DeleteFails(r) ==
    /\ pc[r] = "deleting"
    /\ Fault
    /\ Delete(r) \/ UNCHANGED << products, deleters >>
    /\ Respond(r, 500)
    /\ UNCHANGED << categories, writes, input, unchecked, shown, restarts >>

(* A look-up fails; the handler of DELETE takes it for a missing product. *)
LookFails(r) ==
    /\ \/ pc[r] \in {"looking", "reading"}
       \/ pc[r] = "checking" /\ unchecked[r] # << >> /\ Head(unchecked[r]) # NotAnId
    /\ Fault
    /\ Respond(r, IF pc[r] = "looking" THEN 404 ELSE 500)
    /\ UNCHANGED << collections, input, unchecked, shown, restarts >>
-----------------------------------------------------------------------------
(* Mutant: the id in the body is kept, be it one or not. *)
AddCategory_OwnId(r) ==
    /\ pc[r] = "adding"
    /\ \E c \in (CategoryIds \cup {NotAnId}) \ categories : categories' = categories \cup {c}
    /\ Respond(r, 201)
    /\ UNCHANGED << products, writes, deleters, input, unchecked, shown, faults, restarts >>

(* CreateCategory: an id of its own, whatever the body has. *)
AddCategory(r) ==
    /\ pc[r] = "adding"
    /\ \E c \in CategoryIds \ categories : categories' = categories \cup {c}
    /\ Respond(r, 201)
    /\ UNCHANGED << products, writes, deleters, input, unchecked, shown, faults, restarts >>

AddFails(r) ==
    /\ pc[r] = "adding"
    /\ Fault
    /\ \/ \E c \in CategoryIds \ categories : categories' = categories \cup {c}
       \/ UNCHANGED categories
    /\ Respond(r, 500)
    /\ UNCHANGED << products, writes, deleters, input, unchecked, shown, restarts >>

(* The process ends, its clients see their connections break, and starts again. *)
Restart ==
    /\ restarts < MaxRestarts
    /\ restarts' = restarts + 1
    /\ pc' = [r \in Requests |-> IF pc[r] \in InFlight THEN "broken" ELSE pc[r]]
    /\ UNCHANGED << collections, input, unchecked, answer, shown, faults >>

Handle(r) ==
    \/ Arrive(r) \/ CheckCategory(r) \/ LookFails(r)
    \/ InsertProduct(r) \/ InsertFails(r)
    \/ UpdateProduct(r) \/ UpdateFails(r) \/ ReadBack(r)
    \/ DeleteLooks(r) \/ DeleteProduct(r) \/ DeleteFails(r)
    \/ AddCategory(r) \/ AddFails(r)

Next == (\E r \in Requests : Handle(r)) \/ Restart

Spec == Init /\ [][Next]_vars
-----------------------------------------------------------------------------
(* Collections, requests and histories keep their types. *)
TypeOK ==
    /\ products \in Seq(Products \cup {Gone})
    /\ categories \subseteq CategoryIds
    /\ pc \in [Requests -> {"idle", "done", "broken"} \cup InFlight]
    /\ input \in [Requests -> Inputs \cup {NoInput}]
    /\ unchecked \in [Requests -> Lists]
    /\ answer \in [Requests -> {0, 200, 201, 400, 404, 500}]
    /\ shown \in [Requests -> Products \cup {Gone}]
    /\ Len(writes) = Len(products) /\ writes \in Seq(Seq(Requests))
    /\ Len(deleters) = Len(products) /\ deleters \in Seq(SUBSET Requests)
    /\ faults \in 0..MaxFaults
    /\ restarts \in 0..MaxRestarts

(* A product is listed under categories that there are, although they are
   looked up one by one, long before the write, and nothing but the handler
   keeps the two collections together. *)
ProductsHaveCategories ==
    \A p \in DOMAIN products :
        Exists(p) => ToSet(products[p].categories) \subseteq categories

(* What is stored is what one request asked for, the last of those that wrote
   the product, and nothing of the others; who got 400 or 404 wrote nothing and
   nobody wrote twice. *)
StoredAsLastAsked ==
    /\ \A p \in DOMAIN products :
         Exists(p) => products[p] = IF writes[p] = << >> THEN InitialProducts[p]
                                    ELSE Asked(Last(writes[p]))
    /\ \A p \in DOMAIN products : \A i \in DOMAIN writes[p] :
         /\ answer[writes[p][i]] \notin {400, 404}
         /\ \A q \in DOMAIN products : \A j \in DOMAIN writes[q] :
              writes[q][j] = writes[p][i] => << q, j >> = << p, i >>

(* Of the requests that delete one product, however they interleave, at most one
   is told that it did, and it did. *)
DeletedOnce ==
    \A r \in Requests :
        Op(r) = "delete" /\ answer[r] = 200 => deleters[Target(r)] = {r}

(* A product that has been deleted does not come back by an update that had
   found its categories before. *)
DeletedForGood ==
    [][\A p \in DOMAIN products : products[p] = Gone => products'[p] = Gone]_vars

(* The answer to an update shows the details its own write stored, or those of
   a later one: never those from before, whoever else writes the product. *)
UpdateAnswerIsNotStale ==
    \A r \in Requests :
        Op(r) = "update" /\ answer[r] = 200 =>
            LET by == writes[Target(r)] IN
            \E i, j \in DOMAIN by :
                i <= j /\ by[i] = r /\ shown[r].details = input[by[j]].details
=============================================================================
