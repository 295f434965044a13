------------------------------- MODULE Ranking -------------------------------
(***************************************************************************)
(* How the recommendation service makes its artifact out of the orders and *)
(* an answer to GET /recommendations/:userId out of the artifact.          *)
(*                                                                         *)
(* A training reads orders, popular products and categories one after the  *)
(* other, an answer its ranking and then the products to show, while the   *)
(* shop goes on. The ALS model is a library's: any ranking may come of it. *)
(* Scores are fractions of integers, those of an answer ten-thousandths.   *)
(***************************************************************************)
EXTENDS Integers, Sequences, FiniteSets, FiniteSetsExt, SequencesExt, Functions

CONSTANTS
    None,          \* what is not there
    Users,
    Products,      \* product ids, of orders and of products
    Categories,
    Quantities,    \* quantities of order items; the service takes any integer
    RawScores,     \* scores the ALS model gives
    InitialShelf,  \* categories of the products there are at first
    PopularSize,   \* settings.popular_fallback_size
    Limits,        \* values of ?limit=, after parse_limit
    MaxOrders,     \* bound: order items
    MaxRemovals    \* bound: products removed from the catalogue

Removed == {"removed"}

ASSUME RankingAssumption ==
    /\ Quantities \subseteq Int /\ RawScores \subseteq Int
    /\ InitialShelf \in [Products -> (SUBSET Categories) \cup {Removed}]
    /\ IsFiniteSet(Categories) /\ None \notin [user : Users, limit : Limits]
    /\ PopularSize \in Nat \ {0} /\ Limits \subseteq Nat \ {0}
    /\ MaxOrders \in Nat /\ MaxRemovals \in Nat

VARIABLES
    orders,    \* order items, in the order of created_at
    shelf,     \* the categories of each product, Removed without it
    training,  \* what the training under way has read, None without one
    artifact,  \* _MODEL_CACHE, None before a model is loaded
    request,   \* the user and the limit asked for, None before
    ranked,    \* what get_recommendations returned, None before
    answer     \* the body of the answer, None before

vars == << orders, shelf, training, artifact, request, ranked, answer >>
shop == << orders, shelf >>
serving == << request, ranked, answer >>

Items == [user : Users, product : Products, quantity : Quantities]
-----------------------------------------------------------------------------
(* Fractions *)
Zero == [num |-> 0, den |-> 1]
One == [num |-> 1, den |-> 1]

(* Mutant: the smallest score is not subtracted. *)
Normalize_NoShift(raw) ==
    LET low == Min(Range(raw))  high == Max(Range(raw))
    IN [k \in DOMAIN raw |-> IF low = high THEN One
                             ELSE [num |-> raw[k], den |-> high - low]]

(* _normalize_score_map *)
Normalize(raw) ==
    LET low == Min(Range(raw))  high == Max(Range(raw))
    IN [k \in DOMAIN raw |-> IF low = high THEN One
                             ELSE [num |-> raw[k] - low, den |-> high - low]]

Get(scores, k) == IF k \in DOMAIN scores THEN scores[k] ELSE Zero

AtLeast(n, low) == IF n < low THEN low ELSE n

(* In ten-thousandths, rounded. *)
Rounded(num, den) == (2 * 10000 * num + den) \div (2 * den)

(* The final score: 0.75, 0.15 and 0.10 of its parts. *)
Blend(cf, popularity, affinity) ==
    Rounded( 75 * cf.num * popularity.den * affinity.den
               + 15 * popularity.num * cf.den * affinity.den
               + 10 * affinity.num * cf.den * popularity.den,
             100 * cf.den * popularity.den * affinity.den )

Take(s, n) == SubSeq(s, 1, IF n < Len(s) THEN n ELSE Len(s))

(* The elements of s at the positions of P, in their order. *)
Pick(s, P) ==
    [n \in 1..Cardinality(P) |-> s[CHOOSE k \in P : Cardinality({ j \in P : j <= k }) = n]]
-----------------------------------------------------------------------------
Those(items, Test(_)) == { i \in DOMAIN items : Test(items[i]) }

(* What an item counts for in the model. Weights are positive, so the sum of
   those of S is a number of units. *)
Weight(items, i) == AtLeast(items[i].quantity, 1)
Units(items, S) == Cardinality(UNION { {i} \X (1..Weight(items, i)) : i \in S })

(* What the aggregation sums. *)
Sold(items, p) ==
    MapThenSumSet(LAMBDA i : items[i].quantity, Those(items, LAMBDA x : x.product = p))

(* _build_sparse_matrix: users and products get indexes as they first appear. *)
FirstSeen(s) == Pick(s, { n \in DOMAIN s : \A i \in 1..(n - 1) : s[i] # s[n] })

Matrix(items) == [ users |-> FirstSeen([i \in DOMAIN items |-> items[i].user]),
                   products |-> FirstSeen([i \in DOMAIN items |-> items[i].product]) ]

(* _train_als_model fits the transposed matrix, so the model has its users and
   products the wrong way round. recommend raises for a user whose index is no
   product's, and what it does with the user's own products is the library's to
   say when there are not as many of the ones as of the others. *)
MustRaise(m, u) ==
    \A i \in DOMAIN m.products \cap DOMAIN m.users : m.users[i] # u
MayRaise(m) == Len(m.users) # Len(m.products)

ItemsOf(items, u) == Pick(items, Those(items, LAMBDA x : x.user = u))

(* _split_train_test: the last item of each user with two or more is held out. *)
HeldOut(items) == { u \in Users : Len(ItemsOf(items, u)) >= 2 }

Train(items) ==
    LET users == Matrix(items).users
    IN FlattenSeq([i \in DOMAIN users |->
           IF users[i] \in HeldOut(items) THEN Front(ItemsOf(items, users[i]))
           ELSE ItemsOf(items, users[i])])

(* _evaluate_model asks a second model for each of them. *)
EvaluationMustRaise(items) ==
    \E u \in HeldOut(items) : MustRaise(Matrix(Train(items)), u)
EvaluationMayRaise(items) ==
    HeldOut(items) # {} /\ MayRaise(Matrix(Train(items)))

(* _popular_products: by quantity sold; ties are MongoDB's to break. *)
PopularLists(items, limit) ==
    { Take(s, limit) : s \in
        { t \in SetToSeqs({ items[i].product : i \in DOMAIN items }) :
            \A i, j \in DOMAIN t : i < j => Sold(items, t[i]) >= Sold(items, t[j]) } }

(* Mutant: products of which nothing was sold get no score. *)
Popularity_Sold(items) ==
    Normalize([p \in { items[i].product : i \in { j \in DOMAIN items : items[j].quantity > 0 } } |->
        Units(items, Those(items, LAMBDA x : x.product = p))])

(* Scores of all products that were ordered, by their weights. *)
Popularity(items) ==
    Normalize([p \in { items[i].product : i \in DOMAIN items } |->
        Units(items, Those(items, LAMBDA x : x.product = p))])

CategoriesOf(map, p) == IF map[p] = Removed THEN {} ELSE map[p]

(* _build_user_category_affinity, of one user: shares of the largest total. *)
Affinity(items, map, u) ==
    LET mine == Those(items, LAMBDA x : x.user = u)
        known == UNION { CategoriesOf(map, items[i].product) : i \in mine }
        total == [c \in known |->
                    Units(items, { i \in mine : c \in CategoriesOf(map, items[i].product) })]
    IN [c \in known |-> [num |-> total[c], den |-> Max(Range(total))]]

(* _category_affinity_score; the shares of one user have one denominator. *)
CategoryAffinity(affinity, map, p) ==
    LET shares == { affinity[c] : c \in CategoriesOf(map, p) \cap DOMAIN affinity }
    IN IF shares = {} THEN Zero
       ELSE CHOOSE s \in shares : \A t \in shares : s.num >= t.num

(* What _build_training_payload makes of all it has read. *)
Payload(read, map) ==
    LET items == read.items IN
    [ matrix |-> Matrix(items),
      bought |-> [u \in Users |->
        { items[i].product : i \in Those(items, LAMBDA x : x.user = u) }],
      popular |-> read.popular,
      popularity |-> Popularity(items),
      categories |-> map,
      affinity |-> [u \in Users |-> Affinity(items, map, u)] ]
-----------------------------------------------------------------------------
(* model.recommend: distinct indexes by descending score, those of products the
   user has bought at the end, where there are not enough others, and with the
   lowest score there is. The indexes are those of users; the loops do nothing
   for one that index_to_item does not know, and it is left out. *)
AlsAnswers(a, u) ==
    LET known == { a.matrix.products[i] : i \in DOMAIN a.matrix.products \cap DOMAIN a.matrix.users } IN
    { als \in UNION { [ids : [1..n -> known], scores : [1..n -> RawScores]]
                        : n \in 0..Cardinality(known) } :
        /\ IsInjective(als.ids)
        /\ IsSorted(als.scores, >=)
        /\ \A i \in DOMAIN als.ids : als.ids[i] \in a.bought[u] =>
             /\ als.scores[i] = Min(RawScores)
             /\ \A j \in i..Len(als.ids) : als.ids[j] \in a.bought[u] }

(* The score of each product the model ranked; negative ones count as none. *)
CfScores(als) ==
    Normalize([p \in Range(als.ids) |->
        AtLeast(als.scores[CHOOSE i \in DOMAIN als.ids : als.ids[i] = p], 0)])

Hybrid(a, u, p, cf) ==
    [ product |-> p, source |-> "hybrid",
      score |-> Blend(cf[p], Get(a.popularity, p), CategoryAffinity(a.affinity[u], a.categories, p)) ]

Fallback(a, p) ==
    [ product |-> p, source |-> "popular",
      score |-> Rounded(Get(a.popularity, p).num, Get(a.popularity, p).den) ]

MapSeq(s, F(_)) == [i \in DOMAIN s |-> F(s[i])]

Unseen(popular, ids) == Pick(popular, { n \in DOMAIN popular : popular[n] \notin Range(ids) })

(* Mutant: popular products the model has ranked as well are not skipped. *)
Warm_Repeats(a, u, n, als) ==
    Take(MapSeq(als.ids, LAMBDA p : Hybrid(a, u, p, CfScores(als)))
           \o MapSeq(a.popular, LAMBDA p : Fallback(a, p)), n)

(* Mutant: the list of popular products is cut before those seen are skipped. *)
Warm_CutFirst(a, u, n, als) ==
    Take(MapSeq(als.ids, LAMBDA p : Hybrid(a, u, p, CfScores(als)))
           \o MapSeq(Unseen(Take(a.popular, AtLeast(n - Len(als.ids), 0)), als.ids),
                     LAMBDA p : Fallback(a, p)), n)

(* get_recommendations for a user the model knows: the model's order, then
   popular products to fill up. *)
Warm(a, u, n, als) ==
    Take(MapSeq(als.ids, LAMBDA p : Hybrid(a, u, p, CfScores(als)))
           \o MapSeq(Unseen(a.popular, als.ids), LAMBDA p : Fallback(a, p)), n)

Cold(a, n) == Take(MapSeq(a.popular, LAMBDA p : Fallback(a, p)), n)

(* Without an artifact. *)
Popular(s) == MapSeq(s, LAMBDA p : [product |-> p, source |-> "popular", score |-> 0])
-----------------------------------------------------------------------------
Init ==
    /\ orders = << >>
    /\ shelf = InitialShelf
    /\ training = None
    /\ artifact = None
    /\ request = None
    /\ ranked = None
    /\ answer = None

(* order-service stores an order with one more item. *)
OrderItem(item) ==
    /\ Len(orders) < MaxOrders
    /\ orders' = Append(orders, item)
    /\ UNCHANGED << shelf, training, artifact, serving >>

(* product-service removes a product. *)
RemoveProduct(p) ==
    /\ shelf[p] # Removed
    /\ Cardinality({ q \in Products : shelf[q] # InitialShelf[q] }) < MaxRemovals
    /\ shelf' = [shelf EXCEPT ![p] = Removed]
    /\ UNCHANGED << orders, training, artifact, serving >>

(* _build_training_payload: three queries, then the payload. *)
ReadInteractions ==
    /\ training = None
    /\ training' = [step |-> "popular", items |-> orders, popular |-> << >>]
    /\ UNCHANGED << shop, artifact, serving >>

ReadPopular ==
    /\ training # None /\ training.step = "popular"
    /\ \E s \in PopularLists(orders, PopularSize) :
         training' = [training EXCEPT !.step = "categories", !.popular = s]
    /\ UNCHANGED << shop, artifact, serving >>

FinishTraining ==
    /\ training # None /\ training.step = "categories"
    /\ ~ EvaluationMustRaise(training.items)
    /\ artifact' = Payload(training, shelf)
    /\ training' = None
    /\ UNCHANGED << shop, serving >>

TrainingRaises ==
    /\ training # None /\ training.step = "categories"
    /\ EvaluationMayRaise(training.items)
    /\ training' = None
    /\ UNCHANGED << shop, artifact, serving >>

(* get_recommendations. *)
Known(u) == Contains(artifact.matrix.users, u)

Rankings(u, n) ==
    IF artifact = None THEN { Popular(s) : s \in PopularLists(orders, n) }
    ELSE IF ~ Known(u) THEN { Cold(artifact, n) }
    ELSE IF MustRaise(artifact.matrix, u) THEN {}
    ELSE { Warm(artifact, u, n, als) : als \in AlsAnswers(artifact, u) }

Recommend(u, n) ==
    /\ request = None
    /\ request' = [user |-> u, limit |-> n]
    /\ ranked' \in Rankings(u, n)
    /\ UNCHANGED << shop, training, artifact, answer >>

(* model.recommend raises. *)
RecommendRaises(u, n) ==
    /\ request = None
    /\ artifact # None /\ Known(u) /\ MayRaise(artifact.matrix)
    /\ request' = [user |-> u, limit |-> n]
    /\ answer' = [status |-> 500, body |-> << >>]
    /\ UNCHANGED << shop, training, artifact, ranked >>

(* get_recommendations_response looks the products up; an empty ranking is 404. *)
Enrich ==
    /\ ranked # None /\ answer = None
    /\ answer' = IF ranked = << >> THEN [status |-> 404, body |-> << >>]
                 ELSE [status |-> 200,
                       body |-> Pick(ranked,
                           { n \in DOMAIN ranked : shelf[ranked[n].product] # Removed })]
    /\ UNCHANGED << shop, training, artifact, request, ranked >>

Next ==
    \/ \E item \in Items : OrderItem(item)
    \/ \E p \in Products : RemoveProduct(p)
    \/ ReadInteractions \/ ReadPopular \/ FinishTraining \/ TrainingRaises
    \/ \E u \in Users, n \in Limits : Recommend(u, n) \/ RecommendRaises(u, n)
    \/ Enrich

Spec == Init /\ [][Next]_vars
-----------------------------------------------------------------------------
Scores == 0..10000

IsRanking(s) ==
    \A i \in DOMAIN s : /\ s[i].product \in Products
                        /\ s[i].source \in {"hybrid", "popular"}

(* Orders, catalogue, training, artifact and answer keep their types. *)
TypeOK ==
    /\ orders \in Seq(Items)
    /\ shelf \in [Products -> (SUBSET Categories) \cup {Removed}]
    /\ training # None =>
         /\ training.step \in {"popular", "categories"}
         /\ training.items \in Seq(Items)
         /\ training.popular \in Seq(Products) /\ Len(training.popular) <= PopularSize
    /\ artifact # None =>
         /\ artifact.matrix \in [users : Seq(Users), products : Seq(Products)]
         /\ artifact.bought \in [Users -> SUBSET Products]
         /\ artifact.popular \in Seq(Products)
         /\ DOMAIN artifact.popularity = Range(artifact.matrix.products)
         /\ artifact.categories \in [Products -> (SUBSET Categories) \cup {Removed}]
    /\ request # None => request.user \in Users /\ request.limit \in Limits
    /\ ranked # None => IsRanking(ranked)
    /\ answer # None => answer.status \in {200, 404, 500} /\ IsRanking(answer.body)

(* Every score is between 0 and 1, whatever the model's scores, quantities of
   zero or less, products nobody had bought when the orders were read, and
   products or categories that came or went between the three queries. *)
ScoresInRange ==
    ranked # None => \A i \in DOMAIN ranked : ranked[i].score \in Scores

(* An answer has at most as many products as asked for, none of them twice, be
   it ranked by the model, popular or both, and the model's come first. *)
AnswerFits ==
    ranked # None =>
      /\ Len(ranked) <= request.limit
      /\ \A i, j \in DOMAIN ranked :
           /\ ranked[i].product = ranked[j].product => i = j
           /\ ranked[i].source = "popular" /\ ranked[j].source = "hybrid" => j < i
      /\ answer # None => Len(answer.body) <= request.limit

(* A ranking stops short of the limit only when nothing is left to recommend:
   every popular product the service knows of is in it. *)
FallbackFills ==
    [][ranked = None /\ ranked' # None /\ Len(ranked') < request'.limit =>
         (IF artifact = None THEN { orders[i].product : i \in DOMAIN orders }
          ELSE Range(artifact.popular))
           \subseteq { ranked'[i].product : i \in DOMAIN ranked' }]_vars

(* README.md:252: "Hybrid ranking that blends collaborative filtering, product
   popularity, and per-user category affinity". The products the model ranked
   are answered in the order of its own scores, not of the blended ones. *)
HybridIsRankedByScore ==
    answer # None =>
      \A i, j \in DOMAIN answer.body :
        i < j /\ answer.body[i].source = "hybrid" /\ answer.body[j].source = "hybrid"
          => answer.body[i].score >= answer.body[j].score
=============================================================================
