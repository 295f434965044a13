# Shop Nexus Core in TLA+

TLA+ models of the services of Shop Nexus Core, the TLC runs that check them on
small instances and the TLAPS proofs that carry the central properties over to
every instance. The models follow the code under `src/`; `PROJECT.json` maps
each definition to the lines it stands for and lists the runs, theorems,
findings and hazards.

## 1. The system

Four HTTP services in Go and Python, three background processes, MongoDB,
RabbitMQ and a volume with model files. A client registers and logs in
(auth-service), browses and edits the catalogue (product-service), orders
(order-service); an order becomes an event on RabbitMQ that is to lead to
notifications (notification-worker, Celery) and now and then to a new
recommendation model (recommendation-worker). docker-compose restarts every
container that ends (`restart: unless-stopped`).

| component | state it keeps | operations | talks to | hard behaviour |
|---|---|---|---|---|
| order-service | `orders` collection; one `EventPublisher` with one AMQP connection per process | POST /orders (token check, payment, insert, publish), GET | MongoDB, RabbitMQ | concurrent requests share a connection that is dialled once; failure and crash between payment, insert, publish and answer |
| `order_created` queue | messages, unacknowledged deliveries, sessions, TTL | publish, deliver, ack, nack, expire | its producer and two kinds of workers | redelivery, lost sessions, competing consumers, head of line |
| notification-worker | connection, the message in work | consume, parse, schedule e-mail and SMS task, ack or nack | queue, Celery's broker | a task scheduled and then a failure; an answer on a dead session; poison messages |
| recommendation-worker | connection, the count of orders since the last training | consume, count, train, ack or nack | queue, model registry | training longer than the heartbeat; a count that dies with the process |
| model registry (recommendation-service) | `model.joblib`, artifact files, `manifest.json` on a shared volume; one cache and one lock per process | train, roll back, load, status | the volume; several processes | the lock orders threads, not processes; files written in place; pruning |
| ranking (recommendation-service) | the cached artifact | make the payload of a training, rank, look products up | MongoDB, the ALS model | a training reads three times while the shop goes on; empty inputs, ties, limits |
| auth-service | `users` collection with a unique index; the Google verifier | register, login, Google login, read user | MongoDB, Google | check-then-insert races, an index that may be missing, one-time initialisation |
| product-service | `products`, `categories` collections | create, update, delete, list | MongoDB | no transactions: look-up, write and read-back of concurrent requests interleave |
| notification-celery | Celery's queue on RabbitMQ | send_email, send_sms | Celery's broker | late acknowledgement, retries by a second message, pool processes that die |
| rag-service | a Chroma directory and a store handle | index the catalogue, answer a query | MongoDB, OpenRouter | a directory removed while others search it; index built twice |
| notification-service API, health checks, configuration, middleware | the rate limiter's counters | probes, headers, rate limit | | none that another component reads |

What makes each of them correct:

* **order-service**: what a client is told agrees with what is stored, charged
  and announced, for all interleavings and crashes; stored orders never change.
* **queue and workers**: no message is in two places or lost; a message is
  acknowledged only after its work; repeats come from faults only; every
  message leaves; each order is both notified and counted.
* **registry**: the manifest can be read and lists each artifact once; only
  complete artifacts are used; manifest, files and installed model agree; a
  death costs little; every operation ends and gives the lock back.
* **auth-service**: an e-mail belongs to one account; a refused request leaves
  none; a token is for the account whose owner asked.
* **product-service**: products only list categories that exist; a stored
  product is what one request asked for; one delete succeeds and is final;
  an answer is not older than the request's own write.
* **ranking**: scores lie between 0 and 1; an answer keeps to the limit, repeats
  nothing and is filled up from the popular products.
* **notification-celery**: a task is tried a limited number of times; retries repeat
  nothing; what was scheduled is sent unless the task is given up.
* **the whole pipeline**: what a customer is told is due to an order that is stored and paid
  for, and an order that was confirmed is told of, over faults in any part of it.
* **vector index**: a search answers from one whole index; each product is indexed once.

The hazards, each at its line with the properties that would catch it, are in
`PROJECT.json` under `hazards`.

## 2. Modules

| module | models | proofs |
|---|---|---|
| `OrderPlacement` | abstract: what POST /orders promises | |
| `OrderService` | order-service, the event publisher, the broker's side of publishing | `OrderServiceProofs`, `OrderPlacementProofs` (refinement) |
| `EventQueue` | the queue and its sessions (external, from the services' use of it) | in `OrderConsumersProofs` |
| `NotificationWorker` | notification-worker | " |
| `RetrainingWorker` | recommendation-worker | " |
| `OrderConsumers` | both workers on the one queue | `OrderConsumersProofs` |
| `NotificationTasks` | Celery's queue and notification-celery | in `OrderPipelineProofs` |
| `OrderPipeline` | order-service, queue, workers and Celery composed | `OrderPipelineProofs` |
| `ModelRegistry` | model files, manifest and caches of several processes | `ModelRegistryProofs` |
| `Accounts` | auth-service | `AccountsProofs` |
| `Catalog` | product-service | `CatalogProofs` |
| `Ranking` | the payload of a training and GET /recommendations/:userId | `RankingProofs` |
| `MC...` | values of the constants for TLC | |

How state and actions correspond to the code, module by module:

**OrderService.** A request is a goroutine; `pc[r]` is the call it is at.
`Refuse` is everything that answers before payment (AuthMiddleware and the
checks that open CreateOrder), `Admit` what leads up to `paymentProcessor.Process`,
then `PaymentApproved`/`PaymentDeclined`, `InsertOrder`/`InsertFails` (a failed
insert may have been carried out, and a body may carry an `_id` that is
taken), `PublishEvent`/`PublishFails`, and `CloseChannel`, the deferred
`channel.Close()` that waits for the broker. `PublishFails` is any error of
PublishOrderCreated, with a nil or broken publisher or on a live connection (opening the
channel, declaring the topology, encoding, publishing): the handler logs it and answers
201. `unsent` is history, the requests this has happened to. `publisher` is the process-wide
EventPublisher: `"dialing"` during the ten attempts of NewEventPublisher
(nothing is served before), `"open"`, `"nil"` when all attempts failed, `"lost"`
when the connection broke; nothing leads from the last two back to `"open"` but
a crash. `wire` holds events published and not yet taken by the broker. `order`
is the handler's local variable; `charged` and the field `by` of an order are
history, too. Prices and quantities are any integers, as no check of the handler
keeps them positive; `float64` rounding and overflow are left out.

**EventQueue, NotificationWorker, RetrainingWorker, OrderConsumers.** A message
is the slot it arrived in and has one of seven shapes, the ones the two parsers
tell apart. `EventQueue` has operators, not actions: a worker's action is made
of its own step and of the queue's (`Deliver`, `Ack`, `Requeue`, `OpenSession`,
`CloseSession`), and `OrderConsumers` puts both workers, the broker's own steps
(`LoseSession`, `Age`, `Expire`) and the producers together. `nStage` and
`rStage` follow `_handle_message`; `NotificationReconnects` and
`RetrainingReconnects` are the `except` clauses of `start`. pika's callback
notices a lost session only when it answers, so work goes on after
`LoseSession`. Training is one step here and `ModelRegistry` in detail.

**NotificationTasks.** `tasks` is the bag of task messages nobody has acknowledged; the
order is left out because the pool runs tasks side by side and retries wait for a
countdown. Celery and its broker are external, what they do follows from the configuration in
`app/tasks/notifications.py`: with `task_acks_late` the message of a task is
acknowledged after its body (`TaskSends`, then `TaskAcknowledged`), so a connection that is
lost in between runs the body again (`WorkerReconnects`); a fetched message that has not run, or one
that waits for its countdown, is indistinguishable from a queued one. `self.retry`
publishes a new message with one more in `retries` (`TaskRetries`), and the old one is
acknowledged. `TaskFails` stands for the last retry, a retry that cannot be published and a
pool process that dies: `task_reject_on_worker_lost` is not set, so Celery acknowledges the
message of a dead process. The bodies of today only sleep and log and hardly raise; the
retry is what the code does when they do.

**OrderPipeline.** One RabbitMQ carries everything. `accepted[i]` of OrderService is the
message in slot `i` of the queue (`Accept`), and each increment of `emails` or `texts` by
notification-worker is a new message for Celery (`Scheduling`), also when `delay()` raises after
the message went out. The steps of order-service, of the workers and of Celery are those of their
modules with the others unchanged. `BrokerRestarts` breaks every connection at once: order-service's
publisher is lost, each session ends with what it holds back in the queue, and Celery's
unacknowledged tasks are queued again; durable queues survive. An outage is as short as a
restart here (`OrderService` has longer ones), no event reaches its TTL and nothing fails in
recommendation-worker, which only competes for the event (`OrderConsumers` has both).

**ModelRegistry.** `stage[p]` follows `train_model` and `rollback_model` from
one file operation to the next: dump the artifact, open and write
`model.joblib`, read the manifest and amend it (`AmendManifest`: the active
entry first, then prune the list), `CheckDoomed`/`RemoveDoomed` for `exists` and
`remove` of each old file, open and write the manifest. Opening a file for
writing empties it (`Torn`); two writers of one file may leave a mixture
(`mixed`). `Boot` is the `load_model()` of a process that starts, `LoadModel` the
one of a request. `_MODEL_LOCK` belongs to one process, so each has one
operation under way. Processes do not share anything but the volume. A process
killed in the middle of a write leaves `model.joblib` or the manifest cut off,
and then `load_model` raises in every process that starts: the model has this
behaviour (`Boot` is not enabled), and `RegistryAgrees` says that it needs an
overlap or a death. A `model.joblib` that two processes have written into each other is
taken to be one that does not load, like one that was cut off.

**Accounts.** A request is a goroutine, each call to MongoDB or Google a step:
`RegisterLooks` and `CreateUser`/`CreateRefused`/`CreateFails`, `LoginAnswers`,
`VerifyToken`, `GoogleLooks` and `RefreshUser`. `indexed` is whether the unique
index exists; NewUserRepository only logs that it could not be created.
`verifier` is the `sync.Once` of getVerifier with its error; a token that is only white
space is refused before it is looked at (input `blank`). Nothing asks for a subject, neither
of a token nor of an account of Google's, so both may be without one (`None`), and
`MayRefresh` lets any Google user in to an account that has none: of two who read it so both
get a token, and the later write stays. `blank` is history, the logins that read an account
so; `TokenGoesToOwner` and `IdentityIsStable` say that this is the only way for
two subjects to one account. GOOGLE_CLIENT_ID is
taken to be set (otherwise POST /auth/google answers 503 and does nothing);
name, phone number and roles are left out, a token stands for the account
whose id it carries, and signing a token does not fail.

**Catalog.** `CheckCategory` looks up one category of a request at a time;
`InsertProduct`, `UpdateProduct` then `ReadBack`, `DeleteLooks` then
`DeleteProduct`, `AddCategory` are the calls of the handlers, each with a failure
of its own after which the write may have happened. Name, description and
price are one value, `details`. `writes` and `deleters` are history. The token
check in front of the handlers keeps no state and is left out.

**Ranking.** `ReadInteractions`, `ReadPopular` and `FinishTraining` are the three
queries of `_build_training_payload`, the last with the payload made of what they
read; writing it to the volume is `ModelRegistry`'s. `Recommend` is
`get_recommendations` and `Enrich` the look-up of the products behind it; orders
and removals fall anywhere between. `Matrix` gives users and products their indexes. The
ALS model is a library's (implicit 0.7.0) and external. Its `fit` takes a row per user, and
`_train_als_model` hands it the transposed matrix, so the model has as many "users" as
there are products and as many "items" as there are users. Hence `AlsAnswers`: any list of
distinct products whose index is also a user's, by descending score, products the
user has bought last and with the lowest score (that is how `filter_already_liked_items`
fills up when too few others exist); other indexes are skipped by both loops. And
hence `RecommendRaises` and `TrainingRaises`: for a user whose index is no
product's `recommend` raises, which is a 500 of GET /recommendations or the end of a training,
because `_evaluate_model` asks a second model, made of all but the last item of each user
(`Train`), the same way; where the numbers differ and the index fits, the library may raise or
not. The metrics `_evaluate_model` computes are left out, only the status shows them.
A sum of
weights, all positive, is the number of units they stand for (`Units`), and `Pick` is a loop that
keeps some elements of a list in their order. Scores are exact fractions where the code
has floats, those of an answer in ten-thousandths as `round(..., 4)` leaves them
(the cold-start branch does not round; the model does). Ties among popular products
are broken in any way.

## 3. Runs

Every run explores the complete state space of its instance. A crash, fault,
outage, lost session or restart has a bound `Max...` in a guard; requests are
sent at most once each. Deadlock is not checked (`CHECK_DEADLOCK FALSE`): when
all requests are done and all bounds used up the models stop, as the system
does when no one calls it. That nothing waits for ever is stated by the
liveness properties.

| run | instance | shows |
|---|---|---|
| `order_service` | 2 requests, 3 ids, 2 users, every credential and kind of body, 2 dial attempts, 1 crash, 1 outage | a 201 means charged, stored once and owned by the user of the token; events tell of stored, paid orders; nothing is doubled; errors are never announced; without an outage each confirmed order is announced or its failed publish was logged; orders never change; every request ends; `OrderPlacement` is implemented |
| `order_consumers` | one worker of each kind, 2 messages of 4 shapes, interval 2, one fault of each kind and one lost session | no message lost or in two places; both tasks scheduled and orders counted before an acknowledgement; repeats bounded by faults; no training overdue; every message leaves |
| `order_pipeline` | 1 order, one process of each kind, one retry per task, any 2 faults: a crash of order-service or notification-worker, a failed `delay()`, a lost session or connection, a restart of the broker, failing tasks | mails and texts are due to stored, paid orders and come once per scheduling while no connection of Celery is lost; no task is tried too often; a confirmed order is mailed and texted unless one of the losses under Fairness happens |
| `model_registry` | worker and API process, 4 trainings, 1 rollback, 2 kept, 1 process killed | the manifest stays coherent; only complete artifacts are used; agreement of manifest, files and model when nothing overlaps; what a death costs; operations end |
| `accounts` | 3 requests of any kind for 1 e-mail, 2 Google subjects and tokens without, 3 passwords of which one cannot be hashed; at first no account, one older than AuthProvider, or one of Google's with or without a subject; index or none, 1 fault, 1 restart, 1 outage of Google; requests and subjects symmetric | registrations are exclusive under the index; refused requests leave no account; tokens go to owners; no account goes away or changes, but for a subject that was missing when a login read it |
| `catalog` | 3 requests of any kind, 1 product, 2 categories, 1 fault, 1 restart; requests symmetric | products have categories; no mixtures; one delete succeeds and is final; update answers are not stale |
| `ranking` | 2 users, 2 products with a category each and one in common, 3 order items with quantity 0 or 2, 1 product removed, limits 1 and 2, trainings at any time; users and products symmetric | scores stay in range, answers fit the limit, nothing is answered twice, popular products fill up |

Why the bounds are enough: the properties relate one request (message,
artifact) to one other that interferes, and each fault matters through where
it falls, which the bound of one leaves free; the third id of `order_service` lets two
requests collide or not with ids the clients chose, four trainings with two
kept make pruning happen more than once, three requests of `catalog` are a
writer, an interferer and a third that undoes it, and three of `accounts` two logins that have read
one account and a request between the read of one and its write. The requests of `accounts` compete for one e-mail, since
requests for different ones touch different accounts. In `catalog` a request names at most one
category (`MaxListed`): with two the state space is more than ten times as large; the proofs have
any number, looked up one after the other. In `ranking` three
items are the fewest with which a user has one held out and another an index too large, and
the limits 1 and 2 with up to two products ranked
reach a full answer, a filled and a short one; `PopularSize` is not exceeded there,
the same cut with the limit 1 is. In `order_pipeline` two faults may fall in any two
parts, or both in one; what more of them do inside a part is in the runs of the parts. `order_consumers` leaves out three message
shapes (`legacy`, `other_event`, `bad_total`) to stay small; the proofs cover all
seven. Where a theorem exists the bounds do not matter.

### Findings

Five runs are expected to find a violation. Each states what a document of the
repository says of the program.

| run | what the document says | what the code does |
|---|---|---|
| `order_service_announced` | `src/README.md:73`: order-service "publishes order_created to RabbitMQ" | `NewEventPublisher` dials only at the start; after one lost connection every later order is confirmed and not announced, with RabbitMQ up |
| `order_consumers_both` | `src/README.md:77`: notification-worker "consumes the same order_created event" | both workers consume one queue, so each event goes to one of them |
| `model_registry_rollback` | `src/recommendation-service/README.md:84`: rollback "switches the active model" | with two gunicorn processes (`Dockerfile:7`) the one that did not do the rollback goes on serving the model it had loaded |
| `accounts_google` | `src/README.md:71`: auth-service "can also verify Google ID tokens" | an error of the first initialisation is kept for ever |
| `ranking_order` | `src/README.md:252`: "Hybrid ranking that blends collaborative filtering, product popularity, and per-user category affinity" | the blended score is shown; the order and the cut at the limit are those of the ALS model |

### Fairness

* `order_service`: weak fairness for each goroutine's current call, the dial and
  the broker taking what is on the wire. Payment, MongoDB and AMQP calls
  return or fail; the Go scheduler runs every goroutine. `Admit`, `Refuse`,
  crashes, outages and the end of an outage are not fair.
* `order_consumers`: weak fairness for each worker's next step (pika's loop goes
  on, `start` reconnects after five seconds, containers are restarted) and for
  time and the TTL of each message. Producers and faults are not fair.
* `model_registry`: weak fairness for the next file operation of each process.
  Starting an operation, loading and dying are not fair.
* `order_pipeline`: weak fairness for an event on the wire, each request in flight, each
  worker's next step and Celery's. Crashes, restarts and other faults are not fair. The
  conclusion of `ConfirmedIsNotified` names the ways the customer of a confirmed order is not
  told: the publish failed and was logged, the connection broke before the event was accepted,
  recommendation-worker got the event, or Celery gave a task up.
* `accounts`, `catalog` and `ranking` have safety properties only.

## 4. Proofs

Every safety property that a passing run checks, invariant or action property, is a theorem,
for all values of the constants that satisfy the named assumptions of the modules. These say that
bounds are numbers, that model values are distinct from the data and the two kinds of workers from
each other, and no more than that, but for four of them that describe the data there is at first:

* `CatalogAssumption`: the products there are at first list categories that exist;
* `InitialsAssumption` (`Accounts`): the accounts there are at first were not made by a request
  of the model (their providers, subjects, passwords and e-mails are any, repeated ones included);
* `RankingAssumption`: there are finitely many categories;
* `PipelineAssumption`: the orders fit the queue's slots, each task is about a slot, the event of
  order-service is the `envelope` the workers know, and order-service's own assumptions hold.

TLC evaluates them all in the runs. An invariant `IInv` that a proof rests on was first checked by
TLC on the instance of its run.

**OrderServiceProofs.** `ConfirmedOrderIsStored` and its fellows are not inductive: a
201 is sent three calls after the insert it speaks of. `IInv` adds what the steps in
between rely on:

* `DialInv`: a request is in flight only when the service serves, and a lost or nil
  publisher goes with an outage;
* `HandlerInv`: for each stage, what the handler's copy of the order is (draft
  from this request's token and items; charged; stored), so that the copy and
  the collection agree from the insert on;
* `StoreInv`: an order of the collection is under its own id, and was written by
  a charged request that is past its insert;
* `EventInv`, `WireInv`: what is queued or on the wire is a copy of a stored order, of
  a request past its publish, and no order is in both or in one twice.

`InductiveInvariant` proves `Spec => []IInv`, one lemma per action and conjunct;
`TypeCorrect`, `ConfirmedStored`, `EventStored`, `NoDoubles` and
`ErrorsNotAnnounced` follow, and `OrdersNeverChange` is the action property.

**OrderPlacementProofs.** `ConfirmedAnnounced` (no outage, then each confirmed order is
announced or in `unsent`) needs `NoOutageInv` on top: who waits for the channel to close has its event on
the wire or in the queue. `PlacementImplemented` is the refinement:
initial states map to initial states, and under `IInv` each step of OrderService
maps to one step of OrderPlacement or a stutter: the payment to `Pay`, the
insert to `Record`, a failed insert to `Fail`, the broker's acceptance to `Announce`,
the answer to `Confirm`.

**OrderConsumersProofs.** `QueueInv` (types and `QueueConsistent`) is preserved by every
queue operator, one lemma each; the worker parts add that a worker whose
session is open holds in the queue what it has in work, and what each stage has
done to that message. `ConsumersInvariant` combines them; `TypeOK`, `QueueConsistent`,
`NotifiedBeforeAck`, `CountedBeforeAck` and `TrainingIsNotOverdue` follow, for any number of
workers, messages and faults. The last one rests on a cardinality argument: the
untrained orders never exceed the count. `RepeatsPaidFor` (`RepeatsNeedFaults`) needs an account of
its own, `Budgets`: what has been scheduled of a task, plus one for each worker that is about to schedule it on
a session it has lost, is at most the faults and losses so far, plus one as soon as the
event has been served. A lost session moves a worker to the side where its loss pays for
it; a requeue by itself has scheduled nothing and costs nothing.

**OrderPipelineProofs.** The parts are not proved again. `OrderServiceProofs` is instantiated for
order-service inside the composition, `OrderConsumersProofs` extended, and their step lemmas used: a
step of one part is a stutter of the others. `PipelineInv` adds what ties the parts together: the queue
has as many messages as events were accepted (so that slot `i` is event `i`), and a task, sent or
waiting, is about such a slot. `TasksCounted` is the account of Celery: what was sent plus what
waits is at most what was scheduled; it counts the copies of a task as a finite set of pairs and
holds as long as no connection of Celery is lost. A restart of the broker is a step of no part, since all
sessions go at once without counting as losses, and has a proof of its own. `NotificationsDue`
(a mail or text is due to a stored, charged order, once per scheduling) follows with
`EventTellsOfStoredOrder` of order-service and `RepeatsNeedFaults` of the worker.

**ModelRegistryProofs.** For `ManifestIsCoherent` and `OnlyDumpedIsUsed`, any number of
processes: `ManifestsSound` (the manifest and every process's draft of it are coherent and list
dumped artifacts only), `TaskInv`, `FilesInv` (an id that was not given out has left no trace; a file being
dumped is of one process) and `UsedInv`. `RegistryAgrees` and `DeathCostsOneArtifact` speak of
processes that work one at a time, and their invariant `SoloInv` is an account again: `Settled(m)`
bounds the unlisted files *plus* the entries beyond `Keep` by the number of deaths, because the next training prunes
the ones and then leaves the others; `Unlisted` is the same while a training's artifact is not listed yet,
`Drafted` while it prunes, and `Working(p)` says which of them holds at which stage. Counting
the unlisted files alone is not inductive: the entries beyond `Keep` that a death leaves in the manifest
become files to prune for the next training.

**AccountsProofs.** `IndexInv` (the index exists only while e-mails differ), `CreatorsInv` (who has not got
to an insert or was refused has made no account), and for each stage of a request what the account it has
found is. A refresh writes by `_id` what was decided on an earlier read, so `RefreshInv` has to say what is left of
that read: the account is still one of Google's with that e-mail, and it has the subject that was read
(`SubjectRead`: none, or the login's own) unless two logins have read it without one (`Rivals`). Then
`RefreshChanges`: without rivals a refresh fills in a missing subject or changes nothing. Who has read a missing
subject is past its look-up (`BlankInv`), so claimants never become fewer (`ClaimantsStay`), and a token that is
somebody's stays so over the steps of others (`OwnerStays`). `RegistrationExclusive`, `RefusedCreatesNothing`,
`TokenForOwner` and the action property `IdentityStays` follow.

**CatalogProofs.** `CheckedInv` (categories that were looked up are there, because none
is ever removed), `WritersInv`, `OnceInv` and `StoredInv` (nobody appears twice among the writers, and
the stored product is the last one's), `PresentInv` and `DeletersInv` (who deleted it), and `ShownInv`: the
answer of an update is that of a position in the list of writers behind its own.

**RankingProofs.** The invariant is short: an artifact's scores are `Shares` (a numerator not above a
denominator that is not zero), popular products are distinct, and a ranking is one of its request. The work is in
the functions. `ExtremesExist`: a finite set of integers has a smallest and a largest element;
from it `NormalizeFacts`, `AffinityFacts` and `CategoryAffinityShare`. `BlendRange` and `RoundedRange` are
the arithmetic of weighted shares. `PickFacts`: what a loop keeps of a list is each chosen position once, in order;
from it `FirstSeenFacts` and `WarmFacts`. `PopularListFacts`: a list of all products without
repetition, cut at the limit, has them all when it is shorter. `ScoresBetween`, `AnswersFit` and the
action property `FilledUp` follow for any orders, quantities, scores of the ALS model and limits.

**Induction.** The library's induction theorems take an operator as a parameter and cannot be used
here. `SetInduction` states induction over the numbers for a set instead of a predicate, and is proved from the
well-foundedness of `<`; what the recursive function `Kept` of `ModelRegistry` computes, and
`ExtremesExist`, are proved by it.

**Only model-checked.** `RequestsAreAnswered`, `EveryMessageLeaves`, `OperationsEnd` and
`ConfirmedIsNotified`: liveness under fairness is out of TLAPS's reach. The violations are TLC's traces.

## 5. Not modelled

* GET handlers, health checks, configuration, middleware (request ids, headers, CORS): no
  state that outlives the request. The rate limiter counts requests per client in a library's memory
  store and decides nothing else. AuthMiddleware is modelled where
  it matters, in front of POST /orders.
* `internal/payment/payment_gateway.go`: nothing calls it.
* `float64` arithmetic: a total that overflows cannot be encoded as JSON (listed
  as a hazard).
* Whether the two ways the services declare the queue (with and without
  `x-queue-type`) count as equivalent is decided by the broker. docker-compose.yml:285 pins
  `rabbitmq:3-management`, whose code is not in the repository; the model takes them for
  equivalent (listed as a hazard).
* rag-service's vector index. `reindex` removes the Chroma directory and opens a new store
  while other requests fill or search the old one. What happens then (SQLite files
  that are unlinked but open, a client that Chroma caches by path, rows that turn
  read-only) is decided by Chroma and SQLite and not by this code, so a model would
  be of guesses about them; the race itself is listed as a hazard.
* Model training, evaluation metrics and embeddings as computations.

## 6. Plan

In the order of importance; what is done has a module above.

1. *Done*: order placement, its abstract specification, proofs and refinement.
2. *Done*: the queue with both workers, proofs.
3. *Done*: the model registry, accounts and the catalogue, checked.
4. *Done*: proofs for `Catalog`, `Accounts` and `ModelRegistry`.
5. *Done*: `NotificationTasks`, and `OrderPipeline` composing `OrderService`, the workers
   and the tasks, checked; `NotificationsAreDue` proved from the theorems of the parts.
6. *Done*: `Ranking` with its evaluation, checked and proved.
7. *Done*: `RepeatsNeedFaults` of `NotificationWorker`, by the account of what is scheduled.
8. Left: an abstract specification of the registry (one artifact active, at most `Keep` kept) that
   `ModelRegistry` implements while processes work one at a time.
