# A TLA+ model of the DoorLeap services

This directory models the back end of the DoorLeap food-ordering demo
(`src/Final`): four C++ services that consume Kafka topics, a Qt front end that
produces to them and takes their answers over HTTP, and Redis, MariaDB and
Consul behind them. The modules are checked with TLC; what holds for every value
of the constants is proved with TLAPS.

## 1. The system

| Part | Source | State it keeps | Operations | Talks to |
|---|---|---|---|---|
| Consumer loop | `KafkaConnect` in each service | position, committed offset (in the broker), message in hand | poll, handle, destroy | Kafka |
| Basket | `Basket/Basket.c++`, `Basket/Main.c++` | the keys `basket:*` in Redis | add, delete, clear, get; GET/DELETE `/basket[/id]`, `/health` | Redis, topic `cart` |
| Orders | `Orders/Orders.c++` | none; a delivery thread per order | `update`: clear the cart, play a delivery; `email` | topics `orders`, `cart`, `gui`, `order`; SMTP |
| Account | `Account/Account.c++` | table `users`, one connection per message | `login`, `create` | MariaDB, topic `accounts`, the GUI's `POST /logins` |
| Resterants | `Resterants/Resterants.c++` | none (reads MongoDB) | `collect`, `search` | MongoDB, topic `resterant`, the GUI's `POST /resterants` |
| Start-up | the four `Main.c++` | acceptor, Consul's catalog | listen, construct the service, `Register`, `ioc.run()` | Consul |
| DoorLeap GUI | `DoorLeap/App` | menu visibility, open sockets | log in, create account, ask for restaurants, `POST /logins`, `POST /resterants` on 9258 | topics `accounts`, `resterant` |
| httplib client | `httplib/httplib.h` in Account and Resterants | one connection per post | connect, write head, write body, read response, time out | the GUI |
| bookservice, vendored code | `bookservice`, the rest of `httplib`, `jwt`, `nlohmann`, `Dependencies`, `build` | - | - | - |

How they interact: everything a user does is a message on a topic. A service
takes one message at a time, and while its handler runs (Orders: two minutes)
nothing else of the topic is looked at. Answers to the GUI are HTTP posts made
inside the handler. A service's own HTTP server shares the main thread with the
consumer: `Main` constructs the service object, whose constructor *is* the
consumer loop, and gets to `ioc.run()` only if `KafkaConnect` returned because
`rd_kafka_new` or `rd_kafka_subscribe` failed. So a life of the process either
consumes or serves HTTP.

What is hard here: offsets are stored at poll and committed by a timer, so a
death in a handler loses or repeats a message; all four services share the group
id `DoorLeap`, so any restart rebalances all; unparseable messages end the
process; multi-command handlers meet Redis and database failures in the middle;
sends and posts fail without their caller being told; names go into the text of
SQL statements as they stand, and the database compares them by its own rule; the
app handles what one
`readAll` returns as a whole request, while the client writes it in two or three
parts and stays blocked for up to 300 s when nothing comes back. `PROJECT.json` lists each
of these at its line with the properties that would show it going wrong.

Correctness, component by component, is: the consumer neither skips nor reorders
and loses little (KafkaConsumer); Redis holds what the topic says (Basket,
Cart); deliveries are told in order, in full, and not repeated without cause
(Orders); an order takes the cart that was there (OrderFlow); answers about
accounts are true, given, and names stay unique, as far as the statements made
are the ones meant (Account); a request that is understood as it was meant shows
the menu only to the owner of an account, and whoever is let in gets to see it
(LoginFlow, LoginService); lists
are asked for once and no answer of the app hangs a service (ListFlow); the catalog and the
announcements agree with what runs (Startup).

## 2. The modules

`KafkaConsumer` is the loop with its environment. `Basket`, `Orders`, `Account`
and `Resterants` instantiate it as `Loop` and put their handlers between
`Loop!Poll` and `Loop!Finish`. `Cart` is the abstract basket, `LoginService` the
abstract log-in. `OrderFlow` extends `Orders` and instantiates `Cart`.
`DoorLeap` is the app with the connections to it; `LoginFlow` extends `Account`
and instantiates `DoorLeap` and `LoginService`; `ListFlow` extends `DoorLeap`
and instantiates `Resterants`. `Startup` stands alone. `MC*` modules add what a
run of a component needs (`MCBasket`: symmetry; `MCAccount`, `MCLoginFlow`: the
requests and the collation); each `.cfg` is one run. The
theorems about a module are in `<module>_proofs`.

**KafkaConsumer.** `log` is the topic (one partition, offsets from 1), `pos` the
last offset polled, `committed` the group's offset, `inHand` the message between
`rd_kafka_consumer_poll` and `rd_kafka_message_destroy`. `Poll` stores the
offset at once (librdkafka's default `enable.auto.offset.store`); `AutoCommit`
is the timer and may fire while a handler runs; `Restart` resumes at
`committed`, and with none at the beginning (`auto.offset.reset = earliest`).
`Rebalance` is a revocation whose commit failed: the consumer is assigned the
partition again and starts from the committed offset, with the current message
still in hand (no rebalance callback is set, so librdkafka does this on its own
thread). A revocation whose commit succeeds is `AutoCommit`. `Throw` is the
exception a message of `Poison` raises: it leaves the constructor, `main` prints
it and returns. `handed` and `completed` are history variables: offsets a handler
was called for, and those whose latest handler returned. `Dropped` is their
difference without the message in hand.

**Cart / Basket.** `Basket` works command by command: `AddToBasket`,
`DeleteItem`, `GetBasketById` are one Redis command; `Keys` starts a clear or a
listing, `ClearOne`/`GetOne` are its commands in any order of the keys, `*Done`
its end. `Command` gives the three ways a `redisCommand` ends: done; an error
reply (not NULL, nothing done: Redis refuses writes while it cannot save, and
everything while it loads); NULL, with the command done or not, and the context
unusable after it. `RedisCrash` goes back to the last `Snapshot`
(`restart: always`, `--save 20 1`). `serving` is a life whose `KafkaConnect`
returned: it takes HTTP requests one at a time, as the single-threaded
`ioc.run()` does. Which of the two a life is, is a free choice. `ListingThrows`
is `it.key()` on an array iterator (`Basket/Main.c++:82`).

**Orders.** `Clear` (step 0, to `cart`), `UpdateOrders` (starts the thread),
`Deliver` (its next message), `Join`. `Produce` sends, loses or duplicates.
`sent` is the history of what all topics got. `NumStages` is 5 in the code
(`gui` and `order` are told of each); the sleeps between stages have no
counterpart. Offsets of `runs` name the orders delivered.

**OrderFlow.** The user's adds and orders, `Orders`, and the abstract basket.
`OrderClears` carries what `Produce` stored to the topic `cart`.

**Account.** One action for each call that can fail: `Connect`/`ConnectFails`
(the null pointer then goes to `mysql_query`: a segmentation fault),
`Select`/`SelectFails`/`NoResult`, `Insert`/`InsertFails` (with the row stored
or not), `Post`, `Close`. `NoResult` follows libmariadb, whose `mysql_fetch_row`
answers a null result with no row, so `Create` goes on to insert.
`PasswordThrows` is the `at("password")` that only a free name reaches. The
repository has no schema; the model assumes no uniqueness rule in the table, and
columns that keep what they are given. The GUI is an outcome: answered with 200,
or not, having heard it or not.

The three statements are put together from the text of the message
(`Account.c++:74,154,164`), so what they do depends on it in two ways. The
database compares names by the column's collation, which by default ignores case
and trailing blanks: `Fold` is any function of names, and two names are one
(`SameName`) when it takes them to the same value. Passwords are compared by the
service, exactly. And a name or password may end the string it stands in, as the
quote in "o'neil" does. `Plain` is the set of those that do not, `Literal(m)` that
the statements of a message mean what the code means by them. Of a statement that
is not a literal the model takes every outcome: a SELECT finds any row or none
(`Found`), stored or made up, so the answer may be anything; an INSERT adds any
rows, up to a bound, or none (`Added`); both may be no SQL at all, which is
`SelectFails` and `InsertFails`. Rows that are there stay as they are: one call of
`mysql_query` makes one statement (the client does not ask for more), which is a
SELECT, or an INSERT whose text up to `VALUES ('` with its columns is the code's
own and which, without a uniqueness rule, meets no row it could change. The app sends passwords as hexadecimal digests,
which are literals, and names as they were typed; other producers of the topic may
send either. `Sent` bounds the requests of a run.

**DoorLeap.** `conn[c]` is the connection of client `c`: the parts of its request
written and read so far, whether the server answered, and whether the app acted
on it. `Post`, `Write`, `ReadResponse`, `Timeout`, `Close` are the httplib
client: head and body are two writes, and from 1024 bytes on the head asks for
"100 Continue", which the app never says, so the body follows after a second, in
one piece or two. `ReadyRead` is the slot, by what `readAll` returned.
`TakeAnswer`: a whole `/logins`; a success shows the menu and asks for the list.
`CutAnswer`: a `/logins` without its body, whose parse throws out of the slot, so
the app ends. `CutList`: a `/resterants` without all of its body, left
unanswered. `WholeList`: `items` is an array or an object and is read as a string
outside the `try`, so the app ends (`HttpServer.cpp:90`). `Remainder`: the rest of
a body, which is no request of its own and is ignored or answered "endpoint not
found" with status 200. `AskForList` is `ProduceMessage`: stored, lost, or stored
twice. The app may fail to listen ("deaf") and goes on without a server. A cut
inside the head of a request is not modelled: it is one segment.

**Resterants.** `Connect`/`ConnectAgain` (the catch clause calls `Connect` again,
`MaxTries` calls deep, then the stack ends), `Query`/`QueryThrows`, `Post`,
`PostReturns`. A search that finds nothing ends without a post.

**LoginFlow.** `LogIn` is a press of either button while the form is there;
`Work` what the account service does by itself; `PostAnswer` and `PostReturns`
the two ends of `client.Post`, the second being `Account`'s `Post` with the
outcome the connection had. When a service dies, what it wrote is still read
(`Forget` closes the connection afterwards). `LoginService` has a list of what
was asked, the accounts made of it, the request whose success is on its way, and
whether the menu is shown: a request is granted only with the name and password
of an account, and the menu is shown only for a granted request, once for each
time. The mapping is `asked <- log, accounts <- users, shown <- menu`, and
`granted` is the request the open connection answers (history variable `asker`),
as long as its success was not acted on. The promise is made to requests that are
literals; of the others it says that they lose no account (`EnrollOthers`) and
that granting them is up to the database (`Grant`). Their statements may also fail
here, which is the only fault of the database in this module.

**ListFlow.** The account service is there only as the client whose answers show
the menu; what `AskForList` stores goes to the end of the topic; `Console` adds
searches and messages nobody asked for.

**Startup.** `Main` gives each main's steps in their order; `Listen` may fail and
main goes on; `Subscribe` stays in the consumer, `SubscribeFails` goes on;
`Register` replaces the entry with the same ID, as Consul does; `RunReturns` only
without an open acceptor; `End` covers every exception and stop. `Healthy` is
Consul's HTTP check against docker-compose's host names.

## 3. What the runs check

| Run | Question | Bounds |
|---|---|---|
| `MCKafkaConsumer` | order, no skips, at most one loss per death, poison passed only by a commit, what was lost stays lost; a living consumer gets through its topic | 3 messages, 2 restarts, 1 rebalance |
| `MCBasketCart` | `Basket` implements `Cart`: messages take effect once and in order, a clear and a listing look like one step | 3 messages, 2 items, 2 costs, 2 requests, no failures |
| `MCBasket` | after redelivery Redis holds of every item what the topic says last, less the effect of one message for each failed command or death; failures invent nothing; handlers end, the topic is drained | 2 messages, 2 items, 1 request, 1 restart, rebalance, fault |
| `MCOrders` | order and completeness of deliveries, repeats bounded; orders are carried out | 2 messages, 1 stage (2 sends), 1 restart, rebalance, failed send |
| `MCOrderFlow` | an order takes everything older than it out of the cart, and reaches the basket | 2 orders, adds on the first 2 places of `cart`, 1 restart, 1 rebalance |
| `MCAccount` | answers to literal requests are true, names stay unique, the first create wins; missing answers and leaks are owed to failures; requests are answered | 2 messages of 8 kinds, 6 of them requests, by 3 names (2 of them one for the collation, 1 no literal), 2 passwords, other INSERTs while the table has no more than 1 row, 1 fault, restart, rebalance |
| `MCLoginFlow` | `Account` and `DoorLeap` implement `LoginService`; an answered log-in was acted on; whoever is let in sees the menu | 2 requests of 3 kinds, by a name that is a literal and one that is not, 2 passwords, other INSERTs as above, 1 fault of their statements, 1 restart of the service and of the app, 1 lost send |
| `MCListFlow` | a log-in asks for the list once; a collect is answered or tried; every post ends, the topic is drained | 1 log-in, 2 messages, 1 restart of the service, 1 lost or doubled send, 1 call of `Connect` below the first |
| `MCStartup` | what the catalog can hold; a main without consumer comes to serve | 4 services, 1 restart |

Why the bounds are enough: the hazards need a message before and one after the
disturbed one (hence 2 or 3), a death and the redelivery after it (1 restart), a
redelivery in a living process (1 rebalance), and one failure. Two items or users
are needed to tell "this one" from "the others"; two spellings of a name meet each
other in a create after a create or a login after a create, and a name that is no
literal meets the answers to one that is, all in two messages. Not every pair of
a name and a password is sent: `MCSent` keeps those that differ in one of the
two from another request. `MCBasketCart` is the only run
that uses symmetry (items are interchangeable, and it checks safety only). A
stage is a pair of sends and all stages are alike, so one is enough for their
order; `MCOrdersEmails` runs the five of the code. `CHECK_DEADLOCK FALSE`
everywhere: a dead service that nobody restarts is a legal end.

Runs that end in a violation, each a disagreement of the code with what it prints
or with its other half (see `findings`): `MCBasketListing` (GET `/basket` ends
the process), `MCOrdersEmails` (mails go to topic `order`, the service reads
`orders`), `MCStartupAnnounced` (a
server is announced that never answers, because the service consumes).

Disagreements that reading alone shows, and no run is spent on: a successful
login is printed as "failed to send packet", because 201 is expected
(`Account.c++:99`) and the app answers everything with 200; "packet sent"
(`Resterants.c++:77`) is printed when the app answered "endpoint not found" with
200 (`HttpServer.cpp:98,103`); a list that arrives whole ends the app; GET
`/health` of the app answers "endpoint not found", for the second `if`
(`HttpServer.cpp:55`) does not follow from the first; a failed log-in shows
nothing, and no button signs out; "basket cleared"
(`Basket.c++:142`) and "added the item to the cart" (`Basket.c++:74`) are printed
after a failed KEYS and an error reply; Orders announces port 9257 and opens 9260
(`Orders/Main.c++:127,130`); it registers the host `orders`, which docker-compose
calls `order`; Resterants registers as `basket-1` (`Resterants/Main.c++:130`);
"arived at resterant" is sent twice in a delivery (`Orders.c++:104,107`).

### Fairness

Only what the process does by itself is fair: the loop and its handlers (`Loop`,
`Receive \/ Handler`, `Service`, `Step`, `Process`), and the app's event loop,
each socket of it, while the app lives (`EventLoop`). That is what one thread that never
waits without a limit gives: polls return after 1 s, flushes after 5 s, the
client's posts after 300 s, Redis and database calls return or fail. Two
assumptions go beyond the code: an SMTP transfer ends (curl is given no timeout),
and Consul answers the registration it accepted (`http::read` has none). Neither
commits, rebalances, restarts nor users are fair: nothing restarts a service
(docker-compose has a restart policy for Redis only). Liveness properties
therefore end in "or the service died". `Forget` is fair in `ListFlow`: the
kernel closes a dead process's sockets. That an operator takes longer to start a
service than the app to read what its last life wrote is an assumption of both
compositions (`Group`).

The bounds of the two compositions are smaller than those of the parts, because
each part is checked by itself: the database does not fail in `MCLoginFlow` but
for statements that are no literals, no two names are one for its collation, and
nothing is rebalanced; the app is not started again in `MCListFlow`.

## 4. What is proved

Every safety invariant the runs check, the action property `LostForGood`, and
both refinements (`Cart`, `LoginService`), for every value of the constants. What is assumed of those is
the `ASSUME` of each module: bounds are naturals, the poison messages are
messages (`ConsumerAssumption`), `Orders` has a stage and knows its four types of
messages (`OrdersAssumption`), `NoPassword` is neither a password nor a literal
and what is sent to the account service are logins and creates
(`AccountAssumption`; nothing is assumed of the collation `Fold` and the literals
`Plain` besides), the user of `OrderFlow` can place orders
(`OrderFlowAssumption`), `ListFlow`'s clients and `Startup`'s services are those
of the code. No proof assumes that a set is finite or not empty.

**The argument they share.** `KafkaConsumer_proofs` proves `IInv` of the loop.
`Basket_proofs`, `Orders_proofs` and `Account_proofs` first show
`ImplementsLoop` (`Spec => Loop!Spec`): a handler's steps leave the consumer
alone, its exceptions are crashes. So `IInv` holds in each service without a
second proof (`Proved == INSTANCE KafkaConsumer_proofs`; `SameConsumer` says that
`Loop` and `Proved` are the same definitions). `OrderFlow_proofs` and
`LoginFlow_proofs` do this once more: the composition implements its service
(`ImplementsOrders`, `ImplementsAccount`) and takes over what was proved of it
(`OrdersPromises`, `AccountPromises`).

`ConsumerPromises` says of each service what the loop promises of itself: order,
nothing skipped, at most one loss for each death, poison passed by a commit only,
losses for good. For the restaurants service it is proved in `ListFlow`, where it
is no refinement: a step of the app that asks for a list may put two messages on
the topic (a request stored twice), which no step of the loop does. `GrowKeeps`
shows that the loop keeps its promises however many messages come at once, and
`ConsumerStep` that a step of the flow is such a growth, a step of the loop, or
leaves it alone.
Below, the inductive invariant of each result and why it is needed.

`KafkaConsumer_proofs`:

* `TypeCorrect`, `InOrder`, `CommitSkipsNothing`, `PoisonNeedsCommit`: `IInv`.
  None of the four is inductive alone. `TypeOK` needs that the message in hand
  was handed out; `NothingSkipped` and `HandedInOrder` need `Offsets`:
  committed <= pos, pos <= the message in hand, and all up to pos was handed
  out. `OnlyCommitPassesPoison` needs `PoisonBehind`: in a living process a
  poison message behind the position is in hand or behind the committed offset,
  for `Finish` excludes poison and `Throw` ends the life, after which the
  position falls back to the committed offset.
* `LossIsBounded`: `Dropped` grows by at most the message in hand at a death
  (`DroppedStep`) and never otherwise, while the count of deaths grows by one
  (`LossStep`).
* `LossIsForGood`: a message dropped and committed past comes to no handler again
  (`LostStays`). A commit only moves to the position, which `IInv` keeps at or
  above the committed offset, and a restart or a rebalance goes back to that
  offset and no further; so no step hands out what is behind it.
* For the services: what a death dropped is still to come or behind the commit
  (`DroppedOutHolds`), and once behind it stays there (`GoneStays`).

`Basket_proofs`:

* `NothingIsInvented` is inductive with the types: `StoresStep` says where each
  step takes the store, the snapshot, the listing from.
* `LossesArePaid`: `PaidInv`. Before the service has caught up, Redis holds of an
  item what *some* message n left, and only what lies between n and the position
  has to be lost or pending (`ItemPaid`): a position that was set back, before n
  or behind it, asks for less. The set of the lost messages is not a variable;
  each step shows the next one: a message handed out leaves it, one whose command
  fails or whose handler dies enters it, the former for a fault (`Cost`), and
  further commands on the broken connection are free because it is in already.
* `RefinesCart`: the mapping of `Carts` with `CartInv` (the message in hand is the
  last polled; a listing has read exactly the keys it has done with), under the
  bounds `Calm`: no faults, no restarts, no rebalances. This is what the promise
  is about ("while nothing fails", as in `MCBasketCart.cfg`); items, costs,
  messages and requests are unbounded. With restarts or rebalances it does not
  hold: a position that is set back has messages take effect again, out of order
  for a cart, which is what `LossesPaid` speaks about instead.

`Orders_proofs`:

* `OneAfterTheOther`: `OrderInv`. At most one delivery exists, that of the last
  run (`Playing`, since the handler joins its thread), and the topics have of the
  last run nothing at or past its next step (`SentBehind`).
* `RunsAreBounded`: `RunsPaid` counts, for each offset, its runs, one more if it
  is ahead of the position, one more if it is in hand and not yet played: only
  restarts and rebalances raise the sum.
* `CompletedOrdersArePlayed`: `PaidInv`. What is owed counts pairs (run, step)
  of runs that are done, and of the last run the steps that are over; a failed
  send adds one pair and one fault.

`OrderFlow_proofs`: `OldItemsGo` from `ClearInv`: what is old and in the cart, or
on its way there, has a clear behind it in `cart` (`OldGoes`), or there is an
order whose clear is still to come, unless a death dropped it (`ClearOwed`).

`Account_proofs`:

* `AnswersAreTrue`: `TruthInv`, that a positive outcome about to be posted to a
  literal request is true, and rows stay (`TableGrows`), also when another request
  made another statement. For a login a row has the name, as the collation
  compares it, and exactly the password; for a create its very row is there.
  Nothing is shown of the answer to a request that is no literal: the database
  may answer it with any row.
* `NamesAreUnique`: `NamesPaid` counts names with a row, as the collation tells
  them apart, against rows, and the insert about to be made of a name that has one
  (`Twice`); only `NoResult` gets there, with a fault. The theorem is about topics
  whose creates handed out so far are literals (`CreatesLiteral`), for another
  INSERT may add a name that is there; logins may be anything.
* `FirstCreatesWin`: `WinInv`, under the same condition. Without faults each row is that of the first
  create of its name, names have one row, an insert about to be made is of a free
  name, and a create that was handed out is in the table, pending, or dropped.
  The hard case is the insert: a create of the name further back would be in the
  table or dropped, and what is dropped is not before the message in hand unless
  it is gone (`DroppedOut`), which the end excludes since gone is for good
  (`GoneStays`).
* `AnswersAreGiven`, `LeaksAreBounded`: counting, as in `Orders`.

`LoginFlow_proofs`: `KeepsPromise` (`FlowSpec => Implements`) and `LoginsAreTaken`
from `FlowInv`: the one connection is honest about what its request was answered
(`AppInv`), belongs to the request in hand (`Asking`), and the insert of a literal
request is of a free name (`FreeName`); with `TruthInv` every `Grant` of
`LoginService` to one is of an account.

`ListFlow_proofs`: `CollectsAreAnswered` and `AnswersAreHandledOnce` from
`ListInv`: the parts of each connection fit its request (`WireInv`), an answer not
yet acted on is one the count still has room for (`CountInv`), the connection is
open exactly while the service's thread posts (`PostingInv`).

`Startup_proofs`: `FirstLivesOnly` from `Places`: a process that consumes is at
that step of its main, and in first lives one that has registered is past it.

**What stays with TLC.** Liveness (`EveryMessageHandled`, `HandlersEnd`,
`TopicDrained`, `OrderDelivered`, `PlacedIsCleared`, `Answered`, `MenuShown`,
`PostEnds`, `FailedConsumerServes`) and what `WF` says through `ENABLED`: TLAPS
does not do these proofs. `LossesPaid` and `FirstCreateWins` speak of the last
and the first message about an item or name, which says the same as a replay of
the topic from its beginning, but needs no fold: what a fold computes for every
topic is induction over data, which the provers cannot be given.

## 5. Not modelled, and why

* Message formats, JWT contents, logging, HTTP framing: no property is about
  them. The response texts of `handle_request` are left out; only the listing is
  kept (`shown`).
* What a statement that is no literal does besides finding and adding rows: how
  long it takes, what it reads, and which of the outcomes of section 2 a given
  text has. The model takes all of them, so the properties are those that hold
  beside such requests, and none of them says that such a request is refused.
* Time. Sleeps and timeouts are orders of events. A handler that runs past
  `max.poll.interval.ms` (300 s) would be put out of the group; Orders stays
  below it (120 s of sleep, at most 5 s for each of 11 sends) unless SMTP hangs.
* `Session` reads and writes: one request is taken and answered as a whole.
* Several instances of one service: docker-compose starts one of each.
* The app's registration with Consul and its `/health`: one stateless exchange.
* Vendored code: nlohmann/json, jwt-cpp, Boost, Crypto++, gtest, and all of
  httplib but the path a plain `Client::Post` takes. These are most of the lines
  of the repository (each copy of json.hpp has 25526); the services use them
  through a handful of calls, whose outcomes (a parse that throws, a status) the
  models have.
* bookservice: a Spring CRUD controller apart from the rest, without state of its
  own beyond a repository interface that the framework implements.

## 6. Plan

Done: the models of all parts in section 1 but those of section 5, their runs,
the proofs of every safety invariant, of the action property and of both
refinements, and what the loop and the services promise carried to the services
and the flows.

Left, in this order:

1. `LossesPaid` for a basket beside the orders service: `OrderFlow` has the
   basket's Redis without its failures, so it would need `Basket` in place of
   `Cart` there.
2. `LoginFlow` and `ListFlow` in one composition, and `Session`'s reads and
   writes.
