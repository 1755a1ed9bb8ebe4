# A formal model of docker-deployments

The repository collects the deployments of a platform: mostly compose files and
vendored products, and one larger program of its own, `blockchain-application`: an
HTTP API that issues tokens ("offers") for sponsors on a Casper network, moves them
to investors and back, and keeps a Postgres database of who is who. Beside it stand
its two key services, a small bridge from RabbitMQ to browsers (`intellasphere`), and
a copy of Apache Superset, of which the path of asynchronous events is modelled here.
This directory models these programs in TLA+, checks them with TLC and proves with
TLAPS every safety property and refinement that the runs check.

Paths below are relative to `src/blockchain-application/` unless they start with
`src/` of another part.

## 1. Inventory

### 1.1 The components

| Component | Where | State it keeps | Operations |
|---|---|---|---|
| API controller and process | `src/app/app.controller.ts`, `main.ts`, `app.module.ts` | the requests in flight, nothing else | POST install, invest, redeem; GET balance, peers, node_status |
| Install | `src/app/app.service.ts` 45-229, `src/lib/services/install.service.ts` | locals of a handler | check the offer, get or create the sponsor's key, fund it, install the CEP-18 contract, look its hash up, save offer and link |
| Transfer (invest, redeem) | `app.service.ts` 231-424, `make_deploy.service.ts` | locals | look the parties up (invest may create the investor), top the sender up, sign, put, wait, link |
| Balance | `app.service.ts` 426-492, `balance.service.ts` | locals | look the offer and the party up, query the contract |
| Key pairs and funding | `public-key.service.ts`, `fund.service.ts`, `keys.service.ts` | locals | read a party's row, generate a key pair at the KMS, transfer motes from the faucet, insert the row |
| Data access | `offer.service.ts`, `src/lib/data-access/*.entity.ts` | Postgres: `offer`, `sponsor`, `investor`, `offer_sponsor`, `offer_investor` | find by id, by name or symbol; insert; save with a many-to-many list |
| Casper network (external) | used through `pkg-nodejs` | accounts, motes, named keys, contracts, deploys | accept a deploy, execute it once, later, successfully or not; emit an event |
| KMS | `src-kms/` | keys and aliases at AWS | generate a secp256k1 key, sign a hash, convert the signature |
| KMS for tests | `src-kms-test/` | an array of keys in memory | the same interface |
| Bridge | `src/intellasphere/nodejs/server.js` | RabbitMQ queues by consumer tag | subscribe, forward, unsubscribe, disconnect |
| Async events: workers | `src/superset-setup/superset/tasks/async_queries.py`, `superset/async_events/async_query_manager.py` | two Redis streams | submit a job, publish its status to both streams, read a channel's events |
| Async events: WebSocket server | `src/superset-setup/superset-websocket/src/index.ts` | `channels`, `sockets`, `lastFirehoseId` | read the global stream, forward, accept a connection and re-send, ping and collect |
| Async events: browser | `src/superset-setup/superset-frontend/src/middleware/asyncEvent.ts` | listeners, retries, the last id, the socket | wait for a job, process events, reconnect, poll |
| The rest | the rest of `src/superset-setup`, `temporal-setup`, `airflow`, `confluent`, `equitybrix`, `laravel-*`, `postgres`, `strapi`, `visitor-site` | none of the repository's own | compose files, configuration, vendored products |

### 1.2 How they interact

The controller calls one `AppService` method per request. The handlers run in one
Node process and switch only at an `await`: a query to Postgres, an HTTP call to
the KMS, an RPC to the Casper node, or the wait for the event of a deploy. They
share no memory; they meet in the database, in the named keys and balances of the
accounts they sign for, and in the process they die with. Nothing spans two
awaits: there is no transaction, no lock, no journal and no retry.

    client -> controller -> AppService -> PublicKeyService -> KMS, FundService -> node
                                       -> InstallService / MakeDeployService -> KMS, node
                                       -> OfferService, PublicKeyService -> Postgres

The API's only way to a key service is one POST, which generates a key or, with a key
id, signs. The bridge and the events share nothing with the API or with each other:

    browser -> bridge -> RabbitMQ (queue, binding, consumer) -> bridge -> browser
    worker -> XADD channel stream, XADD global stream
           -> WebSocket server (XREAD global, XRANGE channel) -> browser
           -> web application (XRANGE channel) -> polling browser

### 1.3 What is hard about it

* check-then-act over a whole install (`checkIfOfferExists`) and over the creation
  of a key (`getOrCreatePublicKey`);
* lists of offers read, changed in memory and saved whole (`saveOffer`,
  `processSuccessfulTransfer`), so a stale list deletes links;
* one save that is not awaited (`app.service.ts:211`): it races with the awaited
  save of the same entity, outlives the answer, and ends the process if it fails;
* deploys that execute after the wait for them timed out, or although the answer
  of `put_deploy` was lost;
* execution results nobody reads (`fund.service.ts:71`, `install.service.ts:87`);
* contracts found by name, where a later or an earlier install writes the same name;
* a balance read some awaits before it is relied upon (`app.service.ts:271`);
* keys made, read and named at AWS in three calls that fail apart, and a signature
  converted by hand (`src-kms/lib/services/keys.service.ts`);
* queues of the bridge whose names coincide (`server.js:76`), which one subscriber
  destroys and another uses (`:150`);
* events with two ids in two streams (`async_query_manager.py:306`), sent to sockets
  that are dead, re-sent out of order, retried, polled for, and settled once.

`PROJECT.json` lists each of these at its line, with the properties about it.

### 1.4 What makes each part correct

* Install: an offer row stands for a token that exists; a 201 stays true.
* Transfer: the answer tells what happened to the tokens, or says that it does not.
* Key pairs: tokens never end up on a key the database does not know.
* Every handler: a request the API turns down has had no effect; every request is
  answered in the end.
* Data access: a link in a junction table is backed by what happened on the chain.
* Balance: the balance read is that of the party asked for, or of the issuer.
* Key services: a key that was told of can be named; a signature is by the key named,
  and is the one that was made.
* Bridge: a client gets what it, or its user, asked for, and gets it.
* Async events: a promise is settled once, by what the worker published; while the
  connection lives, or when polling, it is settled in the end.

## 2. The modules

| Module | What it models |
|---|---|
| `Casper` | The network, external: `status` and `payload` of each deploy, `motes`, `named` keys, `tokens`. `Put` accepts a deploy; `ExecuteWell` and `ExecuteBadly` execute it at any later time. |
| `Database` | The tables `record` (sponsor and investor, one shape), `offers`, `links`, their unique constraints, and `save()` on a many-to-many list as a read of the links and a write of the difference. |
| `ApiProcess` | The process: a program counter, parameters and locals per request, the answers, `Issue`, `Crash`, `Restart`. |
| `Provisioning` | `getOrCreatePublicKey`, `createAndFundPublicKey`, `FundService.fund`, `KeysService.generateKeypair`. |
| `Deploying` | Sign, put and wait for the deploy a request is about; the load and save of the party it adds an offer to. |
| `InstallOffer`, `TransferTokens`, `ReadBalance` | The handlers of install, of invest and redeem, and of balance. |
| `Equitybrix` | All of it composed: `Init`, `Next`, `Spec`, `FairSpec`, and the properties. |
| `Outcome` | Abstract: what a caller may conclude from the answer to a transfer. |
| `EquitybrixInvariant` | The inductive invariants `IInv` and, resting on it, `LinksInv`, in named parts. |
| `EquitybrixProofs` | `IInv` and the properties that follow from it: offers, keys, rejections. |
| `LinksProofs` | `LinksInv`, and with it links and balances. |
| `OutcomeProofs` | That the API implements `Outcome`. |
| `MCEquitybrix` | Instances for TLC: menus of requests. |
| `Signature` | The conversion of a signature from DER to fixed width, as operators. |
| `KeyServices` | `src-kms` over AWS and `src-kms-test` in memory, behind one entry point. |
| `KeyStore` | Abstract: what the API may rely on of either. |
| `KeyServicesProofs` | That both implement it, and what the conversion keeps of a signature. |
| `Bridge` | The sockets, subscriptions and queues of `server.js`, with the broker, and the inductive invariant `BridgeInv`. |
| `BridgeProofs` | `BridgeInv` and the properties of the bridge. |
| `EventStreams` | Celery tasks, the manager that publishes, the two Redis streams. |
| `EventServer` | The WebSocket server, as one channel sees it. |
| `EventClient` | One browser tab: promises, retries, connection, polling. |
| `AsyncEvents` | The three composed, with the network; properties and fairness. |
| `EventDelivery` | Abstract: what a chart may rely on of its events. |
| `EventsInvariant` | The inductive invariant `EventsInv`, in named parts. |
| `EventsLemmas` | Lemmas: ids, slices of a stream, lists of events processed one by one. |
| `EventsProofs` | `EventsInv`, no event lost, and that the path implements `EventDelivery`. |
| `LeastNumber` | That a set of naturals has a least one, for inductions. |
| `MCKeyServices`, `MCBridge`, `MCAsyncEvents` | Instances for TLC. |

In the API each action runs one handler from one await to the next, so an action is named for
the call that its await is about, and `pc[r]` names the await request `r` stands
at. A guard `At(r, "put")` is that await; `Goto` is the code up to the next one;
`Throw(r, code)` is an exception as the handler's `catch` answers it (install: 500
whatever it was; transfer: the status of the error, or 500; balance has no `catch`
and answers the same). Names of deploys, keys and contracts are derived from the
request that makes them, so they are fresh without a counter: key pair `r` is the
one generated for request `r`, contract `r` the one its install deploy creates.

In `KeyServices` and `Bridge` an action is one await or callback likewise: `pc[q]` or
`phase[s]` names it, and key `q` is the one generated for call `q`. In the events an
action is an XADD, a Redis reply, a frame, a timer or an answer; `EventServer` has the
fields of `index.ts` for one channel (`firehose` is `lastFirehoseId`, `registry` the
keys of `sockets`, `members` the sockets of the channel, `ready` the `readyState` at
the server's end), `EventClient` the globals of `asyncEvent.ts` under their names.
`link` is the connection whose ends still reach each other: a socket that is open at
the server while `link` is another, or 0, is half-open.

### Abstractions

* `None` as a parameter is a missing or falsy one; `decimals` is checked together
  with `total_supply`, for both are required and neither is told apart further.
* Amounts of motes are in tenths of CSPR: 25, 2500 and 6 are the defaults of
  `ACCOUNT_CREATION_PAYMENT_AMOUNT`, `INSTALL_PAYMENT_AMOUNT` and
  `TRANSFER_PAYMENT_AMOUNT`. The faucet never runs dry, and its own payments are
  not counted; a transfer of it that fails is an `exec` fault.
* Queries to Postgres fail only by a constraint. The branches that answer 424, 409
  or "not saved" need a row without a key or a row that has vanished; columns are
  not null and nothing is ever deleted but links, so no state reaches them.
* The only named key of a contract that is modelled is the one `getContractHash` looks
  for, `cep18_contract_hash_<name>`; the rest of the CEP-18 contract (mint,
  burn, events, admins) is left out.
* The wasm file is read without error. The routes that only read the node's state
  (`peers`, `node_status`) are left out.
* A string of octets in `Signature` is its length and its value; the code's octet of
  256 values, width of 32, DER overhead of 6 and curve order are constants. The PEM
  parsing and point compression of a public key are assumed right.
* A subscription of `Bridge` stands for its consumer tag. The broker acts between any
  two steps, an unsubscribe's unbind, unsubscribe and destroy reach it together.
* An id of a stream is a pair of numbers; the manager's `increment_id` is the
  server's below ten events of one millisecond. Streams are not trimmed, and reads
  not cut by COUNT.
* One channel and one tab that settles promises; another tab of the session is present
  by the jobs it submits. A page is not reloaded, and starts with no last id. The
  server may have read the global stream before the page, or stand at `$`.
* One Redis connection serves XREAD BLOCK and XRANGE in turn, as in `index.ts:142`.

### Faults

`Faults` says which may happen in a run: `kms` (a key generation or a signature
fails; a key may have been generated all the same), `rpc` (the node is out of
reach, or its answer is lost after it took the deploy), `timeout` (no event of a
deploy within `waitDeploy`'s timeout), `exec` (a deploy fails for a reason of its
own), `crash` (the process dies and is started again by an operator: the compose
files name no restart policy). A process also dies, with no fault at all, by the
rejection of the save it did not await; the image runs Node 20, which exits then.

`KeyServices`: `aws` (a call to AWS fails, done or not), `restart` (a service dies: its
calls fail, its memory is empty). `Bridge`: clients leave at any time. `AsyncEvents`:
`link` (a connection breaks, seen by the server or not, or is refused), `server` (the
WebSocket server dies and starts again), `pong` (a live socket answers a ping too
late), `timeout` (a task meets its soft time limit), `cache` (the data are gone from
the cache when fetched), `api` (a poll fails), and `Refused`, the jobs whose XADDs
Redis may refuse.

## 3. The runs

Four modules instantiate the API (`MCEquitybrix`), the key services, the bridge and
the events. For the API two or three requests, two labels, two offers and one to four
parties are enough for every collision the code distinguishes: same or other id, name,
symbol, sponsor, investor. Each request is given a menu of parameters and takes one, at
any time. `CHECK_DEADLOCK FALSE` everywhere, for these systems rest once every request
has been answered, every message forwarded, every event delivered.

| Run | Instance | Faults | Shows | Distinct states |
|---|---|---|---|---|
| `install` | 2 installs: same id; same name; same symbol, other sponsor; only the sponsor in common, or nothing; a missing name; and a balance by offer alone | all | `TypeOK`, `IInv`, `OfferBacked`, `CreatedOfferKept`, `NoEffectBeforeRejection`, `LinksInv`, `LinksBacked`, `BalanceOfIssuer` | 763 thousand |
| `transfer` | an install; an invest; an invest (same or other investor, more than there is, unknown sponsor, no amount) or a redeem | `rpc`, `timeout`, `exec` | `NoEffectBeforeRejection`, `TokensHeldByKnownParty`, `LinksInv`, `LinksBacked`, refinement of `Outcome` | 488 thousand |
| `settle` | an install; an invest, a redeem or a balance | all | `EveryRequestSettles` under `FairSpec`, refinement of `Outcome` | 7 thousand |
| `kms` | 3 calls; octets of 2 bits, 3 to an integer, order 61; every `s` beside an `r` of three lengths | all | `TypeOK`, `SignedByNamedKey`, `OrphanOnlyAfterFailure`, `FullSignatureIsMade`, `KeysInv`, refinement of `KeyStore` | 47 thousand |
| `bridge` | 3 subscriptions of 2 users over 2 sockets, 2 messages, 2 milliseconds | clients leave | `TypeOK`, `OwnUsersMessages`, `UnsharedServed`, `ConsumerKnown`, `BridgeInv`, `MessageForwarded` | 59 thousand |
| `events` | 2 jobs, 2 connections, both transports | all but `api` | `TypeOK`, `OpenSocketTracked`, `LiveEventNotLost`, `EventsInv`, refinement of `EventDelivery` | 1.3 million |
| `events_live` | 2 jobs, 1 connection, both transports | `api`, `timeout`, XADDs of job 1 | `PublishedSettles` under `FairSpec`, refinement of `EventDelivery` | 107 thousand |

Three calls to a key service are two keys and a signature, the least in which a wrong
key can sign. An order of 61 under 64 has, like that of secp256k1 under 2^256, an `s` on
either side of the half with complements of every length. Two subscriptions of one user
and one of another share, and do not share, a queue in either of two milliseconds; all
are of the view `profile`, the one with `*` in its routing key. Two jobs are the least
whose XADDs cross; a job of another tab is one of the two. `MaxTime` 1 puts all ids in
one millisecond, where only their numbers tell them apart (ids of the two streams are
compared by a reconnection alone, and there a later millisecond gives more ways to lose
an event, without any crossing); one retry of an event and one of a connection are enough to come to the end of either. Two connections are one
reconnection. `events` has the refused XADDs left to `events_live`, where two events of
one job, "done" and "error", meet retries and polls.

The runs do not show what three concurrent installs, five subscriptions, three
connections or longer histories do: the proofs of section 4 do, but for the liveness
properties, which are known for the instances above only. `IInv`, `LinksInv`, `KeysInv`,
`BridgeInv` and `EventsInv` are the inductive invariants of the proofs; each is an
invariant of a run as well, and has a mutant there.

### Properties

* `OfferBacked`: a row of the offer table names a contract that a successful install
  deploy created, under the name of the row, from a sponsor's account. The code never
  reads the deploy's result, so this rests on the named keys alone.
* `CreatedOfferKept`: what a 201 to install said stays true.
* `NoEffectBeforeRejection`: after 400, 428, or the 422 of a duplicate, no key was
  generated and no deploy put for the request.
* `TokensHeldByKnownParty`: whoever loses the race to create a party stops before its
  key is used.
* `LinksBacked`: links may be missing, but those there are tell the truth.
* `BalanceOfIssuer`: the first linked sponsor of an offer is its issuer.
* `TransferOutcome`: invest and redeem refine `Outcome`: 201 only for tokens moved,
  400, 422 and 428 only for tokens that never will, 417 and 500 for "unknown".
* `EveryRequestSettles`: a request in flight is answered, or lost with the process.
* `SignedByNamedKey`, `IsKeyStore`: with aliases made late or never and memories lost,
  a call signs with the key it named or fails; both services implement one abstract
  store.
* `OrphanOnlyAfterFailure`: a key no alias names was never answered.
* `FullSignatureIsMade`: of a signature of the full width, `r` and `s` are those that
  were made, `s` or its complement with the top bit clear. (That the width is full is
  `signature` below.)
* `OwnUsersMessages`: queues may be shared, but never between users.
* `UnsharedServed`, `MessageForwarded`: a subscription that shares no queue keeps it,
  and what is in it is forwarded, whatever others open, close or abandon.
* `ConsumerKnown`: the server can name every consumer it left at the broker.
* `OpenSocketTracked`: two collectors and the reader never lose an open socket.
* `LiveEventNotLost`: no event falls between the reader, the re-sending, the retries
  and the last id, while a socket lives or when polling. The jobs it speaks of for a
  socket are those in `covered`, an auxiliary variable: requested over a socket the
  server has known since, after the server's first event. Before that event each read
  starts at `$`, and what is added between two reads is lost.
* `SettledAsPublished`: a promise is settled once, and by what was published, with
  events lost, repeated, late, or doubled by a failure to publish.
* `PublishedSettles`: what was published settles the promise in the end.

### Fairness

`FairSpec` asks weak fairness of `Step(r)` for each request and of nothing else. Node
runs every callback that is ready, so a handler whose await has returned runs on.
That the awaits return is an assumption: queries and RPCs return or fail; the wait for
a deploy ends by the default timeout of the SDK, as the code passes none
(`make_deploy.service.ts:105`, `fund.service.ts:57`); a KMS call returns or fails,
although the code gives it no timeout (`keys.service.ts:33`, `:79`): a KMS that never
answers is outside the model. The chain is not fair, a deploy may never execute; nor
is `Restart`.

`Bridge!FairSpec` asks that the broker serve the consumers it has. `AsyncEvents!FairSpec`
asks that the server's loop run on (`subscribeToGlobalStream` never ends), that frames,
answers and timers of the browser come, and that a poll sent again and again is answered
once. Nothing is asked of workers, of the network or of collectors. Timers have a
condition of their own: after two events of one job of another tab, retries and polls
rearm each other for ever, for each retry moves the last id back (`asyncEvent.ts:165`)
and the next poll brings the later event again. The promises of the tab are settled all
the same.

### Where the code does not do what the repository says

Five runs expect a violation; each checks one sentence of a document, a comment or a
test.

* `party_funded`: "should return error key when investor can not be funded"
  (`public-key.service.spec.ts:146`). `FundService.fund` ignores the execution result,
  so a party is saved on a key whose motes never arrived.
* `install_ok`: "should error on failing to install contract"
  (`app.service.spec.ts:447`). The result is not read; the contract of an earlier
  install of that name, one that timed out and executed late, is found in its place.
* `balance_by_offer`: "should check balance with only offer as parameter nor sponsor"
  (`app.e2e-spec.ts:133`; also the example of `README.md:67`). A stale save of the
  sponsor drops the link of an offer installed and answered; `sponsors[0]` is then
  undefined and the answer a 500.
* `signature`: "Padding with leading zeros if r or s is below 32 bytes"
  (`src-kms/lib/services/keys.service.ts:152`, and the test of a short `s`,
  `keys.service.spec.ts:113`). `normalizeS` (`:213`) pads the complement of a high `s`
  to whole octets only: with a complement below 2^248, one in 128 of those with a high
  `s`, the signature is an octet short.
* `events_lost`: "events that may have already been received and sent unsuccessfully are
  read from the channel-based Redis Stream and re-sent to the new WebSocket connection"
  (`src/superset-setup/superset-websocket/README.md:48`). Two workers' XADDs cross: the
  channel's stream has job 1 before job 2, the global one job 2 before job 1. The tab
  gets job 2, with its id of the global stream; the link breaks and job 1 is sent to
  nobody; the range asked for on reconnection starts, in the channel's stream, after
  job 1.

Two more disagreements follow from hazards of the list and have no run of their own: two
transfers of one sponsor both pass the check of a "minimum of 2.5 CSPR"
(`app.service.ts:274`), for the balance is read some awaits before the deploy is put;
and two installs started together both install a token although "should not install a
duplicate offer id" (`app.e2e-spec.ts:226`): only the rows are kept apart, as
`CreatedOfferKept` and `OfferBacked` say.

## 4. The proofs

Each theorem holds for every value of the constants that meets the assumptions of its
model: any number of requests, calls, subscriptions, jobs and connections, any menu, any
set of faults, any bound. Every safety property of a passing run is the subject of one,
and so is every refinement.

| Theorems | Module | Rest on |
|---|---|---|
| `SpecTypeOK`, `SpecOfferBacked`, `SpecTokensHeldByKnownParty`, `SpecNoEffectBeforeRejection`, `SpecCreatedOfferKept` | `EquitybrixProofs` | `SpecIInv` |
| `SpecLinksBacked`, `SpecBalanceOfIssuer` | `LinksProofs` | `SpecIInv`, `SpecLinksInv` |
| `SpecTransferOutcome` | `OutcomeProofs` | `SpecIInv`, `SpecLinksInv` |
| `SpecTypeOK`, `SpecSignedByNamedKey`, `SpecOrphanOnlyAfterFailure`, `SpecFullSignatureIsMade`, `SpecIsKeyStore` | `KeyServicesProofs` | `SpecKeysInv` |
| `ShortExactlyWhenComplementIs` | `KeyServicesProofs` | lemmas about powers and octets |
| `SpecTypeOK`, `SpecOwnUsersMessages`, `SpecUnsharedServed`, `SpecConsumerKnown` | `BridgeProofs` | `SpecBridgeInv` |
| `SpecTypeOK`, `SpecOpenSocketTracked`, `SpecLiveEventNotLost`, `SpecSettledAsPublished` | `EventsProofs` | `SpecEventsInv` |

### The API: offers, keys and rejections

The assumptions (`CasperAssumption`, `DatabaseAssumption`, `ApiAssumption`) say that
`None` is none of the values it stands beside, that prices are naturals, that the first
motes of a key are more than none, and that menus hold well-typed parameters. The
properties are not inductive: when a handler inserts an offer, nothing in `OfferBacked`
says that the hash in its locals is a token of that name. `IInv` adds what each handler
knows at each await:

* `HandlerOK`: the handler a request is in fits its parameters;
* `KeysOK`: from the first paid await on, the keys in the locals are those of the
  rows of the parties, and a key being created is the request's own;
* `ContractOK`, `RowOK`: what the handler is about to save, or has saved, is backed;
* `EffectsOK`: before its checks are done a request has touched nothing;
* `DeployOK`, `NamedOK`: install and transfer deploys are of and for keys with a row,
  and a named key stands for a token of that name of that account.

The proof goes action by action. Most actions move one request between two awaits and
share a few frame lemmas: one says what stays true of the requests that do not move,
one what stays true of backed contracts when the chain grows (a deploy that was put
keeps its payload, one that succeeded stays so), one what an insertion into each table
keeps. `Execute` is where `OfferBacked`, `NamedOK` and `TokensHeldByKnownParty` are at
stake, `SaveOffer` where `ContractOK` is used, `SaveRecord` where a row comes to be
and, by the unique constraint, none is replaced.

### The API: links, balances and answers

A link is written from a list that was read some awaits before, and perhaps by a save
that nobody awaits, so `LinksBacked` needs to know what is in the lists. `LinksInv` is a
second invariant, proved inductive under the first (`NextLinksInv` assumes both):

* `TransferOK`: from the put on, a transfer's deploy is the one its parameters ask for,
  in the contract of its offer; before its offer is linked the deploy has succeeded; a
  422 is of a deploy that never went out, or failed;
* `ListOK`: each offer of a list about to be saved, in the handler or behind it, would
  be a true link;
* `BalanceOK`: a balance by an offer alone holds the contract of the offer and the key
  of the sponsor who installed it;
* and every link there is, is true.

`LinkTrueStays` is the heart of it: rows, contracts, payloads and successes are never
taken back, so that a list may be as stale as it likes; what it omits is deleted, but
what it adds is true. `AwaitedWriteLinks` and `BackgroundLinks` treat the two saves of
`app.service.ts:211` and `:212` alike.

`OutcomeProofs` shows that a step of `Equitybrix` is a step of `Outcome` or a stutter.
`StepMoves` says what a caller can tell of a step of one request: it may answer, once,
and put deploys, and 201 is said of one that succeeded, which is `TransferOK`.
`ExecutionIsOutcome` treats the execution of a deploy, at whatever time: that it is not
of a request already refused is `EffectsOK` for 400 and 428, and `TransferOK` for 422.

### The key services

`KeyServicesAssumption` says no more than that a call's number is not the one that
stands for no key, that nonces are pairs of scalars, and which two services there are.
`SignedByNamedKey` is not inductive:
between `describeKey` and `sign` a call holds an alias it has read, and a key id is worth
something only if the key it names cannot go away unnoticed. `KeysInv` therefore says
what each call knows at its await (`AwaitOK`: of which service it is, that one which
generates has no key id but its own, that one about to sign has found its alias), that a
signature is the conversion of the call's own nonce (`SignatureOK`), and ties `told` to
the keys that can be named. `StepIsKeyStore` shows that a step is one of five things to a
reader of `KeyStore`: nothing, a key, a signature by a key that can be named, one failure,
or the failure of all calls in flight, which is a restart.

The conversion is proved for octets, widths and orders of any size (`SignatureAssumption`:
the order lies between half and the whole of `Power[Width]`, and the DER overhead is small
beside the width, as 6 is beside 32). Powers grow (`PowerGrows`), the least number of
octets is unique (`OctetsOfIs`), and `ConvertedRIs`, `ConvertedSIs` say what the padding,
the slice and the complement leave. The order has to be strictly less than the power: an
order equal to it and even would give an `s` with its top bit set, which TLC, with the
order 61, could not tell. That of secp256k1 is. `ShortExactlyWhenComplementIs` closes the
finding of `signature`: of the signatures that are converted at all, the short ones are
those whose `s` is so high that DER prefixes it with an octet and whose complement needs
fewer octets than the width, and no others.

### The bridge

`BridgeInv` traces whatever is at the broker to the subscription that put it there: a
binding to one that was bound with that key, a message waiting in a queue to a binding it
matched, a consumer to one not yet ended, and a name to a millisecond of the
subscription's own user. Queues may be shared, but `QueueNameTellsUser` makes the sharers
users of one name, so that a message in a queue is of the user of whoever consumes it. For
`UnsharedServed` the invariant speaks of a subscription from `basicConsume` on, before its
tag is known, for others may end meanwhile. `BridgeAssumption` says of which socket each
subscription is.

### The events

The assumptions (`EventStreamsAssumption`, `EventServerAssumption`,
`EventClientAssumption`) say that the bounds are naturals, that `None` is no id, and which
two transports there are. `EventsInv` says where the event of a job may be that the tab
has not heard of:

* `StreamsOK`: both streams are in the order of their ids, and not ahead of the clock;
* `WorkersOK`, `EventsPublished`: a worker adds to the channel's stream before the global
  one, so that an event anywhere on its way says what the channel's stream says;
* `LinkOK`, `ReaderOK`: a link has an open socket at either end; the server stands at an
  entry of the stream it reads, or before it;
* `ForwardedInTime`: an event in the global stream, of a job requested over the socket
  that lives, is ahead of the server or on the wire;
* `PolledInTime`: for a tab that polls, the channel's events of a job it has not heard of
  are ahead of every id a poll may start from, now or after a retry has moved the last id
  back: `KnownIds`.

`LiveEventNotLost` needs the last two to be about *every* id a timer holds, for a retry
sets `lastId` to that of the retried event. `EventsLemmas` has what the operators do:
`IdOrder`, `PositionIs` and `EntriesAfterSet` (a range of an ordered stream holds just the
entries after its id), `BatchIs` and `LastIsLast` (after a read the server stands at the
last entry there is), `AfterEventsFollows` (what a tab is after any list of events: no job
once heard is unheard again). The lemmas about lists and ranges of any length are
inductions, over the least counterexample (`LeastNumber`), since the induction theorems of
the library take an operator. `EventsProofs` then goes action by action, in groups: what is
published, what is read, what is delivered, what the tab does, what breaks.
`StepDelivers` maps each step to one of `EventDelivery`: what a worker says, a promise made,
a promise settled by what was said, or nothing.

### What is only model-checked

* `EveryRequestSettles`, `MessageForwarded` and `PublishedSettles`: liveness under
  fairness is out of the prover's reach.
* The five sentences the code refutes: a counterexample is a run.

## 5. Plan

1. Proofs of the safety on which `MessageForwarded` and `PublishedSettles` rest, stated as
   invariants first: that a message in the queue of a served subscription stays there until
   it is forwarded, and that the number of retries one event may cause is bounded.
2. Theorems that close the other findings as `ShortExactlyWhenComplementIs` closes one:
   under which orders of XADDs `ReconnectionResends` does hold, and which installs
   `install_ok` may answer 201 wrongly.
3. Lemmas that are in the modules of one component and useful to others (slices of
   sequences, powers) in modules of their own, as `LeastNumber` is.

## 6. Not modelled

* `src/superset-setup` beyond the events: a vendored copy of Apache Superset, some 270
  of the repository's 280 thousand lines of program: React components, chart plugins,
  their story data, database connectors, command and schema classes. It is another
  project's code, kept here to be deployed; the events were taken because several
  processes meet in them. A map of a third of those lines would model screens.
* `pkg-nodejs`: glue generated for a compiled SDK, present without its source.
* The API's read-only routes; its Swagger set-up; `sdk.service.ts`, which holds an
  object and two addresses.
* The bridge's handling of malformed JSON (`server.js:51`, `:127`: such a message is
  answered twice), of a broker that is not there yet (`amqpReady` is set and never
  read), and its own restart; its views other than `profile` are modelled and not
  instantiated.
* JSON web tokens and the renewal of a channel id, page reloads with a last id in
  `localStorage`, the trimming of streams, `MAX_EVENT_COUNT`, and the decimal carry of
  the manager's `increment_id` (`async_query_manager.py:72`: after `...-19` comes
  `...-110`).
* `temporal-setup`, `airflow`, `confluent`, `equitybrix`, `laravel-*`, `postgres`,
  `strapi`, `visitor-site` and the deployment of `blockchain-application`: compose
  files, configuration, logs and start-up scripts that run once, in a sequence.
