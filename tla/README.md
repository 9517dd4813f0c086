# A verification development for hbt-crypto-wallet-api

The service is an Express API over PostgreSQL (Prisma) for crypto portfolios: users keep
categories, tokens, the buys and sells of each token, and price alerts. A background job
(BullMQ on Redis) asks external APIs for prices, pushes a notification through Firebase for
each alert whose price is reached, and deactivates it. This directory holds TLA+ models of
that code, TLC runs over small instances, and proofs checked by TLAPS. Paths are relative to
the repository; line numbers are those of the commit modelled. `PROJECT.json` maps every
definition to its lines and lists the runs, mutants, findings, hazards and theorems.

## Inventory

| component | state | operations | interacts with |
|---|---|---|---|
| Token alerts, `services/tokenAlert.service.ts` | table `TokenAlert` | create, update, delete, activate, deactivate (list, get) | shares its table with the checker |
| Alert checker, `alertScheduler/PriceAlertChecker.ts` | the snapshot and the price map of the pass under way | `checkAllActiveAlerts`, `processTriggeredAlert` | reads and writes `TokenAlert`, reads `User.deviceToken`, calls the price service and Firebase |
| Crypto price service, `cryptoPrice/` | process-wide singleton: `availableProviders`, `currentProvider` | `initialize`, `getPrices` | called by the checker, calls three price APIs |
| Price providers, `cryptoPrice/providers/` | CoinGecko's 24-hour table from symbols to coin ids | `getPrices`, `isAvailable` | external APIs |
| Alert scheduler, `alertScheduler/AlertSchedulerService.ts`, `index.ts`, `bullBoard.ts`, `server.ts`, `app.ts` | singleton, `isInitialized`; repeatable job, queue and pause flag in Redis | initialize, trigger, pause, resume, clean, shutdown | runs the checker; asked for by Bull Board, by the server's start and by its stop |
| Push notifications, `notifications/` | Firebase app initialised or not | `sendPriceAlertNotification` | Firebase |
| Token balances, `tokenBalance.service.ts`, `import.service.ts` | table `TokenBalance` | create, delete, import (list, get, totals) | refer to tokens |
| Tokens, categories, `token.service.ts`, `category.service.ts`, `import.service.ts` | tables `Token`, `Category` | create, update, delete of tokens, create and update of categories, import of both | a token refers to a category, balances refer to tokens |
| Users, `auth.service.ts` | tables `User`, `RefreshToken` | register, login, device token (refresh) | device token is read by the checker |
| HTTP plumbing | none | validators, error handler, upload checks | |

**Hard behaviours.** All handlers run on one Node event loop, and several server processes may
share the database. Each `await` of a Prisma call is a point where another request, or the job,
may run. No handler but the import of balances uses a transaction, and no rule of the data
("no two equal active alerts", "no sell above the balance", "one token per symbol") is a
constraint of the database. The job works on a snapshot across network calls that last seconds.
The job can fail or die between a push and the write that records it, and BullMQ runs it again.
Queue, schedule and pause flag outlive the process. Two singletons are stored before they are
initialised.

**What makes each component correct.**

- Alerts: no two equal active alerts of one user; a row changes only through its owner, and gets
  another only by a body that names one; a deleted row stays deleted; every handler behaves as one
  atomic step.
- Checker: an alert fires when, and only when, its own condition holds; once per activation; its
  write disturbs nothing a user wrote; one bad alert does not silence the others; a pass ends.
- Price service: the provider asked is one found available; a failure means all were tried;
  it recovers when the providers do.
- Ledger: a balance is what was bought less what was sold; it does not go below zero; only its
  owner changes it; an import happens whole or not at all.
- Scheduler: a ready service has its schedule on record, whatever came before; passes go on; the
  shutdown of a ready service lets the running pass end, and ends itself; no job stays queued for ever.
- CoinGecko: the table depends on the coins listed and not on chance; an answer under a symbol is
  the price of that symbol's coin; popular coins are found whatever becomes of the list.
- Catalog: a symbol is unique per user; a token is in a category of its owner; an import can be
  repeated.
- Sessions: a login leaves its token, and not many others, in the table; a row lapses no earlier
  than its token. (That an e-mail has one user is the database's unique index, part of the model.)

## Modules

| module | models | state ↔ code |
|---|---|---|
| `AlertTable` | the table `TokenAlert` and its queries | `alerts[a]` is the row with id `a`, `NoAlert` where there is none; `Column` is the rounding of `Decimal(20,10)` |
| `TokenAlerts` (on `AlertTable`) | the five handlers that write | `req[r]` is a request between two of its awaited calls |
| `AlertBook` | abstract: every operation one atomic step on one entry, which may hand the entry over; an entry put beside its active twin is marked loose | `book` is the rows, with price and direction as one condition; `loose` is `unchecked` |
| `PriceAlertChecker` (on `AlertTable`) | the pass of the job | `todo`, `cur`, `quoted`: the alerts not yet looped over, the one being processed, `priceMap`; `device`, `market`: the users' device tokens and what the price service would say |
| `AlertPipeline` | both of them on one table, with crashes | |
| `CryptoPriceService` | singleton, probe, `getPrices`, for any providers giving any answers | `created`, `available`, `current` are the fields; `pc`, `next` say where the call stands |
| `CoinGeckoProvider` | the table from symbols to ids: cache, refresh from the list of coins, basic table; ids back to symbols | `table`, `fresh` are `symbolCache` and its age; `mapping` is the table the call under way uses |
| `PriceLookup` (on both) | a price request through the service to the three providers and their APIs | `up` is the world; `data` is `response.data`, where a price stands for the coin it is the price of |
| `TokenBalances` | create, delete, import of balances and delete of tokens | `rows`, `tokens`: the tables; `req[r]`: a request between two calls; `Double` and `Column` are the roundings of a JavaScript number and of `Decimal(36,18)` |
| `AlertScheduler` | start-up, singleton, queue, commands, signals, shutdown | `instance`, `worker`, `interval`: the process's fields; `repeats`, `paused`, `waiting`: what Redis holds |
| `Catalog` | create and update of categories; create, update, delete of tokens; imports of both | `categories`, `tokens`: the tables; `req[r]`: a request or an import between two calls |
| `Sessions` | register and login, the tables they write, time and death of requests | `users`, `sessions`: the tables; `req[r]`: a request between two calls |
| `TokenAlertsProofs`, `AlertPipelineProofs`, `TokenBalancesProofs`, `AlertSchedulerProofs`, `CatalogProofs`, `CryptoPriceServiceProofs`, `PriceLookupProofs`, `SessionsProofs` | theorems about the modules they are named after | |
| `MC...` | small instances for TLC | |

An action is one awaited call with the synchronous code around it. `BeginUpdate` is the
`findFirst` that opens `updateTokenAlertService` and all that is computed from its answer,
`CheckDuplicate` the second `findFirst`, `WriteUpdate` the update by id. Where a request is
answered with an error before it holds anything, the action is not enabled; later it is `Refuse`.
In the checker, `ReadActiveAlerts` is the `findMany`, `FetchSucceeds` and `FetchFails` the
price call, `CheckAlert` a round of the loop, `SendReturns` the push and `DeactivateFired` or
`DeactivateFails` the update. The snapshot is a set: the order of `findMany`, which names none,
is left open. In the scheduler `Start` is the import of `app.ts`, which asks for the instance
before `server.ts` does; `RemoveOld` and `AddRecurring` are the two calls that `initialize` makes to
Redis; `Listen` is `server.ts` going on with the instance it found, initialised or not. In `PriceLookup`
`CryptoPriceService.getPrices` waits at `Asked(p)` for the provider; CoinGecko's part of that wait is
`GeckoStep` (the coin list) and `GeckoAnswers` (the prices).

**Refinement.** `TokenAlerts` maps its table to `AlertBook` (`Book`, by `INSTANCE ... WITH`), and
`ImplementsBook` says that the prisma calls of overlapping requests, each a step, amount to the
atomic operations of the book. It is checked without and with the job writing to the same table,
and proved in both settings. `LookupSpec => ServiceSpec` is the other one: the real providers are among
the arbitrary ones of `CryptoPriceService`.

History variables serve properties only: `stale` (a request's first read is out of date),
`unchecked` (rows last written past their duplicate check), `push` (the last push since the alert
was armed), `touched` (rows users wrote since the pass read them), `refused` (providers that have
failed the call), `last` (the token of the last login of a user that was answered), `cut` (users
whose login died between its two writes), `holders` (the users a row has belonged to since it was
created), `strayed` (tokens whose owner or category was last written without a look for the category
among the owner's). `stale`, `unchecked` and `holders` have the same sense in `TokenAlerts` and
`Catalog`.

Operators named as mutants are faulty variants of the definition after them; each is used to
confirm that a property notices the fault.

## Runs

| run | instance | shows |
|---|---|---|
| `token_alerts` | 2 users, 2 alerts, 2 requests, 2 prices that are stored alike, 8 PUT bodies, four of which name an owner | types; a duplicate needs a write past its check (`DuplicateNeedsUncheckedWrite`) and the inductive invariant behind it (`DuplicateInv`); a row changes only through its owner, or a former holder whose request was overtaken, and gets another owner only where a body names one; no deleted row returns; the handlers implement `AlertBook` |
| `pipeline` | 1 alert, 2 requests and the job, 2 quotes, 1 fault | alerts the user leaves alone fire rightly; one push per activation; the job keeps edits |
| `two_alerts` | 2 alerts, 1 request and the job, 1 fault | requests that do not overlap make no duplicates, and the job makes none (`NoCauses` names what the instance leaves out); `AlertBook` is implemented with the job writing too; due alerts fire; passes end; one alert's failure is not another's |
| `price_service` | the 3 providers of `config.ts`, going down and up, restarts; 5 coins, 6 symbols, every order of the coin list | the provider asked was found available; a failed call asked all configured fallbacks; a fallback that stays up keeps serving; the table holds each symbol's preferred coin; popular symbols find their coin; what an answer under a popular symbol can be |
| `scheduler` | 2 intervals, 1 immediate check, 2 attempts, crashes and Redis outages without bound | the schedule of a ready service is on record; shutdowns end; the exit of a signal's handler cuts a pass short only if the service was not ready or its close threw; passes keep starting; every queued job leaves the queue |
| `catalog` | 2 users, 2 categories, 2 tokens, 2 requests, 1 symbol, 4 PUT bodies (three name an owner or connect a category), 2 files | repeated symbols, and tokens outside their owner's categories, have only the causes named; a token changes only through its owner, or a former holder whose request was overtaken; undisturbed import lines are upserts |
| `sessions` | 2 users, 2 e-mails, 3 requests, 3 seconds, requests dying anywhere | a user's tokens never outnumber the requests at work; the last token answered is stored; no row lapses before its token |
| `ledger` | 2 users, 2 tokens, 3 rows, 2 requests, amounts 0, 7 and 14, 3 files, doubles seven apart and a column of threes | overdrafts have only the three causes named, the third of them the rounding of the sum; owners only; imports are whole |

Four runs end in a violation; each is a finding, a disagreement between the code and its own text.

| run | what TLC finds |
|---|---|
| `duplicate_by_race` | two creates (or create and activate) pass the check together, and both write |
| `invalid_symbol` | an alert on `BTC-USD`, which `POST /token-alerts` accepts, makes `validateRequest` refuse every batch: no alert of anyone fires again |
| `silent_start` | Bull Board's request for the scheduler stores the instance; when its initialisation fails, the server listens all the same, without a schedule, and no alert is ever checked |
| `imported_sell` | an imported sell is stored positive and raises the balance |

Other behaviour that the models contain and no text of the repository contradicts, the most
consequential of it listed under `hazards`: an alert edited during a pass may be switched off for its old condition
(PriceAlertChecker.ts:218, `UntouchedFiresRightly` is about the others); an answer without
some of the symbols counts as a success (CryptoPriceService.ts:78), and CoinMarketCap is asked without
any (CoinMarketCapProvider.ts:26); the price of a coin outside CoinGecko's table of 20 is named by its
id in capitals, which may read as another coin's symbol (CoinGeckoProvider.ts:72); overlapping logins leave several
refresh tokens (auth.service.ts:59); after a switch to a
fallback the default provider is not asked again (CryptoPriceService.ts:80); a price service whose
first probe found no provider fails for the life of the process (cryptoPrice/index.ts:34); after a
restart with another interval both schedules run (AlertSchedulerService.ts:99).

Two more ways to duplicates are known from the model and confined by
`DuplicateNeedsUncheckedWrite`: an update with `active: true` alone is not checked
(tokenAlert.service.ts:122), and prices that differ beyond the tenth decimal are compared unrounded
but stored rounded (schema.prisma:74; `token_alerts` has such prices). A third is a body that names
an owner (below): the check looks among the alerts of the user who asks.

**Bodies beyond the documentation.** The updates of alerts and tokens give the whole `req.body` to
Prisma (tokenAlert.service.ts:139, token.service.ts:146); nothing strips it on the way. Both models
admit bodies with a `userId`, and that of tokens also bodies that connect a category. So a row *can* be
given to another user, by its owner, and a token *can* be put into a category of someone else. A
request that read the row before it was handed over still writes it afterwards, by id.
`ChangesByHolders` and `TokensChangeByHolders` say that nothing worse happens;
`StraysExplained` that no other call puts a token outside its owner's categories.

**Numbers and decimals.** `tokenBalance.service.ts:26` compares a Prisma `Decimal` with a number, and
so compares doubles: a sum a little below the amount passes for it. The ledger keeps the
roundings apart: a request carries a number (`Numbers`), the column keeps the nearest cell (`Column`),
and `TooLittle` compares the nearest double of the sum (`Double`) with the number. A sell let through
that way takes the balance below zero by no more than the sum was rounded up and the amount was
rounded on its way into the column (`Rounding`).

### Bounds, and why they suffice

- Two requests in flight (`Req`) and two rows: the properties relate at most two rows and a
  writer to one other writer. `TableHasRoom` keeps a create from starting when no identifier is
  left for it, in place of an endless supply of uuids; an identifier nobody refers to any more
  stands for a new one.
- Prices 10 and 11, with a column that keeps tens, give `token_alerts` two prices that only the
  column takes for equal; alerts are told apart by their direction. In `pipeline` two prices give "met", "exactly met" and
  "not met" against two quotes. One symbol suffices
  where symbols only group prices; `invalid_symbol` has a valid and an invalid one.
- `MaxFaults = 1`: one crash or failed write per behaviour, at any moment. Liveness needs faults to
  stop, and a second fault meets a pass that started afresh, as the first one did.
- `Files`: three, for "all lines good", "the second is refused" and "a line is skipped".
- `Doubles` and `Cells` in `ledger` are chosen so that every conversion loses: a buy of 7 is kept as 6,
  a sell of 14 as 15, and a sum of 12, two such buys, passes for 14. Three rows are what that
  overdraft needs. The run reaches each of the three causes: without any one of them it fails.
- `Interval` has two values, for a restart with another `PRICE_CHECK_INTERVAL`. One job of each
  interval and one immediate check are pending at a time: the worker runs one job at a time, and a
  longer queue only repeats its steps. `MaxAttempts` is 2 where the default is 3: one retry and the
  last failure both occur.
- In `Catalog` the file of tokens has a line that is skipped before a line that may be refused, or
  find its row there already, and that of categories a blank line before a name. One symbol is
  enough: the properties ask whether two tokens share one. One body both blanks the symbol and connects
  a category, which two history variables keep apart. Files with two lines that write are left to
  the proof.
- `MaxSymbols` is 1 or 2 where the code has 100.
- `CoinList` has every order of every set of coins that includes the popular one: an imitation with the
  same symbol, a coin whose id in capitals is that symbol, an imitation of that one, and a priority
  coin outside the basic table. `Requests` asks for the two symbols in conflict together, and for the
  last. `ListAssumption` (CoinGecko's list names a coin once, and has the popular coins under their
  popular symbols) is CoinGecko's to keep: a coin that changes its id or its symbol breaks it, and the
  code would not notice.
- `pipeline` and `two_alerts` have one user; what handing an alert over does beside the job is
  covered by the proofs only, and beside other requests by `token_alerts`.
- In `Sessions` three requests let two logins of one user overlap while a third is answered. The clock, `MaxSecond`, passes the life of a token (`Lifetime`)
  once; two logins can fall into one second or different ones.
- Symmetry is used in the runs without liveness only; the sets permuted are interchangeable in
  the specification and in the properties. `two_alerts`, `price_service` and `scheduler` use none.

### Fairness

Requests have none: clients may stop. `JobFairness` has weak fairness of the pass: the
repeatable job starts passes for ever and the one worker (concurrency 1, AlertSchedulerService.ts:70)
carries each on, since every call in it returns or times out. Strong fairness of
`FetchSucceeds` says that the price service, asked again and again with a request it
accepts, answers again and again; without it no alert need ever fire. In `PriceLookup` only `CallStep` is
fair: the job keeps asking, and every network call returns or times out (each `fetch` is given a signal that aborts it). What
it returns, the coming and going of APIs, the expiry of the table and restarts are not. `Sessions`
has safety properties only.
In `AlertScheduler` a process carries on what it has begun (`Listen`, `Initialize`, `Stop`), slots of a
repeatable job come round while a worker is there, and a pass ends, as `PassesEnd` shows of the
checker. Strong fairness of `TakeJob` says that a waiting job which the worker could take again and
again is taken: passes last seconds, slots are half an hour apart, so the queue drains. Crashes,
signals, starts, commands and Redis have no fairness; the properties say for which of them they hold.
`Initialize` may fail for ever in each new process.
`DueAlertsFire` leaves to the user one way out: it speaks of an alert that stays due for ever.

## Proofs

Every invariant and every action property that a passing run checks is also a theorem, for every
value of the constants; so are both refinements. What the runs check beyond that is liveness. Each
proof has an inductive invariant, which the model defines next to the properties; TLC has checked
each of them on the instance of the component's run.

### Token alerts

`TokenAlertsProofs` proves for any numbers of users, alerts, requests, prices, symbols and bodies:

- `TypeCorrect`: `Spec => []TypeOK`.
- `DuplicateInvCorrect`: `Spec => []DuplicateInv`, the inductive invariant.
- `DuplicatesExplained`: `Spec => []DuplicateNeedsUncheckedWrite`, its consequence.
- `OwnershipRespected`: `Spec => ChangesByHolders`, an action property, from the same invariant:
  whoever changes a row owns it, or has owned it and had read it before it was handed over;
  and only a body that names an owner hands a row over.
- `DeletedStayDeleted`: `Spec => NoResurrection`: no request, whatever it read before, brings back a
  row that was deleted.
- `HandlersImplementBook`: `Spec => ImplementsBook`, the refinement of `AlertBook`.

They rest on the assumptions in `AlertTable` and `TokenAlerts`: prices are naturals, `Column` is a
rounding (idempotent), the null values are not rows or requests, bodies are bodies. TLC evaluates
them in every run.

*The argument.* "Of two duplicates one was written unchecked" is not inductive: a state may hold a
request about to write on the strength of a check that no longer holds. `DuplicateInv` adds what
keeps that from happening unnoticed. `RowsStored`: rows hold prices the column keeps, so writing a row
back unchanged does not move its price. `HoldersAsk`: a request's row, while it exists, has been its
user's, and still is unless the request is stale (`UpToDate`); so `stale`, which follows writes of rows
that were or became the user's (`Disturbs`), sees every write that matters. `UpToDate`:
for a request that is not stale, the condition computed at its first read is the one it would compute
now, and if its check has been passed, its answer still holds. A write of another request
either arms or re-conditions an alert of that user, and then makes it stale, or does neither, and
then creates no twin. The proof has one lemma per write saying which row it leaves behind
(`OneRow`), one about the other requests (`WriteKeepsRequests`) and one about duplicates
(`WriteKeepsDuplicates`). The refinement rests on the same: a step either leaves table and
`unchecked` alone, a stutter of the book, or is one of the writes (`Writes`), each of which puts or
removes one row (`WriteEffect`); that a row put beside its twin is marked is what `DuplicateInv` says of
the request that wrote it.

### The job beside the requests

`AlertPipelineProofs` proves of requests and job on one table, with crashes and failed writes, for any
quotes, devices, numbers of symbols and of faults:

- `PipelineInvCorrect` and `PipelineTypeCorrect`: `PipelineInv`, the inductive invariant, and types.
- `FiresOnlyRightly`: `PipelineSpec => UntouchedFiresRightly`.
- `PushedOnce`: `PipelineSpec => NoRepeatedPush`.
- `EditsSurviveTheJob`: `PipelineSpec => JobKeepsEdits`.
- `PipelineImplementsBook`: `PipelineSpec => ImplementsBook`; the pass is one change of each alert it
  fires, to inactive, and a crash shows nowhere.
- `OneAtATimeKeepsApart`: under `NoCauses`, `PipelineSpec => []NoDuplicateActiveAlerts`. What the
  message `ALREADY_EXISTS` claims is false in general (the run `duplicate_by_race`). It is true where
  requests come one at a time, the column keeps every price, and no body only switches an alert on or
  names an owner: then nothing ever is `stale` or `unchecked`. So `NoCauses` lists all the causes there
  are.

*The argument.* `PipelineInv` extends `DuplicateInv` by what a pass knows. `OneSnapshotEach`: it holds at
most one snapshot of a row. `SnapshotsTrue`: a snapshot is true of its row as long as no user has
written the row since. `CurrentMet`: the alert being processed was met at the quoted price.
`PushesOpen`: no snapshot still to be processed has been pushed, and among active alerts only the one
between its push and its write has. A request that writes a row enters it in `touched`, which frees
`SnapshotsTrue` from answering for it; the job's write, by id, ends an alert whose snapshot leaves the
pass in the same step. The job's write keeps `DuplicateInv` since it neither arms an alert nor gives it
another condition (`FiredKeepsDuplicateInv`).

### Ledger

`TokenBalancesProofs` proves for any users, tokens, amounts and files, from `LedgerAssumption`,
`BalanceIdAssumption` (the identifiers are finitely many: uuids have 128 bits) and `NullAssumption`:

- `LedgerInvCorrect` and `LedgerTypeCorrect`: `LedgerInv`, the inductive invariant, and types.
- `OverdraftsHaveCauses`: `LedgerSpec => OverdraftsExplained`: the removal of a row, a sell whose token
  was lowered after its check, or a sell that the comparison of doubles let through, and then by no
  more than the rounding.
- `LedgersChangeByOwners`: `LedgerSpec => OwnLedgersOnly`.
- `FilesImportedWhole`: `LedgerSpec => ImportAllOrNothing`.

*The argument.* `LedgerInv` says what a request in flight has established and still relies on: it works
for the owner of its token (`OwnersChecked`; an import, of every record it has looked at), a removal knows
the token of its row (`RemovalsKnowToken`), a sell about to be written is covered by the sum of the rows,
as a double, unless the token was lowered since (`SellsCovered`). Of the conversions it needs that they
round to nearest, so that they keep order (`NearestKeepsOrder`): a covered sell is at most
`Column(Double(sum))`, which is where the bound of the third cause comes from. `SellsCovered` needs arithmetic on sums over sets of rows:
that a sum does not depend on the order in which the rows are taken, grows by what is added and does not
fall when a positive amount is. `Sum` is a fold of the community modules, whose definition chooses
an element at a time; the lemmas on `Total` are proved by the smallest counterexample among
the subsets of a finite set, in place of an induction. That the import writes as many rows as the file has
importable lines comes from the bijection the action itself chooses.

### Catalog

`CatalogProofs` proves for any users, categories, tokens, requests, bodies and files:

- `CatalogTypeCorrect`: `CatalogSpec => []CatalogTypeOK`.
- `StraysHaveCauses`: `CatalogSpec => []StraysExplained`: a token outside its owner's categories was
  last put there, or handed over, by a body that connects a category or names an owner, or by an update
  that such a body overtook.
- `TokensChangeByHoldersOnly`: `CatalogSpec => TokensChangeByHolders`, an action property.
- `CheckedInvCorrect` and `SameSymbolsExplained`: `CheckedInv`, and `CatalogSpec => []SameSymbolExplained`.
- `LinesAreUpserts`: `CatalogSpec => ImportUpserts`.

They rest on `CatalogAssumption` (bodies are bodies, files are sequences of records, identifiers are
finitely many) and `NullsAssumption` (the null values are not rows, requests or identifiers).

*The argument.* A token is written by id several calls after the reads that allowed it, so that
the properties say too little to be inductive. `CatalogInv` adds `Backed`: what each request in flight
found and still relies on. The category it is to write is its user's; the row it holds, unless
deleted since, has been its user's, and still is if the request is not stale; an import that has looked
something up is on a line of its file. No write of another request can undo this: categories never
change owners (`WriteStep`), a new token takes an identifier nobody holds, and an update that takes a
row from its owner makes that owner's other requests stale (`TokenWriteStep`). Steps that only move one request are covered by `QuietStep`.
`SameSymbolExplained` speaks of numbers of rows; `CheckedInv` replaces it by `PairsExplained`, which
speaks of two tokens, and adds `LooksStand`: what a request's last look for a symbol or a row found is
true until another request of its user writes. `BringsSymbol` says whose look that is: a request that is
about to give a token a symbol it does not have yet. The same look makes an undisturbed import line an
upsert: the row it found is one of its key's, or there is none.

### Price service and lookup

`CryptoPriceServiceProofs` proves for any providers, any list of fallbacks and any answers
`CurrentStaysAvailable` (`ServiceSpec => []CurrentIsAvailable`) and `FailuresAreThorough`
(`ServiceSpec => FailureIsThorough`), from `ProviderAssumption`. *The argument.* That a call that gives up was
refused by all is known only from how far its loop has come: `RefusedSoFar` says that the fallbacks
before `next` that the probe found available have refused, and so has the provider asked
first, which stays the current one until a fallback answers. `ServiceInv` is both with the types.

`PriceLookupProofs` proves `LookupImplementsService` (`LookupSpec => ServiceSpec`): a step of any
provider is a step of the service, with the answer as parameter, or leaves the service alone. It
carries the two theorems over to the composition (`LookupsAreThorough`). For any coins, symbols and lists
it proves further:

- `LookupInvCorrect` and `LookupTypeCorrect`: `LookupInv`, the inductive invariant, and types.
- `TablesByPreference`: `LookupSpec => []TableByPreference`.
- `PopularStaysMapped`: `LookupSpec => []PopularMapped`.
- `PopularRightlyQuoted`: `LookupSpec => PopularQuotes`.

They rest on `CoinAssumption` and `ListAssumption`. The first says of the code's own tables that each of
the coins of `getBasicSymbolToIdMap` is in `priorityIds` and that no two symbols share one, and that every
other coin's id reads as some symbol. The second is about CoinGecko's list (see the bounds). *The argument.* The two
loops of `refreshSymbolCache` are folds. `Rounds` describes the table after each round of a loop
(`PreferIsRounds`, `FillIsRounds`); what holds after every round, the last priority coin so far
and the first coin so far, is proved from the smallest round that would break it (`PreferLoop`,
`FillLoop`). `TableIsPreferred` puts them together: `TableOf(l)` gives each symbol its preferred coin.
`TablesGood` draws from it what `getPrices` needs: a popular symbol has its own coin, and no other symbol
has that coin. `LookupInv` says that the table of a call under way was made that way, or is the basic
one, and that CoinGecko works only while the service awaits it, so that no other provider's answer is
mistaken for its own (`OneIsAsked`).

### Sessions

`SessionsProofs` proves for any users, any finite number of requests and any time
`SessionsTypeCorrect`, `SessionsStayBounded`, `LastLoginStays` and `RowsOutlast`, the invariants of the
run `sessions`, from `SessionsAssumption` (null values are none of the others, requests are finitely many).
*The argument.* A login that fails to store its token because it is there already ends its
user's wait without a write, so `LastLoginStored` must hold at once of a state it said nothing about.
`LastAmongSessions` fills the gap: whenever a user has tokens at all, the last one answered is among
them, since logins delete all of a user's tokens or none. `SessionsBounded` counts the tokens of a user
together with the logins that have deleted and not stored: a store moves one from the second number to
the first, a deletion sets the first to nothing. `LoginsDated` carries the order of signing and dating through
the calls between.

### Scheduler

`AlertSchedulerProofs` proves for any intervals, any immediate jobs and any number of attempts, from
`SchedulerAssumption`: `SchedulerTypeCorrect`, `ScheduleAlwaysStands` (`SchedulerSpec => []ScheduleStands`)
and `ExitsAreGraceful` (`SchedulerSpec => GracefulExits`): the exit of a signal's handler cuts a pass
short only if `shutdown` returned at once because the service was not ready, or its close threw
for want of Redis; a crash may always do so. *The argument.* `SchedulerInv` is inductive: types,
`ScheduleStands`, and `ClosedBetweenPasses`, that the worker of a process that is stopping is closed under
no pass. The types hold the part that is not obvious: the job being run is not waiting
too, and a job that has been tried, or was left behind by a dead process, still is pending, whichever of
failure, crash and shutdown took it from the worker. A recorded schedule goes only when a process
that is being initialised removes that of its own interval, and it is not ready before it has recorded
it anew.

### Only model-checked

Liveness: `DueAlertsFire`, `PassesEnd`, `FallbackServes`, `ShutdownEnds`, `ChecksKeepComing` and
`PendingChecksEnd`. Fairness needs ENABLED, which TLAPS with these provers does not reach.

## Not modelled, and why

- `getTokenAlert`, `listTokenAlert` and the other readers: they change nothing.
- Bodies of updates that rewrite a row's `id` or dates, or write to other tables through nested
  relations; the services would pass them on to Prisma. The results on who changes a row are about the
  bodies admitted.
- A token handed to another user as seen by the ledger: `Owner` is a constant of `TokenBalances`, and the
  handing over of tokens is in `Catalog` only.
- Amounts beyond the digits of `Decimal(36,18)`, which the database refuses.
- `checkSpecificAlert`, `updateLastNotificationDateService`, `getPricesWithProvider`,
  `setProvider`, `clearSymbolCache`, `forceRefreshSymbolCache`, `getCacheInfo`: called by nothing or by
  the examples only.
- Amounts of prices in `PriceLookup`, among them the 0 that a coin without a price is given
  (CoinGeckoProvider.ts:74); the checker has its own quotes.
- The fate of a push. `SendReturns` may be refused, and the alert is deactivated all the same; the
  code chooses that, and no text contradicts it. A server without Firebase does not start
  (server.ts:12-25).
- An alert deactivated and activated again within one pass fires for its old activation; see
  the hazards.
- An operator removing jobs or schedules on the Bull Board page; `cleanOldJobs`, which only removes
  finished jobs; a job taken back by BullMQ from a live process that lost touch with Redis; several
  server processes on one queue.
- `refreshTokenService` and the authentication middleware: they check a signature and an expiry,
  never look at the table `RefreshToken`, and change nothing. (So a token is good until it expires,
  whatever happens to its row.)
- Contents and wording of messages, paging, CSV syntax, password hashing, token signatures.

## Plan

Done: the alerts with their refinement, the checker and the pipeline, the price service with its
providers, the ledger, the scheduler, the catalog, sessions, and the proofs above.

Next, by importance:

1. `AlertDelivery`: abstract specification of the pipeline (armed, notified, retired), with a
   history variable that tells activations apart, for the alert that is turned off and on again during
   a pass.
2. The deletes of `Catalog` and `TokenBalances` on one table.
3. The safety part of the liveness properties: that a step of the pass can always be taken, and brings
   its end nearer.
