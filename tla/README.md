# Niazi Mobile Mart: verification project

Niazi Mobile Mart is a point-of-sale and inventory system for a chain of phone shops. Desktop
terminals (Tauri, Rust, SQLite) work offline and synchronise with a central backend (Express,
PostgreSQL); browsers work on the backend directly. This directory holds TLA+ models of the parts
where concurrency, retries and failures decide whether stock and money stay right, the TLC runs
that check them on small instances, and the theorems the TLA+ proof system checks for every value
of the constants.

Paths below are relative to the repository root.

## 1. The system

### Components, their state and their operations

| Component | State | Operations | Modelled |
| --- | --- | --- | --- |
| **Outbox push** (`src-tauri/src/repositories/sync_queue_repository.rs`, `domain/sync_queue.rs`, `services/sync_worker.rs`, `backend/src/routes/sync.routes.ts`) | SQLite `offline_sync_queue` (status, attempt_count, created_at, last_attempt_at), the worker's session token and `execution_lock`; PostgreSQL `terminals`, `sync_audit`, `change_log`, `stock`, `stock_movements` | enqueue in the business transaction, select eligible rows, POST a batch, classify answers, write outcomes, manual retry; push route with one transaction per event | `SyncPush`, `EventDelivery` |
| **Downstream pull** (`sync.routes.ts` pull route, `sync_worker.rs`, `services/change_applier.rs`, `repositories/sqlite_sync_cursor_repo.rs`) | `change_log` with its `BIGSERIAL` sequence, SQLite `sync_cursors`, the local projection | page through the log after the cursor, apply each change in its own SQLite transaction together with the cursor, skip what fails | `DownstreamSync`, `LogFollower` |
| **Central stock** (`product.repo.ts`, `stock_transfer.repo.ts`, `opening_stock.repo.ts`, the inventory handler of `sync.routes.ts`) | `stock`, `stock_movements`, `stock_transfers`, `stock_transfer_batches`, `products.average_cost` | adjust, delta, receive (weighted average cost), transfer, batch transfer with idempotency, opening import, pushed operations | `CentralStock` |
| **Sale checkout** (`sale.repo.ts`, `sale.routes.ts`) | `sales`, `sale_lines`, `sale_payments`, `sale_idempotency_keys`, `user_invoice_counters`, `stock`, `customer_ledger_entries`, `cash_movements` | complete a sale under an idempotency key and an advisory lock | `SaleCheckout` |
| **Returns and exchange** (`returns.repo.ts`, `exchange.repo.ts`) | `sales_returns`, `sales_return_lines`, and everything a sale touches | return lines of a sale, atomic exchange under an idempotency key | `ReturnsExchange` |
| **Cash drawer** (`cash.repo.ts` and every writer of `cash_movements`) | `cash_sessions`, `cash_movements` | open, close, daily summary, manual movement; sales, returns, exchanges, expenses, repairs and payments post movements | `CashDrawer` |
| **Customer and supplier ledgers** (`customer.repo.ts`, `supplier.repo.ts`) | `customer_ledger_entries`, `supplier_ledger_entries`, receipt counters | record payments, statements, opening balances | the customer's side in `ReturnsExchange` and `SaleCheckout`; the supplier's is planned |
| **Repair pipeline** (`repair.repo.ts`) | `repair_jobs`, `repair_parts`, `repair_payments`, branch invoice counters | book, add and remove parts, pay, change the status, complete | `RepairJob` |
| **Mobile inventory** (`mobile.repo.ts`) | `mobile_devices`, IMEIs, purchase paperwork, sellers, voucher numbers | register with IMEIs and paperwork, change the status, create and update sellers | `MobileDevice` |
| **Realtime hints** (`backend/src/ws/*`, `frontend/src/lib/ws/wsClient.ts`, `frontend/src/features/realtime-sync`) | PostgreSQL `NOTIFY` channel, listener connection, connection registry, browser socket state | notify on commit, broadcast, authenticate, reconnect, catch up | `RealtimeHints` |
| **Authentication** (`backend/src/auth.ts`, `auth.service.ts`, `auth.repo.ts`, `users.repo.ts`, `src-tauri/src/services/auth_service.rs`, `auth_snapshot_repo.rs`) | users, lockout counters, JWTs, recovery keys, local credential snapshots | log in, PIN, lockout, sessions, offline log-in from snapshots | planned; the 401 answer and the signed-in state of a terminal are part of `SyncPush` |
| **Desktop business services** (`src-tauri/src/services/{sale,purchase,cash,customer,supplier,inventory,product,...}_service.rs`) | the same tables in SQLite, behind one connection mutex | the offline versions of the operations above, each in one SQLite transaction with its outbox row | their transaction and outbox row are `EnqueueInTx` in `SyncPush`; increase, decrease and transfer are `RecordLocally` in `DownstreamSync`; the rest is planned |
| **Migration runner** (`backend/src/migrate.ts`, `src-tauri/src/db/migrations.rs`) | `schema_migrations`, advisory lock | apply pending migrations once | planned |
| **POS store** (`frontend/src/features/pos/store/usePosStore.ts`) | cart, tenders, held carts, idempotency key of the attempt | add, change, hold, check out, retry | planned |
| Reports, search, history, settings, branches, roles (`*.repo.ts` of these names) | none of their own, or one row per branch | queries; single-row upserts | not modelled: reads and single statements |
| Frontend pages, printing, updater, storefront | view state | rendering, HTTP calls | not modelled: presentation |
| Build, release and deployment files, seeds, audits | - | - | not modelled: no run-time behaviour |

### How the components interact

A local operation on a terminal commits its business rows and one outbox row in one SQLite
transaction. The sync worker of the terminal, the only consumer of the outbox, posts up to 50
eligible rows to the push route; the route handles them one after another, each in a PostgreSQL
transaction that locks the terminal's row, runs a handler, appends to `change_log` and records the
event in `sync_audit`. Every terminal later reads `change_log` beyond its cursor and applies what it
finds to its SQLite database. Browsers call the REST routes, whose transactions touch the same
stock, ledger and cash tables, append to the same `change_log` and notify listeners when they
commit. The backend forwards those notifications to browsers over WebSockets.

### What is hard here

* **Time-outs that do not stop the work.** The worker gives up on a request after ten seconds; the
  backend keeps running it. Repeated pushes of one event overlap with the original.
* **Answers, rows and transactions that settle separately.** The route answers per event, the worker
  writes each answer in a statement of its own, and a crash can fall between any two of them.
* **Check, then act, on different connections.** The audit look-up of the push route, the open
  session look-ups of sales and payments, and the two statements that close a cash session read
  state that another transaction may change before it is used.
* **A second connection asked for while one is held**, from a pool that is small and waits for ever.
* **Locks taken in different orders** by transfers, sales and pushed operations on the same rows.
* **Sequence numbers allocated before commit**, read by terminals that advance a cursor past them.
* **Absolute quantities** pushed by a terminal that does not know of the others' operations.

The hazards, each at the line where it bites and with the property that would catch it, are listed
in `PROJECT.json`.

### What makes each component correct

* Outbox push: an event settles, is never lost, never applied twice, never overwritten by a late
  answer, and `SYNCED` means durable.
* Downstream pull: every committed change is handed to every terminal once and in order,
  a cursor passes nothing that could still arrive, the projected stock adds up.
* Central stock: no quantity below zero, the movements add up to the quantity, a transfer conserves
  the total, a retried transfer happens once, concurrent operations do not wait on each other in a
  circle.
* Checkout, returns, exchange: one sale per idempotency key, invoice numbers unique, credit limit
  respected at commit, never more returned than sold, stock and cash consistent with the documents.
* Cash drawer: one open session per branch, the expected amount of a closed session equals what was
  posted to it, closed sessions do not change.
* Ledgers: the running balance of every entry is the sum of the entries before it.
* Repairs: parts come from stock and go back to it once, a delivered job's settlement is true, invoice
  numbers are unique.
* Mobile inventory: an IMEI belongs to one device, voucher numbers of a branch are unique, a device's
  movements tell its history.
* Realtime: a connected client is told of every committed change, and connects again.
* Authentication: lock-out after repeated failures, no session outlives its revocation.

## 2. Plan

The order follows what a mistake would cost: first the pipeline every desktop sale goes through,
then what it does to the terminals, then the central transactions that browsers and pushes share.

1. `EventDelivery`, `SyncPush`, `MCSyncPush`, `SyncPushProofs`: the outbox, the worker, the HTTP
   exchange and the push route (section 3). Abstract specification: the promise made of one event.
2. `LogFollower`, `DownstreamSync`, `MCDownstreamSync`, `DownstreamSyncProofs` (section 4):
   `change_log` with sequence numbers allocated before commit, the pull route, the page loop of the
   worker, the applier with its cursor, crash and skip. Abstract specification: a cursor that only moves forward over a log, each entry handed to the applier at most once.
3. `CashDrawer`, `MCCashDrawer`, `TillProofs` (section 5): sessions and the movements other
   components post. The close is three statements.
4. `SaleCheckout`, `MCSaleCheckout`, `TillProofs` again (section 6): idempotency key, advisory
   lock, connections, stock rows, invoice counter, credit limit.
5. `CentralStock`, `MCCentralStock`, `CentralStockProofs` (section 7): transfers and batches with their
   ids and lock order, receipts, opening imports, adjustments, and the pushed operations of the outbox,
   which take the same rows in another order.
6. `ReturnsExchange`, `MCReturnsExchange`, `ReturnsExchangeProofs` (section 8): what happens to a sale
   afterwards, next to the payments and credit sales that share its customer and its stock.
7. `RepairJob`, `MCRepairJob`, `RepairJobProofs` (section 9) and `MobileDevice`, `MCMobileDevice`,
   `MobileDeviceProofs` (section 10): life cycles with stock, numbers and payments.
8. `RealtimeHints`, `MCRealtimeHints`, `RealtimeHintsProofs` (section 11): notify, listen, broadcast,
   reconnect.
9. To come: `SupplierLedger`; `AuthSession` (lock-out, revocation, snapshots); `Migrations` (several
   backends starting at once); `PosStore` (a cart and its retry); pure algorithms against a reference
   definition (weighted average cost, repair profit, payment allocation).

Every module that theorems are about is written without recursion and with its assumptions
named. The module of each section 3 to 11 has a module of proofs; the two components at the till,
`SaleCheckout` and `CashDrawer`, share `TillProofs`, which extends both. For that the definitions of
`CashDrawer` that `SaleCheckout` has too are called `DrawerInit`, `DrawerNext`, `DrawerSpec`,
`DrawerTypeOK`, and so on.

Runs are few on purpose: each asks a question the others do not. A type invariant, or a number's
uniqueness, that a theorem establishes for all constants is not checked by a run again; the sections say
which. A disagreement between code and documentation is described in the section of its module. Three of
them have a run that TLC must find violated: `pull_echo`, `repair_branches` and `sale_copies` each check
what a comment promises, and the counterexample is the finding. Where another one limits what can be
promised, the property names the exception.

What only TLC shows: liveness (`PendingSettles`, `CursorCatchesUp`, `EveryRequestIsAnswered`,
`EverythingReconnects`), as the provers cannot reason about `ENABLED`. Every other property of a passing
run is a theorem.

Several invariants are sums over a set (`StockCountsEchoes`, `PartsComeFromStock`, `SettlementIsTrue`,
`AverageCostIsExact`). They are written with `SumFunctionOnSet`, a recursion over the
subsets of a set that the library states no theorem about. What the proofs need of it is that one element
more adds its value (`SumAdd`): `SetInduction`, induction for a set of numbers instead of an operator, gives
that a finite set has a function which adds up in whatever order the elements are taken, that it is unique,
and that `SumFunctionOnSet` is that function. `DownstreamSyncProofs`, `RepairJobProofs` and
`CentralStockProofs` each state these lemmas, because a module of proofs extends the module it is about.

## 3. Outbox push: `SyncPush`, `EventDelivery`

### State and actions

| In the model | In the code |
| --- | --- |
| `qstatus`, `attempts`, `createdAt` | `offline_sync_queue.status`, `attempt_count`, `created_at` of a row (only the order of `created_at` is kept) |
| `cooling` | the pending rows for which `is_eligible_for_retry` still answers false; the exact delay is abstracted to "some time later" (`BackoffElapses`) |
| `signedIn` | the worker's session state holds a token |
| `waiting`, `batch`, `ack` | the locals of `sync_outbox_push`: the request it awaits, its `pending_items`, the outcomes it has not written yet. Together they are `execution_lock` being held (`WorkerIdle`) |
| `rpc`, `todo`, `rcur`, `rtx`, `results` | one execution of the push route: its place in the handler, the rest of the loop, the event at hand, what the open transaction will commit, the answers so far |
| `termLock` | the row lock `ensureTerminal`'s upsert takes on `terminals` until the transaction ends |
| `audit`, `logRows`, `applied` | `sync_audit`, `change_log` and `stock_movements` rows of an event, committed |

| Action | Code |
| --- | --- |
| `EnqueueInTx` | `SqliteSyncQueueRepository::enqueue_in_tx`, inside the transaction of a local operation |
| `SyncOutboxPush` | `run_manual_sync` or `run_background_tick` taking `execution_lock`, then `sync_outbox_push` up to the POST, with `get_pending` |
| `ReceiveResults`, `AnswerUnread`, `GiveUpWaiting`, `Unauthorized`, `BatchRejected` | the match on the answer: 200 with results; 200 whose body cannot be read or holds none, which writes nothing and counts nothing; time-out, 409 and 5xx, which count an attempt; 401; 400, 403, 404 and 422 for the whole batch |
| `WriteAck`, `WriteFails` | one call of `update_status_ext` in the loop over the answers, and one whose error is ignored (`let _ =`), after which the row is as it was |
| `Crash` | the process ends while a push is under way |
| `ResetFailedPermanentForRetry` | the command of the same name |
| `AcceptPush`, `CheckAudit`, `EnsureTerminal`, `RefuseBranch`, `HandlerSucceeds`, `HandlerRefuses`, `CommitEvent`, `TransactionError`, `FinishPush` | the push route, statement group by statement group; a new action starts wherever another request can be scheduled in between |
| `NetworkLoses`, `AnswerUnheard`, `BackendRestart` | the environment |

An event is a `client_event_id`. Its payload is abstracted to the way the route dispatches its type
(`Kind`) and to the nondeterminism of its handler: any refusal the handler can answer may be answered
at any time. Two orders matter and are kept: outcomes are written in the order of the batch, and the
route's loop takes the events in that order.

Product events never commit: `handleProductCreated` and `handleProductUpdated` hand the transaction's
connected client to repository functions that call `connect()` on it again, which fails. The model
keeps the branch in which a product already exists and the handler answers `SYNCED` without writing.

### Properties

* `AtMostOnce`: the stock writes of an event commit at most once. The duplicate check of the
  inventory handler is a plain `SELECT`; it is safe only because `ensureTerminal` has locked the
  terminal's row before it. The mutant that merely looks the terminal up breaks it.
* `SyncedIsCommitted`: `SYNCED` in an outbox means the transaction is durable, across time-outs,
  repeated pushes, crashes and restarts.
* `NoStrandedRow`: no row is `PENDING` at the attempt cap, where the outbox query would never select
  it and nothing would settle it.
* `AckMeetsPendingRow`: a worker never writes an outcome over a row that is settled already.
* `DeliverySpec`: `SyncPush` implements `EventDelivery` under `stage <- qstatus`,
  `delivered <- audit`.
* `PendingSettles` (liveness): while its terminal stays signed in, a pending event settles, unless answers
  are dropped again and again. The exception is what the code guarantees and no more: a 200 that cannot be
  read and a write of an outcome that fails leave the row `PENDING` without an attempt counted
  (`sync_worker.rs:323-325`, the ignored results of `update_status_ext`), so that the cap never ends a
  series of them.

### Runs

| Run | Instance | Question |
| --- | --- | --- |
| `push_queue` | one terminal; either a stock operation that two requests may carry at once, with one crash, one 401 and one manual retry, or a product and two unsupported events with one request; `PushLimit` and `FetchLimit` 2, cap 2 | everything that can happen to one event that is pushed twice at once; and whether every event settles when a third one waits behind the window of the outbox query |

Bounds. `Request` bounds the requests of all terminals alive at once: a terminal sends one at a time,
so a second one exists only after a time-out, and one more request is a copy of the second: the proofs
are for any number. `MaxRetries` is 10 in the code (`sync_queue.rs:39`): 2 keeps "below the cap", "at
the cap" and "one before the cap" apart. The query reads 250 rows and a push takes 50: with 2 and three
events, a row that cools down hides the third from the query, and every batch but the last is full.
`MaxCrashes`, `MaxRefusals`, `MaxResets` bound the faults; time-outs, lost requests, unreadable answers,
failed writes and backend restarts are not bounded. `Together` lists what comes in one behaviour, as the
repetitions of one event and the sharing of batches are different questions. Two terminals share only the
handler's stock rows, which no property here speaks about, so one is enough.

### Fairness

`FairSpec` assumes weak fairness of `SyncOutboxPush` (the daemon's 15-second loop), of "an answer or
the time-out arrives" (the HTTP client has a time-out of ten seconds), of `WriteAck`, of
`BackoffElapses`, and of each request's progress in the route. (`WriteAck` or `WriteFails`: the loop
goes on either way.) Signing in, manual retries, answers in
time and the absence of faults are not assumed. A terminal that gets signed out again and again may
starve its rows, so the property is conditional on it staying signed in.

### Where code and comments disagree

* The push route's comment at `sync.routes.ts:755` calls `CONFLICT` retriable. The outbox keeps
  `CONFLICT` as a settled status: no query selects it and the manual retry refuses it. `EventDelivery`,
  which `SyncPush` implements, has no step out of it.
* The comment at `sync.routes.ts:727` says that after a failed `change_log` or `sync_audit` write the
  client will retry; the route answers `FAILED_PERMANENT` (`TransactionError`), which waits for a manual
  retry.
* The header at line 23 says that duplicates are silently skipped; two requests that both pass the
  look-up append two `change_log` rows for one event (`CommitEvent`), though the stock writes are not
  repeated (`AtMostOnce`).

### Proved

`SyncPushProofs` proves, for any terminals, events, requests, limits and bounds that satisfy
`ConstantsAssumption`:

* `Invariance`: `Spec => []IInv`. `AtMostOnce` alone is not inductive: it needs that a transaction
  about to commit still has a truthful duplicate check (`TransactionInv`), which needs that it owns
  its terminal's lock. `SyncedIsCommitted` needs that every `SYNCED` in flight, in a route's results
  or in a worker's outcomes, rests on an audited event (`CommitInv`). `AckMeetsPendingRow` needs that
  the events of a request that is still awaited are those of the worker's batch, although the slot
  may have been released and used again (`RequestInv`, `WorkerInv`).
* `TypeCorrectness`, `StockWrittenAtMostOnce`, `SyncedMeansCommitted`, `NoRowStranded`,
  `AcksMeetPendingRows`: the types and the invariants of the run.
* `ImplementsEventDelivery`: every step of `SyncPush` is a step of `EventDelivery` or a stutter.

`IInv` is an invariant TLC agrees with on the instances above. `PendingSettles` and everything else
about liveness stays with TLC, because the provers cannot reason about `ENABLED`.

## 4. Downstream pull: `DownstreamSync`, `LogFollower`

### State and actions

| In the model | In the code |
| --- | --- |
| `lastSeq`, `rowOf`, `rowState` | the `BIGSERIAL` of `change_log`, the change in a row, and whether the transaction that inserted the row is open, committed or rolled back |
| `recorded` | operations a terminal has committed locally (their outbox rows are `SyncPush`'s subject) |
| `stock`, `marked` | SQLite `stock.quantity` of one product per branch; the operation ids found as `stock_movements.reference_id` |
| `cursor` | `sync_cursors.last_applied_sequence` of `downstream_delta` |
| `phase`, `after`, `page`, `hasMore` | the locals of `sync_downstream_pull` and `apply_batch`; a phase other than `"idle"` is `execution_lock` being held |
| `taken`, `skipped`, `overtaken` | history: what a terminal did with a row, and which rows were still uncommitted when a page went past them |

| Action | Code |
| --- | --- |
| `RecordLocally` | `increase_stock`, `decrease_stock`, `transfer_stock` of the desktop's inventory service |
| `AppendRow`, `CommitRow`, `AbortRow` | `writeChangeLog` or `writeChangeLogEntry`, and the end of the transaction around it |
| `StartPull` | the 900-second timer (`try_lock`) or a manual sync (`lock`) with a token, reading the cursor |
| `Fetch`, `FetchFails` | one round of the page loop: `GET /pull` and its answer |
| `ApplyChange`, `ApplyFails` | one transaction of `apply_batch`: the change together with the cursor, or a rollback |
| `SkipChange`, `SkipChangeUnsaved` | the transaction that moves the cursor past a failed row, whose result is ignored |
| `FinishPage` | the end of the loop body |
| `Login`, `Logout`, `Crash` | `sync_session_from_token`, `clear_session`, the process ending |

The applier dispatches on the change's type. Three classes are kept: `STOCK` (an
`INVENTORY_OPERATION_RECORDED` with its branches and quantity), `PLAIN` (a type that applies without
touching the stock under study, or that the applier ignores) and `UNREADABLE`. The last one is no
corner case: the browser's inventory routes append `INVENTORY_OPERATION_RECORDED` rows whose payload
has none of the fields the applier's DTO requires, so each of them is skipped.

Not modelled: `ADJUST` operations, which never reach `change_log` from a terminal because the push
handler writes a `movement_type` that the table's `CHECK` refuses; the push half of a manual sync,
which holds the same lock before the pull starts; a web row whose best-effort transaction is lost.

### Properties

* `OnlyOvertakenRowsAreMissed`: behind its cursor a terminal has applied or skipped every committed
  row, except rows that were uncommitted when a page with a higher sequence was fetched. The
  exception is real: sequence numbers are handed out before commit, nothing orders the commits, and a
  row passed that way is never asked for again. The property says that it is the only one.
* `FollowerSpec`: `DownstreamSync` implements `LogFollower`: a cursor never moves back and no row is
  applied twice, whoever pulls and wherever the process stops. It rests on the execution lock.
* `OperationsCountOnce`: an operation moves a terminal's stock once, be it the terminal's own or another's,
  as the comment at the applier's look-up promises. The code does not keep it: see below. What the code
  does keep is `StockCountsEchoes`, a theorem: a terminal's stock is the sum of the operations it recorded
  and of the distinct operations it applied, although `change_log` may hold an operation several times
  (two overlapping pushes of one event write it twice).
* `CursorCatchesUp` (liveness): while a terminal stays signed in, its cursor reaches every committed
  row, over rows that never apply.

### Runs

| Run | Instance | Question |
| --- | --- | --- |
| `pull_follow` | timer and user of one terminal, an operation that may be in the log twice and an unreadable change, pages of two, one crash | which rows may a cursor pass, does it move back, does it reach every row |
| `pull_echo` (violated) | one puller, a transfer of its own, a delivery of a peer, pages of one | is the terminal's own operation recognised when it comes back |

Bounds. `MaxRows` is the length of the log: three rows give one row behind, one inside and one beyond
a page, with any of them open while the others commit, and hold both copies of an operation and one more.
`MaxCopies` is the number of times repeated pushes append one operation. Terminals share only the log,
so one that pulls is enough; who else writes the log is the source of a change.

### Fairness

Weak fairness of `StartPull` (the timer of `SyncWorkerDaemon::start`), of handling a row one way or
the other, and of `FinishPage`; strong fairness of `Fetch` and `SkipChange`, that is, neither the
network nor SQLite fails every time. Commits, sign-ins and crashes are not assumed.

### Where code and comments disagree

The applier's comment at `change_applier.rs:767` says that the operation id is stored as `reference_id` of
the movement. That holds for movements the applier writes. The terminal that recorded the operation
stores it as the movement's `id`, so when the operation comes back through the log, the look-up misses it
and the quantity is added or taken once more. `pull_echo` checks `OperationsCountOnce` and TLC finds it
violated: a terminal records a transfer, the row is committed, the terminal pulls, and its stock moves
again. A finding in `PROJECT.json`.

### Proved

`DownstreamSyncProofs` proves, for any terminals, pullers, changes, page size and log length:

* `InductiveInvariant`: `Spec => []IInv`. `OnlyOvertakenRowsAreMissed` speaks of the cursor only; to
  be inductive it needs the same fact about what a pull has fetched but not handled yet
  (`SettledInv`), that only one pull of a terminal is under way (`PullInv`), and that new rows get
  numbers above every cursor (`LogInv`). `PageIsPrefix` shows that a page, the first rows by
  cardinality, leaves no visible row out below its last one.
* `TypeCorrectness`, `OnlyOvertakenRowsMissed`, and `ImplementsLogFollower`: every step is a step of
  `LogFollower` or a stutter.

* `StockIsWhatMoved` (`StockCountsEchoes`): the stock of a terminal is the sum of what it recorded and what
  it applied.
  `StockInv` adds that both are finite sets. A change is not added twice, although a page is fetched
  again, because its movement is looked for and the movement and the stock are written by one
  transaction (`ApplyChange`).

`CursorCatchesUp` is liveness and stays with TLC.

## 5. Cash drawer: `CashDrawer`

One branch is modelled: sessions and movements of two branches share no row. The opening float and
the counted cash are constants of a session that no other step reads, so `expected` is the expected
closing cash without the float.

### State and actions

| In the model | In the code |
| --- | --- |
| `status`, `expected` | `cash_sessions.status` and `expected_closing_cash` |
| `opened` | the sessions inserted so far; a session is a number |
| `opening` | open requests between `getCurrentCashSession` and the `INSERT` |
| `closePhase`, `closing`, `sum` | close requests between their three statements |
| `postPhase`, `session` | transactions (and manual movements) between the look-up of a session and the movement; once posted, `cash_movements.session_id` |
| `rowLock` | the `FOR UPDATE` lock of an expense or a repair |
| `disturbed` | history: the sessions whose closing overlapped a posting or another closing |

| Action | Code |
| --- | --- |
| `GetCurrentCashSession`, `InsertSession`, `InsertFails` | `openCashSession`; the insert is refused by `idx_one_open_session_per_branch` while a session is open |
| `FindSession`, `FindNoSession` | the look-up of the open session. `Kind` is the way it is done: "sale" (sales, exchanges, supplier payments: no lock, refused without a session), "return" (returns, manual movements: no lock, goes on with `NULL`), "expense" (expenses, repair payments and advances: `FOR UPDATE`, refused) |
| `PostMovement`, `RollBackPosting` | the insert into `cash_movements` with the commit, or the rollback. The foreign key takes `KEY SHARE` on the session, which waits for a `FOR UPDATE` of another transaction |
| `ReadSession`, `SumMovements`, `UpdateSession`, `CloseFails` | `closeCashSession`, statement by statement, each autocommitted |

`Amount` is signed: `direction` and `amount` in one number. Two writers never reach the drawer and are
left out: cancelling an expense fails (it locks the nullable side of an outer join), and a customer
payment in cash fails (it orders `cash_sessions` by a column the table does not have).

### Properties

* `OneOpenSession`: two open requests may both find no session; the index decides. Proved; no run
  repeats it.
* `ExpensesMeetOpenSession`: the lock keeps the session open until the expense has posted. The mutant
  without the lock breaks it.
* `QuietCloseIsExact`: what a close records is right, and stays right, if no other close and no posting
  was under way in that session while it ran. This is what three separate statements can give. It is
  violated by any further path: a posting to a session that is no longer open, or a session reopened.

### Runs

| Run | Instance | Question |
| --- | --- | --- |
| `drawer_day` | two openers, two closers, two sessions, one posting of each kind, one not in cash | both properties in every order |

Bounds. Requests of one kind interact in pairs, so two openers and two closers give every overlap, and
an opener or a closer can run again after it has finished. Two sessions let a posting find the first
and commit after the second was opened. Postings happen once each; with all of them done and both
sessions closed the model stops, so deadlock is not checked. Nothing is promised to happen, so there is
no fairness and no liveness property: a drawer may stay open for ever.

### Where code and comments disagree

* `cash.repo.ts` says that it ports the desktop service, which sums and closes in one transaction. Here a
  movement that commits after the sum of a close belongs to the session but not to its expected amount.
  It may commit before the update, or, as sales, exchanges and payments look the session up without a
  lock, after it.
* The update has no condition on the status: the later of two closes rewrites the session the first one
  has closed.

`QuietCloseIsExact` excepts exactly the sessions these two have disturbed.

### Proved

`TillProofs` proves, for any requests, postings, kinds, amounts and number of sessions, the
inductive invariant `DrawerInv`, and from it `DrawerTypeCorrectness`, `NeverTwoOpen`, `ExpensesMeetOpen` and
`QuietCloseExact`. `QuietCloseIsExact` speaks of closed sessions; to be inductive it needs what is true
while a close is under way (`QuietInv`: it is alone, nothing is in flight, its sum is still the total),
and that only existing sessions are closed (`CloseInv`). `ExpensesMeetOpenSession` needs that an expense
under way holds the lock (`PostInv`). No induction over sums is needed: two totals are equal because
they are totals of the same set of movements, and the type of an amount is the set of such totals.

## 6. Sale checkout: `SaleCheckout`

A call of `completeSale` is a request. Its cart, payload, customer, the part of its total that goes on
credit, and its counter are constants of the request: prices, discounts and tenders are computed from
the request and the catalogue and meet no other request. A retry is another request with the same key
and payload; one that reuses the key for a changed cart has another payload.

### State and actions

| In the model | In the code |
| --- | --- |
| `pc`, `number`, `locked` | where the call is, the invoice number it has drawn, the stock rows it has locked |
| `told`, `outcome` | the answer of the call |
| `sold`, `saleOf` | committed `sales`, named by the request that made them, and `sale_idempotency_keys` |
| `stock`, `outstanding`, `nextValue` | `stock.quantity` at the branch, the sum of `customer_ledger_entries`, `user_invoice_counters.next_value` |
| `HoldsKey`, `HoldsCustomer`, `HoldsCounter`, `locked` | the advisory lock and the row locks, held to the end of the transaction |
| `ConnectionFree`, `PoolSize` | the `pg` pool: ten connections by default, waiting without a limit (`db.ts:19`) |

| Action | Code |
| --- | --- |
| `FastPath` | the look at the key on the pool, and the answer from it |
| `Connect`, `AdvisoryLock`, `Recheck`, `Reread` | `pool.connect`, `pg_advisory_xact_lock`, the look under the lock; when it finds a sale, `ROLLBACK` and a read of the sale through the pool |
| `LockCustomer`, `LockStock`, `InsufficientStock` | `FOR UPDATE` of the customer, then of each stock row in the order of the product ids, each with its check |
| `NextInvoice` | the upsert of the counter |
| `CheckCredit`, `CreditExceeded` | the limit against the ledger |
| `InsertSale`, `InvoiceTaken` | header, lines, stock, payments, cash movement and `change_log` record; the unique index on `invoice_number` makes the insert wait for, or fail on, the same number |
| `ChangeLogFails`, `CommitBroken` | a failing `change_log` statement: PostgreSQL aborts the transaction, the code logs and goes on |
| `Commit` | the key and `COMMIT`, whose answer may be lost |
| `RollBack` | every other refusal or error |

What a transaction writes becomes visible at `Commit` in one step: it was written to rows the
transaction has locked, or to rows nobody else can see.

### Properties

* `OneSalePerKey`, `KeyedAnswersAreTrue`: what the idempotency key is for, from both sides. The mutant
  without the second look under the lock breaks the first, the one that skips the hash the second.
* `CreditLimitHolds`: the balance is read long before the ledger entry is visible; the lock of the
  customer row covers both.
* `InvoicesRunWithoutGap`: numbers that failed sales have drawn are drawn again. The mutant that
  behaves like a sequence leaves a gap. Two users whose ids end in the same byte show the same prefix;
  their numbers clash at the unique index, and the later sale fails and leaves no gap either.
* `TypeOK` says that no quantity falls below zero. Proved; no run repeats it.
* `EveryRequestIsAnswered` (liveness): no circle of waiting over keys, customers, rows, counters and invoice
  numbers, each request having its own connection. The mutant that locks in the order of the cart breaks it.
* `CopiesAreAnswered` (liveness): what the comment of `completeSale` promises, that a copy which was blocked
  is answered like the original. It is about the connections, and it is violated: see below.

### Runs

| Run | Instance | Question |
| --- | --- | --- |
| `sale_till` | a checkout, its retry, a changed cart under the same key, a credit sale and a cash sale without a key; two products of two pieces, one customer, three counters of which two share a prefix; five connections | the properties in every order and with every failure |
| `sale_copies` | three copies of one checkout, two connections | what becomes of copies when the pool runs out; violated |

Bounds. Three requests share the key, so one can commit while another waits for the lock and a third
has not asked yet. The carts overlap in both products and do not all fit; the two credit sales fit the
limit alone only. A request ends, so the model stops when all have been answered and deadlock is not
checked; `EveryRequestIsAnswered` tells an end from a circle.

Fairness. `WF_vars(\E r \in Request : Step(r))`: while some request can go on, one does. PostgreSQL and
the pool serve whoever they can; each request has a bounded number of steps, so nothing stronger is
needed. Arrivals and errors are not assumed: a rollback must not be what ends a wait.

### Where code and comments disagree

The comment of `completeSale` says that a copy that was blocked by the advisory lock returns the committed
sale. It reads the sale through the pool while it still holds its own connection. When all connections
are held by such copies (with the default pool, eleven copies of a checkout that arrive together can do
it) each waits for another, and the backend serves nothing more. `sale_copies` shows it with three copies
and `PoolSize` 2: TLC finds `CopiesAreAnswered` violated. In `sale_till` there are as many connections as
requests, so that `EveryRequestIsAnswered` is about everything but the pool.

Step 16 calls the `change_log` record
atomic with the sale, but its error is swallowed. With a key the next statement fails and the caller gets
an error (`CommitBroken`); without one `COMMIT` silently rolls back and the caller is told of a sale that
does not exist. This is why `KeyedAnswersAreTrue` speaks of keyed requests.

### Proved

`TillProofs` also proves, for any requests, keys, payloads, carts, stock, customers, limits, counters
and pool, the inductive invariant `IInv` and from it `TypeCorrectness`, `KeysSellOnce`,
`KeyedAnswersTrue`, `CreditStaysInLimit` and `InvoicesGapless`. None of the five is inductive alone.
`KeyInv`: a key has one holder, and past the second look the key is unused. `StockInv`: a row has one
holder, and what was found enough still is. `CreditInv`: a customer has one holder, and what passed the
check still fits. `InvoiceInv`: a counter has one holder, whose number is the next. Every step falls
into one of the thirteen cases of `StepOf` (`NextIsStepOf`), and each part of the invariant is preserved
case by case. `EveryRequestIsAnswered` is liveness and only model-checked.

### Not modelled

Sales take stock and credit from rows that returns, exchanges, transfers, payments and stock corrections
also change. Those writers are in the modules of sections 7 to 9, each with its own abstraction of a
sale; here `CreditLimitHolds` and the types speak of sales alone. The POS store that chooses the key is
planned; here a key is given.

## 7. Central stock: `CentralStock`

Everything that writes the backend's `stock` table apart from sales, returns and repairs: each a
transaction that takes its row locks statement by statement and keeps them to the end. The question is
what concurrent writers can do to each other, and what is left of a transfer that is sent again.

### State and actions

| In the model | In the code |
| --- | --- |
| `pc`, `want`, `held`, `seen`, `cost`, `shared` | the statement a transaction has reached, the rows it still has to lock, the rows it holds, the quantities and the average cost it has read, the products its movements refer to (the foreign key's `FOR KEY SHARE`) |
| `attempts`, `outcome` | the retry loop of a transfer; what the caller is told |
| `rows`, `stock`, `moved` | `stock` as it is committed, and what the `stock_movements` of a row add up to |
| `recordOf` | `stock_transfers` and `stock_transfer_batches`, by table and id (`IdOf`) |
| `average` | `products.average_cost` |
| `PoolSize`, `ConnectionFree` | the `pg` pool; a transfer that tries again has given its connection back |

| Action | Code |
| --- | --- |
| `BeginTransfer`, `SelectSecond`, `CheckTransfer`, `RecordTransfer`, `TryAgain` | `transferStock` and `transferStockBatch`: the look-up of the id, the two `SELECT ... FOR UPDATE` in the order of the branch ids, the check, the record with its unique id, the next attempt after 40P01 or 40001 |
| `CheckRecord` | after the unique id was taken and the transaction rolled back: the recorded transfer, read through the pool |
| `BeginPush`, `CheckPush` | `handleInventoryOperation`, `DECREASE` and `TRANSFER` |
| `BeginAdjust` | `adjustStock`; the pushed `INCREASE`, which sets the quantity its terminal computed (kind `set`) or, without a target, adds (kind `increase`); the pushed `ADJUST` and `OPENING_STOCK` (kind `correct`) |
| `BeginReceive`, `LockProduct`, `ReadTotal` | `receiveStock`: the product `FOR UPDATE`, the stock row, then the total of all branches without locks |
| `BeginDelta`, `UpsertDelta` | `deltaStock` (kinds `add`, `remove`) |
| `BeginOpening`, `ReadItem`, `RowTaken` | `importOpeningStock`, whose `INSERT` fails on a row that has appeared meanwhile |
| `LockRow`, `WriteRow`, `InsertMovements`, `MovementRefused` | one row lock, one row written, the movements of one item, a movement of nothing that the table's `CHECK` refuses |
| `NothingMoves` | an adjustment to the quantity a row has already, which records no movement |
| `Commit`, `RollBack`, `BreakCircle` | the end of a transaction, also one whose caller is told of an error after `COMMIT`; PostgreSQL failing a transaction of a circle |

A transaction's effect on the tables is computed when it commits: from its write on it holds the locks
of the rows, so nobody else can have changed them.

### Properties

* `OneTransferPerId`, `TransferAnswersAreTrue`: the two sides of a transfer's id, on the route that it was
  sent to. The mutant without the unique id breaks the first, the replay that does not compare payloads the
  second.
* `TransfersNeverCircle`: two transfers in opposite directions do not deadlock over the rows they find.
  The mutant that locks the source first breaks it.
* `MovementsAddUp`: no update of a row is lost. It names the writers for which that is not so.
* `AverageCostIsExact`: receipts of one product at two branches keep every rupee, although the total is
  read without a lock. The lock of the product row covers it; the mutant without it breaks it.
* `TypeOK`: no quantity falls below zero, whatever takes stock at once.
* `EveryRequestIsAnswered` (liveness): no circle is left waiting, retries end, and nobody waits for ever for
  the second connection of `CheckRecord`. The code asks for it before its `finally` has given the first one
  back: in the model a request between the two counts as `Connected`. Here, unlike in checkouts and repairs,
  that cannot go wrong, however small the pool: who loses a race has lost it to a transaction that committed
  while it held a connection of its own, and whoever gets that connection either is waiting for it here, or
  finds the id and answers, or loses to a later commit. After the last commit nobody new comes to wait. The
  mutant that gives a connection back with its transaction open breaks the property.

### Runs

| Run | Instance | Question |
| --- | --- | --- |
| `stock_day` | thirteen requests in six mixes of four, see below; a pool of three connections; one error from outside | all of the above |

Two requests that share no row, product or id do not meet, so the run takes the requests in mixes
(`Together`) of those that do, rather than all at once:

* a batch of two products and its copy, with another payload under the same id and an adjustment to nothing;
* the same batch and its copy, with a single transfer under the same id, which is another table, and an import;
* two receipts of one product at two branches, with a pushed and a sent transfer of it;
* the same receipts with an import that inserts a row they want, and a pushed increase;
* a decrease that is cut off at zero, pushed increases of both forms, and a pushed transfer;
* an adjustment, a pushed correction, an import and a pushed transfer.

Bounds. Two branches and two products give rows that are shared, rows in the opposite order and one row
that does not exist yet (the second product at the second branch). Every other row starts with one piece,
so that two takers compete. Three connections for four requests: arrivals wait for the pool, and
`CheckRecord` competes with them. `MaxAttempts` is 3 as in the code. `MaxErrors` is the number of errors
from outside: one can hit any statement, a second one says nothing new.

Fairness. `WF_vars(BreakCircle \/ \E r \in Request : Step(r))`: PostgreSQL grants a free lock to someone
and breaks a circle after its deadlock time-out. Arrivals and errors are not assumed. Requests end, so
deadlock is not checked and `EveryRequestIsAnswered` takes its place.

### Where code and comments disagree

* The comment in `stock_transfer.repo.ts` at line 286 says that a copy which loses the race for the id
  gets the recorded transfer. It does when it reaches the insert; when the first copy has used the stock
  up, the second one is refused as insufficient before that (`CheckTransfer`), although its transfer took
  place. `TransferAnswersAreTrue` therefore speaks of "done" and 409 only.
* Products are sorted "to eliminate deadlock potential", but a destination row that does not exist is
  not locked by `SELECT ... FOR UPDATE`; it is taken by the upsert later, after the other branch.
  `TransfersNeverCircle` is limited to the statements that lock what they find.
* A pushed `TRANSFER` locks the source first whatever its id, and receipts lock the product before the
  row while the others share it after the row. Both can close a circle; only transfers are tried again,
  a push is answered `FAILED_PERMANENT`.
* The two routes of transfers look an id up in their own table: an id that is used once on each moves stock
  twice. `OneTransferPerId` therefore speaks of an id and a route.
* `adjustStock`, a pushed `ADJUST` or `OPENING_STOCK` and a pushed `INCREASE` to a quantity read the quantity
  without a lock and set it; `deltaStock` stops at zero but its movement tells the full amount. These are
  the exceptions of `MovementsAddUp`.
* A pushed `INCREASE` to a quantity that is not higher writes a movement of zero or less, which the
  `CHECK` refuses.

### Proved

`CentralStockProofs` proves the following for any requests, branches, products, ids and numbers of
attempts.

* `InductiveInvariant`, `TransfersHappenOnce`, `TransferAnswersTrue`. `IInv` adds to
  `TransferAnswersAreTrue` that a recorded transfer is the only committed one of its id and that of the
  transactions past `RecordTransfer` at most one has the id. Steps are classed by what they do to ids
  (`StepOf`), so that each class is treated once.
* `LocksInOrder`: `LockInv`, the discipline of the row locks. A row has one holder; a transaction writes
  rows it holds; what a transfer, a push or an import has read of a row it holds is what the table says,
  and past its check a transfer or a push has enough. Receipts, additions and removals write relative to
  the row and need no earlier quantity.
* `MovementsMatch`: `MovementsAddUp` is a part of `LockInv`. It would not be inductive without the
  quantities that have been read: the movements tell what was read, the row gets what was read less what
  goes out, and the two agree only because the row is locked.
* `NoCircleOfTransfers`: every row a transfer still asks for lies beyond all rows it holds, in the order of
  branches and then products (`Ordered`). The last row that a circle of transfers waits for would have a
  holder who asks for a later one. Circles are walks of any length in `WaitsFor`, so the argument takes
  the greatest row of a finite set and not a bound on the number of transfers.
* `CostsAreTrue`, `AverageCostExact`: `CostInv`. The product's lock has one holder, its cost is the average
  of the table, and the total it has read without a lock is still the total at its write, unless the
  product is also written by others (`OnlyReceived`): any other receipt of the product waits. With it the
  new average times the new total differs from what was paid by at most half a rupee per piece more.
* `TypeCorrectness`: no quantity below zero, from `LockInv` and `CostInv`.

`EveryRequestIsAnswered` is liveness and stays with TLC.

### Not modelled

The `change_log` row that the routes of transfers, receipts and adjustments write after the commit, as
far as it can be lost (see section 11); reads of stock; low-stock thresholds.

## 8. Returns and exchanges: `ReturnsExchange`

What happens to a sale afterwards, next to the writers that share its customer and its products:
`createSalesReturn`, `processAtomicExchange`, `recordCustomerPayment`, and of `completeSale` the credit
sale's locks and ledger entry.

### State and actions

| In the model | In the code |
| --- | --- |
| `pc`, `line`, `rows`, `number`, `balance` | a transaction: its statement, its place in a loop over lines, the stock rows it has locked, the return number it has drawn, the ledger's sum it has read |
| `outcome`, `told` | the answer, and the exchange it shows |
| `returned` | what `sales_return_lines` add up to per sale line |
| `owed`, `shown` | the sum of a customer's ledger, and `balance_after` of its last entry |
| `nextNumber`, `exchangeOf` | the return counter, `sale_idempotency_keys` |

| Action | Code |
| --- | --- |
| `Arrive`, `LockKey`, `Replay` | the look-up of the key, the advisory lock, the second look, the answer from what is recorded |
| `LockSale` | `SELECT ... FOR UPDATE` of the original sale and the check of each line against earlier returns |
| `LockCustomer` | `FOR UPDATE` of the customer, by payments and credit sales |
| `LockRow` | `FOR UPDATE` of the stock of a product that goes out |
| `TakeNumber`, `InsertHeader` | the counter; the insert that shares the lock of the customer row |
| `RestoreRow` | the stock of a line that comes back |
| `Settle` | the ledger's sum and the look-up of the open session |
| `Commit`, `Failed`, `BreakCircle` | the end |

### Properties

* `NoOverReturn`: no more comes back than was sold, through whatever mix of returns and exchanges. The
  mutant without the lock of the sale breaks it.
* `ExchangeOncePerKey`: one exchange per key, and an answer shows an exchange that was made under the key
  with the payload of the request. The mutant without the second look under the lock breaks it.
* `LastEntryIsExact`: the balance on the last ledger entry is what the customer owes.
* `CirclesNeedAnExchange`: where deadlocks can come from. The mutant in which a sale locks in the order of
  the cart breaks it.
* `NumbersRunWithoutGap` and `TypeOK` are not repeated by a run; the first is proved.

### Runs

| Run | Instance | Question |
| --- | --- | --- |
| `returns_counter` | two returns of one sale, of which one overlaps the other, and a payment of its customer; an exchange of a walk-in's sale, its identical retry, and another cart under its key; a credit sale to a second customer that wants the same stock | all of the above |

Bounds. The line both returns bring back was sold once, so they compete for it. Each product has one piece,
so that a sale and an exchange compete for what a return may bring back. The two sales have a customer
with an account and a walk-in. Only one exchange can commit under the key: of the other two requests the
identical one is answered with it and the other one by 409, from the first look at the key or from the
second, unless the exchange they ask for fails. Nothing is tried again and every request ends; deadlock is
therefore not checked.

### Where code and comments disagree

* The header of `exchange.repo.ts` (line 8) promises that concurrent returns cannot exceed what was
  sold. The check looks at each line of the request alone: a request that lists a line twice returns it
  twice. `NoOverReturn` excludes such requests and nothing else.
* The comment in `sale.repo.ts` at lines 297 to 300 says that the customer row is locked so that the
  running balance is right. Returns and exchanges write the same ledger without that lock; those of two
  different sales of a customer may show a stale balance. `LastEntryIsExact` names the case.
* Sales lock stock in the order of the product ids so as not to deadlock; a return locks in the order of its
  lines, an exchange locks stock, the counter, the customer and then stock again. Both can close a circle
  with a sale, and nobody tries again.
* An exchange's credit part ignores the credit limit. Returns and payments have no idempotency key: a
  resent one is a second one.
* A return or exchange of a product without a stock row at the branch fails; for the exchange it is a
  `TypeError` and a 500.
* Cash that a return gives back belongs to no session when none is open; an exchange and a payment fail then.
  `Settle` models both. It is one guard, read without a lock and followed by no second look, and no property
  is stated about it.
* Payment receipts always say `RCP-000001` (`customer.repo.ts:803`), and a cash payment fails on a column
  `cash_sessions` does not have. The model lets it succeed, as the code means to.

### Proved

`ReturnsExchangeProofs` proves the following for any requests, sales, lines, products and keys.

* `InductiveInvariant`, `KeysExchangeOnce`, `NumbersGapless`. `IInv` adds that a key has one
  holder and is unused past the second look, and that the counter has one holder, whose number is the
  next; the types it needs are part of it.
* `TradeInvariant`: `TradeInv`, what a transaction may rely on. A sale and a stock row have one holder; a
  customer has one owner and, while owned, nobody who shares it (`LockInv`). Whoever holds the sale still
  fits in what is left of each line (`ReturnInv`). The balance a transaction has read is still what the
  customer owes, or another sale of the customer has come back meanwhile (`BookInv`). A loop holds the
  rows of the lines it has passed (`LoopInv`).
* `NothingOverReturned`, `LastEntryExact`: from `ReturnInv` and `BookInv`. What a commit adds to a line is
  the sum over the places where the request lists it; the invariant speaks of lines that are listed once,
  so `OneBack` and `NoneBack` suffice.
* `NoOtherCircles`: every transaction that waits has a rank: the sale, the counter, the customer, then
  the rows by product id (`Rank`). Unless it is an exchange, or a return whose lines are out of that
  order, whoever it waits for has a higher rank (`RankGrows`), because a loop holds only rows below the
  one it asks for. A finite set has a greatest rank, so no circle closes.

### Not modelled

Supplier returns and the ledgers of suppliers; the answer of a return, which is read again through the
pool; the second look of an exchange reads through the pool while it holds its own connection, with the
same hazard as in section 6.

## 9. Repair desk: `RepairJob`

### State and actions

| In the model | In the code |
| --- | --- |
| `pc`, `number`, `due` | a request: the statement it waits to execute, the invoice number it has drawn, what it has found outstanding |
| `status`, `settlement`, `extra`, `invoice` | the columns of `repair_jobs`. Only "Delivered" is told apart from the other statuses |
| `parts`, `stock` | `repair_parts`, and the stock rows they come from |
| `nextValue` | `repair_invoice_counters` |
| `PoolSize`, `Connected` | the `pg` pool (`db.ts:19`): a request has its connection from `pool.connect()` to the release in its `finally`; a change of status takes one for each statement |

| Action | Code |
| --- | --- |
| `Connect`, `Reply` | `pool.connect()`, and after `COMMIT`, before the release, `getRepairJobById(pool)`, which needs a second connection (`repair.repo.ts:579, 790, 898, 1007, 1258`) |
| `ReadStatus`, `WriteStatus` | `updateRepairStatus`, two statements without a transaction |
| `LockAdvisory` | `pg_advisory_xact_lock` of a booking or a delivery |
| `LockJob`, `LockStock`, `LockSession` | `SELECT ... FOR UPDATE` with the checks behind it |
| `TakeNumber`, `UpdateJob` | the delivery: counter and sums, the check of a walk-in, the update under the unique invoice number |
| `Commit`, `Abort` | the end of `createRepairJobTx`, `addRepairPartTx`, `removeRepairPartTx`, `addRepairPaymentTx`, `completeRepairJobTx` |

### Properties

* `PartsComeFromStock`: a part that is removed twice comes back once; stock and parts add up.
* `SettlementIsTrue`: a delivered job says `PAID` only if its payments cover it, although parts, payments
  and the delivery run at once and parts are summed before the job is written. The lock of the job
  covers it; the mutant in which a delivery trusts its advisory lock breaks it.
* `DeliveredOnce` (action property): a delivery commits only on an open job and closes it, and only a change
  of status opens it again. So a second delivery needs a change of status after the first; one before it
  does not count. The mutant in which a delivery does not look at the status under the lock breaks it.
* `EveryRequestIsAnswered` (liveness): the locks are taken in one order and nobody waits for ever, unless
  every connection of the pool is held by a request that waits for one more (`PoolIsSpent`): see below. The
  mutant in which the job's lock outlives its transaction breaks it.
* `BranchesNumberTheirOwn`: what the migration promises about the numbers of several branches. Violated: see
  below.
* `InvoicesAreUnique`, `InvoicesRunWithoutGap`, `TypeOK`: the first two are proved and not run again.
* `OneBranchDelivers` says what becomes of `BranchesNumberTheirOwn`; it is proved, and no run repeats it.

### Runs

| Run | Instance | Question |
| --- | --- | --- |
| `repair_desk` | ten requests on three jobs in three mixes, over a pool of three connections | all of the above |
| `repair_branches` | a booking and its delivery at one branch, a payment and a delivery at another | whether a branch draws numbers of its own; violated |

The mixes (`Together`) are: two parts of one stock row and two removals of one of them; a part, its removal,
a payment, a change of status and two deliveries of a walk-in's job under different spellings of its id; a
booking with its delivery at a second branch, with parts of two jobs, a delivery and a change of status at
the first one.

Bounds. One piece is in stock for two jobs. The two deliveries differ in the advisory lock and in cash, so
the only thing they share is the row. Three connections for four or six requests: two can read their
answers while one works, and three that have committed can spend the pool. Fairness is
`WF_vars(\E r \in Request : Step(r))`; the database's errors are not assumed. Requests end, so deadlock
is not checked.

### Where code and comments disagree

* Migration 038 calls the counters "atomic, race-safe repair invoice allocation per branch" (line 78). Every
  branch counts from 1, the number does not name the branch, and the unique index (lines 51 to 55) spans
  all branches. The second branch's first delivery draws a number that is in use, fails, and gives it back;
  so does every later one. `repair_branches` finds `BranchesNumberTheirOwn` violated, and `OneBranchDelivers`
  is what it comes to as long as no delivered job is opened again.
* A job that is delivered cannot be changed, says the 409 at `repair.repo.ts:626`. The status is read
  without a lock, so a change that was decided before a delivery is written after it and opens the job
  again. It can then be delivered once more under another number, and its first number is nobody's.
  `DeliveredOnce` allows this and no other way to deliver twice.
* Five functions read their answer through the pool before they release the connection their transaction
  ran on. With ten connections and no time-out (`db.ts:19`), ten requests that have committed at the same
  time wait for ever, and so does everything after them. `PoolIsSpent` names the case, and TLC reaches it.
* The advisory lock of a booking does not prevent a second booking of the same device: nothing is looked
  up under it. The one of a delivery is named after the id as the request spells it; what orders
  deliveries is the lock of the row.
* Payments have no idempotency key.

### Proved

`RepairJobProofs` proves the following for any requests, jobs, stock rows and branches.

* `InductiveInvariant`, `NumbersUnique`, `NumbersGapless`. A branch's counter has one holder, whose number is
  the next; a delivery past its update owns its number; and of what is committed each branch has used
  the numbers below its counter.
* `DeskInvariant`: `DeskInv`. A job has one holder, is open while it is held, and a removal that holds it
  still finds its part (`JobInv`); a stock row has one holder, for whom the stock is still enough
  (`StockInv`); what a delivery has found outstanding stays outstanding until it commits (`MoneyInv`);
  deliveries and changes of status alternate (`HistoryInv`).
* `PartsFromStock`, `SettlementTrue`, `JobsDeliveredOnce`, `OneBranch`, `TypeCorrectness`: from `DeskInv`.
  `OneBranch` also uses `IInv`: two branches that delivered would both have used the number 1.

`EveryRequestIsAnswered` is liveness and stays with TLC.

### Not modelled

Estimates, notes, attachments and the desktop's own repair tables; which statuses lead to which.

## 10. Mobile inventory: `MobileDevice`

### State and actions

| In the model | In the code |
| --- | --- |
| `step`, `number`, `seen`, `answer` | a request: its place on `Path`, its voucher number, the status it has read, its answer |
| `status`, `moves` | `mobile_devices.status` and the device's `mobile_device_movements` |
| `known`, `active` | the registry of sellers |

| Action | Code |
| --- | --- |
| `Check` | the look-ups of `registerMobileDeviceTx` before it writes |
| `AllocateVoucher` | `getNextVoucherNumber`: the branch's row `FOR UPDATE`, then the maximum |
| `InsertDevice`, `InsertImei`, `CheckSeller`, `InsertPaperwork` | its inserts, one by one, with the keys and foreign keys each waits for |
| `LockDevice` | `patchMobileDevice` |
| `LockSeller`, `CreateSeller` | `updateSeller`, `createSeller` |
| `WriteLog` | `writeChangeLogEntry` of a patch or a seller update, whose foreign key shares the branch's row (`003_add_change_log.sql:5`), and a patch's movement |
| `Commit`, `BreakCircle` | the end |

### Properties

* `AllocatedVouchersAreFree`: the backend never allocates a number that is in use or about to be, although
  others bring numbers of their own and do not lock the branch. What makes it safe is the foreign key:
  every registration shares the branch's row, so an allocation waits for them. The mutant without that
  lock breaks it.
* `MovementsTellTheStatus`: movements form a chain that ends in the device's status.
* `TwoKindsOfCircles`: requests deadlock over IMEIs that registrations list in different orders; or an update
  of a seller has locked the seller's row and waits to write its change log for the branch of a registration
  whose number is allocated, while a registration waits with its paperwork for the seller. Nothing else
  closes a circle. The mutant that allocates the number after the device breaks it.
* That an IMEI belongs to one device and a number to one voucher is what the unique indexes do
  (`ImeiClash`, `VoucherClash`), and no property repeats it. `TypeOK` is proved and not run.

### Runs

| Run | Instance | Question |
| --- | --- | --- |
| `mobile_desk` | a device with a voucher that has letters, two allocations, an explicit number that is one of those they may get, a registration elsewhere with the same IMEIs in the other order, two patches of one device, an update of the seller that an allocation names, a new seller | all of the above |

Bounds. `MaxBigint` is 2, so that a third allocation would meet the largest `BIGINT`; the code's is
2^63 - 1. Both patches ask for the same status, so that one of them finds nothing to do. No fairness is
stated: the only question of liveness is that of circles, which is stated as an invariant. Deadlock is not
checked, because requests end.

### Where code and comments disagree

* "Sequence starts at 1001": in a branch whose vouchers all have letters the maximum is 0, and the first
  allocated number is 1. The comment holds only for a branch without vouchers.
* The seller is checked "for a consistent read" without a lock: it may be inactive when the paperwork is
  inserted.
* An explicit number of more than nineteen digits makes every later allocation of the branch fail.
* A deadlock, over swapped IMEIs or around the update of a seller, is answered 500 and not tried again. No
  transition leads to `SOLD`.

### Proved

`MobileDeviceProofs` proves `DeskInvariant`, `VouchersFree`, `MovementsTell` and `CirclesOfTwoKinds` for any
requests, branches, IMEIs, vouchers, sellers and devices that satisfy `ConstantsAssumption`: what the
routes have checked of a call (its kind decides which of its fields are there, no IMEI twice, a status
other than `SOLD`), and that finitely many registrations have taken place before.

* The path of a registration depends on its kind, on its seller and on the number of its IMEIs.
  `PathOfDevice` says where each statement stands, whatever that number is, and `PlacesOfDevice` that the
  first place of a lock is that one. `DeviceIsAt`, `DeviceHolds`, `OtherIsAt` and `OtherHolds` turn "is at
  a statement" and "holds" into comparisons of `step` with these places; no other proof looks into a list.
* `CirclesOfTwoKinds`: in a circle everybody waits for someone and is waited for. Whoever waits for the branch
  with its first lock holds nothing (`NoneBehindAllocation`), and whoever waits to insert its device holds
  the branch or nothing, and the branch has one holder (`BranchInv`, `DeviceStraight`). Who files its
  paperwork waits for one that is past it, who never waits again, or for the update of its seller
  (`NoneFilesBehind`). So either all wait for IMEIs, and one that holds an IMEI while it waits for another
  lists several; or somebody waits for an update, which can only wait to write its log (`BehindLog`), and
  that is for an allocation.
* `VouchersFree` needs more than the answer says: that while a request holds the branch its number is not
  among the vouchers (`FreshInv`). An allocated number is above all of them, which are finitely many
  (`LargestIs`); none is added before the lock is given up, because whoever commits a registration shares
  the branch (`FreshMore`, from `BranchInv`).
* `MovementsTell` needs that a locked device has one holder and the status that was read (`LockInv`): a
  commit then moves it from where the last movement has ended (`TellsOn`).
* `SellerInv`, that a seller who is being updated is known, is there for the types alone: `active` stays
  within `known`.

### Not modelled

The pool: a patch and an update of a seller read their answers through it before they release their
connection, as repairs do (section 9), and no liveness is claimed here. The audit rows that reads of
paperwork write; suppliers, photographs, prices and the other columns that
are stored as they come; search.

## 11. Realtime hints: `RealtimeHints`

How a browser tab learns of changes: `pg_notify` in the writer's transaction, a listening connection per
backend instance, the registry of authenticated sockets, the tab's client with its two timers, and the
queries it refetches. Tabs share only the loop over the registry, so one is modelled, with every socket it
has had and not yet lost.

### State and actions

| In the model | In the code |
| --- | --- |
| `hint`, `queue`, `listener` | a change's notification; those on their way to an instance; `pgListener.ts`'s connection |
| `near`, `far`, `at`, `down`, `cut` | the two ends of a socket, its instance, the messages to the tab, a connection nobody has noticed to be broken |
| `mounted`, `ws`, `isAuthenticated`, `reconnectTimer`, `authTimer` | the fields of `NmmWsClient` (`mounted` is `!isDisposed`) |
| `fresh` | which changes are in what the tab shows |
| `unheard`, `before`, `tokenless` | history: changes an instance was not notified of; changes committed when a socket was let in; that the last attempt to open a socket found no token |

| Action | Code |
| --- | --- |
| `Commit`, `HintAfterwards` | `writeChangeLogEntry` in the writer's transaction, or in a second one after the answer, whose failure is swallowed |
| `Listen`, `AttachHandlers`, `NotificationUnhandled`, `ListenerEnds` | `connectAndListen`: the handlers are attached behind an `await` |
| `Broadcast` | `broadcast`, `clientShouldReceive` |
| `Authenticate`, `FarTimeout`, `FarGivesUp`, `FarCloses`, `Restart` | `wsServer.ts`: authentication, heartbeat, close; the process |
| `Mount`, `Unmount`, `Reconnect` | `useSyncEngine`, `connect`, `dispose`, the reconnect timer; all open a socket through `_openSocket` or let one go |
| `NoToken`, in `Mount` and `Reconnect` | `_openSocket` without a token (`wsClient.ts:138-144`): it clears the timers, sets none, and opens nothing |
| `Opened`, `Receive`, `AuthTimeout`, `NearCloses`, `NearBreaks` | the socket's events in the tab |
| `Cut` | the network |

### Properties

* `ConnectedTabsMissOnlyTheUnheard`: a connected tab shows every change or a hint is under way to it, and
  the exceptions are named: what the catch-up leaves out, what has no hint or none for this user, and what
  an instance did not hear. The mutant without the catch-up breaks it.
* `OneLiveSocket`: close events and timers that a remount leaves behind never give the tab a second live
  socket. The mutant in which `dispose` leaves `onclose` attached breaks it.
* `EverythingReconnects` (liveness): listeners, tabs and registries recover from every bounded number of
  faults. A tab whose attempt has found no token is excepted: the code sets no timer then, so that it stays
  without a socket until the layout mounts again, even if the token is there a moment later.

### Runs

| Run | Instance | Question |
| --- | --- | --- |
| `realtime_tab` | one instance, two sockets, a sale (hint inside its transaction, covered by the catch-up) and a brand (hint afterwards, not covered), two faults | all of the above |

Bounds. With two slots, an old socket can linger while the tab opens another; a third would need a
second remount before the first close event. Two faults make a fault during recovery possible. Two changes
are enough to have one before and one after each event. Deadlock is checked: a tab can always mount or
unmount.

The token lies in the storage all windows of the browser share, so that another one can sign out; that an
attempt finds none counts as a fault.

Fairness. Weak fairness of each listener, of each socket's two ends and of the two timers: event loops run
what is ready. Mounting, commits and faults are not assumed. A tab has no heartbeat of its own, so the
code does not justify fairness of noticing a cut connection in the tab (`NearBreaks`).
`EverythingReconnects` asks no more of a cut connection than that the registry forgets it.

### Where code and comments disagree

* The comment in `server.ts` near line 1013 says that a transfer is notified to the whole organisation; the
  code passes the source branch, and users of the destination are not told. `change_log.repo.ts:148` says
  that all branches receive an organisation-wide hint; `clientShouldReceive` withholds it from users of a
  branch.
* Repairs emit `REPAIR_JOB_CREATED`, `REPAIR_PART_ADDED` and others; `handleNotifyHint` knows
  `REPAIR_CREATED` and `REPAIR_UPDATED` only, so a repair's hint refetches nothing.
* Pushed operations, returns and exchanges never notify. The routes in `server.ts`, `product.routes.ts`
  and `customer.routes.ts` notify in a second transaction that may fail unseen.
* A reconnect that finds no token is the last (`NoToken`), although the tab is still mounted and the user may
  sign in again in another window.
* The catch-up after a reconnect omits brands, categories, companies, colours, qualities and suppliers.
* Nobody makes up for the hints an instance did not hear while its listener was down; a connected tab
  stays stale until the next hint or reconnect.

### Proved

`RealtimeHintsProofs` proves the following for any instances, sockets, changes and numbers of faults.

* `InductiveInvariant`, `TypeCorrectness`, `OneSocketLives`. `OneLiveSocket` becomes inductive with what ties
  sockets to timers: a socket that is kept is `ws` and its tab is mounted with no reconnect timer set,
  and the authentication timer watches `ws` only while it is not authenticated.
* `HintsAreNotMissed`: `ConnectedTabsMissOnlyTheUnheard`. `HintInv` follows a change from its commit through
  the queue of the instance and the messages of the socket to the tab, for every socket both ends of
  which believe in it; `LinkInv` says that nothing overtakes the answer to the authentication: a tab that
  is authenticated has made its catch-up after it was registered.

`EverythingReconnects` is liveness and stays with TLC.

### Not modelled

More than one tab; a refetch that fails; a listener whose connection is half open; the desktop's own
refresh after a pull.
