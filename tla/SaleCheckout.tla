---------------------------- MODULE SaleCheckout ----------------------------
(***************************************************************************)
(* completeSale of the central backend: requests that carry an idempotency *)
(* key run one transaction each, serialised by an advisory lock on the key *)
(* and by the rows they lock (the customer, the stock of the cart in the   *)
(* order of the product ids, the invoice counter of the user). A request   *)
(* without a usable key runs the same transaction without the key's steps. *)
(* Transactions hold a connection of the pool, which is as large as pg's    *)
(* default (10) and has no time limit for those that wait.                  *)
(***************************************************************************)
EXTENDS Integers, FiniteSets

CONSTANTS
    Request,       \* calls of completeSale, retries included
    Key,           \* an idempotency key together with its branch
    KeyOf,         \* the key of a request, or None
    Payload,       \* what computePayloadHash tells apart
    NumProducts,   \* products 1..NumProducts, in the order of their ids
    Qty,           \* per request, the quantity of each product in its cart
    InitialStock,
    Customer, CustomerOf,
    Credit,        \* the part of the total that is not tendered
    CreditLimit,   \* 0 for no limit
    PoolSize,      \* connections of the pool
    Counter,       \* a row of user_invoice_counters: branch, user and month
    CounterOf,
    Prefix,        \* what the invoice number shows of a counter
    None

Product == 1..NumProducts
Cart(r) == {p \in Product : Qty[r][p] > 0}

ASSUME ConstantsAssumption ==
    /\ None \notin Request /\ None \notin Key /\ None \notin Customer
    /\ KeyOf \in [Request -> Key \cup {None}]
    /\ CustomerOf \in [Request -> Customer \cup {None}]
    /\ CounterOf \in [Request -> Counter]
    /\ NumProducts \in Nat /\ PoolSize \in Nat
    /\ Qty \in [Request -> [Product -> Nat]]
    /\ InitialStock \in [Product -> Nat]
    /\ CreditLimit \in [Customer -> Nat]
    /\ Credit \in [Request -> Nat]
    \* Step 8: walk-in customers cannot buy on credit.
    /\ \A r \in Request : Credit[r] > 0 => CustomerOf[r] # None

VARIABLES
    pc,            \* what a request does next
    locked,        \* the stock rows it has locked
    number,        \* the invoice number it has drawn
    told,          \* the sale its answer shows, or None
    outcome,       \* "none", "sold", "conflict", "refused" or "failed"
    sold,          \* committed sales, named by the request that made them
    saleOf,        \* sale_idempotency_keys
    stock,         \* stock.quantity at the branch
    outstanding,   \* sum of a customer's ledger
    nextValue      \* user_invoice_counters.next_value

request == <<pc, locked, number, told, outcome>>
central == <<sold, saleOf, stock, outstanding, nextValue>>
vars    == <<request, central>>

\* The transaction, and its parts from one lock to the next.
Writing   == {"header", "commit"}
Numbered  == {"invoice"} \cup Writing
Stocked   == {"stock"} \cup Numbered
Rechecked == {"checked"} \cup Stocked
Locked    == {"locked"} \cup Rechecked
Connected == {"key", "reread", "broken"} \cup Locked
Pcs       == {"idle", "begin", "done"} \cup Connected

ConnectionFree   == Cardinality({r \in Request : pc[r] \in Connected}) < PoolSize
HoldsKey(r)      == KeyOf[r] # None /\ pc[r] \in Locked
HoldsCustomer(r) == CustomerOf[r] # None /\ pc[r] \in Stocked
HoldsCounter(r)  == pc[r] \in Numbered

Init ==
    /\ pc = [r \in Request |-> "idle"]
    /\ locked = [r \in Request |-> {}]
    /\ number = [r \in Request |-> 0]
    /\ told = [r \in Request |-> None]
    /\ outcome = [r \in Request |-> "none"]
    /\ sold = {}
    /\ saleOf = [k \in Key |-> None]
    /\ stock = InitialStock
    /\ outstanding = [c \in Customer |-> 0]
    /\ nextValue = [c \in Counter |-> 1]

\* The request goes on to its next step.
Goto(r, step) ==
    /\ pc' = [pc EXCEPT ![r] = step]
    /\ UNCHANGED <<told, outcome>>

\* The caller has an answer; connection and locks are given back. Only a sale
\* keeps its number.
Answer(r, result, sale) ==
    /\ pc' = [pc EXCEPT ![r] = "done"]
    /\ locked' = [locked EXCEPT ![r] = {}]
    /\ outcome' = [outcome EXCEPT ![r] = result]
    /\ told' = [told EXCEPT ![r] = sale]

Answered(r, result, sale) ==
    /\ Answer(r, result, sale)
    /\ number' = [number EXCEPT ![r] = 0]

-----------------------------------------------------------------------------
(* Idempotency: completeSale up to completeSaleTx.                         *)

Found(r) == KeyOf[r] # None /\ saleOf[KeyOf[r]] # None

\* FAULTY: a key that is known is answered whatever the payload.
ReplayUnverified(r) == Answered(r, "sold", saleOf[KeyOf[r]])

\* The original sale, or 409 when the key was used for another payload.
Replay(r) ==
    LET sale == saleOf[KeyOf[r]] IN
    IF Payload[sale] = Payload[r] THEN Answered(r, "sold", sale)
                                  ELSE Answered(r, "conflict", None)

\* The request arrives and looks its key up outside any transaction, which
\* takes a connection of the pool for a moment.
FastPath(r) ==
    /\ pc[r] = "idle"
    /\ KeyOf[r] # None => ConnectionFree
    /\ IF Found(r) THEN Replay(r) ELSE Goto(r, "begin") /\ UNCHANGED <<locked, number>>
    /\ UNCHANGED central

Connect(r) ==
    /\ pc[r] = "begin" /\ ConnectionFree
    /\ Goto(r, IF KeyOf[r] = None THEN "checked" ELSE "key")
    /\ UNCHANGED <<locked, number, central>>

KeyLockFree(r) == \A q \in Request : KeyOf[q] = KeyOf[r] => ~HoldsKey(q)

AdvisoryLock(r) ==
    /\ pc[r] = "key"
    /\ KeyLockFree(r)
    /\ Goto(r, "locked")
    /\ UNCHANGED <<locked, number, central>>

\* FAULTY: the key is not looked up again under the lock.
RecheckSkipped(r) ==
    /\ pc[r] = "locked"
    /\ Goto(r, "checked")
    /\ UNCHANGED <<locked, number, central>>

\* The key is looked up again under the lock; when it is known by now, the
\* transaction is rolled back, which frees the lock and keeps the connection.
Recheck(r) ==
    /\ pc[r] = "locked"
    /\ IF Found(r) /\ Payload[saleOf[KeyOf[r]]] # Payload[r]
       THEN Answered(r, "conflict", None)
       ELSE /\ Goto(r, IF Found(r) THEN "reread" ELSE "checked")
            /\ UNCHANGED <<locked, number>>
    /\ UNCHANGED central

\* The original sale is read on the pool, through a second connection.
Reread(r) ==
    /\ pc[r] = "reread" /\ ConnectionFree
    /\ Replay(r)
    /\ UNCHANGED central

-----------------------------------------------------------------------------
(* completeSaleTx.                                                         *)

\* FAULTY: the customer is read without FOR UPDATE.
CustomerUnlocked(r) == TRUE

CustomerFree(r) ==
    \A q \in Request :
        CustomerOf[r] # None /\ CustomerOf[q] = CustomerOf[r] => ~HoldsCustomer(q)

LockCustomer(r) ==
    /\ pc[r] = "checked"
    /\ CustomerFree(r)
    /\ Goto(r, "stock")
    /\ UNCHANGED <<locked, number, central>>

\* FAULTY: the rows are locked in the order of the cart, which is any order.
NextRowOfCart(r, p) == p \in Cart(r) \ locked[r]

\* The rows of the cart are locked in the order of the product ids.
NextRow(r, p) ==
    /\ p \in Cart(r) \ locked[r]
    /\ \A q \in Cart(r) \ locked[r] : p <= q

RowFree(p) == \A q \in Request : p \notin locked[q]

LockStock(r) ==
    /\ pc[r] = "stock"
    /\ \E p \in Product :
          /\ NextRow(r, p) /\ RowFree(p)
          /\ stock[p] >= Qty[r][p]
          /\ locked' = [locked EXCEPT ![r] = @ \cup {p}]
    /\ UNCHANGED <<pc, number, told, outcome, central>>

InsufficientStock(r) ==
    /\ pc[r] = "stock"
    /\ \E p \in Product : NextRow(r, p) /\ RowFree(p) /\ stock[p] < Qty[r][p]
    /\ Answered(r, "refused", None)
    /\ UNCHANGED central

CounterFree(r) == \A q \in Request : CounterOf[q] = CounterOf[r] => ~HoldsCounter(q)

\* FAULTY: the counter is bumped outside the transaction, like a sequence.
NextInvoiceAtOnce(r) ==
    /\ pc[r] = "stock" /\ locked[r] = Cart(r)
    /\ CounterFree(r)
    /\ number' = [number EXCEPT ![r] = nextValue[CounterOf[r]]]
    /\ nextValue' = [nextValue EXCEPT ![CounterOf[r]] = @ + 1]
    /\ Goto(r, "invoice")
    /\ UNCHANGED <<locked, sold, saleOf, stock, outstanding>>

\* The upsert of the counter, whose row stays locked until the end; the new
\* value is committed with the sale or not at all.
NextInvoice(r) ==
    /\ pc[r] = "stock" /\ locked[r] = Cart(r)
    /\ CounterFree(r)
    /\ number' = [number EXCEPT ![r] = nextValue[CounterOf[r]]]
    /\ Goto(r, "invoice")
    /\ UNCHANGED <<locked, central>>

ExceedsLimit(r) ==
    LET c == CustomerOf[r] IN
    /\ Credit[r] > 0 /\ CreditLimit[c] > 0
    /\ outstanding[c] + Credit[r] > CreditLimit[c]

CheckCredit(r) ==
    /\ pc[r] = "invoice"
    /\ ~ExceedsLimit(r)
    /\ Goto(r, "header")
    /\ UNCHANGED <<locked, number, central>>

CreditExceeded(r) ==
    /\ pc[r] = "invoice"
    /\ ExceedsLimit(r)
    /\ Answered(r, "refused", None)
    /\ UNCHANGED central

SameInvoice(r, q) == Prefix[CounterOf[q]] = Prefix[CounterOf[r]] /\ number[q] = number[r]

\* Header, lines, stock, payments, cash movement, change_log record.
\* invoice_number is UNIQUE: the insert waits for a transaction that has
\* inserted the same number.
InsertSale(r) ==
    /\ pc[r] = "header"
    /\ \A q \in Request \ {r} :
          SameInvoice(r, q) => q \notin sold /\ pc[q] # "commit"
    /\ Goto(r, "commit")
    /\ UNCHANGED <<locked, number, central>>

InvoiceTaken(r) ==
    /\ pc[r] = "header"
    /\ \E q \in sold : SameInvoice(r, q)
    /\ Answered(r, "failed", None)
    /\ UNCHANGED central

-----------------------------------------------------------------------------
(* The rest of completeSale.                                               *)

\* The error of a failed change_log write is logged and swallowed, but
\* PostgreSQL has aborted the transaction and released its locks.
ChangeLogFails(r) ==
    /\ pc[r] = "commit"
    /\ Goto(r, "broken")
    /\ locked' = [locked EXCEPT ![r] = {}]
    /\ number' = [number EXCEPT ![r] = 0]
    /\ UNCHANGED central

\* COMMIT. When the connection breaks meanwhile, the caller is told of an
\* error although the sale is durable.
Commit(r) ==
    /\ pc[r] = "commit"
    /\ \/ Answer(r, "sold", r)
       \/ Answer(r, "failed", None)
    /\ sold' = sold \cup {r}
    /\ saleOf' = [k \in Key |-> IF k = KeyOf[r] THEN r ELSE saleOf[k]]
    /\ stock' = [p \in Product |-> stock[p] - Qty[r][p]]
    /\ outstanding' = [c \in Customer |-> IF c = CustomerOf[r] THEN outstanding[c] + Credit[r]
                                                               ELSE outstanding[c]]
    /\ nextValue' = [nextValue EXCEPT ![CounterOf[r]] = number[r] + 1]
    /\ UNCHANGED number

\* In the aborted transaction the insert of the key fails; without a key
\* nothing is left to fail, and COMMIT rolls back without an error.
CommitBroken(r) ==
    /\ pc[r] = "broken"
    /\ IF KeyOf[r] = None THEN Answered(r, "sold", r) ELSE Answered(r, "failed", None)
    /\ UNCHANGED central

\* Any other refusal or error of the transaction, or the end of the backend.
RollBack(r) ==
    /\ pc[r] \in {"begin"} \cup Connected
    /\ Answered(r, "failed", None)
    /\ UNCHANGED central

-----------------------------------------------------------------------------

Step(r) ==
    \/ Connect(r) \/ AdvisoryLock(r) \/ Recheck(r) \/ Reread(r)
    \/ LockCustomer(r) \/ LockStock(r) \/ InsufficientStock(r) \/ NextInvoice(r)
    \/ CheckCredit(r) \/ CreditExceeded(r) \/ InsertSale(r) \/ InvoiceTaken(r)
    \/ ChangeLogFails(r) \/ Commit(r) \/ CommitBroken(r)

Next == \E r \in Request : FastPath(r) \/ Step(r) \/ RollBack(r)

Spec == Init /\ [][Next]_vars

\* As long as some request can go on, one does; requests need not arrive and
\* nothing has to fail. Each has a bounded number of steps.
Fairness == WF_vars(\E r \in Request : Step(r))

FairSpec == Spec /\ Fairness

-----------------------------------------------------------------------------
(* Properties.                                                             *)

\* Every variable stays within its type; no quantity falls below zero,
\* whatever sells the same product at the same time.
TypeOK ==
    /\ pc \in [Request -> Pcs]
    /\ locked \in [Request -> SUBSET Product]
    /\ number \in [Request -> Nat]
    /\ told \in [Request -> Request \cup {None}]
    /\ outcome \in [Request -> {"none", "sold", "conflict", "refused", "failed"}]
    /\ sold \in SUBSET Request
    /\ saleOf \in [Key -> Request \cup {None}]
    /\ stock \in [Product -> Nat]
    /\ outstanding \in [Customer -> Nat]
    /\ nextValue \in [Counter -> Nat]

\* However often and at once a checkout is sent, its key makes one sale.
OneSalePerKey ==
    \A r, q \in sold : KeyOf[r] # None /\ KeyOf[q] = KeyOf[r] => r = q

\* What a keyed request is told is true and stays true: a sale it is shown is
\* committed under its key with its payload, and 409 means another payload.
KeyedAnswersAreTrue ==
    \A r \in Request : KeyOf[r] # None =>
        /\ outcome[r] = "sold" => /\ told[r] \in sold
                                  /\ KeyOf[told[r]] = KeyOf[r]
                                  /\ Payload[told[r]] = Payload[r]
        /\ outcome[r] = "conflict" =>
              \E s \in sold : KeyOf[s] = KeyOf[r] /\ Payload[s] # Payload[r]

\* Concurrent credit sales never take a customer above the credit limit.
CreditLimitHolds ==
    \A c \in Customer : CreditLimit[c] > 0 => outstanding[c] <= CreditLimit[c]

\* The sales of a counter are numbered 1, 2, 3, ... without a gap, although
\* transactions that draw a number may fail, and no two sales of any counters
\* show the same number.
InvoicesRunWithoutGap ==
    /\ \A r, q \in sold : SameInvoice(r, q) => r = q
    /\ \A c \in Counter :
          {number[r] : r \in {s \in sold : CounterOf[s] = c}} = 1 .. nextValue[c] - 1

\* Concurrent checkouts never wait for each other in a circle over rows, keys
\* or numbers: as long as the pool is large enough to give each of them a
\* connection, whoever has arrived is answered, with no help from a deadlock
\* detector. CopiesAreAnswered speaks of the connections.
EveryRequestIsAnswered == []<>(\A r \in Request : pc[r] \in {"idle", "done"})

\* A copy that blocks on the advisory lock returns the original sale once it
\* is unblocked: point 3 of the comment on completeSale. It reads that sale
\* through a second connection, which the other copies may all be holding.
CopiesAreAnswered ==
    \A r \in Request : pc[r] = "key" ~> pc[r] = "done"
=============================================================================
