-------------------------- MODULE ReturnsExchange --------------------------
(***************************************************************************)
(* What happens after a sale at one branch, one PostgreSQL transaction     *)
(* each: createSalesReturn, processAtomicExchange, recordCustomerPayment,  *)
(* and, as far as they share rows with these, the credit sales of          *)
(* completeSale. The transactions lock the original sale, the customer (FOR *)
(* UPDATE, or FOR KEY SHARE through the foreign key of sales_returns), the *)
(* return counter, and stock rows, and keep all locks to the end. A circle  *)
(* of waiting transactions is broken by PostgreSQL, which fails one of     *)
(* them; nothing here is tried again.                                      *)
(***************************************************************************)
EXTENDS Integers, FiniteSets, Sequences, SequencesExt

CONSTANTS
    Request,        \* calls of the routes, retries included
    Kind,           \* "return", "exchange", "payment" or "sale"
    Sale, SaleOf,   \* the original sale of a return or an exchange, or None
    Line,           \* sale_lines
    LineSale,       \* the sale of a line
    LineProduct,    \* its product
    LineQty,        \* the quantity sold
    Lines,          \* what comes back: a sequence of [line, qty]
    NumProducts,    \* products 1..NumProducts, in the order of their ids
    Wanted,         \* what goes out, summed by product: a sequence of [product, qty]
    Customer, CustomerOf,
    Entry,          \* what the request adds to the ledger (debit - credit)
    Cash,           \* TRUE when it moves cash
    Key, KeyOf,     \* idempotency_key of an exchange, or None
    Payload,        \* what computeExchangePayloadHash tells apart
    HasRow,         \* the products with a stock row at the branch
    InitialStock,
    None

Product == 1..NumProducts
Kinds   == {"return", "exchange", "payment", "sale"}

ASSUME ConstantsAssumption ==
    /\ NumProducts \in Nat /\ HasRow \subseteq Product
    /\ None \notin Sale /\ None \notin Customer /\ None \notin Key /\ None \notin Request
    /\ Kind \in [Request -> Kinds]
    /\ SaleOf \in [Request -> Sale \cup {None}]
    /\ LineSale \in [Line -> Sale] /\ LineProduct \in [Line -> Product]
    /\ LineQty \in [Line -> Nat]
    /\ Lines \in [Request -> Seq([line : Line, qty : Nat \ {0}])]
    /\ Wanted \in [Request -> Seq([product : Product, qty : Nat \ {0}])]
    /\ CustomerOf \in [Request -> Customer \cup {None}]
    /\ Entry \in [Request -> Int] /\ Cash \in [Request -> BOOLEAN]
    /\ KeyOf \in [Request -> Key \cup {None}]
    /\ InitialStock \in [Product -> Nat]
    /\ \A r \in Request :
          /\ Kind[r] = "exchange" <=> KeyOf[r] # None
          /\ Kind[r] \in {"return", "exchange"} <=> SaleOf[r] # None
          /\ SaleOf[r] = None <=> Lines[r] = <<>>
          /\ Kind[r] \in {"return", "payment"} <=> Wanted[r] = <<>>
          /\ Kind[r] \in {"payment", "sale"} => CustomerOf[r] # None
          /\ Entry[r] # 0 => CustomerOf[r] # None
          /\ Kind[r] = "sale" => ~Cash[r]
          /\ \A i, j \in DOMAIN Wanted[r] : Wanted[r][i].product = Wanted[r][j].product => i = j

VARIABLES
    pc,         \* the statement a request has reached
    line,       \* how many rows of its current loop it has done
    rows,       \* the stock rows it has locked
    number,     \* the number of its return document
    balance,    \* what it has read of the customer's ledger
    outcome,    \* "none", "done", "conflict", "refused" or "failed"
    told,       \* the exchange its answer shows
    applied,    \* requests whose transaction has committed
    returned,   \* sum of sales_return_lines per sale line
    stock,      \* stock.quantity at the branch
    owed,       \* sum of a customer's ledger
    shown,      \* balance_after of the ledger entry committed last
    nextNumber, \* counters: the next return number
    exchangeOf  \* sale_idempotency_keys

request == <<pc, line, rows, number, balance, outcome, told>>
central == <<applied, returned, stock, owed, shown, nextNumber, exchangeOf>>
vars    == <<request, central>>

\* A transaction, and its parts from one lock to the next.
Filed     == {"restore", "settle", "commit"}
Numbered  == {"header"} \cup Filed
Validated == {"rows", "number"} \cup Numbered
Pcs       == {"idle", "key", "sale", "customer", "done"} \cup Validated

Returning(r) == Kind[r] \in {"return", "exchange"}

Init ==
    /\ pc = [r \in Request |-> "idle"]
    /\ line = [r \in Request |-> 0]
    /\ rows = [r \in Request |-> {}]
    /\ number = [r \in Request |-> 0]
    /\ balance = [r \in Request |-> 0]
    /\ outcome = [r \in Request |-> "none"]
    /\ told = [r \in Request |-> None]
    /\ applied = {}
    /\ returned = [l \in Line |-> 0]
    /\ stock = InitialStock
    /\ owed = [c \in Customer |-> 0]
    /\ shown = [c \in Customer |-> 0]
    /\ nextNumber = 1
    /\ exchangeOf = [k \in Key |-> None]

-----------------------------------------------------------------------------
(* Who waits for whom.                                                     *)

HoldsKey(r) == Kind[r] = "exchange" /\ pc[r] \in {"sale"} \cup Validated

\* FAULTY: the original sale is read without FOR UPDATE.
SaleUnlocked(r) == FALSE

HoldsSale(r) == Returning(r) /\ pc[r] \in Validated

HoldsCounter(r) == Returning(r) /\ pc[r] \in Numbered

\* FOR UPDATE, by payments and sales.
OwnsCustomer(r) == ~Returning(r) /\ pc[r] \in Validated

\* FAULTY: sales_returns.customer_id has no foreign key.
CustomerUnshared(r) == FALSE

\* FOR KEY SHARE, by the foreign key of sales_returns.customer_id.
SharesCustomer(r) == Returning(r) /\ pc[r] \in Filed

\* The same items, in the order of the ids of their products.
Sorted(items) ==
    CHOOSE s \in [DOMAIN items -> Range(items)] :
        \A i, j \in DOMAIN items : i < j => s[i].product < s[j].product

\* FAULTY: a sale locks its products in the order of the cart.
CartOrder == Wanted

\* A sale locks its products in the order of their ids; an exchange in the
\* order of the request.
LockOrder ==
    [r \in Request |-> IF Kind[r] = "sale" THEN Sorted(Wanted[r]) ELSE Wanted[r]]

\* The row of a line that comes back (UPDATE), if there is one.
RestoredRow(r) == {LineProduct[Lines[r][line[r] + 1].line]} \cap HasRow

\* The stock row of the current statement: of what goes out (SELECT ... FOR
\* UPDATE), or of what comes back.
NextRow(r) ==
    CASE pc[r] = "rows"    -> {LockOrder[r][line[r] + 1].product}
      [] pc[r] = "restore" -> RestoredRow(r)
      [] OTHER             -> {}

WaitsFor(r, q) ==
    /\ r # q
    /\ \/ pc[r] = "key" /\ KeyOf[q] = KeyOf[r] /\ HoldsKey(q)
       \/ pc[r] = "sale" /\ SaleOf[q] = SaleOf[r] /\ HoldsSale(q)
       \/ pc[r] = "number" /\ HoldsCounter(q)
       \/ /\ pc[r] \in {"header", "customer"}
          /\ CustomerOf[r] # None /\ CustomerOf[q] = CustomerOf[r]
          /\ OwnsCustomer(q) \/ (pc[r] = "customer" /\ SharesCustomer(q))
       \/ NextRow(r) \cap rows[q] # {}

Free(r) == \A q \in Request : ~WaitsFor(r, q)

-----------------------------------------------------------------------------
(* Answers.                                                                *)

\* The next statement, from the first row of its loop.
Goto(r, step) ==
    /\ pc' = [pc EXCEPT ![r] = step]
    /\ line' = [line EXCEPT ![r] = 0]

\* The transaction is over, its locks are given back.
Answered(r, result, exchange) ==
    /\ Goto(r, "done")
    /\ rows' = [rows EXCEPT ![r] = {}]
    /\ balance' = [balance EXCEPT ![r] = 0]
    /\ outcome' = [outcome EXCEPT ![r] = result]
    /\ told' = [told EXCEPT ![r] = exchange]

\* ROLLBACK.
Failed(r, result) ==
    /\ Answered(r, result, None)
    /\ number' = [number EXCEPT ![r] = 0]
    /\ UNCHANGED central

Found(r) == KeyOf[r] # None /\ exchangeOf[KeyOf[r]] # None

\* The result of the first call, or 409 when its payload was another.
Replay(r) ==
    /\ IF Payload[exchangeOf[KeyOf[r]]] = Payload[r]
       THEN Answered(r, "done", exchangeOf[KeyOf[r]])
       ELSE Answered(r, "conflict", None)
    /\ UNCHANGED <<number, central>>

-----------------------------------------------------------------------------
(* The statements, in the order in which a request meets them.             *)

\* An exchange looks its key up before its transaction.
Arrive(r) ==
    /\ pc[r] = "idle"
    /\ IF Found(r) THEN Replay(r)
       ELSE /\ Goto(r, CASE Kind[r] = "exchange" -> "key"
                         [] Kind[r] = "return"   -> "sale"
                         [] OTHER                -> "customer")
            /\ UNCHANGED <<rows, number, balance, outcome, told, central>>

\* FAULTY: the key is not looked up again under the lock.
KeyNotRechecked(r) ==
    /\ pc[r] = "key" /\ Free(r)
    /\ Goto(r, "sale")
    /\ UNCHANGED <<rows, number, balance, outcome, told, central>>

\* pg_advisory_xact_lock on the key, then the key again.
LockKey(r) ==
    /\ pc[r] = "key" /\ Free(r)
    /\ IF Found(r) THEN Replay(r)
       ELSE /\ Goto(r, "sale")
            /\ UNCHANGED <<rows, number, balance, outcome, told, central>>

\* Each line of the request on its own, against the returns before it.
Returnable(r) ==
    \A i \in DOMAIN Lines[r] :
        LET back == Lines[r][i]
        IN LineSale[back.line] = SaleOf[r] /\ back.qty <= LineQty[back.line] - returned[back.line]

LockSale(r) ==
    /\ pc[r] = "sale" /\ Free(r)
    /\ IF Returnable(r)
       THEN /\ Goto(r, IF Kind[r] = "exchange" THEN "rows" ELSE "number")
            /\ UNCHANGED <<rows, number, balance, outcome, told, central>>
       ELSE Failed(r, "refused")

LockCustomer(r) ==
    /\ pc[r] = "customer" /\ Free(r)
    /\ Goto(r, IF Wanted[r] = <<>> THEN "settle" ELSE "rows")
    /\ UNCHANGED <<rows, number, balance, outcome, told, central>>

\* The loop over the rows has done one more, and goes on to the next statement
\* after the last.
NextOf(r, items, step) ==
    IF line[r] + 1 = Len(items) THEN Goto(r, step)
    ELSE line' = [line EXCEPT ![r] = @ + 1] /\ UNCHANGED pc

\* SELECT quantity ... FOR UPDATE of a product that goes out.
LockRow(r) ==
    /\ pc[r] = "rows" /\ Free(r)
    /\ LET item == LockOrder[r][line[r] + 1] IN
       IF item.product \in HasRow /\ item.qty <= stock[item.product]
       THEN /\ rows' = [rows EXCEPT ![r] = @ \cup {item.product}]
            /\ NextOf(r, Wanted[r], IF Kind[r] = "exchange" THEN "number" ELSE "settle")
            /\ UNCHANGED <<number, balance, outcome, told, central>>
       ELSE Failed(r, "refused")

\* The upsert of the return counter; an exchange draws its invoice number
\* after it, from a counter that only exchanges use.
TakeNumber(r) ==
    /\ pc[r] = "number" /\ Free(r)
    /\ number' = [number EXCEPT ![r] = nextNumber]
    /\ Goto(r, "header")
    /\ UNCHANGED <<rows, balance, outcome, told, central>>

InsertHeader(r) ==
    /\ pc[r] = "header" /\ Free(r)
    /\ Goto(r, "restore")
    /\ UNCHANGED <<rows, number, balance, outcome, told, central>>

\* UPDATE stock ... of a line that comes back. A missing row ends a return
\* with a refusal and an exchange with a TypeError.
RestoreRow(r) ==
    /\ pc[r] = "restore" /\ Free(r)
    /\ IF RestoredRow(r) # {}
       THEN /\ rows' = [rows EXCEPT ![r] = @ \cup RestoredRow(r)]
            /\ NextOf(r, Lines[r], "settle")
            /\ UNCHANGED <<number, balance, outcome, told, central>>
       ELSE Failed(r, IF Kind[r] = "return" THEN "refused" ELSE "failed")

\* A return gives cash back even when no session is open.
SessionNotNeeded(r) == Kind[r] = "return"

\* The ledger's sum, then the look-up of the open session (which the cashier
\* opens and closes meanwhile), both without a lock.
Settle(r) ==
    /\ pc[r] = "settle"
    /\ \E open \in BOOLEAN :
          IF ~Cash[r] \/ open \/ SessionNotNeeded(r)
          THEN /\ balance' = [balance EXCEPT ![r] = IF Entry[r] = 0 THEN 0
                                                     ELSE owed[CustomerOf[r]]]
               /\ Goto(r, "commit")
               /\ UNCHANGED <<rows, number, outcome, told, central>>
          ELSE Failed(r, "refused")

\* The quantity in the chosen places of a list.
Total(items, places) == SumFunctionOnSet([i \in DOMAIN items |-> items[i].qty], places)

\* What a request brings back of a line, and how it changes the stock.
BackOf ==
    [r \in Request |-> [l \in Line |->
        Total(Lines[r], {i \in DOMAIN Lines[r] : Lines[r][i].line = l})]]

NetOf ==
    [r \in Request |-> [p \in Product |->
        Total(Lines[r], {i \in DOMAIN Lines[r] : LineProduct[Lines[r][i].line] = p})
        - Total(Wanted[r], {i \in DOMAIN Wanted[r] : Wanted[r][i].product = p})]]

Commit(r) ==
    /\ pc[r] = "commit"
    /\ Answered(r, "done", IF Kind[r] = "exchange" THEN r ELSE None)
    /\ applied' = applied \cup {r}
    /\ returned' = [l \in Line |-> returned[l] + BackOf[r][l]]
    /\ stock' = [p \in Product |-> stock[p] + NetOf[r][p]]
    /\ owed' = [c \in Customer |-> owed[c] + IF c = CustomerOf[r] THEN Entry[r] ELSE 0]
    /\ shown' = [c \in Customer |-> IF c = CustomerOf[r] /\ Entry[r] # 0
                                    THEN balance[r] + Entry[r] ELSE shown[c]]
    /\ nextNumber' = IF Returning(r) THEN number[r] + 1 ELSE nextNumber
    /\ exchangeOf' = [k \in Key |-> IF k = KeyOf[r] THEN r ELSE exchangeOf[k]]
    /\ UNCHANGED number

Waits == {w \in Request \X Request : WaitsFor(w[1], w[2])}

\* Every member of the set waits for another one, and is waited for.
Circles ==
    LET waits == Waits
    IN {S \in SUBSET ({w[1] : w \in waits} \cap {w[2] : w \in waits}) :
            /\ S # {}
            /\ \A r \in S : \E q, t \in S : <<r, q>> \in waits /\ <<t, r>> \in waits}

\* PostgreSQL fails a transaction of a circle.
BreakCircle == \E S \in Circles : \E r \in S : Failed(r, "failed")

Step(r) ==
    \/ LockKey(r) \/ LockSale(r) \/ LockCustomer(r) \/ LockRow(r)
    \/ TakeNumber(r) \/ InsertHeader(r) \/ RestoreRow(r) \/ Settle(r) \/ Commit(r)

Next == BreakCircle \/ \E r \in Request : Arrive(r) \/ Step(r)

Spec == Init /\ [][Next]_vars

-----------------------------------------------------------------------------
(* Properties.                                                             *)

\* Every variable stays within its type; no exchange or sale takes stock that
\* is not there, whatever else moves it.
TypeOK ==
    /\ pc \in [Request -> Pcs]
    /\ line \in [Request -> Nat]
    /\ rows \in [Request -> SUBSET Product]
    /\ number \in [Request -> Nat]
    /\ balance \in [Request -> Int]
    /\ outcome \in [Request -> {"none", "done", "conflict", "refused", "failed"}]
    /\ told \in [Request -> Request \cup {None}]
    /\ applied \in SUBSET Request
    /\ returned \in [Line -> Nat]
    /\ stock \in [Product -> Nat]
    /\ owed \in [Customer -> Int]
    /\ shown \in [Customer -> Int]
    /\ nextNumber \in Nat \ {0}
    /\ exchangeOf \in [Key -> Request \cup {None}]

\* No more comes back than was sold, however many returns and exchanges of the
\* sale run at once, as long as none of them lists the line twice.
NoOverReturn ==
    \A l \in Line :
        (\A r \in applied : \A i, j \in DOMAIN Lines[r] :
            Lines[r][i].line = l /\ Lines[r][j].line = l => i = j)
          => returned[l] <= LineQty[l]

\* Return documents are numbered without a gap and without a repetition, also
\* when transactions fail after they have drawn a number.
NumbersRunWithoutGap ==
    /\ \A r, q \in applied : Returning(r) /\ Returning(q) /\ number[r] = number[q] => r = q
    /\ {number[r] : r \in {q \in applied : Returning(q)}} = 1..(nextNumber - 1)

\* An exchange takes place once per key, and whoever is told that it took
\* place asked for that very exchange.
ExchangeOncePerKey ==
    /\ \A r, q \in applied : KeyOf[r] # None /\ KeyOf[q] = KeyOf[r] => r = q
    /\ \A r \in Request : Kind[r] = "exchange" /\ outcome[r] = "done" =>
          told[r] \in applied /\ KeyOf[told[r]] = KeyOf[r] /\ Payload[told[r]] = Payload[r]

\* The ledger entry committed last shows what the customer owes, whatever
\* payments, credit sales, returns and exchanges ran at once, as long as the
\* returns and exchanges of the customer concern one sale.
LastEntryIsExact ==
    \A c \in Customer :
        (\A r, q \in applied : Returning(r) /\ Returning(q) /\ CustomerOf[r] = c /\ CustomerOf[q] = c
            => SaleOf[r] = SaleOf[q])
          => shown[c] = owed[c]

Ascending(s) == \A i, j \in DOMAIN s : i < j => s[i] <= s[j]

ReturnOrder(r) == [i \in DOMAIN Lines[r] |-> LineProduct[Lines[r][i].line]]

\* Transactions wait in a circle only around an exchange (stock, then counter
\* and customer, then stock) or a return whose lines do not come in the order
\* of the product ids: sales, payments and other returns never do.
CirclesNeedAnExchange ==
    \A S \in Circles : \E r \in S :
        \/ Kind[r] = "exchange"
        \/ Kind[r] = "return" /\ ~Ascending(ReturnOrder(r))
=============================================================================
