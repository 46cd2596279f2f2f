---------------------------- MODULE CentralStock ----------------------------
(***************************************************************************)
(* The writers of the backend's stock table, one PostgreSQL transaction    *)
(* each: transferStock and transferStockBatch (the single transfer is a    *)
(* batch of one product), receiveStock, importOpeningStock, adjustStock,   *)
(* deltaStock, and the inventory operations that terminals push. A         *)
(* transaction takes row locks statement by statement, waits for those of  *)
(* others, and gives all of them back when it ends. A circle of waiting    *)
(* transactions is broken by PostgreSQL, which fails one of them (40P01):   *)
(* a transfer then starts again, everything else reports an error.         *)
(* What a transaction writes is computed when it commits: it holds the     *)
(* locks of the rows from the write on. Every transaction runs on a        *)
(* connection of the pool.                                                 *)
(***************************************************************************)
EXTENDS Integers, FiniteSets, Functions

CONSTANTS
    Request,        \* calls of the routes, retries included
    Kind,           \* what a request asks for, see Kinds
    NumBranches,    \* branches 1..NumBranches, in the order of their ids
    NumProducts,    \* products 1..NumProducts, in the order of their ids
    From, To,       \* the branch that gives and the one that gets, or None
    Lines,          \* the products it is about
    Amount,         \* the quantity of each of them, or the one to be set
    Cost,           \* unit_cost of a receipt
    Table,          \* where a transfer is recorded, which tells its route
    TransferId,
    TransferIdOf,   \* transfer_id of a transfer, or None
    InitialRows,    \* the rows the stock table has at first
    InitialStock,
    InitialCost,    \* products.average_cost at first
    MaxAttempts,    \* MAX_TRANSIENT_RETRIES
    PoolSize,       \* connections of the pool
    MaxErrors,      \* bound: errors that come from outside
    Together,       \* bound: requests that arrive in one behaviour
    None

Branch  == 1..NumBranches
Product == 1..NumProducts
Row     == Branch \X Product

\* A pushed DECREASE or TRANSFER is a "push". A pushed INCREASE adds a quantity
\* ("increase") or sets the one that its terminal has computed ("set"); a pushed
\* ADJUST or OPENING_STOCK is a "correct".
Kinds == {"transfer", "push", "increase", "set", "correct",
          "receive", "opening", "adjust", "add", "remove"}

\* These set a quantity, whatever they have read.
Absolute == {"adjust", "set", "correct"}

\* transferStock and transferStockBatch look an id up in tables of their own.
Tables == {"stock_transfers", "stock_transfer_batches"}
Id     == Tables \X TransferId
IdOf   == [r \in Request |-> IF TransferIdOf[r] = None THEN None ELSE <<Table[r], TransferIdOf[r]>>]

Rows == [r \in Request |-> {row \in Row : row[1] \in {From[r], To[r]} /\ row[2] \in Lines[r]}]

\* The routes and the repositories refuse everything else.
Accepted(r) ==
    /\ Kind[r] # "transfer" => TransferIdOf[r] = None
    /\ Kind[r] = "transfer" => From[r] # To[r] /\ None \notin {From[r], To[r]}
    /\ Kind[r] \notin {"transfer", "push", "remove"} => From[r] = None /\ To[r] # None
    /\ Kind[r] = "remove" => From[r] # None /\ To[r] = None
    /\ Kind[r] = "push" => From[r] # To[r] /\ From[r] # None
    /\ (Kind[r] = "transfer" => Table[r] = "stock_transfers") /\ Kind[r] # "opening" =>
          \E p \in Product : Lines[r] = {p}
    /\ Kind[r] \notin Absolute => \A p \in Lines[r] : Amount[r][p] > 0
    /\ \A p \in Product \ Lines[r] : Amount[r][p] = 0

ASSUME ConstantsAssumption ==
    /\ NumBranches \in Nat /\ NumProducts \in Nat /\ MaxAttempts \in Nat \ {0}
    /\ PoolSize \in Nat \ {0} /\ MaxErrors \in Nat /\ Together \subseteq SUBSET Request
    /\ None \notin Branch /\ None \notin Id /\ None \notin TransferId /\ None \notin Request
    /\ Kind \in [Request -> Kinds]
    /\ From \in [Request -> Branch \cup {None}]
    /\ To \in [Request -> Branch \cup {None}]
    /\ Lines \in [Request -> SUBSET Product]
    /\ Amount \in [Request -> [Product -> Nat]]
    /\ Cost \in [Request -> Nat]
    /\ Table \in [Request -> Tables]
    /\ TransferIdOf \in [Request -> TransferId \cup {None}]
    /\ InitialRows \in SUBSET Row
    /\ InitialStock \in [Row -> Nat]
    /\ InitialCost \in [Product -> Nat]
    /\ \A r \in Request : Accepted(r)
    /\ \A row \in Row \ InitialRows : InitialStock[row] = 0

VARIABLES
    pc,         \* the statement a request has reached
    want,       \* the rows its statement still has to lock
    held,       \* the stock rows its transaction has locked or inserted
    seen,       \* the quantities it has read
    cost,       \* the average cost it has read
    shared,     \* the products its movements refer to (FOR KEY SHARE)
    attempts,   \* transactions it has begun
    outcome,    \* "none", "done", "conflict", "refused" or "failed"
    rows,       \* the rows the stock table has
    stock,      \* stock.quantity, 0 where there is no row
    moved,      \* per row, what its stock_movements add up to
    applied,    \* requests whose transaction has committed
    recordOf,   \* stock_transfers and stock_transfer_batches, by transfer id
    average     \* products.average_cost

request == <<pc, want, held, seen, cost, shared, attempts, outcome>>
central == <<rows, stock, moved, applied, recordOf, average>>
vars    == <<request, central>>

Pcs == {"idle", "again", "product", "low", "high", "write", "commit", "recheck", "done"}

Nothing == [row \in Row |-> 0]

Init ==
    /\ pc = [r \in Request |-> "idle"]
    /\ want = [r \in Request |-> {}]
    /\ held = [r \in Request |-> {}]
    /\ seen = [r \in Request |-> Nothing]
    /\ cost = [r \in Request |-> 0]
    /\ shared = [r \in Request |-> {}]
    /\ attempts = [r \in Request |-> 0]
    /\ outcome = [r \in Request |-> "none"]
    /\ rows = InitialRows
    /\ stock = InitialStock
    /\ moved = [row \in Row |-> 0]
    /\ applied = {}
    /\ recordOf = [i \in Id |-> None]
    /\ average = InitialCost

\* The next statement, with the rows it will lock.
Goto(r, step, locking) ==
    /\ pc' = [pc EXCEPT ![r] = step]
    /\ want' = [want EXCEPT ![r] = locking]

\* FAULTY: the connection goes back to the pool with its transaction open.
EndUnreleased(r, step, result) ==
    /\ Goto(r, step, {})
    /\ seen' = [seen EXCEPT ![r] = Nothing]
    /\ cost' = [cost EXCEPT ![r] = 0]
    /\ outcome' = [outcome EXCEPT ![r] = result]
    /\ UNCHANGED <<held, shared>>

\* The transaction is over and its locks are given back.
End(r, step, result) ==
    /\ Goto(r, step, {})
    /\ held' = [held EXCEPT ![r] = {}]
    /\ seen' = [seen EXCEPT ![r] = Nothing]
    /\ cost' = [cost EXCEPT ![r] = 0]
    /\ shared' = [shared EXCEPT ![r] = {}]
    /\ outcome' = [outcome EXCEPT ![r] = result]

\* ROLLBACK, and an answer.
Answered(r, result) == End(r, "done", result) /\ UNCHANGED attempts

Running(r) == pc[r] \notin {"idle", "done"}

\* A transfer gives its connection back before it tries again.
Connected(r) == Running(r) /\ pc[r] # "again"

ConnectionFree == Cardinality({r \in Request : Connected(r)}) < PoolSize

-----------------------------------------------------------------------------
(* Row locks.                                                              *)

\* Transfers lock and write in the order of the product ids; nothing else
\* has more than one row in a statement.
NextRow(r, row) == row \in want[r] /\ \A other \in want[r] : row[2] <= other[2]

\* FAULTY: quantities are read without FOR UPDATE.
RowUnlocked(r, row) ==
    pc[r] = "write" => \A q \in Request \ {r} : row \notin held[q]

RowFree(r, row) == \A q \in Request \ {r} : row \notin held[q]

\* A receipt holds the product row FOR UPDATE.
HoldsProduct(r, p) ==
    /\ Kind[r] = "receive" /\ pc[r] \in {"low", "write", "commit"} /\ p \in Lines[r]

\* The items of a request are written one after another: the rows, then the
\* movements, whose foreign key shares the lock of the product row.
NextItem(r, p) ==
    /\ p \in Lines[r] \ shared[r]
    /\ Kind[r] # "opening" => \A q \in Lines[r] \ shared[r] : p <= q

Written(r, p) == \A row \in Rows[r] : row[2] = p => row \in held[r]

\* An import of opening stock inserts the rows it has not found, and fails
\* when another transaction was faster.
InsertFails(r, row) == Kind[r] = "opening" /\ row \in rows

\* SELECT ... FOR UPDATE returns what is committed when the lock is granted.
LockRow(r) ==
    /\ pc[r] \in {"low", "high"}
    /\ \E row \in want[r] :
          /\ NextRow(r, row) /\ RowFree(r, row)
          /\ want' = [want EXCEPT ![r] = @ \ {row}]
          /\ held' = [held EXCEPT ![r] = @ \cup {row}]
          /\ seen' = [seen EXCEPT ![r][row] = stock[row]]
    /\ UNCHANGED <<pc, cost, shared, attempts, outcome, central>>

\* The row of the current item is updated or inserted.
WriteRow(r) ==
    /\ pc[r] = "write"
    /\ \E row \in want[r] :
          /\ NextRow(r, row) /\ NextItem(r, row[2]) /\ RowFree(r, row)
          /\ ~InsertFails(r, row)
          /\ want' = [want EXCEPT ![r] = @ \ {row}]
          /\ held' = [held EXCEPT ![r] = @ \cup {row}]
    /\ UNCHANGED <<pc, seen, cost, shared, attempts, outcome, central>>

RowTaken(r) ==
    /\ pc[r] = "write"
    /\ \E row \in want[r] : NextRow(r, row) /\ RowFree(r, row) /\ InsertFails(r, row)
    /\ Answered(r, "failed")
    /\ UNCHANGED central

\* A movement of nothing violates CHECK(quantity > 0): a pushed quantity is the
\* one that was read, or a pushed INCREASE is none.
MovementFails(r) ==
    /\ pc[r] = "write" /\ want[r] = {}
    /\ \E row \in Rows[r] :
          \/ Kind[r] = "set" /\ Amount[r][row[2]] <= seen[r][row]
          \/ Kind[r] = "correct" /\ Amount[r][row[2]] = seen[r][row]

\* adjustStock records no movement when the row has the quantity already.
NothingMoves(r) ==
    /\ Kind[r] = "adjust" /\ pc[r] = "write" /\ want[r] = {}
    /\ \A row \in Rows[r] : row \in rows /\ Amount[r][row[2]] = seen[r][row]

\* The movements of the current item.
InsertMovements(r) ==
    /\ pc[r] = "write" \/ (Kind[r] = "opening" /\ pc[r] = "high")
    /\ ~MovementFails(r) /\ ~NothingMoves(r)
    /\ \E p \in Product :
          /\ NextItem(r, p) /\ Written(r, p)
          /\ \A q \in Request \ {r} : ~HoldsProduct(q, p)
          /\ shared' = [shared EXCEPT ![r] = @ \cup {p}]
          /\ pc' = IF Kind[r] = "opening" THEN [pc EXCEPT ![r] = "low"] ELSE pc
    /\ UNCHANGED <<want, held, seen, cost, attempts, outcome, central>>

MovementRefused(r) ==
    /\ MovementFails(r)
    /\ Answered(r, "failed")
    /\ UNCHANGED central

-----------------------------------------------------------------------------
(* transferStock, transferStockBatch.                                      *)

RowsAt(r, b) == {row \in Rows[r] : row[1] = b}

SamePayload(r, q) == From[r] = From[q] /\ To[r] = To[q] /\ Amount[r] = Amount[q]

Recorded(r) == IdOf[r] # None /\ recordOf[IdOf[r]] # None

\* FAULTY: a transfer id that is known is answered whatever the payload.
ReplayUnverified(r) == "done"

\* The result of the first call, or 409 when its payload was another.
Replay(r) == IF SamePayload(r, recordOf[IdOf[r]]) THEN "done" ELSE "conflict"

\* FAULTY: the source is locked first, whatever its id.
SourceFirst(r) == From[r]

\* The branch with the lower id is locked first.
FirstBranch(r) == IF From[r] < To[r] THEN From[r] ELSE To[r]

SecondBranch(r) == IF FirstBranch(r) = From[r] THEN To[r] ELSE From[r]

\* BEGIN, the look-up of the transfer id, the first SELECT ... FOR UPDATE,
\* which locks the rows there are.
BeginTransfer(r) ==
    /\ Kind[r] = "transfer" /\ pc[r] \in {"idle", "again"}
    /\ attempts' = [attempts EXCEPT ![r] = @ + 1]
    /\ IF Recorded(r)
       THEN End(r, "done", Replay(r))
       ELSE /\ Goto(r, "low", RowsAt(r, FirstBranch(r)) \cap rows)
            /\ UNCHANGED <<held, seen, cost, shared, outcome>>
    /\ UNCHANGED central

SelectSecond(r) ==
    /\ Kind[r] = "transfer" /\ pc[r] = "low" /\ want[r] = {}
    /\ Goto(r, "high", RowsAt(r, SecondBranch(r)) \cap rows)
    /\ UNCHANGED <<held, seen, cost, shared, attempts, outcome, central>>

Enough(r) ==
    \A row \in RowsAt(r, From[r]) : row \in held[r] /\ seen[r][row] >= Amount[r][row[2]]

CheckTransfer(r) ==
    /\ Kind[r] = "transfer" /\ pc[r] = "high" /\ want[r] = {}
    /\ IF Enough(r)
       THEN /\ Goto(r, "write", RowsAt(r, To[r]) \ held[r])
            /\ UNCHANGED <<held, seen, cost, shared, attempts, outcome>>
       ELSE Answered(r, "refused")
    /\ UNCHANGED central

\* FAULTY: the record of the transfer has no unique id.
RecordUnchecked(r) ==
    /\ Kind[r] = "transfer" /\ pc[r] = "write" /\ shared[r] = Lines[r]
    /\ Goto(r, "commit", {})
    /\ UNCHANGED <<held, seen, cost, shared, attempts, outcome, central>>

\* The record of the transfer is inserted last. Its id is unique: the insert
\* waits for a transaction that has inserted it; once that has committed,
\* this one rolls back.
RecordTransfer(r) ==
    /\ Kind[r] = "transfer" /\ pc[r] = "write" /\ shared[r] = Lines[r]
    /\ IdOf[r] # None =>
          \A q \in Request \ {r} : IdOf[q] = IdOf[r] => pc[q] # "commit"
    /\ IF Recorded(r)
       THEN End(r, "recheck", "none") /\ UNCHANGED attempts
       ELSE /\ Goto(r, "commit", {})
            /\ UNCHANGED <<held, seen, cost, shared, attempts, outcome>>
    /\ UNCHANGED central

\* What the other has recorded is read on a second connection and answered.
CheckRecord(r) ==
    /\ pc[r] = "recheck" /\ ConnectionFree
    /\ IF Recorded(r) THEN Answered(r, Replay(r)) ELSE Answered(r, "failed")
    /\ UNCHANGED central

-----------------------------------------------------------------------------
(* The other writers.                                                      *)

\* A push takes stock with UPDATE ... WHERE quantity >= n, which waits for a
\* row that looks large enough and looks again.
BeginPush(r) ==
    /\ Kind[r] = "push" /\ pc[r] = "idle"
    /\ \/ /\ \A row \in RowsAt(r, From[r]) : row \in rows /\ stock[row] >= Amount[r][row[2]]
          /\ Goto(r, "low", RowsAt(r, From[r]))
          /\ UNCHANGED <<held, seen, cost, shared, attempts, outcome>>
       \/ /\ \E row \in RowsAt(r, From[r]) : row \notin rows \/ stock[row] < Amount[r][row[2]]
          /\ Answered(r, "refused")
    /\ UNCHANGED central

CheckPush(r) ==
    /\ Kind[r] = "push" /\ pc[r] = "low" /\ want[r] = {}
    /\ IF Enough(r)
       THEN /\ Goto(r, "write", Rows[r] \ held[r])
            /\ UNCHANGED <<held, seen, cost, shared, attempts, outcome>>
       ELSE Answered(r, "refused")
    /\ UNCHANGED central

\* A receipt starts with SELECT ... FROM products ... FOR UPDATE.
BeginReceive(r) ==
    /\ Kind[r] = "receive" /\ pc[r] = "idle"
    /\ Goto(r, "product", {})
    /\ UNCHANGED <<held, seen, cost, shared, attempts, outcome, central>>

\* FAULTY: the product row is read without FOR UPDATE.
ProductUnlocked(r, p) == TRUE

ProductFree(r, p) == \A q \in Request \ {r} : ~HoldsProduct(q, p) /\ p \notin shared[q]

LockProduct(r) ==
    /\ pc[r] = "product"
    /\ \E p \in Lines[r] :
          ProductFree(r, p) /\ cost' = [cost EXCEPT ![r] = average[p]]
    /\ Goto(r, "low", Rows[r] \cap rows)
    /\ UNCHANGED <<held, seen, shared, attempts, outcome, central>>

\* The stock of all branches is read without their locks.
ReadTotal(r) ==
    /\ Kind[r] = "receive" /\ pc[r] = "low" /\ want[r] = {}
    /\ seen' = [seen EXCEPT ![r] = stock]
    /\ Goto(r, "write", Rows[r] \ held[r])
    /\ UNCHANGED <<held, cost, shared, attempts, outcome, central>>

\* deltaStock: SELECT ... FOR UPDATE of a row that may not be there, then the
\* upsert.
BeginDelta(r) ==
    /\ Kind[r] \in {"add", "remove"} /\ pc[r] = "idle"
    /\ Goto(r, "low", Rows[r] \cap rows)
    /\ UNCHANGED <<held, seen, cost, shared, attempts, outcome, central>>

UpsertDelta(r) ==
    /\ Kind[r] \in {"add", "remove"} /\ pc[r] = "low" /\ want[r] = {}
    /\ Goto(r, "write", Rows[r] \ held[r])
    /\ UNCHANGED <<held, seen, cost, shared, attempts, outcome, central>>

\* adjustStock and pushed operations read the quantity without a lock and set it
\* afterwards, or add to it.
BeginAdjust(r) ==
    /\ Kind[r] \in Absolute \cup {"increase"} /\ pc[r] = "idle"
    /\ seen' = [seen EXCEPT ![r] = stock]
    /\ Goto(r, "write", Rows[r])
    /\ UNCHANGED <<held, cost, shared, attempts, outcome, central>>

BeginOpening(r) ==
    /\ Kind[r] = "opening" /\ pc[r] = "idle"
    /\ Goto(r, "low", {})
    /\ UNCHANGED <<held, seen, cost, shared, attempts, outcome, central>>

\* The next item of an import, in the order of its list, which is any order.
ReadItem(r) ==
    /\ Kind[r] = "opening" /\ pc[r] = "low"
    /\ \E row \in Rows[r] :
          /\ row[2] \notin shared[r]
          /\ Goto(r, IF row \in rows THEN "high" ELSE "write", {row})
    /\ UNCHANGED <<held, seen, cost, shared, attempts, outcome, central>>

-----------------------------------------------------------------------------
(* The end of a transaction.                                               *)

Signed(r, row) == (IF row[1] = To[r] THEN Amount[r][row[2]] ELSE 0)
                - (IF row[1] = From[r] THEN Amount[r][row[2]] ELSE 0)

AtLeastZero(n) == IF n < 0 THEN 0 ELSE n

\* Relative updates, an absolute one, one that stops at zero, and one that is
\* computed from what SELECT ... FOR UPDATE returned.
NewStock(r, row) ==
    CASE Kind[r] \in Absolute -> Amount[r][row[2]]
      [] Kind[r] = "remove"   -> AtLeastZero(stock[row] + Signed(r, row))
      [] Kind[r] = "opening"  -> seen[r][row] + Amount[r][row[2]]
      [] OTHER                -> stock[row] + Signed(r, row)

Movement(r, row) ==
    IF Kind[r] \in Absolute THEN Amount[r][row[2]] - seen[r][row] ELSE Signed(r, row)

\* The quantity of a product at all branches.
Total(quantity, p) == SumFunctionOnSet([b \in Branch |-> quantity[<<b, p>>]], Branch)

\* The weighted average of what was there and what is received, rounded.
NewCost(r, p) ==
    LET before == Total(seen[r], p)
        after  == before + Amount[r][p]
    IN (2 * (before * cost[r] + Amount[r][p] * Cost[r]) + after) \div (2 * after)

ReadyToCommit(r) ==
    \/ Kind[r] = "transfer" /\ pc[r] = "commit"
    \/ /\ Kind[r] # "transfer" /\ Running(r) /\ want[r] = {}
       /\ shared[r] = Lines[r] \/ NothingMoves(r)

ErrorPossible == Cardinality({r \in Request : outcome[r] = "failed"}) < MaxErrors

\* COMMIT. When the connection breaks meanwhile, the caller is told of an
\* error although everything is durable.
Commit(r) ==
    /\ ReadyToCommit(r)
    /\ Answered(r, "done") \/ (ErrorPossible /\ Answered(r, "failed"))
    /\ applied' = applied \cup {r}
    /\ rows' = rows \cup Rows[r]
    /\ stock' = [row \in Row |-> IF row \in Rows[r] THEN NewStock(r, row) ELSE stock[row]]
    /\ moved' = [row \in Row |-> IF row \in Rows[r] THEN moved[row] + Movement(r, row)
                                                   ELSE moved[row]]
    /\ recordOf' = [i \in Id |-> IF i = IdOf[r] THEN r ELSE recordOf[i]]
    /\ average' = [p \in Product |-> IF Kind[r] = "receive" /\ p \in Lines[r]
                                     THEN NewCost(r, p) ELSE average[p]]

\* Any other refusal or error of the transaction, or the end of the backend.
RollBack(r) ==
    /\ Running(r) /\ ErrorPossible
    /\ Answered(r, "failed")
    /\ UNCHANGED central

WaitsFor(r, q) ==
    /\ r # q
    /\ \/ \E row \in held[q] : /\ NextRow(r, row) /\ pc[r] \in {"low", "high", "write"}
                               /\ pc[r] = "write" => NextItem(r, row[2])
       \/ pc[r] = "product" /\ \E p \in Lines[r] : HoldsProduct(q, p) \/ p \in shared[q]
       \/ \E p \in Product : /\ NextItem(r, p) /\ Written(r, p)
                             /\ Kind[r] # "receive" /\ HoldsProduct(q, p)
                             /\ ~MovementFails(r) /\ ~NothingMoves(r)
       \/ pc[q] = "commit" /\ pc[r] = "write" /\ shared[r] = Lines[r]
             /\ IdOf[r] # None /\ IdOf[q] = IdOf[r]

Waits ==
    LET running == {r \in Request : Running(r)}
    IN {w \in running \X running : WaitsFor(w[1], w[2])}

\* Every member of the set waits for another one, and is waited for.
Circle(waits, S) ==
    /\ S # {}
    /\ \A r \in S : \E q, t \in S : <<r, q>> \in waits /\ <<t, r>> \in waits

Circles ==
    LET waits == Waits
    IN {S \in SUBSET ({w[1] : w \in waits} \cap {w[2] : w \in waits}) : Circle(waits, S)}

\* PostgreSQL fails a transaction of a circle. A transfer is tried again
\* after a pause, up to MaxAttempts times.
Victim(r) ==
    /\ IF Kind[r] = "transfer" /\ attempts[r] < MaxAttempts
       THEN End(r, "again", "none") /\ UNCHANGED attempts
       ELSE Answered(r, "failed")
    /\ UNCHANGED central

BreakCircle == \E S \in Circles : \E r \in S : Victim(r)

-----------------------------------------------------------------------------

\* Every mix of requests that may arrive together is looked at.
Invited(r) == \E mix \in Together : {q \in Request : pc[q] # "idle"} \cup {r} \subseteq mix

Arrive(r) ==
    /\ pc[r] = "idle" /\ ConnectionFree /\ Invited(r)
    /\ \/ BeginTransfer(r) \/ BeginPush(r) \/ BeginReceive(r)
       \/ BeginDelta(r) \/ BeginAdjust(r) \/ BeginOpening(r)

TryAgain(r) == pc[r] = "again" /\ ConnectionFree /\ BeginTransfer(r)

Step(r) ==
    \/ TryAgain(r) \/ SelectSecond(r) \/ CheckTransfer(r) \/ RecordTransfer(r)
    \/ CheckRecord(r) \/ CheckPush(r) \/ LockProduct(r) \/ ReadTotal(r) \/ UpsertDelta(r)
    \/ ReadItem(r) \/ LockRow(r) \/ WriteRow(r) \/ RowTaken(r) \/ InsertMovements(r) \/ MovementRefused(r)
    \/ Commit(r)

Next == BreakCircle \/ \E r \in Request : Arrive(r) \/ Step(r) \/ RollBack(r)

Spec == Init /\ [][Next]_vars

\* As long as some transaction can go on, one does; requests need not arrive
\* and nothing has to fail but the victims of a circle.
Fairness == WF_vars(BreakCircle \/ \E r \in Request : Step(r))

FairSpec == Spec /\ Fairness

-----------------------------------------------------------------------------
(* Properties.                                                             *)

\* Every variable stays within its type; no quantity falls below zero,
\* whatever takes stock at the same time.
TypeOK ==
    /\ pc \in [Request -> Pcs]
    /\ want \in [Request -> SUBSET Row]
    /\ held \in [Request -> SUBSET Row]
    /\ seen \in [Request -> [Row -> Nat]]
    /\ cost \in [Request -> Nat]
    /\ shared \in [Request -> SUBSET Product]
    /\ attempts \in [Request -> 0..MaxAttempts]
    /\ outcome \in [Request -> {"none", "done", "conflict", "refused", "failed"}]
    /\ rows \in SUBSET Row
    /\ stock \in [Row -> Nat]
    /\ moved \in [Row -> Int]
    /\ applied \in SUBSET Request
    /\ recordOf \in [Id -> Request \cup {None}]
    /\ average \in [Product -> Nat]

\* However often and at once a transfer is sent, its id moves stock once on the
\* route that it was sent to.
OneTransferPerId ==
    \A r, q \in applied : IdOf[r] # None /\ IdOf[q] = IdOf[r] => r = q

\* What a transfer is told is true and stays true: "done" means that its
\* payload is recorded under its id on its route, 409 that another one is.
TransferAnswersAreTrue ==
    \A r \in Request : IdOf[r] # None =>
        /\ outcome[r] = "done" => /\ recordOf[IdOf[r]] \in applied
                                  /\ SamePayload(r, recordOf[IdOf[r]])
        /\ outcome[r] = "conflict" => /\ recordOf[IdOf[r]] \in applied
                                      /\ ~SamePayload(r, recordOf[IdOf[r]])

\* Whatever runs at the same time, no update is lost: the movements of a row
\* add up to its quantity, as long as nothing set it to a quantity without a
\* lock (adjustStock, a pushed ADJUST or OPENING_STOCK, or an INCREASE to a
\* quantity) and no decrease was cut off at zero (deltaStock).
MovementsAddUp ==
    \A row \in Row :
        (\A r \in applied : row \in Rows[r] => Kind[r] \notin Absolute \cup {"remove"})
            => stock[row] = InitialStock[row] + moved[row]

Touching(p) == {r \in applied : p \in Lines[r]}
Receipts(p) == {r \in Touching(p) : Kind[r] = "receive"}

\* What was paid for the pieces of a product, those of the beginning included.
Paid(p) ==
    Total(InitialStock, p) * InitialCost[p]
    + SumFunctionOnSet([r \in Request |-> Amount[r][p] * Cost[r]], Receipts(p))

\* All that has moved the product are receipts and moves from branch to branch.
OnlyReceived(p) ==
    \A r \in Touching(p) : None \notin {From[r], To[r]} \/ Kind[r] = "receive"

\* Receipts of one product, at whatever branches and however interleaved with
\* each other and with transfers, never lose a price: the average cost times
\* the total is what was paid, up to half a rupee per piece and receipt.
AverageCostIsExact ==
    \A p \in Product : OnlyReceived(p) =>
        LET error == 2 * (average[p] * Total(stock, p) - Paid(p))
            bound == Cardinality(Receipts(p)) * Total(stock, p)
        IN  -bound <= error /\ error <= bound

\* Transfers that lock the rows they find never wait for each other in a
\* circle, in whatever directions and with whatever products they run.
TransfersNeverCircle ==
    \A S \in Circles : \E r \in S : Kind[r] # "transfer" \/ pc[r] \notin {"low", "high"}

\* Whatever waits for whatever, rows, records or a second connection of a pool
\* that is smaller than the requests, every request that has arrived is
\* answered, at worst after PostgreSQL has failed a transaction.
EveryRequestIsAnswered == []<>(\A r \in Request : pc[r] \in {"idle", "done"})
=============================================================================
