----------------------------- MODULE RepairJob -----------------------------
(***************************************************************************)
(* The repair desk of the central database (repair.repo.ts): booking with  *)
(* an advance, parts that take stock and give it back, payments, changes   *)
(* of status, and delivery, which draws an invoice number, takes the last  *)
(* payment and freezes the job. All are single transactions that lock the  *)
(* row of the job, except the change of status, which reads the job and    *)
(* writes it in two statements of their own. Each runs on a connection of  *)
(* the pool, and reads its answer through a second one that it asks for    *)
(* while it still has the first.                                           *)
(***************************************************************************)
EXTENDS Integers, FiniteSets, Functions

CONSTANTS
    Request,     \* calls of the routes, retries included
    Kind,        \* "book", "part", "unpart", "pay", "finish" or "status"
    Job, JobOf,  \* the job of a request; a booking brings its own
    Branch, BranchOf,   \* the branch of a job, or None
    WalkIn,      \* the jobs without a customer
    Labour,      \* the labour charges of a job
    LockName,    \* the advisory lock of a booking (customer and device) or of a
                 \* delivery (the job as the request spells it), or None
    PartOf,      \* the part an "unpart" removes: the request that added it
    StockRow, RowOf,    \* the stock row of a part: None without product or branch
    Qty, Price,  \* of a part
    Amount,      \* what a booking, payment or delivery pays, or 0
    Cash,        \* TRUE when it is paid in cash
    Extra,       \* additional charges less discount of a delivery, or None to
                 \* leave those of the job
    InitialStock,
    PoolSize,    \* connections of the pool
    Together,    \* bound: requests that come in one behaviour
    None

Kinds == {"book", "part", "unpart", "pay", "finish", "status"}

Of(kind) == {r \in Request : Kind[r] = kind}

ASSUME ConstantsAssumption ==
    /\ None \notin Branch /\ None \notin Request /\ None \notin StockRow /\ None \notin Int
    /\ Kind \in [Request -> Kinds]
    /\ JobOf \in [Request -> Job]
    /\ BranchOf \in [Job -> Branch \cup {None}]
    /\ WalkIn \subseteq Job
    /\ Labour \in [Job -> Nat]
    /\ PartOf \in [Request -> Request \cup {None}]
    /\ RowOf \in [Request -> StockRow \cup {None}]
    /\ Qty \in [Request -> Nat] /\ Price \in [Request -> Nat]
    /\ Amount \in [Request -> Nat] /\ Cash \in [Request -> BOOLEAN]
    /\ Extra \in [Request -> Int \cup {None}]
    /\ InitialStock \in [StockRow -> Nat]
    /\ PoolSize \in Nat \ {0} /\ Together \subseteq SUBSET Request
    /\ \A r \in Of("book"), q \in Request : Kind[q] = "book" /\ JobOf[q] = JobOf[r] => q = r
    /\ \A r \in Of("unpart") :
          /\ PartOf[r] \in Of("part") /\ JobOf[PartOf[r]] = JobOf[r]
          /\ RowOf[r] = RowOf[PartOf[r]] /\ Qty[r] = Qty[PartOf[r]]

VARIABLES
    pc,          \* the statement a request is to execute
    number,      \* the invoice number a delivery has drawn
    due,         \* what it has found outstanding
    applied,     \* requests whose transaction has committed
    status,      \* repair_jobs.status: "none" before the booking, then "open" or
                 \* "Delivered"
    settlement,  \* settlement_status
    extra,       \* additional_charges less discount
    invoice,     \* invoice_number
    parts,       \* repair_parts, each by the request that added it
    stock,       \* stock.quantity
    nextValue    \* repair_invoice_counters

request == <<pc, number, due>>
central == <<applied, status, settlement, extra, invoice, parts, stock, nextValue>>
vars    == <<request, central>>

Pcs == {"idle", "read", "again", "write", "advisory", "job", "stock", "counter", "session",
        "update", "commit", "reply", "done"}

FirstStatement(r) ==
    CASE Kind[r] \in {"book", "finish"} -> "advisory"
      [] Kind[r] = "status"             -> "read"
      [] OTHER                          -> "job"

Init ==
    /\ pc = [r \in Request |-> "idle"]
    /\ number = [r \in Request |-> 0]
    /\ due = [r \in Request |-> 0]
    /\ applied = {}
    /\ status = [j \in Job |-> IF \E r \in Of("book") : JobOf[r] = j THEN "none" ELSE "open"]
    /\ settlement = [j \in Job |-> "UNPAID"]
    /\ extra = [j \in Job |-> 0]
    /\ invoice = [j \in Job |-> 0]
    /\ parts = {}
    /\ stock = InitialStock
    /\ nextValue = [b \in Branch |-> 1]

-----------------------------------------------------------------------------
(* Who waits for whom.                                                     *)

PaysCash(r) == Cash[r] /\ Amount[r] > 0 /\ BranchOf[JobOf[r]] # None

AfterJob == {"stock", "counter", "session", "update", "commit"}

HoldsAdvisory(r) ==
    Kind[r] \in {"book", "finish"} /\ pc[r] \in {"job"} \cup AfterJob

\* FAULTY: the lock belongs to the connection, not to the transaction.
JobKept(r) == Kind[r] \notin {"book", "status"} /\ pc[r] \in AfterJob \cup {"done"}

\* FAULTY: a delivery trusts its advisory lock and reads the job without FOR
\* UPDATE.
JobUnlocked(r) == Kind[r] \notin {"book", "status", "finish"} /\ pc[r] \in AfterJob

\* FAULTY: a removal reads the job without FOR UPDATE.
RemovalUnlocked(r) == Kind[r] \notin {"book", "status", "unpart"} /\ pc[r] \in AfterJob

HoldsJob(r) == Kind[r] \notin {"book", "status"} /\ pc[r] \in AfterJob

HoldsStock(r) == Kind[r] \in {"part", "unpart"} /\ RowOf[r] # None /\ pc[r] = "commit"

HoldsCounter(r) == Kind[r] = "finish" /\ pc[r] \in {"session", "update", "commit"}

HoldsSession(r) == PaysCash(r) /\ pc[r] \in {"update", "commit"}

\* An update of invoice_number waits for another one with the same value.
SameInvoice(r, q) == Kind[q] = "finish" /\ pc[q] = "commit" /\ number[q] = number[r]

WaitsFor(r, q) ==
    /\ r # q
    /\ \/ pc[r] = "advisory" /\ LockName[q] = LockName[r] /\ HoldsAdvisory(q)
       \/ pc[r] \in {"job", "write"} /\ JobOf[q] = JobOf[r] /\ HoldsJob(q)
       \/ pc[r] = "stock" /\ RowOf[q] = RowOf[r] /\ HoldsStock(q)
       \/ pc[r] = "counter" /\ BranchOf[JobOf[q]] = BranchOf[JobOf[r]] /\ HoldsCounter(q)
       \/ pc[r] = "session" /\ BranchOf[JobOf[q]] = BranchOf[JobOf[r]] /\ HoldsSession(q)
       \/ pc[r] = "update" /\ SameInvoice(r, q)

Free(r) == \A q \in Request : ~WaitsFor(r, q)

\* pool.connect() until the release, which comes after the answer has been read;
\* a change of status takes a connection for each of its statements.
Connected(r) == pc[r] \notin {"idle", "again", "done"} /\ (Kind[r] = "status" => pc[r] # "reply")

ConnectionFree == Cardinality({r \in Request : Connected(r)}) < PoolSize

-----------------------------------------------------------------------------
(* Money.                                                                  *)

\* What has been paid for a job, and what its parts and labour cost.
Paid(j) == SumFunctionOnSet(Amount, {r \in applied : JobOf[r] = j})

PartCost   == [p \in Request |-> Qty[p] * Price[p]]
Charges(j) == Labour[j] + SumFunctionOnSet(PartCost, {p \in parts : JobOf[p] = j})

\* Charges and discount of the delivery, those of the job where it has none.
ExtraOf(r) == IF Extra[r] = None THEN extra[JobOf[r]] ELSE Extra[r]

-----------------------------------------------------------------------------
(* Steps. A request is at the statement it waits to execute.               *)

Goto(r, step) == pc' = [pc EXCEPT ![r] = step]

\* ROLLBACK, and an error to the caller.
Failed(r) ==
    /\ Goto(r, "done")
    /\ number' = [number EXCEPT ![r] = 0]
    /\ due' = [due EXCEPT ![r] = 0]
    /\ UNCHANGED central

Invited(r) == \E mix \in Together : {q \in Request : pc[q] # "idle"} \cup {r} \subseteq mix

Connect(r) ==
    /\ ConnectionFree
    /\ \/ pc[r] = "idle" /\ Invited(r) /\ Goto(r, FirstStatement(r))
       \/ pc[r] = "again" /\ Goto(r, "write")
    /\ UNCHANGED <<number, due, central>>

\* getRepairJobById reads the job through the pool. It may fail, which the caller
\* is told; what has been committed stays.
Reply(r) ==
    /\ pc[r] = "reply" /\ ConnectionFree
    /\ Goto(r, "done")
    /\ UNCHANGED <<number, due, central>>

\* updateRepairStatus: the status is read without a lock...
ReadStatus(r) ==
    /\ pc[r] = "read"
    /\ IF status[JobOf[r]] = "open"
       THEN Goto(r, "again") /\ UNCHANGED <<number, due, central>>
       ELSE Failed(r)

\* ... and written whatever it is by then.
WriteStatus(r) ==
    /\ pc[r] = "write" /\ Free(r)
    /\ Goto(r, "reply")
    /\ applied' = applied \cup {r}
    /\ status' = [status EXCEPT ![JobOf[r]] = "open"]
    /\ UNCHANGED <<number, due, settlement, extra, invoice, parts, stock, nextValue>>

LockAdvisory(r) ==
    /\ pc[r] = "advisory" /\ Free(r)
    /\ Goto(r, IF Kind[r] = "finish" THEN "job" ELSE IF PaysCash(r) THEN "session" ELSE "commit")
    /\ UNCHANGED <<number, due, central>>

\* FAULTY: a delivery does not look at the status again once it has the lock.
WorkableUnread(r) ==
    /\ Kind[r] = "finish" \/ status[JobOf[r]] = "open"
    /\ Kind[r] = "unpart" => PartOf[r] \in parts
    /\ Kind[r] = "finish" => BranchOf[JobOf[r]] # None

\* SELECT ... FOR UPDATE of the job, and the checks on it.
Workable(r) ==
    /\ status[JobOf[r]] = "open"
    /\ Kind[r] = "unpart" => PartOf[r] \in parts
    /\ Kind[r] = "finish" => BranchOf[JobOf[r]] # None

LockJob(r) ==
    /\ pc[r] = "job" /\ Free(r)
    /\ IF Workable(r)
       THEN /\ Goto(r, CASE Kind[r] = "finish" -> "counter"
                         [] Kind[r] \in {"part", "unpart"} /\ RowOf[r] # None -> "stock"
                         [] Kind[r] = "pay" /\ PaysCash(r) -> "session"
                         [] OTHER -> "commit")
            /\ UNCHANGED <<number, due, central>>
       ELSE Failed(r)

\* SELECT quantity ... FOR UPDATE, and the check of a part that is taken.
LockStock(r) ==
    /\ pc[r] = "stock" /\ Free(r)
    /\ IF Kind[r] = "part" => Qty[r] <= stock[RowOf[r]]
       THEN Goto(r, "commit") /\ UNCHANGED <<number, due, central>>
       ELSE Failed(r)

\* The upsert of the branch's counter, then the sums over parts and payments.
TakeNumber(r) ==
    /\ pc[r] = "counter" /\ Free(r)
    /\ number' = [number EXCEPT ![r] = nextValue[BranchOf[JobOf[r]]]]
    /\ due' = [due EXCEPT ![r] = Charges(JobOf[r]) + ExtraOf(r) - Paid(JobOf[r]) - Amount[r]]
    /\ Goto(r, IF PaysCash(r) THEN "session" ELSE "update")
    /\ UNCHANGED central

\* The look-up of the open session with FOR UPDATE; the cashier opens and
\* closes sessions meanwhile.
LockSession(r) ==
    /\ pc[r] = "session" /\ Free(r)
    /\ \E open \in BOOLEAN :
          IF open
          THEN /\ Goto(r, IF Kind[r] = "finish" THEN "update" ELSE "commit")
               /\ UNCHANGED <<number, due, central>>
          ELSE Failed(r)

\* A walk-in must have paid; then the update of the job, which no other row may
\* precede with the same invoice_number.
UpdateJob(r) ==
    /\ pc[r] = "update"
    /\ IF JobOf[r] \in WalkIn /\ due[r] > 0 THEN Failed(r)
       ELSE /\ Free(r)
            /\ IF \E j \in Job \ {JobOf[r]} : invoice[j] = number[r] THEN Failed(r)
               ELSE Goto(r, "commit") /\ UNCHANGED <<number, due, central>>

Delivered(r) ==
    LET j == JobOf[r]
    IN /\ status' = [status EXCEPT ![j] = "Delivered"]
       /\ settlement' = [settlement EXCEPT ![j] = IF due[r] > 0 THEN "CREDIT" ELSE "PAID"]
       /\ extra' = [extra EXCEPT ![j] = ExtraOf(r)]
       /\ invoice' = [invoice EXCEPT ![j] = number[r]]
       /\ nextValue' = [nextValue EXCEPT ![BranchOf[j]] = number[r] + 1]

Booked(r) ==
    /\ status' = IF Kind[r] = "book" THEN [status EXCEPT ![JobOf[r]] = "open"] ELSE status
    /\ UNCHANGED <<settlement, extra, invoice, nextValue>>

Commit(r) ==
    /\ pc[r] = "commit"
    /\ Goto(r, "reply")
    /\ applied' = applied \cup {r}
    /\ IF Kind[r] = "finish" THEN Delivered(r) ELSE Booked(r)
    /\ parts' = CASE Kind[r] = "part"   -> parts \cup {r}
                  [] Kind[r] = "unpart" -> parts \ {PartOf[r]}
                  [] OTHER              -> parts
    /\ stock' = [s \in StockRow |->
          stock[s] + (IF RowOf[r] # s THEN 0
                      ELSE CASE Kind[r] = "part"   -> -Qty[r]
                             [] Kind[r] = "unpart" -> Qty[r]
                             [] OTHER              -> 0)]
    /\ due' = [due EXCEPT ![r] = 0]
    /\ UNCHANGED number

\* The database fails, or the connection to it. (Before a number is drawn, a
\* request that fails leaves nothing behind.)
Abort(r) == HoldsCounter(r) /\ Failed(r)

Step(r) ==
    \/ Connect(r) \/ ReadStatus(r) \/ WriteStatus(r) \/ LockAdvisory(r) \/ LockJob(r)
    \/ LockStock(r) \/ TakeNumber(r) \/ LockSession(r) \/ UpdateJob(r) \/ Commit(r) \/ Reply(r)

Next == \E r \in Request : Step(r) \/ Abort(r)

Spec == Init /\ [][Next]_vars

\* As long as some request can go on, one does.
Fairness == WF_vars(\E r \in Request : Step(r))

FairSpec == Spec /\ Fairness

-----------------------------------------------------------------------------
(* Properties.                                                             *)

\* Every variable stays within its type; no part takes stock that is not
\* there.
TypeOK ==
    /\ pc \in [Request -> Pcs]
    /\ number \in [Request -> Nat]
    /\ due \in [Request -> Int]
    /\ applied \in SUBSET Request
    /\ status \in [Job -> {"none", "open", "Delivered"}]
    /\ settlement \in [Job -> {"UNPAID", "PAID", "CREDIT"}]
    /\ extra \in [Job -> Int]
    /\ invoice \in [Job -> Nat]
    /\ parts \in SUBSET Of("part")
    /\ stock \in [StockRow -> Nat]
    /\ nextValue \in [Branch -> Nat \ {0}]

\* Stock and the parts on jobs add up, however often a part's removal is asked
\* for.
PartsComeFromStock ==
    \A s \in StockRow :
        stock[s] + SumFunctionOnSet(Qty, {p \in parts : RowOf[p] = s}) = InitialStock[s]

\* What a delivered job says of its settlement is true: it stands at PAID only
\* when its payments cover parts, labour and extras, and a walk-in's always does.
SettlementIsTrue ==
    \A j \in Job : status[j] = "Delivered" =>
        /\ settlement[j] = IF Charges(j) + extra[j] > Paid(j) THEN "CREDIT" ELSE "PAID"
        /\ j \in WalkIn => settlement[j] = "PAID"

\* No two jobs show the same invoice number, of one branch or of two.
InvoicesAreUnique ==
    \A i, j \in Job : invoice[i] = invoice[j] /\ invoice[i] # 0 => i = j

Deliveries(b) == {r \in applied : Kind[r] = "finish" /\ BranchOf[JobOf[r]] = b}

\* The invoice numbers of a branch run without a gap, deliveries that fail
\* after they have drawn one included.
InvoicesRunWithoutGap ==
    \A b \in Branch : {number[r] : r \in Deliveries(b)} = 1..(nextValue[b] - 1)

\* A delivery is committed only while the job is open, and closes it; nothing but
\* a change of status opens it again. So however many deliveries of a job run at
\* once, and however they spell its id, another one succeeds only after a change of
\* status that came after the last.
DeliveredOnce ==
    [][/\ \A r \in Of("finish") \ applied : r \in applied' =>
             status[JobOf[r]] = "open" /\ status'[JobOf[r]] = "Delivered"
       /\ \A j \in Job : status[j] = "Delivered" /\ status'[j] # "Delivered" =>
             \E r \in Of("status") \ applied : r \in applied' /\ JobOf[r] = j]_vars

\* The number that a delivery has drawn for its branch is not in use at another
\* branch, where it would make the delivery fail, and give it back to be drawn
\* and to fail again.
BranchesNumberTheirOwn ==
    \A r \in Of("finish"), j \in Job :
        pc[r] = "update" /\ BranchOf[j] # BranchOf[JobOf[r]] => invoice[j] # number[r]

\* What becomes of it: until a delivered job is opened and delivered again, which
\* leaves its first number to whoever draws it next, the branch that delivers first
\* is the only one that can. Every branch counts from 1, and the index on
\* invoice_number spans them all.
OneBranchDelivers ==
    Of("status") \cap applied = {} =>
        \A b, c \in Branch : Deliveries(b) # {} /\ Deliveries(c) # {} => b = c

\* Every connection is held by a request that waits for another one to answer.
PoolIsSpent ==
    ~ConnectionFree /\ \A r \in Request : Connected(r) => pc[r] = "reply"

\* Whatever waits for whatever, every request that has come is answered, unless for
\* the one reason that the pool has no connection left to read an answer through.
EveryRequestIsAnswered ==
    <>[]((\A r \in Request : pc[r] \in {"idle", "done"}) \/ PoolIsSpent)
=============================================================================
