----------------------------- MODULE TillProofs -----------------------------
(***************************************************************************)
(* Proofs about the two components at the till.                            *)
(*                                                                         *)
(* SaleCheckout: what a keyed checkout promises, for any number of         *)
(* requests, products, customers and counters. The invariant says who      *)
(* holds which lock and what it may still rely on: a request past the      *)
(* recheck that its key is unused, one with a locked row that the quantity *)
(* suffices, one that writes that the credit fits, one with a number that  *)
(* it is the next.                                                         *)
(*                                                                         *)
(* CashDrawer: for any requests, postings, kinds and amounts DrawerInv is  *)
(* inductive, a branch has one open session, expenses meet an open         *)
(* session, and a close that nothing overlaps is exact.                    *)
(***************************************************************************)
EXTENDS SaleCheckout, CashDrawer, TLAPS

-----------------------------------------------------------------------------
(* The checkout.                                                           *)


KeyInv ==
    /\ \A r, q \in Request :
          HoldsKey(r) /\ HoldsKey(q) /\ KeyOf[r] = KeyOf[q] => r = q
    /\ \A r \in Request :
          KeyOf[r] # None /\ pc[r] \in Rechecked => saleOf[KeyOf[r]] = None
    /\ \A r \in Request :
          pc[r] = "reread" => KeyOf[r] # None /\ saleOf[KeyOf[r]] # None
    /\ \A k \in Key :
          saleOf[k] # None => saleOf[k] \in sold /\ KeyOf[saleOf[k]] = k
    /\ \A r \in sold : KeyOf[r] # None => saleOf[KeyOf[r]] = r
    /\ \A r \in sold : pc[r] = "done"
    /\ \A r \in Request : pc[r] # "done" => outcome[r] = "none"

StockInv ==
    /\ \A r, q \in Request : r # q => locked[r] \cap locked[q] = {}
    /\ \A r \in Request : \A p \in locked[r] : stock[p] >= Qty[r][p]
    /\ \A r \in Request : pc[r] \in Numbered => locked[r] = Cart(r)

CreditInv ==
    /\ \A r, q \in Request :
          HoldsCustomer(r) /\ HoldsCustomer(q) /\ CustomerOf[r] = CustomerOf[q] => r = q
    /\ \A r \in Request :
          pc[r] \in Writing /\ Credit[r] > 0 /\ CreditLimit[CustomerOf[r]] > 0 =>
              outstanding[CustomerOf[r]] + Credit[r] <= CreditLimit[CustomerOf[r]]

InvoiceInv ==
    /\ \A r, q \in Request :
          HoldsCounter(r) /\ HoldsCounter(q) /\ CounterOf[r] = CounterOf[q] => r = q
    /\ \A r \in Request : HoldsCounter(r) => number[r] = nextValue[CounterOf[r]]
    /\ \A c \in Counter : nextValue[c] > 0
    /\ \A r \in Request : pc[r] = "commit" =>
          \A q \in Request \ {r} :
              SameInvoice(r, q) => q \notin sold /\ pc[q] # "commit"

IInv == /\ TypeOK
        /\ KeyInv /\ KeyedAnswersAreTrue
        /\ StockInv
        /\ CreditInv /\ CreditLimitHolds
        /\ InvoiceInv /\ InvoicesRunWithoutGap

-----------------------------------------------------------------------------
(* What the steps have in common.                                          *)

\* Nobody but r moves, and nothing is committed.
Others(r) ==
    /\ \A q \in Request : q # r => /\ pc'[q] = pc[q] /\ locked'[q] = locked[q]
                                   /\ number'[q] = number[q] /\ told'[q] = told[q]
                                   /\ outcome'[q] = outcome[q]

\* r goes from one step to another.
Moves(r, from, to) ==
    /\ Others(r) /\ UNCHANGED <<told, outcome, central>>
    /\ pc[r] = from /\ pc'[r] = to

\* The same, without a lock or a number more.
Walks(r, from, to) == Moves(r, from, to) /\ UNCHANGED <<locked, number>>

\* r leaves its transaction without a commit. It is shown a sale only when
\* its key is known, or when it has none.
Ends(r) ==
    /\ Others(r) /\ UNCHANGED central
    /\ pc[r] # "done" /\ pc'[r] \in {"done", "broken"}
    /\ pc'[r] = "broken" => outcome'[r] = "none"
    /\ locked'[r] = {} /\ number'[r] = 0
    /\ KeyOf[r] # None =>
          /\ outcome'[r] = "sold" =>
                /\ saleOf[KeyOf[r]] # None
                /\ told'[r] = saleOf[KeyOf[r]] /\ Payload[told'[r]] = Payload[r]
          /\ outcome'[r] = "conflict" =>
                saleOf[KeyOf[r]] # None /\ Payload[saleOf[KeyOf[r]]] # Payload[r]

\* The steps that take nothing and the ones that end a transaction, by what
\* they do. Commit, and the steps that lock or draw, speak for themselves.
StepOf(r) ==
    \/ Ends(r)
    \/ Walks(r, "idle", "begin")
    \/ KeyOf[r] = None /\ Walks(r, "begin", "checked")
    \/ KeyOf[r] # None /\ Walks(r, "begin", "key")
    \/ Walks(r, "key", "locked") /\ KeyLockFree(r)
    \/ Walks(r, "locked", "checked") /\ ~Found(r)
    \/ Walks(r, "locked", "reread") /\ Found(r)
    \/ Walks(r, "checked", "stock") /\ CustomerFree(r)
    \/ LockStock(r)
    \/ NextInvoice(r)
    \/ Walks(r, "invoice", "header") /\ ~ExceedsLimit(r)
    \/ /\ Walks(r, "header", "commit")
       /\ \A q \in Request \ {r} :
             SameInvoice(r, q) => q \notin sold /\ pc[q] # "commit"
    \/ Commit(r)

\* An answer that does not follow a commit, on the conditions of Ends.
LEMMA AnsweredEnds ==
    ASSUME TypeOK, NEW r \in Request, NEW result, NEW sale,
           Answered(r, result, sale), UNCHANGED central, pc[r] # "done",
           \/ result \notin {"sold", "conflict"}
           \/ KeyOf[r] = None
           \/ /\ Found(r) /\ result = "sold" /\ sale = saleOf[KeyOf[r]]
              /\ Payload[sale] = Payload[r]
           \/ Found(r) /\ result = "conflict" /\ Payload[saleOf[KeyOf[r]]] # Payload[r]
    PROVE  Ends(r)
<1>1. Others(r)
  BY DEF TypeOK, Answered, Answer, Others
<1>2. pc'[r] = "done" /\ locked'[r] = {} /\ number'[r] = 0
  BY DEF TypeOK, Answered, Answer
<1>3. outcome'[r] = result /\ told'[r] = sale
  BY DEF TypeOK, Answered, Answer
<1>4. QED
  BY <1>1, <1>2, <1>3 DEF Ends, Found

LEMMA ReplayEnds ==
    ASSUME TypeOK, NEW r \in Request, Replay(r), Found(r),
           UNCHANGED central, pc[r] # "done"
    PROVE  Ends(r)
<1>1. CASE Payload[saleOf[KeyOf[r]]] = Payload[r]
  BY <1>1, AnsweredEnds DEF Replay
<1>2. CASE Payload[saleOf[KeyOf[r]]] # Payload[r]
  BY <1>2, AnsweredEnds DEF Replay
<1>3. QED
  BY <1>1, <1>2

LEMMA GotoWalks ==
    ASSUME TypeOK, NEW r \in Request, NEW to, Goto(r, to),
           UNCHANGED <<locked, number, central>>
    PROVE  Walks(r, pc[r], to)
  BY DEF TypeOK, Goto, Walks, Moves, Others, central

\* Every step of the system is one of these.
LEMMA NextIsStepOf ==
    ASSUME ConstantsAssumption, TypeOK, KeyInv, Next
    PROVE  \E r \in Request : StepOf(r)
<1>1. PICK r \in Request : FastPath(r) \/ Step(r) \/ RollBack(r)
  BY DEF Next
<1>2. CASE FastPath(r)
  <2>1. CASE Found(r)
    BY <1>2, <2>1, ReplayEnds DEF FastPath, StepOf
  <2>2. CASE ~Found(r)
    BY <1>2, <2>2, GotoWalks DEF FastPath, StepOf
  <2>3. QED
    BY <2>1, <2>2
<1>3. CASE Connect(r)
  BY <1>3, GotoWalks DEF Connect, StepOf
<1>4. CASE AdvisoryLock(r)
  BY <1>4, GotoWalks DEF AdvisoryLock, StepOf
<1>5. CASE Recheck(r)
  <2>1. CASE Found(r) /\ Payload[saleOf[KeyOf[r]]] # Payload[r]
    BY <1>5, <2>1, AnsweredEnds DEF Recheck, StepOf
  <2>2. CASE Found(r) /\ Payload[saleOf[KeyOf[r]]] = Payload[r]
    BY <1>5, <2>2, GotoWalks DEF Recheck, StepOf
  <2>3. CASE ~Found(r)
    BY <1>5, <2>3, GotoWalks DEF Recheck, StepOf
  <2>4. QED
    BY <2>1, <2>2, <2>3
<1>6. CASE Reread(r)
  <2>1. Found(r)
    BY <1>6 DEF Reread, KeyInv, Found
  <2>2. QED
    BY <1>6, <2>1, ReplayEnds DEF Reread, StepOf
<1>7. CASE LockCustomer(r)
  BY <1>7, GotoWalks DEF LockCustomer, StepOf
<1>8. CASE LockStock(r)
  BY <1>8 DEF StepOf
<1>9. CASE InsufficientStock(r)
  BY <1>9, AnsweredEnds DEF InsufficientStock, StepOf
<1>10. CASE NextInvoice(r)
  BY <1>10 DEF StepOf
<1>11. CASE CheckCredit(r)
  BY <1>11, GotoWalks DEF CheckCredit, StepOf
<1>12. CASE CreditExceeded(r)
  BY <1>12, AnsweredEnds DEF CreditExceeded, StepOf
<1>13. CASE InsertSale(r)
  BY <1>13, GotoWalks DEF InsertSale, StepOf
<1>14. CASE InvoiceTaken(r)
  BY <1>14, AnsweredEnds DEF InvoiceTaken, StepOf
<1>15. CASE ChangeLogFails(r)
  <2>1. Others(r)
    BY <1>15 DEF ChangeLogFails, Goto, TypeOK, Others
  <2>2. /\ pc[r] = "commit" /\ pc'[r] = "broken"
        /\ locked'[r] = {} /\ number'[r] = 0
        /\ UNCHANGED <<outcome, central>>
    BY <1>15 DEF ChangeLogFails, Goto, TypeOK
  <2>3. QED
    BY <2>1, <2>2 DEF Ends, StepOf, KeyInv
<1>16. CASE Commit(r)
  BY <1>16 DEF StepOf
<1>17. CASE CommitBroken(r)
  <2>1. CASE KeyOf[r] = None
    BY <1>17, <2>1, AnsweredEnds DEF CommitBroken, StepOf
  <2>2. CASE KeyOf[r] # None
    BY <1>17, <2>2, AnsweredEnds DEF CommitBroken, StepOf
  <2>3. QED
    BY <2>1, <2>2
<1>18. CASE RollBack(r)
  <2>1. pc[r] # "done"
    BY <1>18 DEF RollBack, Connected, Locked, Rechecked, Stocked, Numbered, Writing
  <2>2. QED
    BY <1>18, <2>1, AnsweredEnds DEF RollBack, StepOf
<1>19. QED
  BY <1>1, <1>2, <1>3, <1>4, <1>5, <1>6, <1>7, <1>8, <1>9, <1>10, <1>11, <1>12,
     <1>13, <1>14, <1>15, <1>16, <1>17, <1>18 DEF Step

-----------------------------------------------------------------------------
(* Each part of the invariant holds at first and is preserved.             *)

LEMMA InitEstablishes ==
    ASSUME ConstantsAssumption, Init
    PROVE  IInv
<1>1. TypeOK
  BY DEF ConstantsAssumption, Init, TypeOK, Pcs, Product
<1>2. KeyInv
  BY DEF ConstantsAssumption, Init, KeyInv, HoldsKey, Locked, Rechecked, Stocked,
     Numbered, Writing
<1>3. KeyedAnswersAreTrue
  BY DEF Init, KeyedAnswersAreTrue
<1>4. StockInv
  BY DEF Init, StockInv, Numbered, Writing
<1>5. CreditInv
  BY DEF Init, CreditInv, HoldsCustomer, Stocked, Numbered, Writing
<1>6. CreditLimitHolds
  BY DEF ConstantsAssumption, Init, CreditLimitHolds
<1>7. InvoiceInv
  BY DEF Init, InvoiceInv, HoldsCounter, Numbered, Writing
<1>8. InvoicesRunWithoutGap
  <2>1. \A c \in Counter :
          {number[r] : r \in {q \in sold : CounterOf[q] = c}} = 1 .. nextValue[c] - 1
    BY DEF Init
  <2>2. QED
    BY <2>1 DEF Init, InvoicesRunWithoutGap
<1>9. QED
  BY <1>1, <1>2, <1>3, <1>4, <1>5, <1>6, <1>7, <1>8 DEF IInv

\* A step of r leaves everybody else where they are; the requests that hold a
\* lock after it are the ones before, perhaps with r.
LEMMA OthersStay ==
    ASSUME ConstantsAssumption, TypeOK, NEW r \in Request, StepOf(r)
    PROVE  /\ Others(r)
           /\ StepOf(r) /\ ~Commit(r) => UNCHANGED central
<1>1. CASE LockStock(r)
  BY <1>1 DEF LockStock, Others, TypeOK
<1>2. CASE NextInvoice(r)
  BY <1>2 DEF NextInvoice, Goto, Others, TypeOK
<1>3. CASE Commit(r)
  BY <1>3 DEF Commit, Answer, Others, TypeOK
<1>4. CASE ~LockStock(r) /\ ~NextInvoice(r) /\ ~Commit(r)
  BY <1>4 DEF StepOf, Ends, Walks, Moves
<1>5. ~Commit(r) => UNCHANGED central
  BY DEF StepOf, Ends, Walks, Moves, LockStock, NextInvoice
<1>6. QED
  BY <1>1, <1>2, <1>3, <1>4, <1>5

LEMMA CommitEffect ==
    ASSUME ConstantsAssumption, TypeOK, NEW r \in Request, Commit(r)
    PROVE  /\ pc[r] = "commit" /\ pc'[r] = "done" /\ locked'[r] = {}
           /\ number' = number /\ sold' = sold \cup {r}
           /\ \A k \in Key : saleOf'[k] = IF k = KeyOf[r] THEN r ELSE saleOf[k]
           /\ \A p \in Product : stock'[p] = stock[p] - Qty[r][p]
           /\ \A c \in Customer : outstanding'[c] =
                 IF c = CustomerOf[r] THEN outstanding[c] + Credit[r] ELSE outstanding[c]
           /\ \A c \in Counter : nextValue'[c] =
                 IF c = CounterOf[r] THEN number[r] + 1 ELSE nextValue[c]
           /\ \/ outcome'[r] = "sold" /\ told'[r] = r
              \/ outcome'[r] = "failed"
<1>1. pc[r] = "commit" /\ pc'[r] = "done" /\ locked'[r] = {}
  BY DEF Commit, Answer, TypeOK
<1>2. number' = number /\ sold' = sold \cup {r}
  BY DEF Commit
<1>3. \A k \in Key : saleOf'[k] = IF k = KeyOf[r] THEN r ELSE saleOf[k]
  BY DEF Commit
<1>4. \A p \in Product : stock'[p] = stock[p] - Qty[r][p]
  BY DEF Commit
<1>5. \A c \in Customer : outstanding'[c] =
         IF c = CustomerOf[r] THEN outstanding[c] + Credit[r] ELSE outstanding[c]
  BY DEF Commit
<1>6. \A c \in Counter : nextValue'[c] =
         IF c = CounterOf[r] THEN number[r] + 1 ELSE nextValue[c]
  BY DEF Commit, TypeOK, ConstantsAssumption
<1>7. \/ outcome'[r] = "sold" /\ told'[r] = r
      \/ outcome'[r] = "failed"
  BY DEF Commit, Answer, TypeOK
<1>8. QED
  BY <1>1, <1>2, <1>3, <1>4, <1>5, <1>6, <1>7

LEMMA AnsweredType ==
    ASSUME ConstantsAssumption, TypeOK, NEW r \in Request,
           NEW result \in {"none", "sold", "conflict", "refused", "failed"},
           NEW sale \in Request \cup {None},
           Answered(r, result, sale), UNCHANGED central
    PROVE  TypeOK'
  BY DEF TypeOK, Answered, Answer, central, Pcs

LEMMA GotoType ==
    ASSUME ConstantsAssumption, TypeOK, NEW r \in Request, NEW to \in Pcs,
           Goto(r, to), UNCHANGED <<locked, number, central>>
    PROVE  TypeOK'
  BY DEF TypeOK, Goto, central

LEMMA ReplayType ==
    ASSUME ConstantsAssumption, TypeOK, NEW r \in Request, Found(r), Replay(r),
           UNCHANGED central
    PROVE  TypeOK'
<1>1. saleOf[KeyOf[r]] \in Request \cup {None}
  BY DEF TypeOK, ConstantsAssumption, Found
<1>2. CASE Payload[saleOf[KeyOf[r]]] = Payload[r]
  BY <1>1, <1>2, AnsweredType DEF Replay
<1>3. CASE Payload[saleOf[KeyOf[r]]] # Payload[r]
  BY <1>3, AnsweredType DEF Replay
<1>4. QED
  BY <1>2, <1>3

\* No committed sale takes more than the rows it has locked can give.
LEMMA CommitType ==
    ASSUME ConstantsAssumption, TypeOK, StockInv, NEW r \in Request, Commit(r)
    PROVE  TypeOK'
<1>1. stock' \in [Product -> Nat]
  <2>1. locked[r] = Cart(r)
    BY DEF Commit, StockInv, Numbered, Writing
  <2>2. \A p \in Product : stock[p] - Qty[r][p] \in Nat
    <3>1. TAKE p \in Product
    <3>2. stock[p] \in Nat /\ Qty[r][p] \in Nat
      BY DEF TypeOK, ConstantsAssumption
    <3>3. CASE Qty[r][p] > 0
      <4>1. stock[p] >= Qty[r][p]
        BY <2>1, <3>3 DEF StockInv, Cart
      <4>2. QED
        BY <3>2, <4>1
    <3>4. CASE ~(Qty[r][p] > 0)
      BY <3>2, <3>4
    <3>5. QED
      BY <3>3, <3>4
  <2>3. QED
    BY <2>2 DEF Commit
<1>2. outstanding' \in [Customer -> Nat]
  BY DEF Commit, TypeOK, ConstantsAssumption
<1>3. nextValue' \in [Counter -> Nat]
  BY DEF Commit, TypeOK, ConstantsAssumption
<1>4. saleOf' \in [Key -> Request \cup {None}] /\ sold' \in SUBSET Request
  BY DEF Commit, TypeOK
<1>5. /\ pc' \in [Request -> Pcs] /\ locked' \in [Request -> SUBSET Product]
      /\ number' \in [Request -> Nat]
  BY DEF Commit, Answer, TypeOK, Pcs
<1>6. /\ told' \in [Request -> Request \cup {None}]
      /\ outcome' \in [Request -> {"none", "sold", "conflict", "refused", "failed"}]
  <2>1. CASE Answer(r, "sold", r)
    BY <2>1 DEF Answer, TypeOK
  <2>2. CASE Answer(r, "failed", None)
    BY <2>2 DEF Answer, TypeOK
  <2>3. QED
    BY <2>1, <2>2 DEF Commit
<1>7. QED
  BY <1>1, <1>2, <1>3, <1>4, <1>5, <1>6 DEF TypeOK

LEMMA TypePreserved ==
    ASSUME ConstantsAssumption, TypeOK, KeyInv, StockInv, [Next]_vars
    PROVE  TypeOK'
<1> USE DEF Pcs, Connected, Locked, Rechecked, Stocked, Numbered, Writing
<1>1. CASE UNCHANGED vars
  BY <1>1 DEF TypeOK, vars, request, central
<1>2. CASE Next
  <2>1. PICK r \in Request : FastPath(r) \/ Step(r) \/ RollBack(r)
    BY <1>2 DEF Next
  <2>2. CASE FastPath(r)
    <3>1. CASE Found(r)
      BY <2>2, <3>1, ReplayType DEF FastPath
    <3>2. CASE ~Found(r)
      BY <2>2, <3>2, GotoType DEF FastPath
    <3>3. QED
      BY <3>1, <3>2
  <2>3. CASE Connect(r)
    BY <2>3, GotoType DEF Connect
  <2>4. CASE AdvisoryLock(r)
    BY <2>4, GotoType DEF AdvisoryLock
  <2>5. CASE Recheck(r)
    <3>1. CASE Found(r) /\ Payload[saleOf[KeyOf[r]]] # Payload[r]
      BY <2>5, <3>1, AnsweredType DEF Recheck
    <3>2. CASE ~(Found(r) /\ Payload[saleOf[KeyOf[r]]] # Payload[r])
      BY <2>5, <3>2, GotoType DEF Recheck
    <3>3. QED
      BY <3>1, <3>2
  <2>6. CASE Reread(r)
    BY <2>6, ReplayType DEF Reread, KeyInv, Found
  <2>7. CASE LockCustomer(r)
    BY <2>7, GotoType DEF LockCustomer
  <2>8. CASE LockStock(r)
    BY <2>8 DEF LockStock, TypeOK, central
  <2>9. CASE InsufficientStock(r)
    BY <2>9, AnsweredType DEF InsufficientStock
  <2>10. CASE NextInvoice(r)
    BY <2>10 DEF NextInvoice, Goto, TypeOK, central, ConstantsAssumption
  <2>11. CASE CheckCredit(r)
    BY <2>11, GotoType DEF CheckCredit
  <2>12. CASE CreditExceeded(r)
    BY <2>12, AnsweredType DEF CreditExceeded
  <2>13. CASE InsertSale(r)
    BY <2>13, GotoType DEF InsertSale
  <2>14. CASE InvoiceTaken(r)
    BY <2>14, AnsweredType DEF InvoiceTaken
  <2>15. CASE ChangeLogFails(r)
    BY <2>15 DEF ChangeLogFails, Goto, TypeOK, central
  <2>16. CASE Commit(r)
    BY <2>16, CommitType
  <2>17. CASE CommitBroken(r)
    <3>1. CASE KeyOf[r] = None
      BY <2>17, <3>1, AnsweredType DEF CommitBroken
    <3>2. CASE KeyOf[r] # None
      BY <2>17, <3>2, AnsweredType DEF CommitBroken
    <3>3. QED
      BY <3>1, <3>2
  <2>18. CASE RollBack(r)
    BY <2>18, AnsweredType DEF RollBack
  <2>19. QED
    BY <2>1, <2>2, <2>3, <2>4, <2>5, <2>6, <2>7, <2>8, <2>9, <2>10, <2>11, <2>12,
       <2>13, <2>14, <2>15, <2>16, <2>17, <2>18 DEF Step
<1>3. QED
  BY <1>1, <1>2

\* Who takes the lock of a key found it free; who goes past the recheck found
\* the key unused.
LEMMA KeyPreserved ==
    ASSUME ConstantsAssumption, TypeOK, KeyInv, NEW r \in Request, StepOf(r)
    PROVE  KeyInv'
<1> USE DEF HoldsKey, Locked, Rechecked, Stocked, Numbered, Writing
<1>1. Others(r) /\ (~Commit(r) => UNCHANGED central)
  BY OthersStay
<1>2. CASE ~Commit(r)
  <2>2. /\ UNCHANGED <<sold, saleOf>>
        /\ \A q \in Request : q # r => pc'[q] = pc[q] /\ outcome'[q] = outcome[q]
    BY <1>1, <1>2 DEF Others, central
  <2>3. KeyOf[r] # None /\ pc'[r] \in Locked => pc[r] \in Locked \/ KeyLockFree(r)
    BY <1>2 DEF StepOf, Ends, Walks, Moves, LockStock, NextInvoice, Goto, TypeOK
  <2>4. KeyOf[r] # None /\ pc'[r] \in Rechecked =>
           pc[r] \in Rechecked \/ saleOf[KeyOf[r]] = None
    BY <1>2 DEF StepOf, Ends, Walks, Moves, LockStock, NextInvoice, Goto, TypeOK, Found
  <2>5. pc'[r] = "reread" => KeyOf[r] # None /\ saleOf[KeyOf[r]] # None
    BY <1>2 DEF StepOf, Ends, Walks, Moves, LockStock, NextInvoice, Goto, TypeOK, Found
  <2>6. pc[r] # "done"
    BY <1>2 DEF StepOf, Ends, Walks, Moves, LockStock, NextInvoice
  <2>7. pc'[r] # "done" => outcome'[r] = "none"
    <3>1. outcome[r] = "none"
      BY <2>6 DEF KeyInv
    <3>2. QED
      BY <1>2, <3>1 DEF StepOf, Ends, Walks, Moves, LockStock, NextInvoice, Goto
  <2>8. \A p, q \in Request :
           HoldsKey(p)' /\ HoldsKey(q)' /\ KeyOf[p] = KeyOf[q] => p = q
    BY <2>2, <2>3 DEF KeyInv, KeyLockFree
  <2>9. \A q \in Request :
           KeyOf[q] # None /\ pc'[q] \in Rechecked => saleOf'[KeyOf[q]] = None
    BY <2>2, <2>4 DEF KeyInv
  <2>10. \A q \in Request :
            pc'[q] = "reread" => KeyOf[q] # None /\ saleOf'[KeyOf[q]] # None
    BY <2>2, <2>5 DEF KeyInv
  <2>11. \A q \in sold' : pc'[q] = "done"
    BY <2>2, <2>6 DEF KeyInv, TypeOK
  <2>12. \A q \in Request : pc'[q] # "done" => outcome'[q] = "none"
    BY <2>2, <2>7 DEF KeyInv
  <2>13. QED
    BY <2>2, <2>8, <2>9, <2>10, <2>11, <2>12 DEF KeyInv
<1>3. CASE Commit(r)
  <2>1. /\ pc[r] = "commit" /\ pc'[r] = "done" /\ sold' = sold \cup {r}
        /\ \A k \in Key : saleOf'[k] = IF k = KeyOf[r] THEN r ELSE saleOf[k]
    BY <1>3, CommitEffect
  <2>2. KeyOf[r] # None => KeyOf[r] \in Key /\ saleOf[KeyOf[r]] = None
    BY <2>1 DEF ConstantsAssumption, KeyInv
  <2>3. \A q \in Request : KeyOf[q] # None /\ pc'[q] \in Locked =>
            pc[q] \in Locked /\ KeyOf[q] # KeyOf[r]
    BY <1>1, <2>1 DEF Others, KeyInv
  <2>4. \A p, q \in Request :
            HoldsKey(p)' /\ HoldsKey(q)' /\ KeyOf[p] = KeyOf[q] => p = q
    <3>1. TAKE p, q \in Request
    <3>2. HoldsKey(p)' => HoldsKey(p)
      BY <2>3
    <3>3. HoldsKey(q)' => HoldsKey(q)
      BY <2>3
    <3>4. QED
      BY <3>2, <3>3 DEF KeyInv
  <2>5. \A q \in Request :
            KeyOf[q] # None /\ pc'[q] \in Rechecked => saleOf'[KeyOf[q]] = None
    BY <1>1, <2>1, <2>3 DEF Others, ConstantsAssumption, KeyInv
  <2>6. \A q \in Request :
            pc'[q] = "reread" => KeyOf[q] # None /\ saleOf'[KeyOf[q]] # None
    <3>1. TAKE q \in Request
    <3>2. HAVE pc'[q] = "reread"
    <3>3. KeyOf[q] \in Key /\ KeyOf[q] # None /\ saleOf[KeyOf[q]] # None
      BY <1>1, <2>1, <3>2 DEF Others, ConstantsAssumption, KeyInv
    <3>4. r # None
      BY DEF ConstantsAssumption
    <3>5. QED
      BY <2>1, <3>3, <3>4
  <2>7. \A k \in Key : saleOf'[k] # None => saleOf'[k] \in sold' /\ KeyOf[saleOf'[k]] = k
    BY <2>1 DEF KeyInv
  <2>8. \A q \in sold' : KeyOf[q] # None => saleOf'[KeyOf[q]] = q
    <3>1. TAKE q \in sold'
    <3>2. HAVE KeyOf[q] # None
    <3>3. CASE q = r
      BY <2>1, <2>2, <3>2, <3>3
    <3>4. CASE q # r
      <4>1. q \in Request /\ KeyOf[q] \in Key /\ saleOf[KeyOf[q]] = q
        BY <2>1, <3>2, <3>4 DEF KeyInv, TypeOK, ConstantsAssumption
      <4>2. KeyOf[q] # KeyOf[r]
        BY <2>2, <3>2, <4>1 DEF ConstantsAssumption
      <4>3. QED
        BY <2>1, <4>1, <4>2
    <3>5. QED
      BY <3>3, <3>4
  <2>9. \A q \in sold' : pc'[q] = "done"
    BY <1>1, <2>1 DEF Others, TypeOK, KeyInv
  <2>10. \A q \in Request : pc'[q] # "done" => outcome'[q] = "none"
    BY <1>1, <2>1 DEF Others, KeyInv
  <2>11. QED
    BY <2>4, <2>5, <2>6, <2>7, <2>8, <2>9, <2>10 DEF KeyInv
<1>4. QED
  BY <1>2, <1>3

\* A sale that was shown stays committed under its key, and every new answer
\* is read off the key or is the request's own commit.
LEMMA AnswersPreserved ==
    ASSUME ConstantsAssumption, TypeOK, KeyInv, KeyedAnswersAreTrue,
           NEW r \in Request, StepOf(r)
    PROVE  KeyedAnswersAreTrue'
<1>1. Others(r)
  BY OthersStay
<1>2. sold \subseteq sold' /\ sold' \subseteq Request
  <2>1. CASE Commit(r)
    BY <2>1, CommitEffect DEF TypeOK
  <2>2. CASE ~Commit(r)
    BY <2>2, OthersStay DEF central, TypeOK
  <2>3. QED
    BY <2>1, <2>2
<1>3. ASSUME NEW q \in Request, KeyOf[q] # None, q # r
      PROVE  /\ outcome'[q] = "sold" => /\ told'[q] \in sold'
                                        /\ KeyOf[told'[q]] = KeyOf[q]
                                        /\ Payload[told'[q]] = Payload[q]
             /\ outcome'[q] = "conflict" =>
                   \E s \in sold' : KeyOf[s] = KeyOf[q] /\ Payload[s] # Payload[q]
  <2>1. outcome'[q] = outcome[q] /\ told'[q] = told[q]
    BY <1>1, <1>3 DEF Others
  <2>2. QED
    BY <1>2, <1>3, <2>1 DEF KeyedAnswersAreTrue
<1>4. ASSUME KeyOf[r] # None
      PROVE  /\ outcome'[r] = "sold" => /\ told'[r] \in sold'
                                        /\ KeyOf[told'[r]] = KeyOf[r]
                                        /\ Payload[told'[r]] = Payload[r]
             /\ outcome'[r] = "conflict" =>
                   \E s \in sold' : KeyOf[s] = KeyOf[r] /\ Payload[s] # Payload[r]
  <2>1. KeyOf[r] \in Key
    BY <1>4 DEF ConstantsAssumption
  <2>2. CASE Ends(r)
    <3>1. saleOf[KeyOf[r]] # None =>
             saleOf[KeyOf[r]] \in sold /\ KeyOf[saleOf[KeyOf[r]]] = KeyOf[r]
      BY <2>1 DEF KeyInv
    <3>2. QED
      BY <1>2, <1>4, <2>2, <3>1 DEF Ends
  <2>3. CASE Commit(r)
    BY <2>3, CommitEffect
  <2>4. CASE ~Ends(r) /\ ~Commit(r)
    <3>1. outcome'[r] = outcome[r] /\ told'[r] = told[r]
      BY <2>4 DEF StepOf, Walks, Moves, LockStock, NextInvoice, Goto
    <3>2. QED
      BY <1>2, <1>4, <3>1 DEF KeyedAnswersAreTrue
  <2>5. QED
    BY <2>2, <2>3, <2>4
<1>5. QED
  BY <1>3, <1>4 DEF KeyedAnswersAreTrue

\* A row is locked by one transaction, after its quantity was found to be
\* enough, and nobody else can take from it before that one ends.
LEMMA StockPreserved ==
    ASSUME ConstantsAssumption, TypeOK, StockInv, NEW r \in Request, StepOf(r)
    PROVE  StockInv'
<1> USE DEF Numbered, Writing
<1>1. Others(r) /\ (~Commit(r) => UNCHANGED central)
  BY OthersStay
<1>2. \A q \in Request : q # r => pc'[q] = pc[q] /\ locked'[q] = locked[q]
  BY <1>1 DEF Others
<1>3. CASE LockStock(r)
  <2>1. PICK p \in Product : /\ NextRow(r, p) /\ RowFree(p) /\ stock[p] >= Qty[r][p]
                             /\ locked' = [locked EXCEPT ![r] = @ \cup {p}]
    BY <1>3 DEF LockStock
  <2>2. locked'[r] = locked[r] \cup {p} /\ UNCHANGED <<pc, stock>> /\ pc[r] = "stock"
    BY <1>3, <2>1 DEF LockStock, TypeOK, central
  <2>3. \A q, s \in Request : q # s => locked'[q] \cap locked'[s] = {}
    BY <1>2, <2>1, <2>2 DEF StockInv, RowFree
  <2>4. \A q \in Request : \A i \in locked'[q] : stock'[i] >= Qty[q][i]
    BY <1>2, <2>1, <2>2 DEF StockInv
  <2>5. \A q \in Request : pc'[q] \in Numbered => locked'[q] = Cart(q)
    BY <1>2, <2>2 DEF StockInv
  <2>6. QED
    BY <2>3, <2>4, <2>5 DEF StockInv
<1>4. CASE Commit(r)
  <2>1. /\ pc[r] = "commit" /\ pc'[r] = "done" /\ locked'[r] = {}
        /\ \A p \in Product : stock'[p] = stock[p] - Qty[r][p]
    BY <1>4, CommitEffect
  <2>2. locked[r] = Cart(r)
    BY <2>1 DEF StockInv
  <2>3. \A q, s \in Request : q # s => locked'[q] \cap locked'[s] = {}
    BY <1>2, <2>1 DEF StockInv
  <2>4. ASSUME NEW q \in Request, NEW i \in locked'[q]
        PROVE  stock'[i] >= Qty[q][i]
    <3>1. q # r /\ i \in locked[q] /\ i \in Product
      BY <1>2, <2>1, <2>4 DEF TypeOK
    <3>2. i \notin Cart(r)
      BY <2>2, <3>1 DEF StockInv
    <3>3. Qty[r][i] = 0 /\ stock[i] \in Nat
      BY <3>1, <3>2 DEF Cart, ConstantsAssumption, TypeOK
    <3>4. stock'[i] = stock[i]
      BY <2>1, <3>1, <3>3
    <3>5. QED
      BY <3>1, <3>4 DEF StockInv
  <2>5. \A q \in Request : pc'[q] \in Numbered => locked'[q] = Cart(q)
    BY <1>2, <2>1 DEF StockInv
  <2>6. QED
    BY <2>3, <2>4, <2>5 DEF StockInv
<1>5. CASE ~LockStock(r) /\ ~Commit(r)
  <2>1. UNCHANGED stock
    BY <1>1, <1>5 DEF central
  <2>2. locked'[r] = {} \/ locked'[r] = locked[r]
    BY <1>5 DEF StepOf, Ends, Walks, Moves, NextInvoice
  <2>3. pc'[r] \in Numbered => locked'[r] = Cart(r)
    BY <1>5 DEF StepOf, Ends, Walks, Moves, NextInvoice, StockInv
  <2>4. \A q, s \in Request : q # s => locked'[q] \cap locked'[s] = {}
    BY <1>2, <2>2 DEF StockInv
  <2>5. \A q \in Request : \A i \in locked'[q] : stock'[i] >= Qty[q][i]
    BY <1>2, <2>1, <2>2 DEF StockInv
  <2>6. \A q \in Request : pc'[q] \in Numbered => locked'[q] = Cart(q)
    BY <1>2, <2>3 DEF StockInv
  <2>7. QED
    BY <2>4, <2>5, <2>6 DEF StockInv
<1>6. QED
  BY <1>3, <1>4, <1>5

\* Whoever passed the check of the limit keeps the customer locked until the
\* credit is on the ledger.
LEMMA CreditPreserved ==
    ASSUME ConstantsAssumption, TypeOK, CreditInv, CreditLimitHolds,
           NEW r \in Request, StepOf(r)
    PROVE  CreditInv' /\ CreditLimitHolds'
<1> USE DEF HoldsCustomer, Stocked, Numbered, Writing
<1>1. Others(r) /\ (~Commit(r) => UNCHANGED central)
  BY OthersStay
<1>2. \A q \in Request : q # r => pc'[q] = pc[q]
  BY <1>1 DEF Others
<1>3. CustomerOf[r] # None /\ pc'[r] \in Stocked => pc[r] \in Stocked \/ CustomerFree(r)
  BY DEF StepOf, Ends, Walks, Moves, LockStock, NextInvoice, Goto, Commit, Answer, TypeOK
<1>4. ASSUME NEW p \in Request, NEW q \in Request,
             HoldsCustomer(p)', HoldsCustomer(q)', CustomerOf[p] = CustomerOf[q]
      PROVE  p = q
  <2>1. CASE p # r /\ q # r
    BY <1>2, <1>4, <2>1 DEF CreditInv
  <2>2. CASE p = r /\ q # r
    BY <1>2, <1>3, <1>4, <2>2 DEF CreditInv, CustomerFree
  <2>3. CASE p # r /\ q = r
    BY <1>2, <1>3, <1>4, <2>3 DEF CreditInv, CustomerFree
  <2>4. QED
    BY <2>1, <2>2, <2>3
<1>5. CASE ~Commit(r)
  <2>1. UNCHANGED outstanding
    BY <1>1, <1>5 DEF central
  <2>2. pc'[r] \in Writing => pc[r] \in Writing \/ ~ExceedsLimit(r)
    BY <1>5 DEF StepOf, Ends, Walks, Moves, LockStock, NextInvoice, Goto, TypeOK
  <2>3. ASSUME NEW q \in Request, pc'[q] \in Writing, Credit[q] > 0,
               CreditLimit[CustomerOf[q]] > 0
        PROVE  outstanding'[CustomerOf[q]] + Credit[q] <= CreditLimit[CustomerOf[q]]
    <3>1. /\ CustomerOf[q] \in Customer
          /\ outstanding[CustomerOf[q]] \in Nat /\ CreditLimit[CustomerOf[q]] \in Nat
          /\ Credit[q] \in Nat
      BY <2>3 DEF ConstantsAssumption, TypeOK
    <3>2. pc[q] \in Writing \/ ~ExceedsLimit(q)
      BY <1>2, <2>2, <2>3
    <3>3. QED
      BY <2>1, <2>3, <3>1, <3>2 DEF CreditInv, ExceedsLimit
  <2>4. QED
    BY <1>4, <2>1, <2>3 DEF CreditInv, CreditLimitHolds
<1>6. CASE Commit(r)
  <2>1. /\ pc[r] = "commit" /\ pc'[r] = "done"
        /\ \A c \in Customer : outstanding'[c] =
              IF c = CustomerOf[r] THEN outstanding[c] + Credit[r] ELSE outstanding[c]
    BY <1>6, CommitEffect
  <2>2. ASSUME NEW q \in Request, pc'[q] \in Writing, Credit[q] > 0,
               CreditLimit[CustomerOf[q]] > 0
        PROVE  outstanding'[CustomerOf[q]] + Credit[q] <= CreditLimit[CustomerOf[q]]
    <3>1. CustomerOf[q] \in Customer /\ CustomerOf[q] # None
      BY <2>2 DEF ConstantsAssumption
    <3>2. q # r /\ pc[q] \in Writing
      BY <1>2, <2>1, <2>2
    <3>3. CustomerOf[q] # CustomerOf[r]
      BY <2>1, <3>1, <3>2 DEF CreditInv
    <3>4. outstanding'[CustomerOf[q]] = outstanding[CustomerOf[q]]
      BY <2>1, <3>1, <3>3
    <3>5. QED
      BY <2>2, <3>2, <3>4 DEF CreditInv
  <2>3. ASSUME NEW c \in Customer, CreditLimit[c] > 0
        PROVE  outstanding'[c] <= CreditLimit[c]
    <3>1. outstanding[c] \in Nat /\ CreditLimit[c] \in Nat /\ Credit[r] \in Nat
      BY DEF TypeOK, ConstantsAssumption
    <3>2. outstanding[c] <= CreditLimit[c]
      BY <2>3 DEF CreditLimitHolds
    <3>3. CASE c = CustomerOf[r] /\ Credit[r] > 0
      BY <2>1, <2>3, <3>3 DEF CreditInv
    <3>4. CASE ~(c = CustomerOf[r] /\ Credit[r] > 0)
      BY <2>1, <3>1, <3>2, <3>4
    <3>5. QED
      BY <3>3, <3>4
  <2>4. QED
    BY <1>4, <2>2, <2>3 DEF CreditInv, CreditLimitHolds
<1>7. QED
  BY <1>5, <1>6

\* The numbers below n, and n.
LEMMA OneMore ==
    ASSUME NEW n \in Nat, n > 0
    PROVE  (1 .. n - 1) \cup {n} = 1 .. (n + 1) - 1
  OBVIOUS

\* The counter stays locked from the draw to the commit, so the number drawn
\* is still the next one when the sale commits, and a number that is drawn for
\* nothing is drawn again.
LEMMA InvoicePreserved ==
    ASSUME ConstantsAssumption, TypeOK, KeyInv, InvoiceInv, InvoicesRunWithoutGap,
           NEW r \in Request, StepOf(r)
    PROVE  InvoiceInv' /\ InvoicesRunWithoutGap'
<1> USE DEF HoldsCounter, Numbered, Writing
<1>1. Others(r) /\ (~Commit(r) => UNCHANGED central)
  BY OthersStay
<1>2. \A q \in Request : q # r => pc'[q] = pc[q] /\ number'[q] = number[q]
  BY <1>1 DEF Others
<1>3. pc'[r] \in Numbered => pc[r] \in Numbered \/ CounterFree(r)
  BY DEF StepOf, Ends, Walks, Moves, LockStock, NextInvoice, Goto, Commit, Answer, TypeOK
<1>4. ASSUME NEW p \in Request, NEW q \in Request,
             HoldsCounter(p)', HoldsCounter(q)', CounterOf[p] = CounterOf[q]
      PROVE  p = q
  <2>1. CASE p # r /\ q # r
    BY <1>2, <1>4, <2>1 DEF InvoiceInv
  <2>2. CASE p = r /\ q # r
    BY <1>2, <1>3, <1>4, <2>2 DEF InvoiceInv, CounterFree
  <2>3. CASE p # r /\ q = r
    BY <1>2, <1>3, <1>4, <2>3 DEF InvoiceInv, CounterFree
  <2>4. QED
    BY <2>1, <2>2, <2>3
<1>5. r \notin sold
  <2>1. pc[r] # "done"
    BY DEF StepOf, Ends, Walks, Moves, LockStock, NextInvoice, Commit
  <2>2. QED
    BY <2>1 DEF KeyInv
<1>6. \A q \in sold : q # r /\ q \in Request /\ number'[q] = number[q]
  BY <1>2, <1>5 DEF TypeOK
<1>7. CASE ~Commit(r)
  <2>1. UNCHANGED <<sold, nextValue>>
    BY <1>1, <1>7 DEF central
  <2>2. pc'[r] \in Numbered => number'[r] = nextValue[CounterOf[r]]
    BY <1>7 DEF StepOf, Ends, Walks, Moves, LockStock, NextInvoice, Goto, TypeOK, InvoiceInv
  <2>3. \A q \in Request : HoldsCounter(q)' => number'[q] = nextValue'[CounterOf[q]]
    BY <1>2, <2>1, <2>2 DEF InvoiceInv
  <2>4. pc'[r] = "commit" => /\ number'[r] = number[r]
                             /\ \A q \in Request \ {r} :
                                   SameInvoice(r, q) => q \notin sold /\ pc[q] # "commit"
    BY <1>7 DEF StepOf, Ends, Walks, Moves, LockStock, NextInvoice, Goto, TypeOK, InvoiceInv
  <2>5. ASSUME NEW p \in Request, pc'[p] = "commit", NEW q \in Request \ {p},
               SameInvoice(p, q)'
        PROVE  q \notin sold' /\ pc'[q] # "commit"
    <3>1. CASE p = r
      BY <1>2, <2>1, <2>4, <2>5, <3>1 DEF SameInvoice
    <3>2. CASE p # r /\ q # r
      BY <1>2, <2>1, <2>5, <3>2 DEF SameInvoice, InvoiceInv
    <3>3. CASE p # r /\ q = r
      <4>1. pc[p] = "commit"
        BY <1>2, <2>5, <3>3
      <4>2. pc'[r] # "commit"
        BY <1>2, <2>4, <2>5, <3>3, <4>1 DEF SameInvoice
      <4>3. QED
        BY <1>5, <2>1, <3>3, <4>2
    <3>4. QED
      BY <3>1, <3>2, <3>3
  <2>6. \A c \in Counter : nextValue'[c] > 0
    BY <2>1 DEF InvoiceInv
  <2>7. InvoiceInv'
    BY <1>4, <2>3, <2>5, <2>6 DEF InvoiceInv
  <2>8. \A p, q \in sold' : SameInvoice(p, q)' => p = q
    BY <1>6, <2>1 DEF SameInvoice, InvoicesRunWithoutGap
  <2>9. ASSUME NEW c \in Counter
        PROVE  {number'[q] : q \in {s \in sold' : CounterOf[s] = c}} = 1 .. nextValue'[c] - 1
    <3> DEFINE S == {s \in sold : CounterOf[s] = c}
    <3>1. {number'[q] : q \in {s \in sold' : CounterOf[s] = c}} =
             {number[q] : q \in {s \in sold : CounterOf[s] = c}}
      <4>1. {s \in sold' : CounterOf[s] = c} = S
        BY <2>1
      <4>2. \A q \in S : number'[q] = number[q]
        BY <1>6
      <4> HIDE DEF S
      <4>3. {number'[q] : q \in S} = {number[q] : q \in S}
        <5>1. \A x : x \in {number'[q] : q \in S} <=> x \in {number[q] : q \in S}
          <6>1. TAKE x
          <6>2. (\E q \in S : x = number'[q]) <=> (\E q \in S : x = number[q])
            BY <4>2
          <6>3. QED
            BY <6>2
        <5>2. QED
          BY <5>1
      <4>4. {number'[q] : q \in {s \in sold' : CounterOf[s] = c}} = {number'[q] : q \in S}
        BY <4>1
      <4>5. QED
        BY <4>3, <4>4 DEF S
    <3>2. QED
      BY <2>1, <3>1 DEF InvoicesRunWithoutGap
  <2>10. QED
    BY <2>7, <2>8, <2>9 DEF InvoicesRunWithoutGap
<1>8. CASE Commit(r)
  <2>1. /\ pc[r] = "commit" /\ pc'[r] = "done" /\ number' = number
        /\ sold' = sold \cup {r}
        /\ \A c \in Counter : nextValue'[c] =
              IF c = CounterOf[r] THEN number[r] + 1 ELSE nextValue[c]
    BY <1>8, CommitEffect
  <2>2. number[r] = nextValue[CounterOf[r]] /\ CounterOf[r] \in Counter
    BY <2>1 DEF InvoiceInv, ConstantsAssumption
  <2>3. \A q \in sold : ~SameInvoice(r, q) /\ ~SameInvoice(q, r)
    BY <1>6, <2>1 DEF InvoiceInv, SameInvoice
  <2>4. ASSUME NEW q \in Request, HoldsCounter(q)'
        PROVE  number'[q] = nextValue'[CounterOf[q]]
    <3>1. q # r /\ pc[q] \in Numbered
      BY <1>2, <2>1, <2>4
    <3>2. CounterOf[q] # CounterOf[r] /\ CounterOf[q] \in Counter
      BY <2>1, <3>1 DEF InvoiceInv, ConstantsAssumption
    <3>3. QED
      BY <2>1, <3>1, <3>2 DEF InvoiceInv
  <2>5. ASSUME NEW p \in Request, pc'[p] = "commit", NEW q \in Request \ {p},
               SameInvoice(p, q)'
        PROVE  q \notin sold' /\ pc'[q] # "commit"
    <3>1. p # r /\ pc[p] = "commit" /\ SameInvoice(p, q)
      BY <1>2, <2>1, <2>5 DEF SameInvoice
    <3>2. q \notin sold /\ pc[q] # "commit"
      BY <3>1 DEF InvoiceInv
    <3>3. q # r
      BY <2>1, <3>2
    <3>4. QED
      BY <1>2, <2>1, <3>2, <3>3
  <2>6. ASSUME NEW c \in Counter
        PROVE  nextValue'[c] > 0
    <3>1. nextValue[c] \in Nat /\ nextValue[c] > 0
      BY DEF InvoiceInv, TypeOK
    <3>2. nextValue'[c] = nextValue[c] + 1 \/ nextValue'[c] = nextValue[c]
      BY <2>1, <2>2
    <3>3. QED
      BY <3>1, <3>2
  <2>7. InvoiceInv'
    BY <1>4, <2>4, <2>5, <2>6 DEF InvoiceInv
  <2>8. \A p, q \in sold' : SameInvoice(p, q)' => p = q
    BY <1>6, <2>1, <2>3 DEF SameInvoice, InvoicesRunWithoutGap
  <2>9. ASSUME NEW c \in Counter
        PROVE  {number'[q] : q \in {s \in sold' : CounterOf[s] = c}} = 1 .. nextValue'[c] - 1
    <3>1. {number[q] : q \in {s \in sold : CounterOf[s] = c}} = 1 .. nextValue[c] - 1
      BY DEF InvoicesRunWithoutGap
    <3>2. CASE c # CounterOf[r]
      <4>1. {s \in sold' : CounterOf[s] = c} = {s \in sold : CounterOf[s] = c}
        BY <2>1, <3>2
      <4>2. QED
        BY <2>1, <3>1, <3>2, <4>1
    <3>3. CASE c = CounterOf[r]
      <4>1. {s \in sold' : CounterOf[s] = c} = {s \in sold : CounterOf[s] = c} \cup {r}
        BY <2>1, <3>3
      <4>2. {number'[q] : q \in {s \in sold' : CounterOf[s] = c}} =
               {number[q] : q \in {s \in sold : CounterOf[s] = c}} \cup {number[r]}
        BY <2>1, <4>1
      <4>3. nextValue[c] \in Nat /\ nextValue[c] > 0 /\ number[r] = nextValue[c]
        BY <2>2, <3>3 DEF TypeOK, InvoiceInv
      <4>4. nextValue'[c] = nextValue[c] + 1
        BY <2>1, <3>3, <4>3
      <4>5. (1 .. nextValue[c] - 1) \cup {nextValue[c]} = 1 .. nextValue'[c] - 1
        BY <4>3, <4>4, OneMore
      <4>6. QED
        BY <3>1, <4>2, <4>3, <4>5
    <3>4. QED
      BY <3>2, <3>3
  <2>10. QED
    BY <2>7, <2>8, <2>9 DEF InvoicesRunWithoutGap
<1>9. QED
  BY <1>7, <1>8

-----------------------------------------------------------------------------
(* The theorems.                                                           *)

LEMMA NextPreserves ==
    ASSUME ConstantsAssumption, IInv, [Next]_vars
    PROVE  IInv'
<1>1. CASE Next
  <2>1. PICK r \in Request : StepOf(r)
    BY <1>1, NextIsStepOf DEF IInv
  <2>2. TypeOK'
    BY TypePreserved DEF IInv
  <2>3. KeyInv' /\ KeyedAnswersAreTrue'
    BY <2>1, KeyPreserved, AnswersPreserved DEF IInv
  <2>4. StockInv'
    BY <2>1, StockPreserved DEF IInv
  <2>5. CreditInv' /\ CreditLimitHolds'
    BY <2>1, CreditPreserved DEF IInv
  <2>6. InvoiceInv' /\ InvoicesRunWithoutGap'
    BY <2>1, InvoicePreserved DEF IInv
  <2>7. QED
    BY <2>2, <2>3, <2>4, <2>5, <2>6 DEF IInv
<1>2. CASE UNCHANGED vars
  <2> USE <1>2 DEF vars, request, central, IInv
  <2>1. TypeOK'
    BY DEF TypeOK
  <2>2. KeyInv' /\ KeyedAnswersAreTrue'
    BY DEF KeyInv, KeyedAnswersAreTrue, HoldsKey
  <2>3. StockInv'
    BY DEF StockInv
  <2>4. CreditInv' /\ CreditLimitHolds'
    BY DEF CreditInv, CreditLimitHolds, HoldsCustomer
  <2>5. InvoiceInv'
    BY DEF InvoiceInv, HoldsCounter, SameInvoice
  <2>6. InvoicesRunWithoutGap'
    BY DEF InvoicesRunWithoutGap, SameInvoice
  <2>7. QED
    BY <2>1, <2>2, <2>3, <2>4, <2>5, <2>6
<1>3. QED
  BY <1>1, <1>2

\* The invariant holds in every state of every checkout, for any number of
\* requests, customers, counters and products.
THEOREM InductiveInvariant ==
    ASSUME ConstantsAssumption
    PROVE  Spec => []IInv
<1>1. Init => IInv
  BY InitEstablishes
<1>2. IInv /\ [Next]_vars => IInv'
  BY NextPreserves
<1>3. QED
  BY <1>1, <1>2, PTL DEF Spec

\* Every variable keeps its type; in particular completeSale never commits a
\* negative quantity.
THEOREM TypeCorrectness ==
    ASSUME ConstantsAssumption
    PROVE  Spec => []TypeOK
<1>1. IInv => TypeOK
  BY DEF IInv
<1>2. QED
  BY <1>1, InductiveInvariant, PTL

\* However often and at once a checkout is sent, its key makes one sale.
THEOREM KeysSellOnce ==
    ASSUME ConstantsAssumption
    PROVE  Spec => []OneSalePerKey
<1>1. IInv => OneSalePerKey
  BY DEF IInv, KeyInv, OneSalePerKey
<1>2. QED
  BY <1>1, InductiveInvariant, PTL

\* A keyed request is only ever shown the committed sale of its key and its
\* payload, and refused as a conflict only for another payload.
THEOREM KeyedAnswersTrue ==
    ASSUME ConstantsAssumption
    PROVE  Spec => []KeyedAnswersAreTrue
<1>1. IInv => KeyedAnswersAreTrue
  BY DEF IInv
<1>2. QED
  BY <1>1, InductiveInvariant, PTL

\* Credit sales at the same time never take a customer above the limit.
THEOREM CreditStaysInLimit ==
    ASSUME ConstantsAssumption
    PROVE  Spec => []CreditLimitHolds
<1>1. IInv => CreditLimitHolds
  BY DEF IInv
<1>2. QED
  BY <1>1, InductiveInvariant, PTL

\* The invoices of a counter run 1, 2, 3, ... whatever fails in between.
THEOREM InvoicesGapless ==
    ASSUME ConstantsAssumption
    PROVE  Spec => []InvoicesRunWithoutGap
<1>1. IInv => InvoicesRunWithoutGap
  BY DEF IInv
<1>2. QED
  BY <1>1, InductiveInvariant, PTL

-----------------------------------------------------------------------------
(* The cash drawer.                                                        *)

LEMMA InitDrawerInv == DrawerInit => DrawerInv
  BY DrawerAssumption
     DEF DrawerInit, DrawerInv, DrawerTypeOK, SessionInv, OneOpenSession, PostInv, CloseInv, QuietInv,
         IsOpen, BeingClosed, InFlight, Session, Totals

LEMMA TypeStep ==
    ASSUME DrawerInv, [DrawerNext]_drawerVars
    PROVE  DrawerTypeOK'
<1> USE DrawerAssumption DEF DrawerInv, DrawerTypeOK
<1>1. ASSUME NEW o \in Opener, GetCurrentCashSession(o) PROVE DrawerTypeOK'
  BY <1>1 DEF GetCurrentCashSession, closeVars, postVars
<1>2. ASSUME NEW o \in Opener, InsertSession(o) PROVE DrawerTypeOK'
  <2>1. opened' \in 0..MaxSessions
    BY <1>2 DEF InsertSession
  <2>2. status' \in [Session -> {"ABSENT", "OPEN", "CLOSED"}]
    BY <1>2 DEF InsertSession
  <2> QED  BY <1>2, <2>1, <2>2 DEF InsertSession, closeVars, postVars
<1>3. ASSUME NEW o \in Opener, InsertFails(o) PROVE DrawerTypeOK'
  BY <1>3 DEF InsertFails, closeVars, postVars
<1>4. ASSUME NEW p \in Posting, NEW s \in Session, FindSession(p, s) PROVE DrawerTypeOK'
  <2>1. rowLock' \in [Session -> Posting \cup {Null}]
    BY <1>4 DEF FindSession, LockSession
  <2> QED  BY <1>4, <2>1 DEF FindSession, closeVars
<1>5. ASSUME NEW p \in Posting, FindNoSession(p) PROVE DrawerTypeOK'
  BY <1>5 DEF FindNoSession, closeVars
<1>6. ASSUME NEW p \in Posting, PostMovement(p) PROVE DrawerTypeOK'
  BY <1>6 DEF PostMovement, Unlocked, closeVars
<1>7. ASSUME NEW p \in Posting, RollBackPosting(p) PROVE DrawerTypeOK'
  BY <1>7 DEF RollBackPosting, Unlocked, closeVars
<1>8. ASSUME NEW c \in Closer, NEW s \in Session, ReadSession(c, s) PROVE DrawerTypeOK'
  BY <1>8 DEF ReadSession, postVars
<1>9. ASSUME NEW c \in Closer, SumMovements(c) PROVE DrawerTypeOK'
  <2>1. closing[c] \in Session
    BY <1>9 DEF SumMovements, CloseInv
  <2> QED  BY <1>9, <2>1 DEF SumMovements, SumOf, DrawerTotal, MovementsOf, Totals, postVars
<1>10. ASSUME NEW c \in Closer, UpdateSession(c) PROVE DrawerTypeOK'
  BY <1>10 DEF UpdateSession, postVars
<1>11. ASSUME NEW c \in Closer, CloseFails(c) PROVE DrawerTypeOK'
  BY <1>11 DEF CloseFails, postVars
<1>12. CASE UNCHANGED drawerVars
  BY <1>12 DEF drawerVars, closeVars, postVars
<1> QED
  BY <1>1, <1>2, <1>3, <1>4, <1>5, <1>6, <1>7, <1>8, <1>9, <1>10, <1>11, <1>12 DEF DrawerNext

LEMMA SessionStep == DrawerInv /\ [DrawerNext]_drawerVars => SessionInv'
<1> SUFFICES ASSUME DrawerInv, [DrawerNext]_drawerVars PROVE SessionInv'
  OBVIOUS
<1> USE DrawerAssumption DEF SessionInv, OneOpenSession, IsOpen
<1>0. DrawerTypeOK /\ SessionInv
  BY DEF DrawerInv
<1>1. ASSUME NEW o \in Opener, InsertSession(o) PROVE SessionInv'
  <2>1. \A s \in Session : status'[s] = IF s = opened + 1 THEN "OPEN" ELSE status[s]
    BY <1>0, <1>1 DEF InsertSession, DrawerTypeOK
  <2>2. \A s \in Session : status[s] # "OPEN"
    BY <1>1 DEF InsertSession, UniqueIndexAllows, NoneOpen
  <2>3. opened' = opened + 1
    BY <1>1 DEF InsertSession
  <2> QED  BY <1>0, <2>1, <2>2, <2>3 DEF Session, DrawerTypeOK
<1>2. ASSUME NEW c \in Closer, UpdateSession(c) PROVE SessionInv'
  <2>1. closing[c] \in Session /\ status[closing[c]] # "ABSENT"
    BY <1>0, <1>2 DEF UpdateSession, DrawerInv, CloseInv, DrawerTypeOK
  <2>2. \A s \in Session : status'[s] = IF s = closing[c] THEN "CLOSED" ELSE status[s]
    BY <1>0, <1>2, <2>1 DEF UpdateSession, DrawerTypeOK
  <2> QED  BY <1>0, <1>2, <2>1, <2>2 DEF UpdateSession
<1>3. CASE UNCHANGED <<status, opened>>
  BY <1>0, <1>3
<1> QED
  BY <1>1, <1>2, <1>3
     DEF DrawerNext, drawerVars, closeVars, postVars, GetCurrentCashSession, InsertFails, FindSession,
         FindNoSession, PostMovement, RollBackPosting, ReadSession, SumMovements, CloseFails

LEMMA PostStep == DrawerInv /\ [DrawerNext]_drawerVars => PostInv'
<1> SUFFICES ASSUME DrawerInv, [DrawerNext]_drawerVars PROVE PostInv'
  OBVIOUS
<1> USE DrawerAssumption DEF PostInv, IsOpen
<1>0. DrawerTypeOK /\ PostInv
  BY DEF DrawerInv
<1>1. ASSUME NEW o \in Opener, InsertSession(o) PROVE PostInv'
  <2>1. \A s \in Session : status[s] = "OPEN" => status'[s] = "OPEN"
    BY <1>0, <1>1 DEF InsertSession, DrawerTypeOK
  <2> QED  BY <1>0, <1>1, <2>1 DEF InsertSession, postVars
<1>2. ASSUME NEW p \in Posting, NEW s \in Session, FindSession(p, s) PROVE PostInv'
  <2>1. /\ \A q \in Posting : postPhase'[q] = IF q = p THEN "found" ELSE postPhase[q]
        /\ \A q \in Posting : session'[q] = IF q = p THEN s ELSE session[q]
    BY <1>0, <1>2 DEF FindSession, DrawerTypeOK
  <2>2. CASE Kind[p] = "expense"
    <3>1. rowLock[s] = Null /\ \A r \in Session : rowLock'[r] = IF r = s THEN p ELSE rowLock[r]
      BY <1>0, <1>2, <2>2 DEF FindSession, LockSession, DrawerTypeOK
    <3> QED  BY <1>0, <1>2, <2>1, <3>1 DEF FindSession
  <2>3. CASE Kind[p] # "expense"
    BY <1>0, <1>2, <2>1, <2>3 DEF FindSession, LockSession
  <2> QED  BY <2>2, <2>3
<1>3. ASSUME NEW p \in Posting, FindNoSession(p) PROVE PostInv'
  <2>1. \A q \in Posting : q # p => postPhase'[q] = postPhase[q]
    BY <1>0, <1>3 DEF FindNoSession, DrawerTypeOK
  <2>2. Kind[p] = "expense" => postPhase'[p] = "refused"
    BY <1>0, <1>3 DEF FindNoSession, DrawerTypeOK
  <2> QED  BY <1>0, <1>3, <2>1, <2>2 DEF FindNoSession
<1>4. ASSUME NEW p \in Posting, PostMovement(p) \/ RollBackPosting(p) PROVE PostInv'
  <2>1. \A q \in Posting : q # p => postPhase'[q] = postPhase[q]
    BY <1>0, <1>4 DEF PostMovement, RollBackPosting, DrawerTypeOK
  <2>2. postPhase'[p] \in {"posted", "refused"}
    BY <1>0, <1>4 DEF PostMovement, RollBackPosting, DrawerTypeOK
  <2>3. \A s \in Session : rowLock'[s] = IF rowLock[s] = p THEN Null ELSE rowLock[s]
    BY <1>4 DEF PostMovement, RollBackPosting, Unlocked
  <2>4. UNCHANGED <<session, status>>
    BY <1>4 DEF PostMovement, RollBackPosting
  <2> QED  BY <1>0, <2>1, <2>2, <2>3, <2>4
<1>5. ASSUME NEW c \in Closer, UpdateSession(c) PROVE PostInv'
  <2>1. \A s \in Session : s # closing[c] => status'[s] = status[s]
    BY <1>0, <1>5 DEF UpdateSession, DrawerTypeOK
  <2>2. rowLock[closing[c]] = Null
    BY <1>5 DEF UpdateSession
  <2> QED  BY <1>0, <1>5, <2>1, <2>2 DEF UpdateSession, postVars
<1>6. CASE UNCHANGED <<status, postVars>>
  BY <1>0, <1>6 DEF postVars
<1> QED
  BY <1>1, <1>2, <1>3, <1>4, <1>5, <1>6
     DEF DrawerNext, drawerVars, GetCurrentCashSession, InsertFails, ReadSession, SumMovements, CloseFails

LEMMA CloseStep == DrawerInv /\ [DrawerNext]_drawerVars => CloseInv'
<1> SUFFICES ASSUME DrawerInv, [DrawerNext]_drawerVars PROVE CloseInv'
  OBVIOUS
<1> USE DrawerAssumption DEF CloseInv
<1>0. DrawerTypeOK /\ CloseInv
  BY DEF DrawerInv
<1>1. ASSUME NEW o \in Opener, InsertSession(o) PROVE CloseInv'
  <2>1. \A s \in Session : status[s] # "ABSENT" => status'[s] # "ABSENT"
    BY <1>0, <1>1 DEF InsertSession, DrawerTypeOK
  <2> QED  BY <1>0, <1>1, <2>1 DEF InsertSession, closeVars, DrawerTypeOK
<1>2. ASSUME NEW c \in Closer, NEW s \in Session, ReadSession(c, s) PROVE CloseInv'
  <2>1. /\ \A d \in Closer : closePhase'[d] = IF d = c THEN "read" ELSE closePhase[d]
        /\ \A d \in Closer : closing'[d] = IF d = c THEN s ELSE closing[d]
    BY <1>0, <1>2 DEF ReadSession, DrawerTypeOK
  <2> QED  BY <1>0, <1>2, <2>1 DEF ReadSession, IsOpen
<1>3. ASSUME NEW c \in Closer, SumMovements(c) PROVE CloseInv'
  <2>1. \A d \in Closer : closePhase'[d] = "idle" <=> closePhase[d] = "idle"
    BY <1>0, <1>3 DEF SumMovements, DrawerTypeOK
  <2> QED  BY <1>0, <1>3, <2>1 DEF SumMovements
<1>4. ASSUME NEW c \in Closer, UpdateSession(c) PROVE CloseInv'
  <2>1. /\ \A d \in Closer : closePhase'[d] = IF d = c THEN "idle" ELSE closePhase[d]
        /\ \A d \in Closer : closing'[d] = IF d = c THEN Null ELSE closing[d]
    BY <1>0, <1>4 DEF UpdateSession, DrawerTypeOK
  <2>2. \A s \in Session : status[s] # "ABSENT" => status'[s] # "ABSENT"
    BY <1>0, <1>4 DEF UpdateSession, DrawerTypeOK
  <2> QED  BY <1>0, <2>1, <2>2 DEF DrawerTypeOK
<1>5. ASSUME NEW c \in Closer, CloseFails(c) PROVE CloseInv'
  <2>1. /\ \A d \in Closer : closePhase'[d] = IF d = c THEN "idle" ELSE closePhase[d]
        /\ \A d \in Closer : closing'[d] = IF d = c THEN Null ELSE closing[d]
    BY <1>0, <1>5 DEF CloseFails, DrawerTypeOK
  <2> QED  BY <1>0, <1>5, <2>1 DEF CloseFails
<1>6. CASE UNCHANGED <<status, closeVars>>
  BY <1>0, <1>6 DEF closeVars
<1> QED
  BY <1>1, <1>2, <1>3, <1>4, <1>5, <1>6
     DEF DrawerNext, drawerVars, GetCurrentCashSession, InsertFails, FindSession, FindNoSession,
         PostMovement, RollBackPosting

\* A step that leaves the movements of a session alone leaves its total alone.
LEMMA SameTotal ==
    ASSUME NEW s \in Session,
           \A q \in Posting : postPhase'[q] = "posted" /\ session'[q] = s
                               <=> postPhase[q] = "posted" /\ session[q] = s
    PROVE  DrawerTotal(s)' = DrawerTotal(s)
<1>1. MovementsOf(s)' = MovementsOf(s)
  BY DEF MovementsOf
<1> QED  BY <1>1 DEF DrawerTotal

LEMMA QuietStep == DrawerInv /\ [DrawerNext]_drawerVars => QuietInv'
<1> SUFFICES ASSUME DrawerInv, [DrawerNext]_drawerVars, NEW s \in Session, s \notin disturbed'
             PROVE  /\ \A c, d \in BeingClosed(s)' : c = d
                    /\ BeingClosed(s)' # {} => IsOpen(s)' /\ InFlight(s)' = {}
                    /\ \A c \in BeingClosed(s)' :
                          closePhase'[c] = "summed" => sum'[c] = DrawerTotal(s)'
                    /\ status'[s] = "CLOSED" =>
                          InFlight(s)' = {} /\ expected'[s] = DrawerTotal(s)'
  BY DEF QuietInv
<1> DEFINE Quiet == /\ \A c, d \in BeingClosed(s) : c = d
                    /\ BeingClosed(s) # {} => IsOpen(s) /\ InFlight(s) = {}
                    /\ \A c \in BeingClosed(s) :
                          closePhase[c] = "summed" => sum[c] = DrawerTotal(s)
                    /\ status[s] = "CLOSED" =>
                          InFlight(s) = {} /\ expected[s] = DrawerTotal(s)
<1> USE DrawerAssumption
<1>0. /\ DrawerTypeOK /\ SessionInv /\ PostInv /\ CloseInv
      /\ disturbed \subseteq disturbed' => Quiet
  BY DEF DrawerInv, QuietInv
<1>1. ASSUME UNCHANGED <<expected, closeVars, postPhase, session, disturbed>>,
             UNCHANGED status \/ \E o \in Opener : InsertSession(o)
      PROVE  Quiet'
  <2>1. DrawerTotal(s)' = DrawerTotal(s) /\ BeingClosed(s)' = BeingClosed(s)
          /\ InFlight(s)' = InFlight(s)
    BY <1>1, SameTotal DEF BeingClosed, InFlight, closeVars
  <2>2. Quiet
    BY <1>0, <1>1
  <2>3. status'[s] # status[s] => status'[s] = "OPEN" /\ status[s] = "ABSENT"
    BY <1>0, <1>1 DEF InsertSession, DrawerTypeOK, SessionInv
  <2> QED  BY <1>1, <2>1, <2>2, <2>3 DEF closeVars, IsOpen
<1>2. ASSUME NEW p \in Posting, NEW r \in Session, FindSession(p, r) PROVE Quiet'
  <2>1. /\ \A q \in Posting : postPhase'[q] = IF q = p THEN "found" ELSE postPhase[q]
        /\ \A q \in Posting : session'[q] = IF q = p THEN r ELSE session[q]
    BY <1>0, <1>2 DEF FindSession, DrawerTypeOK
  <2>2. DrawerTotal(s)' = DrawerTotal(s)
    BY <1>2, <2>1, SameTotal DEF FindSession
  <2>3. BeingClosed(s)' = BeingClosed(s) /\ UNCHANGED <<status, expected, closePhase, sum>>
    BY <1>2 DEF FindSession, BeingClosed, closeVars
  <2>4. Quiet
    BY <1>0, <1>2 DEF FindSession
  <2>5. CASE s = r
    <3>1. BeingClosed(s) = {} /\ status[s] = "OPEN"
      BY <1>2, <2>5 DEF FindSession, IsOpen
    <3> QED  BY <2>3, <3>1
  <2>6. CASE s # r
    <3>1. InFlight(s)' = InFlight(s)
      BY <1>0, <1>2, <2>1, <2>6 DEF InFlight, FindSession
    <3> QED  BY <2>2, <2>3, <2>4, <3>1 DEF IsOpen
  <2> QED  BY <2>5, <2>6
<1>3. ASSUME NEW p \in Posting, FindNoSession(p) PROVE Quiet'
  <2>1. \A q \in Posting : q # p => postPhase'[q] = postPhase[q]
    BY <1>0, <1>3 DEF FindNoSession, DrawerTypeOK
  <2>2. session[p] = Null /\ session' = session
    BY <1>0, <1>3 DEF FindNoSession, PostInv
  <2>3. DrawerTotal(s)' = DrawerTotal(s)
    BY <2>1, <2>2, SameTotal
  <2>4. InFlight(s)' = InFlight(s)
    BY <2>1, <2>2 DEF InFlight
  <2>5. BeingClosed(s)' = BeingClosed(s) /\ UNCHANGED <<status, expected, closePhase, sum>>
    BY <1>3 DEF FindNoSession, BeingClosed, closeVars
  <2> QED  BY <1>0, <1>3, <2>3, <2>4, <2>5 DEF FindNoSession, IsOpen
<1>4. ASSUME NEW p \in Posting, PostMovement(p) \/ RollBackPosting(p) PROVE Quiet'
  <2>1. \A q \in Posting : q # p => postPhase'[q] = postPhase[q]
    BY <1>0, <1>4 DEF PostMovement, RollBackPosting, DrawerTypeOK
  <2>2. session' = session /\ postPhase[p] = "found" /\ postPhase'[p] \in {"posted", "refused"}
    BY <1>0, <1>4 DEF PostMovement, RollBackPosting, DrawerTypeOK
  <2>3. InFlight(s)' \subseteq InFlight(s)
    BY <2>1, <2>2 DEF InFlight
  <2>4. InFlight(s) = {} => DrawerTotal(s)' = DrawerTotal(s)
    BY <2>1, <2>2, SameTotal DEF InFlight
  <2>5. BeingClosed(s)' = BeingClosed(s) /\ UNCHANGED <<status, expected, closePhase, sum, disturbed>>
    BY <1>4 DEF PostMovement, RollBackPosting, BeingClosed, closeVars
  <2> QED  BY <1>0, <2>3, <2>4, <2>5 DEF IsOpen
<1>5. ASSUME NEW c \in Closer, NEW r \in Session, ReadSession(c, r) PROVE Quiet'
  <2>1. /\ \A d \in Closer : closePhase'[d] = IF d = c THEN "read" ELSE closePhase[d]
        /\ \A d \in Closer : closing'[d] = IF d = c THEN r ELSE closing[d]
    BY <1>0, <1>5 DEF ReadSession, DrawerTypeOK
  <2>2. DrawerTotal(s)' = DrawerTotal(s) /\ InFlight(s)' = InFlight(s)
          /\ UNCHANGED <<status, expected, sum>>
    BY <1>5, SameTotal DEF ReadSession, InFlight, postVars
  <2>3. closing[c] = Null
    BY <1>0, <1>5 DEF ReadSession, CloseInv
  <2>4. Quiet
    BY <1>0, <1>5 DEF ReadSession
  <2>5. CASE s = r
    <3>1. BeingClosed(s) = {} /\ InFlight(s) = {} /\ status[s] = "OPEN"
      BY <1>5, <2>5 DEF ReadSession, IsOpen
    <3>2. \A d \in BeingClosed(s)' : d = c /\ closePhase'[d] = "read"
      BY <2>1, <3>1 DEF BeingClosed
    <3> QED  BY <2>2, <3>1, <3>2 DEF IsOpen
  <2>6. CASE s # r
    <3>1. BeingClosed(s)' = BeingClosed(s)
      BY <2>1, <2>3, <2>6 DEF BeingClosed
    <3>2. \A d \in BeingClosed(s) : closePhase'[d] = closePhase[d]
      BY <2>1, <2>3 DEF BeingClosed
    <3> QED  BY <2>2, <2>4, <3>1, <3>2 DEF IsOpen
  <2> QED  BY <2>5, <2>6
<1>6. ASSUME NEW c \in Closer, SumMovements(c) PROVE Quiet'
  <2>1. /\ \A d \in Closer : sum'[d] = IF d = c THEN DrawerTotal(closing[c]) ELSE sum[d]
        /\ \A d \in Closer : d # c => closePhase'[d] = closePhase[d]
    BY <1>0, <1>6 DEF SumMovements, SumOf, DrawerTypeOK
  <2>2. DrawerTotal(s)' = DrawerTotal(s) /\ InFlight(s)' = InFlight(s)
          /\ UNCHANGED <<status, expected, closing>>
    BY <1>6, SameTotal DEF SumMovements, InFlight, postVars
  <2>3. BeingClosed(s)' = BeingClosed(s)
    BY <2>2 DEF BeingClosed
  <2>4. Quiet
    BY <1>0, <1>6 DEF SumMovements
  <2>5. \A d \in BeingClosed(s) : closePhase'[d] = "summed" => sum'[d] = DrawerTotal(s)
    BY <2>1, <2>4 DEF BeingClosed
  <2> QED  BY <2>2, <2>3, <2>4, <2>5 DEF IsOpen
<1>7. ASSUME NEW c \in Closer, UpdateSession(c) PROVE Quiet'
  <2>1. /\ \A d \in Closer : closing'[d] = IF d = c THEN Null ELSE closing[d]
        /\ \A d \in Closer : d # c => closePhase'[d] = closePhase[d]
    BY <1>0, <1>7 DEF UpdateSession, DrawerTypeOK
  <2>2. DrawerTotal(s)' = DrawerTotal(s) /\ InFlight(s)' = InFlight(s) /\ sum' = sum
    BY <1>7, SameTotal DEF UpdateSession, InFlight, postVars
  <2>3. Quiet
    BY <1>0, <1>7 DEF UpdateSession
  <2>4. closePhase[c] = "summed" /\ closing[c] \in Session
    BY <1>0, <1>7 DEF UpdateSession, CloseInv, DrawerTypeOK
  <2>5. CASE s = closing[c]
    <3>1. c \in BeingClosed(s) /\ InFlight(s) = {} /\ sum[c] = DrawerTotal(s)
      BY <2>3, <2>4, <2>5 DEF BeingClosed
    <3>2. BeingClosed(s)' = {}
      BY <2>1, <2>3, <2>5, <3>1 DEF BeingClosed
    <3>3. expected'[s] = sum[c]
      BY <1>0, <1>7, <2>5 DEF UpdateSession, DrawerTypeOK
    <3> QED  BY <2>2, <3>1, <3>2, <3>3
  <2>6. CASE s # closing[c]
    <3>1. BeingClosed(s)' = BeingClosed(s) /\ c \notin BeingClosed(s)
      BY <2>1, <2>6 DEF BeingClosed
    <3>2. status'[s] = status[s] /\ expected'[s] = expected[s]
      BY <1>0, <1>7, <2>6 DEF UpdateSession, DrawerTypeOK
    <3>3. \A d \in BeingClosed(s) : closePhase'[d] = closePhase[d]
      BY <2>1, <3>1 DEF BeingClosed
    <3> QED  BY <2>2, <2>3, <3>1, <3>2, <3>3 DEF IsOpen
  <2> QED  BY <2>5, <2>6
<1>8. ASSUME NEW c \in Closer, CloseFails(c) PROVE Quiet'
  <2>1. /\ \A d \in Closer : closing'[d] = IF d = c THEN Null ELSE closing[d]
        /\ \A d \in Closer : d # c => closePhase'[d] = closePhase[d]
    BY <1>0, <1>8 DEF CloseFails, DrawerTypeOK
  <2>2. DrawerTotal(s)' = DrawerTotal(s) /\ InFlight(s)' = InFlight(s)
          /\ UNCHANGED <<status, expected, sum>>
    BY <1>8, SameTotal DEF CloseFails, InFlight, postVars
  <2>3. Quiet
    BY <1>0, <1>8 DEF CloseFails
  <2>4. BeingClosed(s)' \subseteq BeingClosed(s) \ {c}
    BY <2>1 DEF BeingClosed
  <2>5. \A d \in BeingClosed(s)' : closePhase'[d] = closePhase[d]
    BY <2>1, <2>4 DEF BeingClosed
  <2> QED  BY <2>2, <2>3, <2>4, <2>5 DEF IsOpen
<1>9. Quiet'
  <2>1. ASSUME NEW o \in Opener, GetCurrentCashSession(o) \/ InsertSession(o) \/ InsertFails(o)
        PROVE  Quiet'
    BY <1>1, <2>1 DEF GetCurrentCashSession, InsertSession, InsertFails, postVars
  <2>2. CASE UNCHANGED drawerVars
    BY <1>1, <2>2 DEF drawerVars, postVars
  <2> QED
    BY <1>2, <1>3, <1>4, <1>5, <1>6, <1>7, <1>8, <2>1, <2>2 DEF DrawerNext
<1> QED  BY <1>9

-----------------------------------------------------------------------------
\* The conjunction of what openings, postings and closings keep true together.
THEOREM DrawerInvariant == DrawerSpec => []DrawerInv
<1>1. DrawerInv /\ [DrawerNext]_drawerVars => DrawerInv'
  BY TypeStep, SessionStep, PostStep, CloseStep, QuietStep DEF DrawerInv
<1> QED  BY InitDrawerInv, <1>1, PTL DEF DrawerSpec

\* Every variable keeps its type: what is recorded as expected is always a sum
\* of cash postings.
THEOREM DrawerTypeCorrectness == DrawerSpec => []DrawerTypeOK
<1>1. DrawerInv => DrawerTypeOK
  BY DEF DrawerInv
<1> QED  BY DrawerInvariant, <1>1, PTL

\* A branch never has two open sessions: the unique index catches what
\* openCashSession's look-up misses.
THEOREM NeverTwoOpen == DrawerSpec => []OneOpenSession
<1>1. DrawerInv => OneOpenSession
  BY DEF DrawerInv, SessionInv
<1> QED  BY DrawerInvariant, <1>1, PTL

\* The sum and the update of closeCashSession are right when nothing else
\* worked on the session between them, and stay right.
THEOREM QuietCloseExact == DrawerSpec => []QuietCloseIsExact
<1>1. DrawerInv => QuietCloseIsExact
  BY DEF DrawerInv, QuietInv, QuietCloseIsExact
<1> QED  BY DrawerInvariant, <1>1, PTL

\* The row lock of expenses and repairs keeps the session open until they have
\* posted.
THEOREM ExpensesMeetOpen == DrawerSpec => ExpensesMeetOpenSession
<1>1. ASSUME DrawerInv, DrawerNext, NEW p \in Posting, Posts(p), Kind[p] = "expense"
      PROVE  IsOpen(session[p])
  <2>1. postPhase[p] = "found"
    <3>1. PICK q \in Posting : PostMovement(q)
      <4>1. ASSUME NEW q \in Posting, NEW s \in Session, FindSession(q, s) PROVE FALSE
        BY <1>1, <4>1 DEF FindSession, Posts, DrawerInv, DrawerTypeOK
      <4>2. ASSUME NEW q \in Posting, FindNoSession(q) \/ RollBackPosting(q) PROVE FALSE
        BY <1>1, <4>2 DEF FindNoSession, RollBackPosting, Posts, DrawerInv, DrawerTypeOK
      <4>3. ASSUME UNCHANGED postPhase PROVE FALSE
        BY <1>1, <4>3 DEF Posts
      <4> QED
        BY <1>1, <4>1, <4>2, <4>3
           DEF DrawerNext, GetCurrentCashSession, InsertSession, InsertFails, ReadSession,
               SumMovements, UpdateSession, CloseFails, postVars
    <3> QED  BY <1>1, <3>1 DEF PostMovement, Posts, DrawerInv, DrawerTypeOK
  <2> QED  BY <1>1, <2>1 DEF DrawerInv, PostInv
<1>2. DrawerInv /\ [DrawerNext]_drawerVars
        => [\A p \in Posting : Posts(p) /\ Kind[p] = "expense" => IsOpen(session[p])]_drawerVars
  BY <1>1
<1> QED  BY DrawerInvariant, <1>2, PTL DEF DrawerSpec, ExpensesMeetOpenSession
=============================================================================
