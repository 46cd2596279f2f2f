----------------------- MODULE ReturnsExchangeProofs -----------------------
(***************************************************************************)
(* What the locks and look-ups of the routes after a sale are good for,    *)
(* for any number of requests, sales, customers and products. IInv says    *)
(* what a transaction that holds the lock of a key or of the counter may   *)
(* rely on: that its key is unused, and that its number is the next.       *)
(* TradeInv says the same of the lock of a sale (what still fits into it), *)
(* of a customer (that the balance read is the balance) and of the rows in *)
(* the order in which a loop takes them.                                   *)
(***************************************************************************)
EXTENDS ReturnsExchange, FiniteSetTheorems, SequenceTheorems, WellFoundedInduction, TLAPS

Outcomes == {"none", "done", "conflict", "refused", "failed"}

\* The part of TypeOK that the documents and the keys depend on.
DocumentTypes ==
    /\ pc \in [Request -> Pcs]
    /\ number \in [Request -> Nat]
    /\ outcome \in [Request -> Outcomes]
    /\ told \in [Request -> Request \cup {None}]
    /\ applied \in SUBSET Request
    /\ nextNumber \in Nat \ {0}
    /\ exchangeOf \in [Key -> Request \cup {None}]

\* Which requests come past a statement.
OnPath(r) ==
    /\ pc[r] = "key" => Kind[r] = "exchange"
    /\ pc[r] = "customer" => ~Returning(r)
    /\ pc[r] = "rows" => Kind[r] # "return"
    /\ pc[r] \in {"sale", "number", "header", "restore"} => Returning(r)

PathInv ==
    /\ \A r \in Request : OnPath(r)
    /\ \A r \in applied : pc[r] = "done"
    /\ \A r \in Request : pc[r] # "done" => outcome[r] = "none"

KeyInv ==
    /\ \A r, q \in Request : HoldsKey(r) /\ HoldsKey(q) /\ KeyOf[r] = KeyOf[q] => r = q
    /\ \A r \in Request : HoldsKey(r) => exchangeOf[KeyOf[r]] = None
    /\ \A r \in applied : KeyOf[r] # None => exchangeOf[KeyOf[r]] = r
    /\ \A k \in Key : exchangeOf[k] # None => exchangeOf[k] \in applied /\ KeyOf[exchangeOf[k]] = k

CounterInv ==
    /\ \A r, q \in Request : HoldsCounter(r) /\ HoldsCounter(q) => r = q
    /\ \A r \in Request : HoldsCounter(r) => number[r] = nextNumber

IInv == /\ DocumentTypes /\ PathInv
        /\ KeyInv /\ ExchangeOncePerKey
        /\ CounterInv /\ NumbersRunWithoutGap

-----------------------------------------------------------------------------
(* The steps, by what they do to keys and numbers.                         *)

\* Nobody but r moves, and r has not been answered before.
Others(r) ==
    /\ pc' \in [Request -> Pcs] /\ number' \in [Request -> Nat]
    /\ outcome' \in [Request -> Outcomes] /\ told' \in [Request -> Request \cup {None}]
    /\ pc[r] # "done" /\ OnPath(r)'
    /\ \A q \in Request : q # r => /\ pc'[q] = pc[q] /\ number'[q] = number[q]
                                   /\ outcome'[q] = outcome[q] /\ told'[q] = told[q]

\* r goes to another statement, perhaps with the lock of its key.
Walks(r) ==
    /\ Others(r) /\ UNCHANGED <<number, outcome, told, applied, nextNumber, exchangeOf>>
    /\ pc'[r] \notin {"commit", "done"}
    /\ HoldsKey(r)' => \/ HoldsKey(r)
                       \/ /\ exchangeOf[KeyOf[r]] = None
                          /\ \A q \in Request \ {r} : HoldsKey(q) => KeyOf[q] # KeyOf[r]
    /\ HoldsCounter(r)' => HoldsCounter(r)

Takes(r) ==
    /\ Others(r) /\ UNCHANGED <<outcome, told, applied, nextNumber, exchangeOf>>
    /\ pc'[r] = "header" /\ HoldsKey(r)' = HoldsKey(r)
    /\ \A q \in Request \ {r} : ~HoldsCounter(q)
    /\ number'[r] = nextNumber

Settles(r) ==
    /\ Others(r) /\ UNCHANGED <<number, outcome, told, applied, nextNumber, exchangeOf>>
    /\ pc[r] = "settle" /\ pc'[r] = "commit"

\* r ends without a commit. What it is told of an exchange is what its key
\* stands for.
Ends(r) ==
    /\ Others(r) /\ UNCHANGED <<applied, nextNumber, exchangeOf>>
    /\ pc'[r] = "done"
    /\ Kind[r] = "exchange" /\ outcome'[r] = "done" =>
          /\ exchangeOf[KeyOf[r]] # None /\ told'[r] = exchangeOf[KeyOf[r]]
          /\ Payload[told'[r]] = Payload[r]

Commits(r) ==
    /\ Others(r) /\ UNCHANGED number
    /\ pc[r] = "commit" /\ pc'[r] = "done" /\ outcome'[r] = "done"
    /\ Kind[r] = "exchange" => told'[r] = r
    /\ applied' = applied \cup {r}
    /\ nextNumber' = (IF Returning(r) THEN number[r] + 1 ELSE nextNumber)
    /\ exchangeOf' = [k \in Key |-> IF k = KeyOf[r] THEN r ELSE exchangeOf[k]]

StepOf(r) == Walks(r) \/ Takes(r) \/ Settles(r) \/ Ends(r) \/ Commits(r)

LEMMA GotoWalks ==
    ASSUME DocumentTypes, NEW r \in Request, NEW step \in Pcs \ {"commit", "done"},
           pc' = [pc EXCEPT ![r] = step], pc[r] # "done",
           UNCHANGED <<number, outcome, told, central>>,
           OnPath(r)', HoldsKey(r)' => HoldsKey(r), HoldsCounter(r)' => HoldsCounter(r)
    PROVE  Walks(r)
<1>1. pc' \in [Request -> Pcs] /\ pc'[r] = step
  BY DEF DocumentTypes
<1>2. \A q \in Request : q # r => pc'[q] = pc[q]
  BY DEF DocumentTypes
<1>3. Others(r)
  BY <1>1, <1>2 DEF Others, DocumentTypes
<1>4. QED
  BY <1>1, <1>3 DEF Walks, central

LEMMA AnsweredOthers ==
    ASSUME DocumentTypes, NEW r \in Request, pc[r] # "done",
           NEW result \in Outcomes, NEW exchange \in Request \cup {None},
           Answered(r, result, exchange),
           number' \in [Request -> Nat], \A q \in Request \ {r} : number'[q] = number[q]
    PROVE  Others(r) /\ pc'[r] = "done" /\ outcome'[r] = result /\ told'[r] = exchange
<1>1. /\ pc' = [pc EXCEPT ![r] = "done"]
      /\ outcome' = [outcome EXCEPT ![r] = result]
      /\ told' = [told EXCEPT ![r] = exchange]
  BY DEF Answered, Goto
<1>2. pc' \in [Request -> Pcs] /\ pc'[r] = "done" /\ \A q \in Request : q # r => pc'[q] = pc[q]
  BY <1>1 DEF DocumentTypes, Pcs
<1>3. /\ outcome' \in [Request -> Outcomes] /\ outcome'[r] = result
      /\ \A q \in Request : q # r => outcome'[q] = outcome[q]
  BY <1>1 DEF DocumentTypes
<1>4. /\ told' \in [Request -> Request \cup {None}] /\ told'[r] = exchange
      /\ \A q \in Request : q # r => told'[q] = told[q]
  BY <1>1 DEF DocumentTypes
<1>5. OnPath(r)'
  BY <1>2 DEF OnPath
<1>6. QED
  BY <1>2, <1>3, <1>4, <1>5 DEF Others

LEMMA FailedEnds ==
    ASSUME DocumentTypes, NEW r \in Request, pc[r] # "done",
           NEW result \in {"refused", "failed"}, Failed(r, result)
    PROVE  Ends(r)
<1>1. number' = [number EXCEPT ![r] = 0]
  BY DEF Failed
<1>2. number' \in [Request -> Nat] /\ \A q \in Request \ {r} : number'[q] = number[q]
  BY <1>1 DEF DocumentTypes
<1>3. Others(r) /\ pc'[r] = "done" /\ outcome'[r] = result
  BY <1>2, AnsweredOthers DEF Failed, Outcomes
<1>4. QED
  BY <1>3 DEF Failed, Ends, central

LEMMA ReplayEnds ==
    ASSUME ConstantsAssumption, DocumentTypes, NEW r \in Request, pc[r] # "done", Found(r), Replay(r)
    PROVE  Ends(r)
<1>1. number' = number /\ UNCHANGED <<applied, nextNumber, exchangeOf>>
  BY DEF Replay, central
<1>2. exchangeOf[KeyOf[r]] # None /\ exchangeOf[KeyOf[r]] \in Request
  BY DEF Found, DocumentTypes, ConstantsAssumption
<1>3. CASE Payload[exchangeOf[KeyOf[r]]] = Payload[r]
  <2>1. Answered(r, "done", exchangeOf[KeyOf[r]])
    BY <1>3 DEF Replay
  <2>2. Others(r) /\ pc'[r] = "done" /\ told'[r] = exchangeOf[KeyOf[r]]
    BY <1>1, <1>2, <2>1, AnsweredOthers DEF DocumentTypes, Outcomes
  <2>3. QED
    BY <1>1, <1>2, <1>3, <2>2 DEF Ends
<1>4. CASE Payload[exchangeOf[KeyOf[r]]] # Payload[r]
  <2>1. Answered(r, "conflict", None)
    BY <1>4 DEF Replay
  <2>2. Others(r) /\ pc'[r] = "done" /\ outcome'[r] = "conflict"
    BY <1>1, <2>1, AnsweredOthers DEF DocumentTypes, Outcomes
  <2>3. QED
    BY <1>1, <2>2 DEF Ends
<1>5. QED
  BY <1>3, <1>4

\* The same statement again, for the next row of its loop.
LEMMA StayWalks ==
    ASSUME DocumentTypes, PathInv, NEW r \in Request, pc' = pc, pc[r] \notin {"commit", "done"},
           UNCHANGED <<number, outcome, told, central>>
    PROVE  Walks(r)
<1>1. Others(r)
  BY DEF Others, DocumentTypes, PathInv, OnPath
<1>2. HoldsKey(r)' = HoldsKey(r) /\ HoldsCounter(r)' = HoldsCounter(r)
  BY DEF HoldsKey, HoldsCounter
<1>3. QED
  BY <1>1, <1>2 DEF Walks, central

LEMMA ArriveStep ==
    ASSUME ConstantsAssumption, DocumentTypes, PathInv, NEW r \in Request, Arrive(r)
    PROVE  StepOf(r)
<1>1. CASE Found(r)
  BY <1>1, ReplayEnds DEF Arrive, StepOf
<1>2. CASE ~Found(r)
  <2>1. /\ pc[r] = "idle"
        /\ pc' = [pc EXCEPT ![r] = CASE Kind[r] = "exchange" -> "key"
                                     [] Kind[r] = "return"   -> "sale"
                                     [] OTHER                -> "customer"]
        /\ UNCHANGED <<number, outcome, told, central>>
    BY <1>2 DEF Arrive, Goto
  <2> DEFINE step == CASE Kind[r] = "exchange" -> "key"
                       [] Kind[r] = "return"   -> "sale"
                       [] OTHER                -> "customer"
  <2>2. /\ step \in Pcs \ {"commit", "done"}
        /\ step = "key" => Kind[r] = "exchange"
        /\ step = "sale" => Kind[r] = "return"
        /\ step = "customer" => ~Returning(r)
        /\ step \in {"key", "sale", "customer"}
    BY DEF Pcs, Returning
  <2>3. pc'[r] = step
    BY <2>1 DEF DocumentTypes
  <2>4. OnPath(r)' /\ ~HoldsKey(r)' /\ ~HoldsCounter(r)'
    BY <2>2, <2>3 DEF OnPath, Returning, HoldsKey, HoldsCounter, Validated, Numbered, Filed
  <2>5. QED
    BY <2>1, <2>2, <2>4, GotoWalks DEF StepOf
<1>3. QED
  BY <1>1, <1>2

LEMMA LockKeyStep ==
    ASSUME ConstantsAssumption, DocumentTypes, PathInv, NEW r \in Request, LockKey(r)
    PROVE  StepOf(r)
<1>1. CASE Found(r)
  BY <1>1, ReplayEnds DEF LockKey, StepOf
<1>2. CASE ~Found(r)
  <2>1. /\ pc[r] = "key" /\ Free(r) /\ pc' = [pc EXCEPT ![r] = "sale"]
        /\ UNCHANGED <<number, outcome, told, central>>
    BY <1>2 DEF LockKey, Goto
  <2>2. Kind[r] = "exchange" /\ KeyOf[r] # None
    BY <2>1 DEF PathInv, OnPath, ConstantsAssumption
  <2>3. pc' \in [Request -> Pcs] /\ pc'[r] = "sale" /\ \A q \in Request : q # r => pc'[q] = pc[q]
    BY <2>1 DEF DocumentTypes, Pcs
  <2>4. OnPath(r)' /\ ~HoldsCounter(r)'
    BY <2>2, <2>3 DEF OnPath, Returning, HoldsCounter, Numbered, Filed
  <2>5. Others(r)
    BY <2>1, <2>3, <2>4 DEF Others, DocumentTypes
  <2>6. exchangeOf[KeyOf[r]] = None
    BY <1>2, <2>2 DEF Found
  <2>7. \A q \in Request \ {r} : HoldsKey(q) => KeyOf[q] # KeyOf[r]
    BY <2>1 DEF Free, WaitsFor
  <2>8. QED
    BY <2>1, <2>3, <2>4, <2>5, <2>6, <2>7 DEF Walks, StepOf, central
<1>3. QED
  BY <1>1, <1>2

LEMMA LockSaleStep ==
    ASSUME ConstantsAssumption, DocumentTypes, PathInv, NEW r \in Request, LockSale(r)
    PROVE  StepOf(r)
<1>1. CASE ~Returnable(r)
  BY <1>1, FailedEnds DEF LockSale, StepOf
<1>2. CASE Returnable(r)
  <2>1. PICK step \in {"rows", "number"} :
          /\ pc[r] = "sale" /\ pc' = [pc EXCEPT ![r] = step]
          /\ step = "rows" <=> Kind[r] = "exchange"
          /\ UNCHANGED <<number, outcome, told, central>>
    BY <1>2 DEF LockSale, Goto
  <2>2. pc'[r] = step /\ step \in Pcs \ {"commit", "done"} /\ Returning(r)
    BY <2>1 DEF DocumentTypes, Pcs, Validated, PathInv, OnPath
  <2>3. OnPath(r)' /\ (HoldsKey(r)' => HoldsKey(r)) /\ ~HoldsCounter(r)'
    BY <2>1, <2>2 DEF OnPath, Returning, HoldsKey, HoldsCounter, Validated, Numbered, Filed
  <2>4. QED
    BY <2>1, <2>2, <2>3, GotoWalks DEF StepOf
<1>3. QED
  BY <1>1, <1>2

LEMMA LockCustomerStep ==
    ASSUME ConstantsAssumption, DocumentTypes, PathInv, NEW r \in Request, LockCustomer(r)
    PROVE  StepOf(r)
<1>1. PICK step \in {"settle", "rows"} :
        /\ pc[r] = "customer" /\ pc' = [pc EXCEPT ![r] = step]
        /\ UNCHANGED <<number, outcome, told, central>>
  BY DEF LockCustomer, Goto
<1>2. pc'[r] = step /\ step \in Pcs \ {"commit", "done"} /\ ~Returning(r)
  BY <1>1 DEF DocumentTypes, Pcs, Validated, Numbered, Filed, PathInv, OnPath
<1>3. OnPath(r)' /\ ~HoldsKey(r)' /\ ~HoldsCounter(r)'
  BY <1>2 DEF OnPath, Returning, HoldsKey, HoldsCounter
<1>4. QED
  BY <1>1, <1>2, <1>3, GotoWalks DEF StepOf

LEMMA LockRowStep ==
    ASSUME ConstantsAssumption, DocumentTypes, PathInv, NEW r \in Request, LockRow(r)
    PROVE  StepOf(r)
<1>1. pc[r] = "rows" /\ Kind[r] # "return"
  BY DEF LockRow, PathInv, OnPath
<1>2. CASE Failed(r, "refused")
  BY <1>1, <1>2, FailedEnds DEF StepOf
<1>3. CASE /\ NextOf(r, Wanted[r], IF Kind[r] = "exchange" THEN "number" ELSE "settle")
           /\ UNCHANGED <<number, outcome, told, central>>
  <2>1. CASE pc' = pc
    BY <1>1, <1>3, <2>1, StayWalks DEF StepOf
  <2>2. CASE pc' # pc
    <3>1. PICK step \in {"number", "settle"} :
            /\ pc' = [pc EXCEPT ![r] = step]
            /\ step = "number" <=> Kind[r] = "exchange"
      BY <1>3, <2>2 DEF NextOf, Goto
    <3>2. pc'[r] = step /\ step \in Pcs \ {"commit", "done"}
      BY <3>1 DEF DocumentTypes, Pcs, Validated, Numbered, Filed
    <3>3. OnPath(r)' /\ (HoldsKey(r)' => HoldsKey(r)) /\ ~HoldsCounter(r)'
      BY <1>1, <3>1, <3>2
         DEF OnPath, Returning, HoldsKey, HoldsCounter, Validated, Numbered, Filed
    <3>4. QED
      BY <1>1, <1>3, <3>1, <3>2, <3>3, GotoWalks DEF StepOf
  <2>3. QED
    BY <2>1, <2>2
<1>4. QED
  BY <1>2, <1>3 DEF LockRow

LEMMA TakeNumberStep ==
    ASSUME DocumentTypes, PathInv, NEW r \in Request, TakeNumber(r)
    PROVE  StepOf(r)
<1>1. /\ pc[r] = "number" /\ Free(r) /\ pc' = [pc EXCEPT ![r] = "header"]
      /\ number' = [number EXCEPT ![r] = nextNumber]
      /\ UNCHANGED <<outcome, told, applied, nextNumber, exchangeOf>>
  BY DEF TakeNumber, Goto, central
<1>2. pc' \in [Request -> Pcs] /\ pc'[r] = "header" /\ \A q \in Request : q # r => pc'[q] = pc[q]
  BY <1>1 DEF DocumentTypes, Pcs, Validated, Numbered
<1>3. /\ number' \in [Request -> Nat] /\ number'[r] = nextNumber
      /\ \A q \in Request : q # r => number'[q] = number[q]
  BY <1>1 DEF DocumentTypes
<1>4. OnPath(r)' /\ HoldsKey(r)' = HoldsKey(r)
  BY <1>1, <1>2 DEF PathInv, OnPath, Returning, HoldsKey, Validated, Numbered
<1>5. \A q \in Request \ {r} : ~HoldsCounter(q)
  BY <1>1 DEF Free, WaitsFor
<1>6. Others(r)
  BY <1>1, <1>2, <1>3, <1>4 DEF Others, DocumentTypes
<1>7. QED
  BY <1>1, <1>2, <1>3, <1>4, <1>5, <1>6 DEF Takes, StepOf

LEMMA InsertHeaderStep ==
    ASSUME DocumentTypes, PathInv, NEW r \in Request, InsertHeader(r)
    PROVE  StepOf(r)
<1>1. /\ pc[r] = "header" /\ pc' = [pc EXCEPT ![r] = "restore"]
      /\ UNCHANGED <<number, outcome, told, central>>
  BY DEF InsertHeader, Goto
<1>2. pc'[r] = "restore" /\ "restore" \in Pcs \ {"commit", "done"} /\ Returning(r)
  BY <1>1 DEF DocumentTypes, Pcs, Validated, Numbered, Filed, PathInv, OnPath
<1>3. OnPath(r)' /\ (HoldsKey(r)' => HoldsKey(r)) /\ (HoldsCounter(r)' => HoldsCounter(r))
  BY <1>1, <1>2 DEF OnPath, Returning, HoldsKey, HoldsCounter, Validated, Numbered, Filed
<1>4. QED
  BY <1>1, <1>2, <1>3, GotoWalks DEF StepOf

LEMMA RestoreRowStep ==
    ASSUME DocumentTypes, PathInv, NEW r \in Request, RestoreRow(r)
    PROVE  StepOf(r)
<1>1. pc[r] = "restore" /\ Returning(r)
  BY DEF RestoreRow, PathInv, OnPath
<1>2. CASE RestoredRow(r) = {}
  <2>1. PICK result \in {"refused", "failed"} : Failed(r, result)
    BY <1>2 DEF RestoreRow
  <2>2. QED
    BY <1>1, <2>1, FailedEnds DEF StepOf
<1>3. CASE RestoredRow(r) # {}
  <2>1. /\ NextOf(r, Lines[r], "settle")
        /\ UNCHANGED <<number, outcome, told, central>>
    BY <1>3 DEF RestoreRow
  <2>2. CASE pc' = pc
    BY <1>1, <2>1, <2>2, StayWalks DEF StepOf
  <2>3. CASE pc' # pc
    <3>1. pc' = [pc EXCEPT ![r] = "settle"]
      BY <2>1, <2>3 DEF NextOf, Goto
    <3>2. pc'[r] = "settle" /\ "settle" \in Pcs \ {"commit", "done"}
      BY <3>1 DEF DocumentTypes, Pcs, Validated, Numbered, Filed
    <3>3. OnPath(r)' /\ (HoldsKey(r)' => HoldsKey(r)) /\ (HoldsCounter(r)' => HoldsCounter(r))
      BY <1>1, <3>2 DEF OnPath, Returning, HoldsKey, HoldsCounter, Validated, Numbered, Filed
    <3>4. QED
      BY <1>1, <2>1, <3>1, <3>2, <3>3, GotoWalks DEF StepOf
  <2>4. QED
    BY <2>2, <2>3
<1>4. QED
  BY <1>2, <1>3

LEMMA SettleStep ==
    ASSUME DocumentTypes, PathInv, NEW r \in Request, Settle(r)
    PROVE  StepOf(r)
<1>1. pc[r] = "settle"
  BY DEF Settle
<1>2. PICK open \in BOOLEAN :
        IF ~Cash[r] \/ open \/ SessionNotNeeded(r)
        THEN /\ Goto(r, "commit")
             /\ UNCHANGED <<rows, number, outcome, told, central>>
        ELSE Failed(r, "refused")
  BY DEF Settle
<1>3. CASE ~(~Cash[r] \/ open \/ SessionNotNeeded(r))
  BY <1>1, <1>2, <1>3, FailedEnds DEF StepOf
<1>4. CASE ~Cash[r] \/ open \/ SessionNotNeeded(r)
  <2>1. /\ pc' = [pc EXCEPT ![r] = "commit"]
        /\ UNCHANGED <<number, outcome, told, applied, nextNumber, exchangeOf>>
    BY <1>2, <1>4 DEF Goto, central
  <2>2. pc' \in [Request -> Pcs] /\ pc'[r] = "commit" /\ \A q \in Request : q # r => pc'[q] = pc[q]
    BY <2>1 DEF DocumentTypes, Pcs, Validated, Numbered, Filed
  <2>3. OnPath(r)'
    BY <2>2 DEF OnPath
  <2>4. Others(r)
    BY <1>1, <2>1, <2>2, <2>3 DEF Others, DocumentTypes
  <2>5. QED
    BY <1>1, <2>1, <2>2, <2>4 DEF Settles, StepOf
<1>5. QED
  BY <1>3, <1>4

LEMMA CommitStep ==
    ASSUME DocumentTypes, NEW r \in Request, Commit(r)
    PROVE  StepOf(r)
<1>1. pc[r] = "commit" /\ number' = number
  BY DEF Commit
<1>2. PICK exchange \in Request \cup {None} :
        Answered(r, "done", exchange) /\ (Kind[r] = "exchange" => exchange = r)
  BY DEF Commit
<1>3. Others(r) /\ pc'[r] = "done" /\ outcome'[r] = "done" /\ told'[r] = exchange
  BY <1>1, <1>2, AnsweredOthers DEF DocumentTypes, Outcomes
<1>4. QED
  BY <1>1, <1>2, <1>3 DEF Commit, Commits, StepOf

\* Every step of the system is one of these.
LEMMA NextIsStepOf ==
    ASSUME ConstantsAssumption, DocumentTypes, PathInv, Next
    PROVE  \E r \in Request : StepOf(r)
<1>1. CASE BreakCircle
  <2>1. PICK S \in Circles : \E r \in S : Failed(r, "failed")
    BY <1>1 DEF BreakCircle
  <2>2. PICK r \in S : Failed(r, "failed")
    BY <2>1
  <2>3. r \in Request /\ \E q \in Request : WaitsFor(r, q)
    BY <2>1, <2>2 DEF Circles, Waits
  <2>4. pc[r] # "done"
    BY <2>3 DEF WaitsFor, NextRow
  <2>5. QED
    BY <2>2, <2>3, <2>4, FailedEnds DEF StepOf
<1>2. CASE \E r \in Request : Arrive(r) \/ Step(r)
  <2>1. PICK r \in Request : Arrive(r) \/ Step(r)
    BY <1>2
  <2>2. QED
    BY <2>1, ArriveStep, LockKeyStep, LockSaleStep, LockCustomerStep, LockRowStep, TakeNumberStep,
       InsertHeaderStep, RestoreRowStep, SettleStep, CommitStep DEF Step
<1>3. QED
  BY <1>1, <1>2 DEF Next

-----------------------------------------------------------------------------
(* The invariant.                                                          *)

LEMMA InitEstablishes ==
    ASSUME ConstantsAssumption, Init
    PROVE  IInv
<1>1. DocumentTypes /\ PathInv
  BY DEF Init, DocumentTypes, PathInv, OnPath, Pcs, Outcomes
<1>2. KeyInv /\ CounterInv
  BY DEF Init, KeyInv, CounterInv, HoldsKey, HoldsCounter, Validated, Numbered, Filed
<1>3. ExchangeOncePerKey
  BY DEF Init, ExchangeOncePerKey
<1>4. NumbersRunWithoutGap
  <2>1. {number[r] : r \in {q \in applied : Returning(q)}} = {}
    BY DEF Init
  <2>2. 1..(nextNumber - 1) = {}
    BY DEF Init
  <2>3. QED
    BY <2>1, <2>2 DEF Init, NumbersRunWithoutGap
<1>5. QED
  BY <1>1, <1>2, <1>3, <1>4 DEF IInv

LEMMA TypesPreserved ==
    ASSUME ConstantsAssumption, DocumentTypes, NEW r \in Request, StepOf(r)
    PROVE  DocumentTypes'
<1>1. CASE Commits(r)
  <2>1. applied' \in SUBSET Request /\ exchangeOf' \in [Key -> Request \cup {None}]
    BY <1>1 DEF Commits, DocumentTypes
  <2>2. nextNumber' \in Nat \ {0}
    BY <1>1 DEF Commits, DocumentTypes
  <2>3. QED
    BY <1>1, <2>1, <2>2 DEF Commits, Others, DocumentTypes
<1>2. CASE Walks(r) \/ Takes(r) \/ Settles(r) \/ Ends(r)
  BY <1>2 DEF Walks, Takes, Settles, Ends, Others, DocumentTypes
<1>3. QED
  BY <1>1, <1>2 DEF StepOf

LEMMA PathPreserved ==
    ASSUME DocumentTypes, PathInv, NEW r \in Request, StepOf(r)
    PROVE  PathInv'
<1>1. Others(r)
  BY DEF StepOf, Walks, Takes, Settles, Ends, Commits
<1>2. \A q \in Request : OnPath(q)'
  <2>1. TAKE q \in Request
  <2>2. CASE q = r
    BY <1>1, <2>2 DEF Others
  <2>3. CASE q # r
    BY <1>1, <2>3 DEF Others, PathInv, OnPath
  <2>4. QED
    BY <2>2, <2>3
<1>3. applied' = applied \/ (applied' = applied \cup {r} /\ pc'[r] = "done")
  BY DEF StepOf, Walks, Takes, Settles, Ends, Commits
<1>4. \A q \in applied' : pc'[q] = "done"
  BY <1>1, <1>3 DEF Others, PathInv, DocumentTypes
<1>5. pc'[r] # "done" => outcome'[r] = outcome[r]
  BY DEF StepOf, Walks, Takes, Settles, Ends, Commits
<1>6. \A q \in Request : pc'[q] # "done" => outcome'[q] = "none"
  BY <1>1, <1>5 DEF Others, PathInv
<1>7. QED
  BY <1>2, <1>4, <1>6 DEF PathInv

LEMMA HoldersAre ==
    ASSUME NEW r \in Request, Others(r)
    PROVE  \A q \in Request : q # r => /\ HoldsKey(q)' = HoldsKey(q)
                                       /\ HoldsCounter(q)' = HoldsCounter(q)
<1>1. TAKE q \in Request
<1>2. HAVE q # r
<1>3. pc'[q] = pc[q]
  BY <1>2 DEF Others
<1>4. QED
  BY <1>3 DEF HoldsKey, HoldsCounter, Returning

LEMMA KeyPreserved ==
    ASSUME ConstantsAssumption, DocumentTypes, PathInv, KeyInv, NEW r \in Request, StepOf(r)
    PROVE  KeyInv'
<1>1. Others(r)
  BY DEF StepOf, Walks, Takes, Settles, Ends, Commits
<1>2. \A q \in Request : q # r => HoldsKey(q)' = HoldsKey(q)
  BY <1>1, HoldersAre
<1>3. CASE ~Commits(r)
  <2>1. UNCHANGED <<applied, exchangeOf>>
    BY <1>3 DEF StepOf, Walks, Takes, Settles, Ends
  <2>2. HoldsKey(r)' => \/ HoldsKey(r)
                        \/ /\ exchangeOf[KeyOf[r]] = None
                           /\ \A q \in Request \ {r} : HoldsKey(q) => KeyOf[q] # KeyOf[r]
    <3>1. CASE Walks(r)
      BY <3>1 DEF Walks
    <3>2. CASE Takes(r)
      BY <3>2 DEF Takes
    <3>3. CASE Settles(r)
      BY <3>3 DEF Settles, HoldsKey, Validated, Numbered, Filed
    <3>4. CASE Ends(r)
      BY <3>4 DEF Ends, HoldsKey, Validated, Numbered, Filed
    <3>5. QED
      BY <1>3, <3>1, <3>2, <3>3, <3>4 DEF StepOf
  <2>3. ASSUME NEW p \in Request, NEW q \in Request,
               HoldsKey(p)', HoldsKey(q)', KeyOf[p] = KeyOf[q]
        PROVE  p = q
    <3>1. CASE p # r /\ q # r
      <4>1. HoldsKey(p) /\ HoldsKey(q)
        BY <1>2, <2>3, <3>1
      <4>2. QED
        BY <2>3, <4>1 DEF KeyInv
    <3>2. ASSUME NEW o \in Request, o # r, HoldsKey(o)', KeyOf[o] = KeyOf[r], HoldsKey(r)' PROVE FALSE
      <4>1. HoldsKey(o)
        BY <1>2, <3>2
      <4>2. CASE HoldsKey(r)
        BY <3>2, <4>1, <4>2 DEF KeyInv
      <4>3. CASE ~HoldsKey(r)
        BY <2>2, <3>2, <4>1, <4>3
      <4>4. QED
        BY <4>2, <4>3
    <3>3. QED
      BY <2>3, <3>1, <3>2
  <2>4. \A q \in Request : HoldsKey(q)' => exchangeOf'[KeyOf[q]] = None
    BY <1>2, <2>1, <2>2 DEF KeyInv
  <2>5. QED
    BY <2>1, <2>3, <2>4 DEF KeyInv
<1>4. CASE Commits(r)
  <2>1. /\ pc[r] = "commit" /\ pc'[r] = "done"
        /\ applied' = applied \cup {r}
        /\ exchangeOf' = [k \in Key |-> IF k = KeyOf[r] THEN r ELSE exchangeOf[k]]
    BY <1>4 DEF Commits
  <2>2. /\ None \notin Request /\ None \notin Key /\ KeyOf \in [Request -> Key \cup {None}]
        /\ \A q \in Request : Kind[q] = "exchange" <=> KeyOf[q] # None
    BY DEF ConstantsAssumption
  <2>3. KeyOf[r] # None => HoldsKey(r) /\ exchangeOf[KeyOf[r]] = None
    BY <2>1, <2>2 DEF HoldsKey, Validated, Numbered, Filed, KeyInv
  <2>4. ~HoldsKey(r)'
    BY <2>1 DEF HoldsKey, Validated, Numbered, Filed
  <2>5. \A p, q \in Request : HoldsKey(p)' /\ HoldsKey(q)' /\ KeyOf[p] = KeyOf[q] => p = q
    BY <1>2, <2>4 DEF KeyInv
  <2>6. \A q \in Request : HoldsKey(q)' => exchangeOf'[KeyOf[q]] = None
    <3>1. TAKE q \in Request
    <3>2. HAVE HoldsKey(q)'
    <3>3. q # r /\ HoldsKey(q) /\ KeyOf[q] \in Key /\ exchangeOf[KeyOf[q]] = None
      BY <1>2, <2>2, <2>4, <3>2 DEF KeyInv, HoldsKey
    <3>4. KeyOf[q] # KeyOf[r]
      BY <2>2, <2>3, <3>3 DEF KeyInv
    <3>5. QED
      BY <2>1, <3>3, <3>4
  <2>7. \A q \in applied' : KeyOf[q] # None => exchangeOf'[KeyOf[q]] = q
    <3>1. TAKE q \in applied'
    <3>2. HAVE KeyOf[q] # None
    <3>3. q \in Request /\ KeyOf[q] \in Key
      BY <2>1, <2>2, <3>2 DEF DocumentTypes
    <3>4. CASE q = r
      BY <2>1, <3>3, <3>4
    <3>5. CASE q # r
      <4>1. exchangeOf[KeyOf[q]] = q
        BY <2>1, <3>2, <3>5 DEF KeyInv
      <4>2. KeyOf[q] # KeyOf[r]
        BY <2>2, <2>3, <3>2, <3>3, <4>1
      <4>3. QED
        BY <2>1, <3>3, <4>1, <4>2
    <3>6. QED
      BY <3>4, <3>5
  <2>8. \A k \in Key : exchangeOf'[k] # None => exchangeOf'[k] \in applied' /\ KeyOf[exchangeOf'[k]] = k
    BY <2>1 DEF KeyInv
  <2>9. QED
    BY <2>5, <2>6, <2>7, <2>8 DEF KeyInv
<1>5. QED
  BY <1>3, <1>4

LEMMA AnswersPreserved ==
    ASSUME ConstantsAssumption, DocumentTypes, PathInv, KeyInv, KeyInv', ExchangeOncePerKey,
           NEW r \in Request, StepOf(r)
    PROVE  ExchangeOncePerKey'
<1>1. \A p, q \in applied' : KeyOf[p] # None /\ KeyOf[q] = KeyOf[p] => p = q
  <2>1. \A q \in applied' : KeyOf[q] # None => exchangeOf'[KeyOf[q]] = q
    BY KeyInv' DEF KeyInv
  <2>2. QED
    BY <2>1
<1>2. Others(r) /\ applied \subseteq applied'
  BY DEF StepOf, Walks, Takes, Settles, Ends, Commits
<1>3. SUFFICES ASSUME NEW q \in Request, Kind[q] = "exchange", outcome'[q] = "done"
               PROVE  /\ told'[q] \in applied' /\ KeyOf[told'[q]] = KeyOf[q]
                      /\ Payload[told'[q]] = Payload[q]
  BY <1>1 DEF ExchangeOncePerKey
<1>4. KeyOf[q] \in Key
  BY <1>3 DEF ConstantsAssumption
<1>5. CASE outcome'[q] = outcome[q] /\ told'[q] = told[q]
  BY <1>2, <1>3, <1>5 DEF ExchangeOncePerKey
<1>6. CASE q = r /\ Ends(r)
  <2>1. told'[r] = exchangeOf[KeyOf[r]] /\ exchangeOf[KeyOf[r]] # None /\ Payload[told'[r]] = Payload[r]
    BY <1>3, <1>6 DEF Ends
  <2>2. told'[r] \in applied /\ KeyOf[told'[r]] = KeyOf[r]
    BY <1>4, <1>6, <2>1 DEF KeyInv
  <2>3. QED
    BY <1>2, <1>6, <2>1, <2>2
<1>7. CASE q = r /\ Commits(r)
  BY <1>3, <1>7 DEF Commits
<1>8. QED
  BY <1>2, <1>5, <1>6, <1>7 DEF StepOf, Walks, Takes, Settles, Others

LEMMA OneMore ==
    ASSUME NEW n \in Nat \ {0}
    PROVE  (1..(n - 1)) \cup {n} = 1..((n + 1) - 1)
  OBVIOUS

LEMMA CounterPreserved ==
    ASSUME ConstantsAssumption, DocumentTypes, PathInv, CounterInv, NumbersRunWithoutGap,
           NEW r \in Request, StepOf(r)
    PROVE  CounterInv' /\ NumbersRunWithoutGap'
<1>1. Others(r)
  BY DEF StepOf, Walks, Takes, Settles, Ends, Commits
<1>2. \A q \in Request : q # r => HoldsCounter(q)' = HoldsCounter(q) /\ number'[q] = number[q]
  BY <1>1, HoldersAre DEF Others
<1>3. r \notin applied
  BY <1>1 DEF Others, PathInv
<1>4. CASE ~Commits(r)
  <2>1. UNCHANGED <<applied, nextNumber>>
    BY <1>4 DEF StepOf, Walks, Takes, Settles, Ends
  <2>2. HoldsCounter(r)' => /\ \A q \in Request \ {r} : ~HoldsCounter(q)
                            /\ number'[r] = nextNumber
    <3>1. CASE Walks(r)
      BY <3>1 DEF Walks, CounterInv
    <3>2. CASE Takes(r)
      BY <3>2 DEF Takes
    <3>3. CASE Settles(r)
      <4>1. HoldsCounter(r)' => HoldsCounter(r)
        BY <3>3 DEF Settles, HoldsCounter, Numbered, Filed, Returning
      <4>2. number'[r] = number[r]
        BY <3>3 DEF Settles
      <4>3. QED
        BY <4>1, <4>2 DEF CounterInv
    <3>4. CASE Ends(r)
      BY <3>4 DEF Ends, HoldsCounter, Numbered, Filed
    <3>5. QED
      BY <1>4, <3>1, <3>2, <3>3, <3>4 DEF StepOf
  <2>3. \A p, q \in Request : HoldsCounter(p)' /\ HoldsCounter(q)' => p = q
    BY <1>2, <2>2 DEF CounterInv
  <2>4. \A q \in Request : HoldsCounter(q)' => number'[q] = nextNumber'
    BY <1>2, <2>1, <2>2 DEF CounterInv
  <2>5. CounterInv'
    BY <2>3, <2>4 DEF CounterInv
  <2>6. \A q \in applied' : q \in Request /\ number'[q] = number[q]
    BY <1>2, <1>3, <2>1 DEF DocumentTypes
  <2>7. {number'[p] : p \in {q \in applied' : Returning(q)}} =
           {number[p] : p \in {q \in applied : Returning(q)}}
    <3>1. {q \in applied' : Returning(q)} = {q \in applied : Returning(q)}
      BY <2>1
    <3>2. \A p \in {q \in applied : Returning(q)} : number'[p] = number[p]
      BY <2>1, <2>6
    <3>3. {number'[p] : p \in {q \in applied : Returning(q)}} =
             {number[p] : p \in {q \in applied : Returning(q)}}
      <4> DEFINE Documents == {q \in applied : Returning(q)}
      <4>1. ASSUME NEW n \in {number'[p] : p \in Documents}
            PROVE  n \in {number[p] : p \in Documents}
        <5>1. PICK p \in Documents : n = number'[p]
          BY <4>1
        <5>2. n = number[p]
          BY <3>2, <5>1
        <5>3. QED
          BY <5>1, <5>2
      <4>2. ASSUME NEW n \in {number[p] : p \in Documents}
            PROVE  n \in {number'[p] : p \in Documents}
        <5>1. PICK p \in Documents : n = number[p]
          BY <4>2
        <5>2. n = number'[p]
          BY <3>2, <5>1
        <5>3. QED
          BY <5>1, <5>2
      <4>3. QED
        BY <4>1, <4>2
    <3>4. QED
      BY <3>1, <3>3
  <2>8. \A p, q \in applied' :
           Returning(p) /\ Returning(q) /\ number'[p] = number'[q] => p = q
    BY <2>1, <2>6 DEF NumbersRunWithoutGap
  <2>9. Returning(r)' = Returning(r)
    BY DEF Returning
  <2>10. NumbersRunWithoutGap'
    BY <2>1, <2>7, <2>8 DEF NumbersRunWithoutGap, Returning
  <2>11. QED
    BY <2>5, <2>10
<1>5. CASE Commits(r)
  <2>1. /\ pc[r] = "commit" /\ pc'[r] = "done" /\ number' = number
        /\ applied' = applied \cup {r}
        /\ nextNumber' = (IF Returning(r) THEN number[r] + 1 ELSE nextNumber)
    BY <1>5 DEF Commits
  <2>2. Returning(r) => HoldsCounter(r) /\ number[r] = nextNumber
    BY <2>1 DEF HoldsCounter, Numbered, Filed, CounterInv
  <2>3. ~HoldsCounter(r)'
    BY <2>1 DEF HoldsCounter, Numbered, Filed
  <2>4. \A p, q \in Request : HoldsCounter(p)' /\ HoldsCounter(q)' => p = q
    BY <1>2, <2>3 DEF CounterInv
  <2>5. \A q \in Request : HoldsCounter(q)' => number'[q] = nextNumber'
    <3>1. TAKE q \in Request
    <3>2. HAVE HoldsCounter(q)'
    <3>3. q # r /\ HoldsCounter(q)
      BY <1>2, <2>3, <3>2
    <3>4. ~Returning(r)
      BY <2>2, <3>3 DEF CounterInv
    <3>5. QED
      BY <2>1, <3>3, <3>4 DEF CounterInv
  <2>6. CounterInv'
    BY <2>4, <2>5 DEF CounterInv
  <2> DEFINE Documents == {q \in applied : Returning(q)}
  <2>7. CASE ~Returning(r)
    <3>1. {q \in applied' : Returning(q)} = Documents
      BY <2>1, <2>7
    <3>2. NumbersRunWithoutGap'
      BY <2>1, <2>7, <3>1 DEF NumbersRunWithoutGap, Returning
    <3>3. QED
      BY <2>6, <3>2
  <2>8. CASE Returning(r)
    <3>1. {q \in applied' : Returning(q)} = Documents \cup {r}
      BY <2>1, <2>8
    <3>2. nextNumber \in Nat \ {0} /\ number[r] = nextNumber /\ nextNumber' = nextNumber + 1
      BY <2>1, <2>2, <2>8 DEF DocumentTypes
    <3>3. {number[p] : p \in Documents} = 1..(nextNumber - 1)
      BY DEF NumbersRunWithoutGap
    <3>4. {number'[p] : p \in {q \in applied' : Returning(q)}} = (1..(nextNumber - 1)) \cup {nextNumber}
      <4>1. {number'[p] : p \in Documents \cup {r}} = {number[p] : p \in Documents} \cup {number[r]}
        BY <2>1
      <4>2. QED
        BY <3>1, <3>2, <3>3, <4>1
    <3>5. {number'[p] : p \in {q \in applied' : Returning(q)}} = 1..(nextNumber' - 1)
      BY <3>2, <3>4, OneMore
    <3>6. \A p \in Documents : number[p] # number[r]
      <4>1. \A p \in Documents : number[p] \in 1..(nextNumber - 1)
        BY <3>3
      <4>2. nextNumber \notin 1..(nextNumber - 1)
        BY <3>2
      <4>3. QED
        BY <3>2, <4>1, <4>2
    <3>7. \A p, q \in applied' :
             Returning(p) /\ Returning(q) /\ number'[p] = number'[q] => p = q
      <4>1. \A p, q \in Documents : number[p] = number[q] => p = q
        BY DEF NumbersRunWithoutGap
      <4>2. \A p \in applied' : Returning(p) => p \in Documents \cup {r}
        BY <3>1
      <4> HIDE DEF Documents
      <4>3. QED
        BY <2>1, <3>6, <4>1, <4>2
    <3>8. NumbersRunWithoutGap'
      BY <3>5, <3>7 DEF NumbersRunWithoutGap, Returning
    <3>9. QED
      BY <2>6, <3>8
  <2>9. QED
    BY <2>7, <2>8
<1>6. QED
  BY <1>4, <1>5

LEMMA NextPreserves ==
    ASSUME ConstantsAssumption, IInv, [Next]_vars
    PROVE  IInv'
<1>1. CASE Next
  <2>1. PICK r \in Request : StepOf(r)
    BY <1>1, NextIsStepOf DEF IInv
  <2>2. DocumentTypes' /\ PathInv'
    BY <2>1, TypesPreserved, PathPreserved DEF IInv
  <2>3. KeyInv'
    BY <2>1, KeyPreserved DEF IInv
  <2>4. ExchangeOncePerKey'
    BY <2>1, <2>3, AnswersPreserved DEF IInv
  <2>5. CounterInv' /\ NumbersRunWithoutGap'
    BY <2>1, CounterPreserved DEF IInv
  <2>6. QED
    BY <2>2, <2>3, <2>4, <2>5 DEF IInv
<1>2. CASE UNCHANGED vars
  <2> USE <1>2 DEF vars, request, central, IInv
  <2>1. DocumentTypes' /\ PathInv'
    BY DEF DocumentTypes, PathInv, OnPath
  <2>2. KeyInv' /\ ExchangeOncePerKey'
    BY DEF KeyInv, HoldsKey, ExchangeOncePerKey
  <2>3. CounterInv'
    BY DEF CounterInv, HoldsCounter
  <2>4. NumbersRunWithoutGap'
    BY DEF NumbersRunWithoutGap
  <2>5. QED
    BY <2>1, <2>2, <2>3, <2>4
<1>3. QED
  BY <1>1, <1>2

-----------------------------------------------------------------------------
(* Sums of nothing and of one, and the order in which a sale locks.        *)

Pick(s) == CHOOSE x \in s : TRUE

\* The recursion behind a sum: g adds up f over the subsets of S.
Adds(g, f, S) ==
    g = [s \in SUBSET S |-> IF s = {} THEN 0 ELSE f[Pick(s)] + g[s \ {Pick(s)}]]

LEMMA SumIsChosen ==
    ASSUME NEW f, NEW S
    PROVE  SumFunctionOnSet(f, S) = (CHOOSE g : Adds(g, f, S))[S]
  BY DEF SumFunctionOnSet, FoldFunctionOnSet, MapThenFoldSet, Adds, Pick

LEMMA SumOfNone ==
    ASSUME NEW f
    PROVE  SumFunctionOnSet(f, {}) = 0
<1> DEFINE g == [s \in SUBSET {} |-> 0]
<1>1. Adds(g, f, {})
  BY DEF Adds
<1>2. PICK h : h = CHOOSE k : Adds(k, f, {})
  OBVIOUS
<1>3. Adds(h, f, {})
  BY <1>1, <1>2
<1>4. h[{}] = 0
  BY <1>3 DEF Adds
<1>5. QED
  BY <1>2, <1>4, SumIsChosen

LEMMA SumOfOne ==
    ASSUME NEW f, NEW x, f[x] \in Int
    PROVE  SumFunctionOnSet(f, {x}) = f[x]
<1> DEFINE g == [s \in SUBSET {x} |-> IF s = {} THEN 0 ELSE f[x]]
<1>1. Pick({x}) = x /\ {x} \ {x} = {} /\ SUBSET {x} = {{}, {x}}
  BY DEF Pick
<1>2. Adds(g, f, {x})
  <2>1. ASSUME NEW s \in SUBSET {x}
        PROVE  g[s] = IF s = {} THEN 0 ELSE f[Pick(s)] + g[s \ {Pick(s)}]
    <3>1. CASE s = {}
      BY <3>1
    <3>2. CASE s = {x}
      <4>1. s # {} /\ Pick(s) = x /\ s \ {Pick(s)} = {}
        BY <1>1, <3>2
      <4>2. g[s] = f[x] /\ g[{}] = 0
        BY <3>2
      <4>3. QED
        BY <4>1, <4>2
    <3>3. QED
      BY <1>1, <3>1, <3>2
  <2>2. QED
    BY <2>1 DEF Adds
<1>3. PICK h : h = CHOOSE k : Adds(k, f, {x})
  OBVIOUS
<1>4. Adds(h, f, {x})
  BY <1>2, <1>3
<1>5. h[{}] = 0
  BY <1>4 DEF Adds
<1>6. h[{x}] = f[Pick({x})] + h[{x} \ {Pick({x})}]
  BY <1>4 DEF Adds
<1>7. h[{x}] = f[x] + 0
  BY <1>1, <1>5, <1>6
<1>8. PICK n \in Int : n = f[x]
  OBVIOUS
<1>9. h[{x}] = n
  BY <1>7, <1>8
<1>10. QED
  BY <1>3, <1>8, <1>9, SumIsChosen

\* Induction over the natural numbers, for a set.
LEMMA SetInduction ==
    ASSUME NEW M, 0 \in M, \A n \in M \cap Nat : n + 1 \in M
    PROVE  Nat \subseteq M
<1>1. SUFFICES ASSUME Nat \ M # {}
               PROVE  FALSE
  OBVIOUS
<1>2. PICK n \in Nat \ M : \A m \in Nat \ M : <<m, n>> \notin OpToRel(<, Nat)
  BY <1>1, NatLessThanWellFounded, WFMin
<1>3. \A m \in Nat \ M : ~(m < n)
  BY <1>2 DEF OpToRel
<1>4. n \in Nat /\ n # 0 /\ n - 1 \in Nat /\ n - 1 \in M
  BY <1>3
<1>5. (n - 1) + 1 \in M
  BY <1>4
<1>6. QED
  BY <1>4, <1>5

LEMMA Greatest ==
    ASSUME NEW N \in Nat, NEW S, S \subseteq 1..N, S # {}
    PROVE  \E n \in S : \A m \in S : m <= n
<1> DEFINE T == {N - n : n \in S}
<1>1. T \subseteq Nat /\ T # {}
  <2>1. \A n \in S : n \in 1..N
    OBVIOUS
  <2>2. \A n \in 1..N : N - n \in Nat
    OBVIOUS
  <2>3. QED
    BY <2>1, <2>2
<1>2. PICK t \in T : \A m \in T : <<m, t>> \notin OpToRel(<, Nat)
  <2> HIDE DEF T
  <2>1. QED
    BY <1>1, NatLessThanWellFounded, WFMin
<1>3. PICK n \in S : t = N - n
  OBVIOUS
<1>4. ASSUME NEW m \in S
      PROVE  m <= n
  <2>1. N - m \in T /\ N - m \in Nat /\ t \in Nat
    BY <1>1
  <2>2. ~(N - m < t)
    BY <1>2, <2>1 DEF OpToRel
  <2>3. n \in Int /\ m \in Int
    OBVIOUS
  <2>4. QED
    BY <1>3, <2>2, <2>3
<1>5. QED
  BY <1>4

\* Places that hold different numbers can be taken in the order of the numbers.
LEMMA AscendingPlaces ==
    ASSUME NEW N \in Nat, NEW P, IsFiniteSet(P), NEW key \in [P -> 1..N],
           \A i, j \in P : key[i] = key[j] => i = j
    PROVE  \E f \in [1..Cardinality(P) -> P] :
              \A i, j \in 1..Cardinality(P) : i < j => key[f[i]] < key[f[j]]
<1> DEFINE Ordered(n, Q) ==
             \E f \in [1..n -> Q] : \A i, j \in 1..n : i < j => key[f[i]] < key[f[j]]
           M == {n \in Nat : \A Q \in SUBSET P : Cardinality(Q) = n => Ordered(n, Q)}
<1>1. 0 \in M
  <2>1. ASSUME NEW Q \in SUBSET P
        PROVE  Ordered(0, Q)
    <3>1. 1..0 = {}
      OBVIOUS
    <3>2. PICK f : f = [i \in {} |-> 0]
      OBVIOUS
    <3>3. f \in [{} -> Q]
      BY <3>2
    <3>4. QED
      BY <3>1, <3>3
  <2>2. QED
    BY <2>1
<1>2. ASSUME NEW n \in M
      PROVE  n + 1 \in M
  <2>1. SUFFICES ASSUME NEW Q \in SUBSET P, Cardinality(Q) = n + 1
                 PROVE  Ordered(n + 1, Q)
    OBVIOUS
  <2>2. IsFiniteSet(Q) /\ Q # {} /\ n \in Nat
    BY <2>1, FS_Subset, FS_EmptySet
  <2> DEFINE K == {key[i] : i \in Q}
  <2>3. K \subseteq 1..N /\ K # {}
    BY <2>2
  <2>4. PICK k \in K : \A m \in K : m <= k
    <3> HIDE DEF K
    <3>1. QED
      BY <2>3, Greatest
  <2>5. PICK last \in Q : k = key[last]
    OBVIOUS
  <2>6. \A i \in Q \ {last} : key[i] < key[last]
    <3>1. TAKE i \in Q \ {last}
    <3>2. key[i] \in K /\ key[i] # key[last]
      OBVIOUS
    <3>3. PICK a \in Int, b \in Int : a = key[i] /\ b = key[last]
      OBVIOUS
    <3>4. a <= b /\ a # b
      BY <2>4, <2>5, <3>2, <3>3
    <3>5. a < b
      BY <3>4
    <3>6. QED
      BY <3>3, <3>5
  <2>7. Cardinality(Q \ {last}) = n
    <3>1. Cardinality(Q \ {last}) = Cardinality(Q) - 1
      BY <2>2, FS_RemoveElement
    <3>2. QED
      BY <2>1, <2>2, <3>1
  <2>8. PICK f \in [1..n -> Q \ {last}] :
          \A i, j \in 1..n : i < j => key[f[i]] < key[f[j]]
    <3>1. Ordered(n, Q \ {last})
      BY <2>7
    <3>2. QED
      BY <3>1
  <2> DEFINE g == [i \in 1..(n + 1) |-> IF i = n + 1 THEN last ELSE f[i]]
  <2>9. g \in [1..(n + 1) -> Q]
    BY <2>2, <2>8
  <2>10. ASSUME NEW i \in 1..(n + 1), NEW j \in 1..(n + 1), i < j
         PROVE  key[g[i]] < key[g[j]]
    <3>1. i \in 1..n /\ g[i] = f[i] /\ f[i] \in Q \ {last}
      BY <2>2, <2>8, <2>10
    <3>2. CASE j = n + 1
      BY <2>6, <3>1, <3>2
    <3>3. CASE j # n + 1
      <4>1. j \in 1..n /\ g[j] = f[j]
        BY <2>2, <3>3
      <4>2. QED
        BY <2>8, <2>10, <3>1, <4>1
    <3>4. QED
      BY <3>2, <3>3
  <2>11. QED
    BY <2>9, <2>10
<1>3. Cardinality(P) \in M
  <2>1. Cardinality(P) \in Nat
    BY FS_CardinalityType
  <2> HIDE DEF M
  <2>2. QED
    BY <1>1, <1>2, <2>1, SetInduction
<1>4. Ordered(Cardinality(P), P)
  BY <1>3
<1>5. QED
  BY <1>4

\* A sale locks its products in the order of their ids.
LEMMA SortedAscends ==
    ASSUME ConstantsAssumption, NEW r \in Request
    PROVE  /\ Sorted(Wanted[r]) \in [1..Len(Wanted[r]) -> [product : Product, qty : Nat \ {0}]]
           /\ \A i, j \in 1..Len(Wanted[r]) :
                 i < j => Sorted(Wanted[r])[i].product < Sorted(Wanted[r])[j].product
<1> DEFINE items == Wanted[r]
           n == Len(items)
           Item == [product : Product, qty : Nat \ {0}]
<1>1. items \in Seq(Item) /\ NumProducts \in Nat
  BY DEF ConstantsAssumption
<1>2. n \in Nat /\ DOMAIN items = 1..n /\ \A i \in 1..n : items[i] \in Item
  <2> HIDE DEF items, Item
  <2>1. QED
    BY <1>1
<1>3. \A i, j \in 1..n : items[i].product = items[j].product => i = j
  BY <1>2 DEF ConstantsAssumption
<1>4. Range(items) = {items[i] : i \in 1..n}
  BY <1>2 DEF Range
<1> HIDE DEF items, n
<1>5. PICK f \in [1..n -> 1..n] : \A i, j \in 1..n : i < j => items[f[i]].product < items[f[j]].product
  <2> DEFINE key == [i \in 1..n |-> items[i].product]
  <2>1. key \in [1..n -> 1..NumProducts] /\ \A i, j \in 1..n : key[i] = key[j] => i = j
    BY <1>2, <1>3 DEF Product
  <2>2. IsFiniteSet(1..n) /\ Cardinality(1..n) = n
    BY <1>2, FS_Interval
  <2> HIDE DEF key
  <2>3. PICK f \in [1..n -> 1..n] : \A i, j \in 1..n : i < j => key[f[i]] < key[f[j]]
    <3>1. \E f \in [1..Cardinality(1..n) -> 1..n] :
             \A i, j \in 1..Cardinality(1..n) : i < j => key[f[i]] < key[f[j]]
      BY <1>1, <2>1, <2>2, AscendingPlaces
    <3>2. QED
      BY <2>2, <3>1
  <2>4. \A i \in 1..n : key[i] = items[i].product
    BY DEF key
  <2>5. \A i \in 1..n : key[f[i]] = items[f[i]].product
    BY <2>3, <2>4
  <2>6. \A i, j \in 1..n : i < j => items[f[i]].product < items[f[j]].product
    BY <2>3, <2>5
  <2>7. QED
    BY <2>3, <2>6
<1> DEFINE s == [i \in 1..n |-> items[f[i]]]
<1>6. s \in [1..n -> Range(items)] /\ \A i, j \in 1..n : i < j => s[i].product < s[j].product
  BY <1>4, <1>5
<1> HIDE DEF s
<1>7. /\ Sorted(items) \in [1..n -> Range(items)]
      /\ \A i, j \in 1..n : i < j => Sorted(items)[i].product < Sorted(items)[j].product
  <2>1. Sorted(items) = CHOOSE t \in [1..n -> Range(items)] :
                           \A i, j \in 1..n : i < j => t[i].product < t[j].product
    BY <1>2 DEF Sorted
  <2>2. QED
    BY <1>6, <2>1
<1>8. Range(items) \subseteq Item
  BY <1>2, <1>4
<1>9. QED
  BY <1>7, <1>8 DEF items, n

-----------------------------------------------------------------------------
(* Lines, ledgers and rows. A transaction relies on what it has read as    *)
(* long as it holds the lock of the sale or of the customer; two returns   *)
(* of different sales share the customer, which is where a ledger entry    *)
(* goes wrong. A loop over rows holds those it has come past.              *)

TradeTypes ==
    /\ line \in [Request -> Nat]
    /\ rows \in [Request -> SUBSET Product]
    /\ balance \in [Request -> Int]
    /\ owed \in [Customer -> Int] /\ shown \in [Customer -> Int]

LockInv ==
    /\ \A r, q \in Request : HoldsSale(r) /\ HoldsSale(q) /\ SaleOf[q] = SaleOf[r] => r = q
    /\ \A r, q \in Request :
          OwnsCustomer(r) /\ (OwnsCustomer(q) \/ SharesCustomer(q)) /\ CustomerOf[q] = CustomerOf[r]
             => r = q
    /\ \A r, q \in Request : \A p \in rows[r] : p \in rows[q] => r = q

ListedOnce(l) ==
    \A r \in applied : \A i, j \in DOMAIN Lines[r] :
        Lines[r][i].line = l /\ Lines[r][j].line = l => i = j

\* Of a line nobody lists twice: what has come back, and what the request wants to bring.
StillFits(back) ==
    ListedOnce(back.line) => back.qty <= LineQty[back.line] - returned[back.line]

ReturnInv ==
    /\ \A l \in Line : ListedOnce(l) => returned[l] \in Nat /\ returned[l] <= LineQty[l]
    /\ \A r \in Request : HoldsSale(r) =>
          \A i \in DOMAIN Lines[r] : LineSale[Lines[r][i].line] = SaleOf[r] /\ StillFits(Lines[r][i])

\* Another sale of the customer has come back too.
Elsewhere(r) ==
    /\ Returning(r)
    /\ \E q \in applied : Returning(q) /\ CustomerOf[q] = CustomerOf[r] /\ SaleOf[q] # SaleOf[r]

BookInv ==
    /\ \A r \in Request : pc[r] = "commit" /\ Entry[r] # 0 =>
          balance[r] = owed[CustomerOf[r]] \/ Elsewhere(r)
    /\ LastEntryIsExact

\* What a loop has come past.
InLoop(r) ==
    /\ pc[r] = "rows" => line[r] < Len(Wanted[r])
    /\ pc[r] = "restore" => line[r] < Len(Lines[r])
    /\ Kind[r] # "exchange" /\ rows[r] # {} => pc[r] \in {"rows", "restore", "settle", "commit"}
    /\ Kind[r] = "sale" /\ pc[r] = "rows" =>
          \A p \in rows[r] : \E i \in 1..line[r] : p = LockOrder[r][i].product
    /\ Kind[r] = "return" /\ pc[r] = "restore" =>
          \A p \in rows[r] : \E i \in 1..line[r] : p = LineProduct[Lines[r][i].line]

LoopInv == \A r \in Request : InLoop(r)

TradeInv == TradeTypes /\ LockInv /\ ReturnInv /\ BookInv /\ LoopInv

\* Nobody but r moves.
Alone(r) ==
    \A q \in Request : q # r => /\ pc'[q] = pc[q] /\ line'[q] = line[q]
                                /\ rows'[q] = rows[q] /\ balance'[q] = balance[q]

\* A step of r short of its commit, by the locks it may take and what it reads.
TakesLocks(r) ==
    /\ HoldsSale(r)' => \/ HoldsSale(r)
                        \/ /\ Returnable(r)
                           /\ \A q \in Request \ {r} : HoldsSale(q) => SaleOf[q] # SaleOf[r]
    /\ OwnsCustomer(r)' => \/ OwnsCustomer(r)
                           \/ \A q \in Request \ {r} :
                                 OwnsCustomer(q) \/ SharesCustomer(q) => CustomerOf[q] # CustomerOf[r]
    /\ SharesCustomer(r)' => \/ SharesCustomer(r)
                             \/ \A q \in Request \ {r} : OwnsCustomer(q) => CustomerOf[q] # CustomerOf[r]
    /\ \A q \in Request \ {r} : \A p \in rows'[r] : p \in rows[r] \/ p \notin rows[q]

Strolls(r) ==
    /\ TradeTypes' /\ Alone(r)
    /\ UNCHANGED <<applied, returned, owed, shown>>
    /\ TakesLocks(r)
    /\ pc'[r] = "commit" /\ Entry[r] # 0 => balance'[r] = owed[CustomerOf[r]]
    /\ InLoop(r)'

LEMMA GotoStrolls ==
    ASSUME DocumentTypes, TradeTypes, NEW r \in Request, NEW step \in Pcs \ {"commit"},
           Goto(r, step), UNCHANGED <<rows, balance, central>>,
           pc'[r] = step /\ line'[r] = 0 => TakesLocks(r) /\ InLoop(r)'
    PROVE  Strolls(r)
<1>1. pc' = [pc EXCEPT ![r] = step] /\ line' = [line EXCEPT ![r] = 0]
  BY DEF Goto
<1>2. pc'[r] = step /\ line'[r] = 0 /\ \A q \in Request : q # r => pc'[q] = pc[q] /\ line'[q] = line[q]
  BY <1>1 DEF DocumentTypes, TradeTypes
<1>3. TradeTypes' /\ Alone(r)
  BY <1>1, <1>2 DEF TradeTypes, Alone, central
<1>4. QED
  BY <1>2, <1>3 DEF Strolls, central

LEMMA AnsweredStrolls ==
    ASSUME DocumentTypes, TradeTypes, NEW r \in Request, NEW result, NEW exchange,
           Answered(r, result, exchange), UNCHANGED central
    PROVE  Strolls(r)
<1>1. /\ pc' = [pc EXCEPT ![r] = "done"] /\ line' = [line EXCEPT ![r] = 0]
      /\ rows' = [rows EXCEPT ![r] = {}] /\ balance' = [balance EXCEPT ![r] = 0]
  BY DEF Answered, Goto
<1>2. /\ pc'[r] = "done" /\ rows'[r] = {}
      /\ Alone(r)
  BY <1>1 DEF DocumentTypes, TradeTypes, Alone
<1>3. TradeTypes'
  BY <1>1 DEF TradeTypes, central
<1>4. TakesLocks(r)
  BY <1>2 DEF TakesLocks, HoldsSale, OwnsCustomer, SharesCustomer, Validated, Numbered, Filed
<1>5. InLoop(r)'
  BY <1>2 DEF InLoop
<1>6. QED
  BY <1>2, <1>3, <1>4, <1>5 DEF Strolls, central

LEMMA FailedStrolls ==
    ASSUME DocumentTypes, TradeTypes, NEW r \in Request, NEW result, Failed(r, result)
    PROVE  Strolls(r)
  BY AnsweredStrolls DEF Failed

LEMMA ReplayStrolls ==
    ASSUME DocumentTypes, TradeTypes, NEW r \in Request, Replay(r)
    PROVE  Strolls(r)
<1>1. UNCHANGED central
  BY DEF Replay
<1>2. PICK result, exchange : Answered(r, result, exchange)
  BY DEF Replay
<1>3. QED
  BY <1>1, <1>2, AnsweredStrolls

LEMMA ArriveStrolls ==
    ASSUME ConstantsAssumption, DocumentTypes, PathInv, TradeTypes, LoopInv, NEW r \in Request, Arrive(r)
    PROVE  Strolls(r)
<1>1. CASE Found(r)
  BY <1>1, ReplayStrolls DEF Arrive
<1>2. CASE ~Found(r)
  <2>1. PICK step \in {"key", "sale", "customer"} :
          pc[r] = "idle" /\ Goto(r, step) /\ UNCHANGED <<rows, balance, central>>
    BY <1>2 DEF Arrive
  <2>2. step \in Pcs \ {"commit"}
    BY DEF Pcs
  <2>3. ASSUME pc'[r] = step
        PROVE  TakesLocks(r) /\ InLoop(r)'
    <3>1. rows' = rows /\ (Kind[r] # "exchange" => rows[r] = {})
      BY <2>1 DEF LoopInv, InLoop
    <3>2. TakesLocks(r)
      BY <2>3, <3>1 DEF TakesLocks, HoldsSale, OwnsCustomer, SharesCustomer, Validated, Numbered, Filed
    <3>3. QED
      BY <2>3, <3>1, <3>2 DEF InLoop
  <2>4. QED
    BY <2>1, <2>2, <2>3, GotoStrolls
<1>3. QED
  BY <1>1, <1>2

LEMMA LockKeyStrolls ==
    ASSUME ConstantsAssumption, DocumentTypes, PathInv, TradeTypes, LoopInv, NEW r \in Request, LockKey(r)
    PROVE  Strolls(r)
<1>1. CASE Found(r)
  BY <1>1, ReplayStrolls DEF LockKey
<1>2. CASE ~Found(r)
  <2>1. pc[r] = "key" /\ Goto(r, "sale") /\ UNCHANGED <<rows, balance, central>>
    BY <1>2 DEF LockKey
  <2>2. "sale" \in Pcs \ {"commit"}
    BY DEF Pcs
  <2>3. ASSUME pc'[r] = "sale"
        PROVE  TakesLocks(r) /\ InLoop(r)'
    <3>1. rows' = rows /\ (Kind[r] # "exchange" => rows[r] = {})
      BY <2>1 DEF LoopInv, InLoop
    <3>2. TakesLocks(r)
      BY <2>3, <3>1 DEF TakesLocks, HoldsSale, OwnsCustomer, SharesCustomer, Validated, Numbered, Filed
    <3>3. QED
      BY <2>3, <3>1, <3>2 DEF InLoop
  <2>4. QED
    BY <2>1, <2>2, <2>3, GotoStrolls
<1>3. QED
  BY <1>1, <1>2

\* The lists of what comes back and of what goes out.
LEMMA Lists ==
    ASSUME ConstantsAssumption, NEW r \in Request
    PROVE  /\ Len(Lines[r]) \in Nat /\ DOMAIN Lines[r] = 1..Len(Lines[r])
           /\ \A i \in DOMAIN Lines[r] : Lines[r][i].line \in Line /\ Lines[r][i].qty \in Nat
           /\ Returning(r) <=> Len(Lines[r]) # 0
           /\ Len(Wanted[r]) \in Nat /\ DOMAIN Wanted[r] = 1..Len(Wanted[r])
           /\ \A i \in DOMAIN Wanted[r] : Wanted[r][i].product \in Product
           /\ Kind[r] \in {"return", "payment"} <=> Len(Wanted[r]) = 0
<1>1. /\ Lines[r] \in Seq([line : Line, qty : Nat \ {0}])
      /\ Wanted[r] \in Seq([product : Product, qty : Nat \ {0}])
  BY DEF ConstantsAssumption
<1>2. /\ Returning(r) <=> Lines[r] # <<>>
      /\ Kind[r] \in {"return", "payment"} <=> Wanted[r] = <<>>
  BY DEF ConstantsAssumption, Returning
<1>3. \A X : \A s \in Seq(X) : /\ Len(s) \in Nat /\ DOMAIN s = 1..Len(s) /\ (s # <<>> <=> Len(s) # 0)
                             /\ \A i \in DOMAIN s : s[i] \in X
  BY EmptySeq, ElementOfSeq, LenProperties
<1>4. \A i \in DOMAIN Lines[r] : Lines[r][i].line \in Line /\ Lines[r][i].qty \in Nat
  <2> DEFINE Item == [line : Line, qty : Nat \ {0}]
  <2>1. Lines[r] \in Seq(Item)
    BY <1>1
  <2>2. \A i \in DOMAIN Lines[r] : Lines[r][i] \in Item
    <3> HIDE DEF Item
    <3>1. QED
      BY <1>3, <2>1
  <2>3. QED
    BY <2>2
<1>5. \A i \in DOMAIN Wanted[r] : Wanted[r][i].product \in Product
  <2> DEFINE Item == [product : Product, qty : Nat \ {0}]
  <2>1. Wanted[r] \in Seq(Item)
    BY <1>1
  <2>2. \A i \in DOMAIN Wanted[r] : Wanted[r][i] \in Item
    <3> HIDE DEF Item
    <3>1. QED
      BY <1>3, <2>1
  <2>3. QED
    BY <2>2
<1>6. Returning(r) <=> Len(Lines[r]) # 0
  BY <1>1, <1>2, <1>3
<1>7. Kind[r] \in {"return", "payment"} <=> Len(Wanted[r]) = 0
  BY <1>1, <1>2, <1>3
<1>8. QED
  BY <1>1, <1>3, <1>4, <1>5, <1>6, <1>7

LEMMA LockSaleStrolls ==
    ASSUME ConstantsAssumption, DocumentTypes, PathInv, TradeTypes, LoopInv, NEW r \in Request, LockSale(r)
    PROVE  Strolls(r)
<1>1. CASE ~Returnable(r)
  BY <1>1, FailedStrolls DEF LockSale
<1>2. CASE Returnable(r)
  <2>1. PICK step \in {"rows", "number"} :
          /\ pc[r] = "sale" /\ Free(r) /\ Goto(r, step) /\ UNCHANGED <<rows, balance, central>>
          /\ step = "rows" <=> Kind[r] = "exchange"
    BY <1>2 DEF LockSale
  <2>2. step \in Pcs \ {"commit"}
    BY DEF Pcs, Validated
  <2>3. ASSUME pc'[r] = step, line'[r] = 0
        PROVE  TakesLocks(r) /\ InLoop(r)'
    <3>1. rows' = rows /\ (Kind[r] # "exchange" => rows[r] = {}) /\ Returning(r)
      BY <2>1 DEF LoopInv, InLoop, PathInv, OnPath
    <3>2. \A q \in Request \ {r} : HoldsSale(q) => SaleOf[q] # SaleOf[r]
      BY <2>1 DEF Free, WaitsFor
    <3>3. ~OwnsCustomer(r)' /\ ~SharesCustomer(r)'
      BY <2>1, <2>3, <3>1 DEF OwnsCustomer, SharesCustomer, Filed, Returning
    <3>4. TakesLocks(r)
      BY <1>2, <3>1, <3>2, <3>3 DEF TakesLocks
    <3>5. step = "rows" => 0 < Len(Wanted[r])
      <4>1. Kind[r] = "exchange" => Len(Wanted[r]) \in Nat \ {0}
        BY Lists
      <4>2. QED
        BY <2>1, <4>1
    <3>6. QED
      BY <2>1, <2>3, <3>1, <3>4, <3>5 DEF InLoop
  <2>4. QED
    BY <2>1, <2>2, <2>3, GotoStrolls
<1>3. QED
  BY <1>1, <1>2

LEMMA LockCustomerStrolls ==
    ASSUME ConstantsAssumption, DocumentTypes, PathInv, TradeTypes, LoopInv, NEW r \in Request,
           LockCustomer(r)
    PROVE  Strolls(r)
<1>1. PICK step \in {"rows", "settle"} :
        /\ pc[r] = "customer" /\ Free(r) /\ Goto(r, step) /\ UNCHANGED <<rows, balance, central>>
        /\ step = "settle" <=> Wanted[r] = <<>>
  BY DEF LockCustomer
<1>2. step \in Pcs \ {"commit"}
  BY DEF Pcs, Validated, Numbered, Filed
<1>3. ASSUME pc'[r] = step, line'[r] = 0
      PROVE  TakesLocks(r) /\ InLoop(r)'
  <2>1. rows' = rows /\ (Kind[r] # "exchange" => rows[r] = {}) /\ ~Returning(r)
    BY <1>1 DEF LoopInv, InLoop, PathInv, OnPath
  <2>2. CustomerOf[r] # None
    BY <2>1 DEF ConstantsAssumption, Returning, Kinds
  <2>3. \A q \in Request \ {r} : OwnsCustomer(q) \/ SharesCustomer(q) => CustomerOf[q] # CustomerOf[r]
    BY <1>1, <2>2 DEF Free, WaitsFor
  <2>4. ~HoldsSale(r)' /\ ~SharesCustomer(r)'
    BY <2>1 DEF HoldsSale, SharesCustomer, Returning
  <2>5. TakesLocks(r)
    BY <2>1, <2>3, <2>4 DEF TakesLocks
  <2>6. step = "rows" => 0 < Len(Wanted[r])
    <3>1. Wanted[r] \in Seq([product : Product, qty : Nat \ {0}])
      BY DEF ConstantsAssumption
    <3>2. QED
      BY <1>1, <3>1
  <2>7. rows'[r] = {}
    BY <2>1 DEF Returning
  <2>8. QED
    BY <1>1, <1>3, <2>5, <2>6, <2>7 DEF InLoop
<1>4. QED
  BY <1>1, <1>2, <1>3, GotoStrolls

\* The loop of a request has done one row more, and holds it.
LEMMA RowTaken ==
    ASSUME ConstantsAssumption, DocumentTypes, TradeTypes, NEW r \in Request,
           NEW items, NEW next \in Pcs \ {"commit"}, Len(items) \in Nat, line[r] < Len(items),
           NextOf(r, items, next), UNCHANGED <<balance, central>>,
           NEW more \in SUBSET Product, rows' = [rows EXCEPT ![r] = @ \cup more],
           \A q \in Request \ {r} : more \cap rows[q] = {},
           pc'[r] \in {pc[r], next} => /\ HoldsSale(r)' => HoldsSale(r)
                                       /\ OwnsCustomer(r)' => OwnsCustomer(r)
                                       /\ SharesCustomer(r)' => SharesCustomer(r),
           pc[r] # "commit",
           \/ /\ pc'[r] = pc[r] /\ line'[r] = line[r] + 1 /\ line[r] + 1 < Len(items)
           \/ /\ pc'[r] = next /\ line'[r] = 0
           => InLoop(r)'
    PROVE  Strolls(r)
<1>1. rows' \in [Request -> SUBSET Product] /\ rows'[r] = rows[r] \cup more
  BY DEF TradeTypes
<1>2. /\ \/ /\ pc'[r] = pc[r] /\ line'[r] = line[r] + 1 /\ line[r] + 1 < Len(items)
         \/ /\ pc'[r] = next /\ line'[r] = 0
      /\ line' \in [Request -> Nat]
      /\ \A q \in Request : q # r => pc'[q] = pc[q] /\ line'[q] = line[q]
  <2>1. CASE line[r] + 1 = Len(items)
    <3>1. pc' = [pc EXCEPT ![r] = next] /\ line' = [line EXCEPT ![r] = 0]
      BY <2>1 DEF NextOf, Goto
    <3>2. QED
      BY <3>1 DEF DocumentTypes, TradeTypes
  <2>2. CASE line[r] + 1 # Len(items)
    <3>1. pc' = pc /\ line' = [line EXCEPT ![r] = @ + 1]
      BY <2>2 DEF NextOf
    <3>2. PICK n \in Nat : n = line[r]
      BY DEF TradeTypes
    <3>3. n + 1 < Len(items)
      BY <2>2, <3>2
    <3>4. line'[r] = n + 1 /\ line' \in [Request -> Nat]
      BY <3>1, <3>2 DEF TradeTypes
    <3>5. \A q \in Request : q # r => line'[q] = line[q]
      BY <3>1 DEF TradeTypes
    <3>6. QED
      BY <3>1, <3>2, <3>3, <3>4, <3>5
  <2>3. QED
    BY <2>1, <2>2
<1>3. \A q \in Request : q # r => rows'[q] = rows[q] /\ balance'[q] = balance[q]
  BY DEF TradeTypes
<1>4. TradeTypes' /\ Alone(r)
  BY <1>1, <1>2, <1>3 DEF TradeTypes, Alone, central
<1>5. TakesLocks(r)
  <2>1. \A q \in Request \ {r} : \A p \in rows'[r] : p \in rows[r] \/ p \notin rows[q]
    BY <1>1
  <2>2. QED
    BY <1>2, <2>1 DEF TakesLocks
<1>6. QED
  BY <1>2, <1>4, <1>5 DEF Strolls, central

LEMMA LockRowStrolls ==
    ASSUME ConstantsAssumption, DocumentTypes, PathInv, TradeTypes, LoopInv, NEW r \in Request, LockRow(r)
    PROVE  Strolls(r)
<1> DEFINE item == LockOrder[r][line[r] + 1]
           next == IF Kind[r] = "exchange" THEN "number" ELSE "settle"
<1>1. /\ pc[r] = "rows" /\ Free(r) /\ Kind[r] # "return" /\ line[r] \in Nat /\ line[r] < Len(Wanted[r])
      /\ OnPath(r) /\ InLoop(r)
  BY DEF LockRow, PathInv, OnPath, LoopInv, InLoop, TradeTypes
<1>2. CASE Failed(r, "refused")
  BY <1>2, FailedStrolls
<1>3. CASE /\ item.product \in HasRow
           /\ rows' = [rows EXCEPT ![r] = @ \cup {item.product}]
           /\ NextOf(r, Wanted[r], next)
           /\ UNCHANGED <<balance, central>>
  <2>1. item.product \in Product
    BY <1>3 DEF ConstantsAssumption
  <2>2. NextRow(r) = {item.product}
    BY <1>1 DEF NextRow
  <2>3. \A q \in Request \ {r} : {item.product} \cap rows[q] = {}
    BY <1>1, <2>2 DEF Free, WaitsFor
  <2>4. next \in Pcs \ {"commit"} /\ Len(Wanted[r]) \in Nat
    BY Lists DEF Pcs, Validated, Numbered, Filed
  <2>5. ASSUME pc'[r] \in {pc[r], next}
        PROVE  /\ HoldsSale(r)' => HoldsSale(r)
               /\ OwnsCustomer(r)' => OwnsCustomer(r)
               /\ SharesCustomer(r)' => SharesCustomer(r)
    BY <1>1, <2>5
       DEF HoldsSale, OwnsCustomer, SharesCustomer, Returning, Validated, Numbered, Filed
  <2>6. ASSUME \/ /\ pc'[r] = pc[r] /\ line'[r] = line[r] + 1 /\ line[r] + 1 < Len(Wanted[r])
               \/ /\ pc'[r] = next /\ line'[r] = 0
        PROVE  InLoop(r)'
    <3>1. CASE pc'[r] = pc[r] /\ line'[r] = line[r] + 1 /\ line[r] + 1 < Len(Wanted[r])
      <4>1. ASSUME Kind[r] = "sale", NEW p \in rows'[r]
            PROVE  \E i \in 1..line'[r] : p = LockOrder[r][i].product
        <5>1. p \in rows[r] \/ p = item.product
          BY <1>3, <4>1 DEF TradeTypes
        <5>2. CASE p = item.product
          <6>1. line[r] + 1 \in 1..line'[r]
            BY <1>1, <3>1
          <6>2. QED
            BY <5>2, <6>1
        <5>3. CASE p \in rows[r]
          <6>1. PICK i \in 1..line[r] : p = LockOrder[r][i].product
            BY <1>1, <4>1, <5>3 DEF InLoop
          <6>2. i \in 1..line'[r]
            BY <1>1, <3>1
          <6>3. QED
            BY <6>1, <6>2
        <5>4. QED
          BY <5>1, <5>2, <5>3
      <4>2. QED
        BY <1>1, <3>1, <4>1 DEF InLoop
    <3>2. CASE pc'[r] = next /\ line'[r] = 0
      BY <1>1, <3>2 DEF InLoop
    <3>3. QED
      BY <2>6, <3>1, <3>2
  <2> DEFINE more == {item.product}
  <2>7. more \in SUBSET Product /\ rows' = [rows EXCEPT ![r] = @ \cup more]
    BY <1>3, <2>1
  <2>8. \A q \in Request \ {r} : more \cap rows[q] = {}
    BY <2>3
  <2> HIDE DEF item, next, more
  <2>9. pc[r] # "commit" /\ NextOf(r, Wanted[r], next) /\ UNCHANGED <<balance, central>>
    BY <1>1, <1>3
  <2>10. QED
    BY <1>1, <2>4, <2>5, <2>6, <2>7, <2>8, <2>9, RowTaken
<1>4. QED
  BY <1>2, <1>3 DEF LockRow

LEMMA TakeNumberStrolls ==
    ASSUME ConstantsAssumption, DocumentTypes, PathInv, TradeTypes, LoopInv, NEW r \in Request,
           TakeNumber(r)
    PROVE  Strolls(r)
<1>1. pc[r] = "number" /\ Goto(r, "header") /\ UNCHANGED <<rows, balance, central>>
  BY DEF TakeNumber
<1>2. "header" \in Pcs \ {"commit"}
  BY DEF Pcs, Validated, Numbered
<1>3. ASSUME pc'[r] = "header"
      PROVE  TakesLocks(r) /\ InLoop(r)'
  <2>1. rows' = rows /\ (Kind[r] # "exchange" => rows[r] = {}) /\ Returning(r)
    BY <1>1 DEF LoopInv, InLoop, PathInv, OnPath
  <2>2. HoldsSale(r) /\ ~OwnsCustomer(r)' /\ ~SharesCustomer(r)'
    BY <1>1, <1>3, <2>1
       DEF HoldsSale, OwnsCustomer, SharesCustomer, Returning, Validated, Numbered, Filed
  <2>3. QED
    BY <1>3, <2>1, <2>2 DEF TakesLocks, InLoop
<1>4. QED
  BY <1>1, <1>2, <1>3, GotoStrolls

LEMMA InsertHeaderStrolls ==
    ASSUME ConstantsAssumption, DocumentTypes, PathInv, TradeTypes, LoopInv, NEW r \in Request,
           InsertHeader(r)
    PROVE  Strolls(r)
<1>1. pc[r] = "header" /\ Free(r) /\ Goto(r, "restore") /\ UNCHANGED <<rows, balance, central>>
  BY DEF InsertHeader
<1>2. "restore" \in Pcs \ {"commit"}
  BY DEF Pcs, Validated, Numbered, Filed
<1>3. ASSUME pc'[r] = "restore", line'[r] = 0
      PROVE  TakesLocks(r) /\ InLoop(r)'
  <2>1. rows' = rows /\ (Kind[r] # "exchange" => rows[r] = {}) /\ Returning(r)
    BY <1>1 DEF LoopInv, InLoop, PathInv, OnPath
  <2>2. HoldsSale(r) /\ ~OwnsCustomer(r)'
    BY <1>1, <2>1 DEF HoldsSale, OwnsCustomer, Returning, Validated, Numbered
  <2>3. \A q \in Request \ {r} : OwnsCustomer(q) => CustomerOf[q] # CustomerOf[r]
    <3>1. TAKE q \in Request \ {r}
    <3>2. HAVE OwnsCustomer(q)
    <3>3. CustomerOf[q] # None
      BY <3>2 DEF OwnsCustomer, Returning, ConstantsAssumption, Kinds
    <3>4. QED
      BY <1>1, <3>2, <3>3 DEF Free, WaitsFor
  <2>4. TakesLocks(r)
    BY <2>1, <2>2, <2>3 DEF TakesLocks
  <2>5. 0 < Len(Lines[r])
    <3>1. Len(Lines[r]) \in Nat \ {0}
      BY <2>1, Lists
    <3>2. QED
      BY <3>1
  <2>6. QED
    BY <1>3, <2>1, <2>4, <2>5 DEF InLoop
<1>4. QED
  BY <1>1, <1>2, <1>3, GotoStrolls

LEMMA RestoreRowStrolls ==
    ASSUME ConstantsAssumption, DocumentTypes, PathInv, TradeTypes, LoopInv, NEW r \in Request,
           RestoreRow(r)
    PROVE  Strolls(r)
<1> DEFINE product == LineProduct[Lines[r][line[r] + 1].line]
<1>1. /\ pc[r] = "restore" /\ Free(r) /\ Returning(r) /\ line[r] \in Nat /\ line[r] < Len(Lines[r])
      /\ OnPath(r) /\ InLoop(r)
  BY DEF RestoreRow, PathInv, OnPath, LoopInv, InLoop, TradeTypes
<1>2. CASE RestoredRow(r) = {}
  BY <1>2, FailedStrolls DEF RestoreRow
<1>3. CASE RestoredRow(r) # {}
  <2>1. /\ rows' = [rows EXCEPT ![r] = @ \cup RestoredRow(r)]
        /\ NextOf(r, Lines[r], "settle")
        /\ UNCHANGED <<balance, central>>
    BY <1>3 DEF RestoreRow
  <2>2. RestoredRow(r) \in SUBSET Product /\ RestoredRow(r) \subseteq {product}
    BY DEF RestoredRow, ConstantsAssumption
  <2>3. \A q \in Request \ {r} : RestoredRow(r) \cap rows[q] = {}
    BY <1>1 DEF Free, WaitsFor, NextRow
  <2>4. "settle" \in Pcs \ {"commit"} /\ Len(Lines[r]) \in Nat
    BY Lists DEF Pcs, Validated, Numbered, Filed
  <2>5. ASSUME pc'[r] \in {pc[r], "settle"}
        PROVE  /\ HoldsSale(r)' => HoldsSale(r)
               /\ OwnsCustomer(r)' => OwnsCustomer(r)
               /\ SharesCustomer(r)' => SharesCustomer(r)
    BY <1>1, <2>5
       DEF HoldsSale, OwnsCustomer, SharesCustomer, Returning, Validated, Numbered, Filed
  <2>6. ASSUME \/ /\ pc'[r] = pc[r] /\ line'[r] = line[r] + 1 /\ line[r] + 1 < Len(Lines[r])
               \/ /\ pc'[r] = "settle" /\ line'[r] = 0
        PROVE  InLoop(r)'
    <3>1. CASE pc'[r] = pc[r] /\ line'[r] = line[r] + 1 /\ line[r] + 1 < Len(Lines[r])
      <4>1. ASSUME Kind[r] = "return", NEW p \in rows'[r]
            PROVE  \E i \in 1..line'[r] : p = LineProduct[Lines[r][i].line]
        <5>1. p \in rows[r] \/ p = product
          BY <2>1, <2>2, <4>1 DEF TradeTypes
        <5>2. CASE p = product
          <6>1. line[r] + 1 \in 1..line'[r]
            BY <1>1, <3>1
          <6>2. QED
            BY <5>2, <6>1
        <5>3. CASE p \in rows[r]
          <6>1. PICK i \in 1..line[r] : p = LineProduct[Lines[r][i].line]
            BY <1>1, <4>1, <5>3 DEF InLoop
          <6>2. i \in 1..line'[r]
            BY <1>1, <3>1
          <6>3. QED
            BY <6>1, <6>2
        <5>4. QED
          BY <5>1, <5>2, <5>3
      <4>2. QED
        BY <1>1, <3>1, <4>1 DEF InLoop
    <3>2. CASE pc'[r] = "settle" /\ line'[r] = 0
      BY <1>1, <3>2 DEF InLoop
    <3>3. QED
      BY <2>6, <3>1, <3>2
  <2>7. QED
    BY <1>1, <2>1, <2>2, <2>3, <2>4, <2>5, <2>6, RowTaken
<1>4. QED
  BY <1>2, <1>3

LEMMA SettleStrolls ==
    ASSUME ConstantsAssumption, DocumentTypes, PathInv, TradeTypes, LoopInv, NEW r \in Request, Settle(r)
    PROVE  Strolls(r)
<1>1. pc[r] = "settle" /\ InLoop(r)
  BY DEF Settle, LoopInv
<1>2. CASE Failed(r, "refused")
  BY <1>2, FailedStrolls
<1>3. CASE /\ balance' = [balance EXCEPT ![r] = IF Entry[r] = 0 THEN 0 ELSE owed[CustomerOf[r]]]
           /\ Goto(r, "commit") /\ UNCHANGED <<rows, central>>
  <2>1. pc' = [pc EXCEPT ![r] = "commit"] /\ line' = [line EXCEPT ![r] = 0]
    BY <1>3 DEF Goto
  <2>2. /\ pc'[r] = "commit" /\ line' \in [Request -> Nat]
        /\ \A q \in Request : q # r => pc'[q] = pc[q] /\ line'[q] = line[q]
    BY <2>1 DEF DocumentTypes, TradeTypes
  <2>3. Entry[r] # 0 => CustomerOf[r] \in Customer
    BY DEF ConstantsAssumption
  <2>4. PICK n \in Int : n = IF Entry[r] = 0 THEN 0 ELSE owed[CustomerOf[r]]
    BY <2>3 DEF TradeTypes
  <2>5. balance' = [balance EXCEPT ![r] = n]
    BY <1>3, <2>4
  <2>6. /\ balance' \in [Request -> Int] /\ balance'[r] = n
        /\ \A q \in Request : q # r => balance'[q] = balance[q]
    BY <2>5 DEF TradeTypes
  <2>7. TradeTypes' /\ Alone(r)
    BY <1>3, <2>2, <2>6 DEF TradeTypes, Alone, central
  <2>8. TakesLocks(r)
    BY <1>1, <1>3, <2>2
       DEF TakesLocks, HoldsSale, OwnsCustomer, SharesCustomer, Returning, Validated, Numbered, Filed
  <2>9. InLoop(r)'
    BY <1>1, <1>3, <2>2 DEF InLoop
  <2>10. QED
    BY <1>3, <2>4, <2>6, <2>7, <2>8, <2>9 DEF Strolls, central
<1>4. QED
  BY <1>2, <1>3 DEF Settle

\* What a request brings back of a line it does not list, or lists once.
LEMMA NoneBack ==
    ASSUME ConstantsAssumption, NEW r \in Request, NEW l \in Line,
           \A i \in DOMAIN Lines[r] : Lines[r][i].line # l
    PROVE  BackOf[r][l] = 0
<1> DEFINE places == {i \in DOMAIN Lines[r] : Lines[r][i].line = l}
           f == [i \in DOMAIN Lines[r] |-> Lines[r][i].qty]
<1>1. BackOf[r][l] = SumFunctionOnSet(f, places)
  BY DEF BackOf, Total
<1>2. places = {}
  OBVIOUS
<1> HIDE DEF places, f
<1>3. QED
  BY <1>1, <1>2, SumOfNone

QtyBack(r, i) == Lines[r][i].qty

OnlyPlace(r, l, i) == \A j \in DOMAIN Lines[r] : Lines[r][j].line = l <=> i = j

LEMMA OneBack ==
    ASSUME ConstantsAssumption, NEW r \in Request, NEW l \in Line,
           NEW i \in DOMAIN Lines[r], OnlyPlace(r, l, i)
    PROVE  BackOf[r][l] = QtyBack(r, i)
<1> DEFINE places == {j \in DOMAIN Lines[r] : Lines[r][j].line = l}
           f == [j \in DOMAIN Lines[r] |-> Lines[r][j].qty]
<1>1. BackOf[r][l] = SumFunctionOnSet(f, places)
  BY DEF BackOf, Total
<1>2. places = {i}
  BY DEF OnlyPlace
<1>3. f[i] = QtyBack(r, i)
  BY DEF QtyBack
<1>4. QtyBack(r, i) \in Nat
  BY Lists DEF QtyBack
<1> HIDE DEF places, f
<1>5. f[i] \in Int
  BY <1>3, <1>4
<1>6. SumFunctionOnSet(f, {i}) = f[i]
  BY <1>5, SumOfOne
<1>7. QED
  BY <1>1, <1>2, <1>3, <1>6

LEMMA OthersInLoop ==
    ASSUME LoopInv, NEW r \in Request, Alone(r), InLoop(r)'
    PROVE  LoopInv'
<1>1. ASSUME NEW q \in Request, q # r
      PROVE  InLoop(q)'
  <2>1. pc'[q] = pc[q] /\ line'[q] = line[q] /\ rows'[q] = rows[q] /\ InLoop(q)
    BY <1>1 DEF Alone, LoopInv
  <2>2. QED
    BY <2>1 DEF InLoop
<1>2. QED
  BY <1>1 DEF LoopInv

LEMMA StrollsKeeps ==
    ASSUME ConstantsAssumption, DocumentTypes, TradeInv, NEW r \in Request, Strolls(r)
    PROVE  TradeInv'
<1>1. /\ TradeTypes' /\ Alone(r) /\ TakesLocks(r) /\ InLoop(r)'
      /\ UNCHANGED <<applied, returned, owed, shown>>
      /\ TradeTypes /\ LockInv /\ ReturnInv /\ BookInv /\ LoopInv
  BY DEF Strolls, TradeInv
<1>2. \A q \in Request : q # r => /\ HoldsSale(q)' = HoldsSale(q)
                                  /\ OwnsCustomer(q)' = OwnsCustomer(q)
                                  /\ SharesCustomer(q)' = SharesCustomer(q)
                                  /\ rows'[q] = rows[q]
  BY <1>1 DEF Alone, HoldsSale, OwnsCustomer, SharesCustomer, Returning
<1>3. LockInv'
  <2>1. \A p, q \in Request : HoldsSale(p)' /\ HoldsSale(q)' /\ SaleOf[q] = SaleOf[p] => p = q
    BY <1>1, <1>2 DEF LockInv, TakesLocks
  <2>2. \A p, q \in Request :
           OwnsCustomer(p)' /\ (OwnsCustomer(q)' \/ SharesCustomer(q)') /\ CustomerOf[q] = CustomerOf[p]
              => p = q
    <3>1. SUFFICES ASSUME NEW p \in Request, NEW q \in Request, p # q, OwnsCustomer(p)',
                          OwnsCustomer(q)' \/ SharesCustomer(q)', CustomerOf[q] = CustomerOf[p]
                   PROVE  FALSE
      OBVIOUS
    <3>2. CASE p # r /\ q # r
      BY <1>1, <1>2, <3>1, <3>2 DEF LockInv
    <3>3. CASE p = r
      <4>1. q # r /\ (OwnsCustomer(q) \/ SharesCustomer(q))
        BY <1>2, <3>1, <3>3
      <4>2. OwnsCustomer(r)
        BY <1>1, <3>1, <3>3, <4>1 DEF TakesLocks
      <4>3. QED
        BY <1>1, <3>1, <3>3, <4>1, <4>2 DEF LockInv
    <3>4. CASE q = r
      <4>1. p # r /\ OwnsCustomer(p)
        BY <1>2, <3>1, <3>4
      <4>2. OwnsCustomer(r) \/ SharesCustomer(r)
        BY <1>1, <3>1, <3>4, <4>1 DEF TakesLocks
      <4>3. QED
        BY <1>1, <3>1, <3>4, <4>1, <4>2 DEF LockInv
    <3>5. QED
      BY <3>2, <3>3, <3>4
  <2>3. \A p, q \in Request : \A row \in rows'[p] : row \in rows'[q] => p = q
    <3>1. SUFFICES ASSUME NEW p \in Request, NEW q \in Request, p # q,
                          NEW row, row \in rows'[p], row \in rows'[q]
                   PROVE  FALSE
      OBVIOUS
    <3>2. row \in rows[p] /\ row \in rows[q]
      BY <1>1, <1>2, <3>1 DEF TakesLocks
    <3>3. QED
      BY <1>1, <3>1, <3>2 DEF LockInv
  <2>4. QED
    BY <2>1, <2>2, <2>3 DEF LockInv
<1>4. ReturnInv'
  <2>1. \A l : ListedOnce(l)' = ListedOnce(l)
    BY <1>1 DEF ListedOnce
  <2>2. \A l \in Line : ListedOnce(l)' => returned'[l] \in Nat /\ returned'[l] <= LineQty[l]
    BY <1>1, <2>1 DEF ReturnInv
  <2>3. ASSUME NEW q \in Request, HoldsSale(q)', NEW i \in DOMAIN Lines[q]
        PROVE  LineSale[Lines[q][i].line] = SaleOf[q] /\ StillFits(Lines[q][i])'
    <3>1. CASE HoldsSale(q)
      BY <1>1, <2>1, <2>3, <3>1 DEF ReturnInv, StillFits
    <3>2. CASE ~HoldsSale(q)
      <4>1. q = r /\ Returnable(r)
        BY <1>1, <1>2, <2>3, <3>2 DEF TakesLocks
      <4>2. QED
        BY <1>1, <4>1 DEF Returnable, StillFits
    <3>3. QED
      BY <3>1, <3>2
  <2>4. QED
    BY <2>2, <2>3 DEF ReturnInv
<1>5. BookInv'
  <2>1. \A q : Elsewhere(q)' = Elsewhere(q)
    BY <1>1 DEF Elsewhere, Returning
  <2>2. ASSUME NEW q \in Request, pc'[q] = "commit", Entry[q] # 0
        PROVE  balance'[q] = owed'[CustomerOf[q]] \/ Elsewhere(q)'
    <3>1. CASE q = r
      BY <1>1, <2>2, <3>1 DEF Strolls
    <3>2. CASE q # r
      BY <1>1, <2>1, <2>2, <3>2 DEF BookInv, Alone
    <3>3. QED
      BY <3>1, <3>2
  <2>3. LastEntryIsExact'
    BY <1>1 DEF BookInv, LastEntryIsExact, Returning
  <2>4. QED
    BY <2>2, <2>3 DEF BookInv
<1>6. LoopInv'
  BY <1>1, OthersInLoop
<1>7. QED
  BY <1>1, <1>3, <1>4, <1>5, <1>6 DEF TradeInv

LEMMA CommitKeeps ==
    ASSUME ConstantsAssumption, DocumentTypes, PathInv, TradeInv, NEW r \in Request, Commit(r)
    PROVE  TradeInv'
<1>1. /\ TradeTypes /\ LockInv /\ ReturnInv /\ BookInv /\ LoopInv
      /\ pc[r] = "commit" /\ applied' = applied \cup {r} /\ applied \subseteq Request
      /\ returned' = [l \in Line |-> returned[l] + BackOf[r][l]]
      /\ owed' = [c \in Customer |-> owed[c] + IF c = CustomerOf[r] THEN Entry[r] ELSE 0]
      /\ shown' = [c \in Customer |-> IF c = CustomerOf[r] /\ Entry[r] # 0
                                      THEN balance[r] + Entry[r] ELSE shown[c]]
  BY DEF Commit, TradeInv, DocumentTypes
<1>2. /\ pc' = [pc EXCEPT ![r] = "done"] /\ line' = [line EXCEPT ![r] = 0]
      /\ rows' = [rows EXCEPT ![r] = {}] /\ balance' = [balance EXCEPT ![r] = 0]
  BY DEF Commit, Answered, Goto
<1>3. pc'[r] = "done" /\ rows'[r] = {} /\ Alone(r)
  BY <1>1, <1>2 DEF DocumentTypes, TradeTypes, Alone
<1>4. /\ ~HoldsSale(r)' /\ ~OwnsCustomer(r)' /\ ~SharesCustomer(r)'
      /\ Returning(r) => HoldsSale(r) /\ SharesCustomer(r)
      /\ ~Returning(r) => OwnsCustomer(r)
  BY <1>1, <1>3 DEF HoldsSale, OwnsCustomer, SharesCustomer, Validated, Numbered, Filed
<1>5. \A q \in Request : q # r => /\ HoldsSale(q)' = HoldsSale(q)
                                  /\ OwnsCustomer(q)' = OwnsCustomer(q)
                                  /\ SharesCustomer(q)' = SharesCustomer(q)
                                  /\ rows'[q] = rows[q]
  BY <1>3 DEF Alone, HoldsSale, OwnsCustomer, SharesCustomer, Returning
<1>6. Entry[r] \in Int /\ (Entry[r] # 0 => CustomerOf[r] \in Customer)
  BY DEF ConstantsAssumption
<1>7. TradeTypes'
  <2>1. line' \in [Request -> Nat] /\ rows' \in [Request -> SUBSET Product] /\ balance' \in [Request -> Int]
    BY <1>1, <1>2 DEF TradeTypes
  <2>2. owed' \in [Customer -> Int] /\ shown' \in [Customer -> Int]
    BY <1>1, <1>6 DEF TradeTypes
  <2>3. QED
    BY <2>1, <2>2 DEF TradeTypes
<1>8. LockInv'
  <2>1. \A q \in Request : HoldsSale(q)' => HoldsSale(q)
    BY <1>4, <1>5
  <2>2. \A q \in Request : /\ OwnsCustomer(q)' => OwnsCustomer(q)
                           /\ SharesCustomer(q)' => SharesCustomer(q)
    BY <1>4, <1>5
  <2>3. \A q \in Request : \A p \in rows'[q] : p \in rows[q]
    BY <1>3, <1>5
  <2>4. \A p, q \in Request : HoldsSale(p)' /\ HoldsSale(q)' /\ SaleOf[q] = SaleOf[p] => p = q
    BY <1>1, <2>1 DEF LockInv
  <2>5. \A p, q \in Request :
           OwnsCustomer(p)' /\ (OwnsCustomer(q)' \/ SharesCustomer(q)') /\ CustomerOf[q] = CustomerOf[p]
              => p = q
    BY <1>1, <2>2 DEF LockInv
  <2>6. \A p, q \in Request : \A row \in rows'[p] : row \in rows'[q] => p = q
    BY <1>1, <2>3 DEF LockInv
  <2>7. QED
    BY <2>4, <2>5, <2>6 DEF LockInv
<1>9. ReturnInv'
  <2>1. \A l : ListedOnce(l)' => ListedOnce(l)
    BY <1>1 DEF ListedOnce
  <2>2. ASSUME NEW l \in Line, ListedOnce(l)', \A i \in DOMAIN Lines[r] : Lines[r][i].line # l
        PROVE  returned'[l] = returned[l]
    <3>1. BackOf[r][l] = 0
      BY <2>2, NoneBack
    <3>2. returned[l] \in Nat
      BY <1>1, <2>1, <2>2 DEF ReturnInv
    <3>3. returned'[l] = returned[l] + 0
      BY <1>1, <3>1
    <3>4. QED
      BY <3>2, <3>3
  <2>3. ASSUME NEW l \in Line, ListedOnce(l)'
        PROVE  returned'[l] \in Nat /\ returned'[l] <= LineQty[l]
    <3>1. returned[l] \in Nat /\ returned[l] <= LineQty[l] /\ LineQty[l] \in Nat
      BY <1>1, <2>1, <2>3 DEF ReturnInv, ConstantsAssumption
    <3>2. CASE \A i \in DOMAIN Lines[r] : Lines[r][i].line # l
      BY <2>2, <2>3, <3>1, <3>2
    <3>3. ASSUME NEW i \in DOMAIN Lines[r], Lines[r][i].line = l
          PROVE  returned'[l] \in Nat /\ returned'[l] <= LineQty[l]
      <4>1. OnlyPlace(r, l, i)
        BY <1>1, <2>3, <3>3 DEF ListedOnce, OnlyPlace
      <4>2. BackOf[r][l] = QtyBack(r, i)
        BY <4>1, OneBack
      <4>3. HoldsSale(r)
        <5>1. Len(Lines[r]) # 0
          BY Lists
        <5>2. QED
          BY <1>4, <5>1, Lists
      <4>4. StillFits(Lines[r][i])
        BY <1>1, <4>3 DEF ReturnInv
      <4>5. PICK n \in Nat : n = Lines[r][i].qty /\ n = QtyBack(r, i)
        BY Lists DEF QtyBack
      <4>6. n <= LineQty[l] - returned[l]
        BY <2>1, <2>3, <3>3, <4>4, <4>5 DEF StillFits
      <4>7. PICK a \in Nat, b \in Nat : a = returned[l] /\ b = LineQty[l]
        BY <3>1
      <4>8. returned'[l] = a + n
        BY <1>1, <4>2, <4>5, <4>7
      <4>9. n <= b - a
        BY <4>6, <4>7
      <4>10. a + n \in Nat /\ a + n <= b
        BY <4>9
      <4>11. QED
        BY <4>7, <4>8, <4>10
    <3>4. QED
      BY <3>2, <3>3
  <2>4. ASSUME NEW q \in Request, HoldsSale(q)', NEW i \in DOMAIN Lines[q]
        PROVE  LineSale[Lines[q][i].line] = SaleOf[q] /\ StillFits(Lines[q][i])'
    <3> DEFINE l == Lines[q][i].line
    <3>1. q # r /\ HoldsSale(q) /\ l \in Line
      BY <1>4, <1>5, <2>4, Lists
    <3>2. LineSale[l] = SaleOf[q] /\ StillFits(Lines[q][i])
      BY <1>1, <2>4, <3>1 DEF ReturnInv
    <3>3. ASSUME NEW j \in DOMAIN Lines[r], Lines[r][j].line = l
          PROVE  FALSE
      <4>1. HoldsSale(r)
        <5>1. Len(Lines[r]) # 0
          BY Lists
        <5>2. QED
          BY <1>4, <5>1, Lists
      <4>2. LineSale[Lines[r][j].line] = SaleOf[r]
        BY <1>1, <3>3, <4>1 DEF ReturnInv
      <4>3. QED
        BY <1>1, <3>1, <3>2, <3>3, <4>1, <4>2 DEF LockInv
    <3>4. ListedOnce(l)' => returned'[l] = returned[l]
      BY <2>2, <3>1, <3>3
    <3>5. QED
      BY <2>1, <3>2, <3>4 DEF StillFits
  <2>5. QED
    BY <2>3, <2>4 DEF ReturnInv
<1>10. BookInv'
  <2>1. \A q \in Request : Elsewhere(q) => Elsewhere(q)'
    BY <1>1 DEF Elsewhere, Returning
  <2>2. \A c \in Customer : c # CustomerOf[r] \/ Entry[r] = 0 => owed'[c] = owed[c] /\ shown'[c] = shown[c]
    <3>1. TAKE c \in Customer
    <3>2. HAVE c # CustomerOf[r] \/ Entry[r] = 0
    <3>3. PICK n \in Int : n = owed[c]
      BY <1>1 DEF TradeTypes
    <3>4. owed'[c] = n + 0
      BY <1>1, <3>2, <3>3
    <3>5. QED
      BY <1>1, <3>2, <3>3, <3>4
  <2>3. ASSUME NEW q \in Request, pc'[q] = "commit", Entry[q] # 0
        PROVE  balance'[q] = owed'[CustomerOf[q]] \/ Elsewhere(q)'
    <3>1. /\ q # r /\ pc[q] = "commit" /\ balance'[q] = balance[q]
          /\ CustomerOf[q] \in Customer
      BY <1>3, <2>3 DEF Alone, ConstantsAssumption
    <3>2. /\ Returning(q) => HoldsSale(q) /\ SharesCustomer(q)
          /\ ~Returning(q) => OwnsCustomer(q)
      BY <3>1 DEF HoldsSale, OwnsCustomer, SharesCustomer, Validated, Numbered, Filed
    <3>3. balance[q] = owed[CustomerOf[q]] \/ Elsewhere(q)
      BY <1>1, <2>3, <3>1 DEF BookInv
    <3>4. CASE CustomerOf[q] # CustomerOf[r]
      BY <2>1, <2>2, <3>1, <3>3, <3>4
    <3>5. CASE CustomerOf[q] = CustomerOf[r]
      <4>1. Returning(r) /\ Returning(q)
        BY <1>1, <1>4, <3>1, <3>2, <3>5 DEF LockInv
      <4>2. SaleOf[r] # SaleOf[q]
        BY <1>1, <1>4, <3>1, <3>2, <4>1 DEF LockInv
      <4>3. QED
        BY <1>1, <3>5, <4>1, <4>2 DEF Elsewhere, Returning
    <3>6. QED
      BY <3>4, <3>5
  <2>4. LastEntryIsExact'
    <3>1. SUFFICES ASSUME NEW c \in Customer,
                          \A p, q \in applied' :
                             Returning(p) /\ Returning(q) /\ CustomerOf[p] = c /\ CustomerOf[q] = c
                               => SaleOf[p] = SaleOf[q]
                   PROVE  shown'[c] = owed'[c]
      BY DEF LastEntryIsExact, Returning
    <3>2. shown[c] = owed[c]
      BY <1>1, <3>1 DEF BookInv, LastEntryIsExact
    <3>3. CASE c # CustomerOf[r] \/ Entry[r] = 0
      BY <2>2, <3>2, <3>3
    <3>4. CASE c = CustomerOf[r] /\ Entry[r] # 0
      <4>1. ~Elsewhere(r)
        BY <1>1, <3>1, <3>4 DEF Elsewhere
      <4>2. balance[r] = owed[c]
        BY <1>1, <3>4, <4>1 DEF BookInv
      <4>3. QED
        BY <1>1, <3>4, <4>2
    <3>5. QED
      BY <3>3, <3>4
  <2>5. QED
    BY <2>3, <2>4 DEF BookInv
<1>11. LoopInv'
  <2>1. InLoop(r)'
    BY <1>3 DEF InLoop
  <2>2. QED
    BY <1>1, <1>3, <2>1, OthersInLoop
<1>12. QED
  BY <1>7, <1>8, <1>9, <1>10, <1>11 DEF TradeInv

LEMMA TradePreserved ==
    ASSUME ConstantsAssumption, DocumentTypes, PathInv, TradeInv, [Next]_vars
    PROVE  TradeInv'
<1>1. CASE BreakCircle
  <2>1. PICK r \in Request : Failed(r, "failed")
    BY <1>1 DEF BreakCircle, Circles, Waits
  <2>2. QED
    BY <2>1, FailedStrolls, StrollsKeeps DEF TradeInv
<1>2. ASSUME NEW r \in Request, Arrive(r) \/ Step(r)
      PROVE  TradeInv'
  <2>1. CASE Commit(r)
    BY <2>1, CommitKeeps
  <2>2. CASE ~Commit(r)
    <3>1. Strolls(r)
      BY <1>2, <2>2, ArriveStrolls, LockKeyStrolls, LockSaleStrolls, LockCustomerStrolls,
         LockRowStrolls, TakeNumberStrolls, InsertHeaderStrolls, RestoreRowStrolls, SettleStrolls
         DEF Step, TradeInv
    <3>2. QED
      BY <3>1, StrollsKeeps
  <2>3. QED
    BY <2>1, <2>2
<1>3. CASE UNCHANGED vars
  <2> USE <1>3 DEF vars, request, central, TradeInv
  <2>1. TradeTypes' /\ LockInv'
    BY DEF TradeTypes, LockInv, HoldsSale, OwnsCustomer, SharesCustomer, Returning
  <2>2. ReturnInv'
    BY DEF ReturnInv, ListedOnce, StillFits, HoldsSale, Returning
  <2>3. BookInv'
    BY DEF BookInv, Elsewhere, LastEntryIsExact, Returning
  <2>4. LoopInv'
    <3>1. ASSUME NEW r \in Request PROVE InLoop(r)'
      <4>1. InLoop(r)
        BY DEF LoopInv
      <4>2. pc' = pc /\ line' = line /\ rows' = rows
        OBVIOUS
      <4>3. QED
        BY <4>1, <4>2 DEF InLoop
    <3>2. QED
      BY <3>1 DEF LoopInv
  <2>5. QED
    BY <2>1, <2>2, <2>3, <2>4
<1>4. QED
  BY <1>1, <1>2, <1>3 DEF Next

LEMMA InitTrade ==
    ASSUME ConstantsAssumption, Init
    PROVE  TradeInv
<1>1. TradeTypes
  BY DEF Init, TradeTypes
<1>2. LockInv
  BY DEF Init, LockInv, HoldsSale, OwnsCustomer, SharesCustomer, Validated, Numbered, Filed
<1>3. ReturnInv
  BY DEF Init, ReturnInv, HoldsSale, Validated, Numbered, Filed, ConstantsAssumption
<1>4. BookInv
  BY DEF Init, BookInv, LastEntryIsExact
<1>5. LoopInv
  BY DEF Init, LoopInv, InLoop
<1>6. QED
  BY <1>1, <1>2, <1>3, <1>4, <1>5 DEF TradeInv

-----------------------------------------------------------------------------
(* Circles. Sales, returns and customers, the counter and the rows are     *)
(* locked in one order by whoever is neither an exchange nor a return with *)
(* lines out of order: who is waited for waits for a later lock.           *)

Straight(r) == Kind[r] # "exchange" /\ (Kind[r] = "return" => Ascending(ReturnOrder(r)))

\* The place in that order of the lock a request waits for.
Rank(r) ==
    CASE pc[r] = "sale"    -> 1
      [] pc[r] = "number"  -> 2
      [] pc[r] = "rows"    -> 3 + LockOrder[r][line[r] + 1].product
      [] pc[r] = "restore" -> 3 + LineProduct[Lines[r][line[r] + 1].line]
      [] OTHER             -> 3

LEMMA ProductPlace ==
    ASSUME ConstantsAssumption, NEW p \in Product
    PROVE  NumProducts \in Nat /\ p \in Nat /\ 0 < p /\ p <= NumProducts
<1>1. NumProducts \in Nat
  BY DEF ConstantsAssumption
<1>2. QED
  BY <1>1 DEF Product

LEMMA RankIsBounded ==
    ASSUME ConstantsAssumption, DocumentTypes, PathInv, TradeInv,
           NEW r \in Request, NEW q \in Request, WaitsFor(r, q), Straight(r)
    PROVE  /\ Rank(r) \in 1..(3 + NumProducts)
           /\ pc[r] \in {"sale", "number", "header", "customer", "rows", "restore"}
           /\ pc[r] = "rows" => /\ Kind[r] = "sale"
                                /\ LockOrder[r][line[r] + 1].product \in Product \cap rows[q]
           /\ pc[r] = "restore" => /\ Kind[r] = "return"
                                   /\ LineProduct[Lines[r][line[r] + 1].line] \in Product \cap rows[q]
<1>1. NumProducts \in Nat /\ rows[q] \subseteq Product /\ OnPath(r) /\ InLoop(r) /\ Kind[r] \in Kinds
  BY DEF ConstantsAssumption, TradeInv, TradeTypes, PathInv, LoopInv
<1>2. pc[r] \in {"sale", "number", "header", "customer", "rows", "restore"}
  BY <1>1 DEF WaitsFor, NextRow, Straight, OnPath
<1>3. ASSUME pc[r] = "rows"
      PROVE  Kind[r] = "sale" /\ LockOrder[r][line[r] + 1].product \in Product \cap rows[q]
  <2>1. NextRow(r) = {LockOrder[r][line[r] + 1].product}
    BY <1>3 DEF NextRow
  <2>2. Kind[r] # "payment"
    <3>1. line[r] \in Nat /\ line[r] < Len(Wanted[r])
      BY <1>1, <1>3 DEF InLoop, TradeInv, TradeTypes
    <3>2. Kind[r] = "payment" => Len(Wanted[r]) = 0
      BY Lists
    <3>3. QED
      BY <3>1, <3>2
  <2>3. Kind[r] = "sale"
    BY <1>1, <1>3, <2>2 DEF Straight, OnPath, Kinds
  <2>4. QED
    BY <1>1, <1>3, <2>1, <2>3 DEF WaitsFor
<1>4. ASSUME pc[r] = "restore"
      PROVE  Kind[r] = "return" /\ LineProduct[Lines[r][line[r] + 1].line] \in Product \cap rows[q]
  <2>1. NextRow(r) \subseteq {LineProduct[Lines[r][line[r] + 1].line]}
    BY <1>4 DEF NextRow, RestoredRow
  <2>2. QED
    BY <1>1, <1>4, <2>1 DEF WaitsFor, Straight, OnPath, Returning
<1>5. Rank(r) \in 1..(3 + NumProducts)
  <2>1. CASE pc[r] = "rows"
    <3>1. PICK p \in Nat : p = LockOrder[r][line[r] + 1].product /\ 0 < p /\ p <= NumProducts
      BY <1>3, <2>1, ProductPlace
    <3>2. Rank(r) = 3 + p
      BY <2>1, <3>1 DEF Rank
    <3>3. QED
      <4>1. 3 + p \in 1..(3 + NumProducts)
        <5>1. NumProducts \in Nat /\ 0 < p /\ p <= NumProducts
          BY <1>1, <3>1
        <5>2. QED
          BY <5>1
      <4>2. QED
        BY <3>2, <4>1
  <2>2. CASE pc[r] = "restore"
    <3>1. PICK p \in Nat : p = LineProduct[Lines[r][line[r] + 1].line] /\ 0 < p /\ p <= NumProducts
      BY <1>4, <2>2, ProductPlace
    <3>2. Rank(r) = 3 + p
      BY <2>2, <3>1 DEF Rank
    <3>3. QED
      <4>1. 3 + p \in 1..(3 + NumProducts)
        <5>1. NumProducts \in Nat /\ 0 < p /\ p <= NumProducts
          BY <1>1, <3>1
        <5>2. QED
          BY <5>1
      <4>2. QED
        BY <3>2, <4>1
  <2>3. CASE pc[r] \notin {"rows", "restore"}
    <3>1. Rank(r) \in {1, 2, 3}
      BY <2>3 DEF Rank
    <3>2. \A n \in {1, 2, 3} : n \in 1..(3 + NumProducts)
      BY <1>1
    <3>3. QED
      BY <3>1, <3>2
  <2>4. QED
    BY <2>1, <2>2, <2>3
<1>6. QED
  BY <1>2, <1>3, <1>4, <1>5

LEMMA RankGrows ==
    ASSUME ConstantsAssumption, DocumentTypes, PathInv, TradeInv,
           NEW r \in Request, NEW q \in Request, NEW t \in Request,
           WaitsFor(r, q), WaitsFor(q, t), Straight(r), Straight(q)
    PROVE  Rank(r) < Rank(q)
<1>0. Rank(r) \in Nat /\ Rank(q) \in Nat
  <2>1. NumProducts \in Nat
    BY DEF ConstantsAssumption
  <2>2. \A n \in 1..(3 + NumProducts) : n \in Nat
    BY <2>1
  <2>3. QED
    BY <2>2, RankIsBounded
<1>1. /\ OnPath(r) /\ OnPath(q) /\ InLoop(q)
      /\ pc[r] \in {"sale", "number", "header", "customer", "rows", "restore"}
      /\ pc[q] \in {"sale", "number", "header", "customer", "rows", "restore"}
  BY RankIsBounded DEF PathInv, TradeInv, LoopInv
<1>2. /\ pc[q] \in {"header", "customer"} => Rank(q) = 3
      /\ pc[q] = "number" => Rank(q) = 2
      /\ pc[q] \in {"rows", "restore"} => Rank(q) > 3
  <2>1. pc[q] = "rows" => Rank(q) > 3
    <3>1. HAVE pc[q] = "rows"
    <3>2. PICK p \in Nat : p = LockOrder[q][line[q] + 1].product /\ 0 < p
      BY <3>1, RankIsBounded, ProductPlace
    <3>3. Rank(q) = 3 + p
      BY <3>1, <3>2 DEF Rank
    <3>4. QED
      <4>1. 0 < p
        BY <3>2
      <4>2. 3 + p > 3
        BY <4>1
      <4>3. QED
        BY <3>3, <4>2
  <2>2. pc[q] = "restore" => Rank(q) > 3
    <3>1. HAVE pc[q] = "restore"
    <3>2. PICK p \in Nat : p = LineProduct[Lines[q][line[q] + 1].line] /\ 0 < p
      BY <3>1, RankIsBounded, ProductPlace
    <3>3. Rank(q) = 3 + p
      BY <3>1, <3>2 DEF Rank
    <3>4. QED
      <4>1. 0 < p
        BY <3>2
      <4>2. 3 + p > 3
        BY <4>1
      <4>3. QED
        BY <3>3, <4>2
  <2>3. QED
    BY <2>1, <2>2 DEF Rank
<1>3. CASE pc[r] = "sale"
  <2>1. HoldsSale(q) /\ Rank(r) = 1
    BY <1>3 DEF WaitsFor, NextRow, Rank
  <2>2. pc[q] \in {"number", "header", "rows", "restore"}
    BY <1>1, <2>1 DEF HoldsSale, Validated, Numbered, Filed
  <2>3. QED
    BY <1>0, <1>2, <2>1, <2>2
<1>4. CASE pc[r] = "number"
  <2>1. HoldsCounter(q) /\ Rank(r) = 2
    BY <1>4 DEF WaitsFor, NextRow, Rank
  <2>2. pc[q] \in {"header", "restore"}
    BY <1>1, <2>1 DEF HoldsCounter, Numbered, Filed
  <2>3. QED
    BY <1>0, <1>2, <2>1, <2>2
<1>5. CASE pc[r] \in {"header", "customer"}
  <2>1. (OwnsCustomer(q) \/ SharesCustomer(q)) /\ Rank(r) = 3
    BY <1>5 DEF WaitsFor, NextRow, Rank
  <2>2. pc[q] \in {"rows", "restore"}
    BY <1>1, <2>1 DEF OwnsCustomer, SharesCustomer, Validated, Numbered, Filed, OnPath
  <2>3. QED
    BY <1>0, <1>2, <2>1, <2>2
<1>6. CASE pc[r] \in {"rows", "restore"}
  <2>1. PICK p \in Product : p \in rows[q] /\ Rank(r) = 3 + p
    BY <1>6, RankIsBounded DEF Rank
  <2>2. pc[q] \in {"rows", "restore"} /\ line[q] \in Nat
    BY <1>1, <2>1 DEF InLoop, Straight, TradeInv, TradeTypes
  <2>3. q # t
    BY DEF WaitsFor
  <2>4. CASE pc[q] = "rows"
    <3>1. Kind[q] = "sale" /\ LockOrder[q] = Sorted(Wanted[q])
      BY <2>4, RankIsBounded DEF LockOrder
    <3>2. PICK n \in Product : n = LockOrder[q][line[q] + 1].product /\ n \in rows[t]
      BY <2>4, RankIsBounded
    <3>3. PICK i \in 1..line[q] : p = LockOrder[q][i].product
      BY <1>1, <2>1, <2>4, <3>1 DEF InLoop
    <3>4. Len(Wanted[q]) \in Nat /\ line[q] < Len(Wanted[q])
      BY <1>1, <2>4, Lists DEF InLoop
    <3>5. i \in 1..Len(Wanted[q]) /\ line[q] + 1 \in 1..Len(Wanted[q]) /\ i < line[q] + 1
      <4>1. PICK m \in Nat, k \in Nat : m = line[q] /\ k = Len(Wanted[q])
        BY <2>2, <3>4
      <4>2. i \in 1..m /\ m < k
        BY <3>3, <3>4, <4>1
      <4>3. i \in 1..k /\ m + 1 \in 1..k /\ i < m + 1
        BY <4>2
      <4>4. QED
        BY <3>4, <4>1, <4>3
    <3>6. p < n
      BY <3>1, <3>2, <3>3, <3>5, SortedAscends
    <3>7. Rank(q) = 3 + n
      BY <2>4, <3>2 DEF Rank
    <3>8. QED
      <4>1. p \in Nat /\ n \in Nat
        BY ProductPlace
      <4>2. 3 + p < 3 + n
        BY <3>6, <4>1
      <4>3. QED
        BY <2>1, <3>7, <4>2
  <2>5. CASE pc[q] = "restore"
    <3>1. Kind[q] = "return" /\ Ascending(ReturnOrder(q))
      BY <2>5, RankIsBounded DEF Straight
    <3>2. PICK n \in Product : n = LineProduct[Lines[q][line[q] + 1].line] /\ n \in rows[t]
      BY <2>5, RankIsBounded
    <3>3. PICK i \in 1..line[q] : p = LineProduct[Lines[q][i].line]
      BY <1>1, <2>1, <2>5, <3>1 DEF InLoop
    <3>4. Len(Lines[q]) \in Nat /\ DOMAIN Lines[q] = 1..Len(Lines[q]) /\ line[q] < Len(Lines[q])
      BY <1>1, <2>5, Lists DEF InLoop
    <3>5. i \in DOMAIN Lines[q] /\ line[q] + 1 \in DOMAIN Lines[q] /\ i < line[q] + 1
      <4>1. PICK m \in Nat, k \in Nat : m = line[q] /\ k = Len(Lines[q])
        BY <2>2, <3>4
      <4>2. i \in 1..m /\ m < k
        BY <3>3, <3>4, <4>1
      <4>3. i \in 1..k /\ m + 1 \in 1..k /\ i < m + 1
        BY <4>2
      <4>4. QED
        BY <3>4, <4>1, <4>3
    <3>6. p <= n
      BY <3>1, <3>2, <3>3, <3>5 DEF Ascending, ReturnOrder
    <3>7. p # n
      BY <2>1, <2>3, <3>2 DEF TradeInv, LockInv
    <3>8. Rank(q) = 3 + n
      BY <2>5, <3>2 DEF Rank
    <3>9. QED
      <4>1. p \in Nat /\ n \in Nat
        BY ProductPlace
      <4>2. p < n
        BY <3>6, <3>7, <4>1
      <4>3. 3 + p < 3 + n
        BY <4>1, <4>2
      <4>4. QED
        BY <2>1, <3>8, <4>3
  <2>6. QED
    BY <2>2, <2>4, <2>5
<1>7. QED
  BY <1>1, <1>3, <1>4, <1>5, <1>6

LEMMA NoStraightCircle ==
    ASSUME ConstantsAssumption, DocumentTypes, PathInv, TradeInv
    PROVE  CirclesNeedAnExchange
<1>1. SUFFICES ASSUME NEW S \in Circles, \A r \in S : Straight(r)
               PROVE  FALSE
  <2>1. \A r \in Request : ~Straight(r) => \/ Kind[r] = "exchange"
                                           \/ Kind[r] = "return" /\ ~Ascending(ReturnOrder(r))
    BY DEF Straight
  <2>2. \A S \in Circles : S \subseteq Request
    BY DEF Circles, Waits
  <2>3. QED
    BY <2>1, <2>2 DEF CirclesNeedAnExchange
<1>2. S \subseteq Request /\ S # {} /\ \A r \in S : \E q \in S : WaitsFor(r, q)
  <2>1. S \subseteq Request /\ S # {}
    BY DEF Circles, Waits
  <2>2. \A r \in S : \E q, t \in S : <<r, q>> \in Waits /\ <<t, r>> \in Waits
    BY DEF Circles
  <2>3. \A r, q : <<r, q>> \in Waits => WaitsFor(r, q)
    BY DEF Waits
  <2>4. QED
    BY <2>1, <2>2, <2>3
<1> DEFINE R == {Rank(r) : r \in S}
<1>3. R \subseteq 1..(3 + NumProducts) /\ R # {} /\ 3 + NumProducts \in Nat
  <2>1. \A r \in S : Rank(r) \in 1..(3 + NumProducts)
    BY <1>1, <1>2, RankIsBounded
  <2>2. R \subseteq 1..(3 + NumProducts) /\ R # {}
    <3>1. \A n \in R : n \in 1..(3 + NumProducts)
      BY <2>1
    <3>2. PICK r \in S : TRUE
      BY <1>2
    <3>3. Rank(r) \in R
      OBVIOUS
    <3>4. QED
      BY <3>1, <3>3
  <2>3. NumProducts \in Nat
    BY DEF ConstantsAssumption
  <2>4. QED
    BY <2>2, <2>3
<1>4. PICK n \in R : \A m \in R : m <= n
  <2> HIDE DEF R
  <2>1. QED
    BY <1>3, Greatest
<1>5. PICK r \in S : n = Rank(r)
  OBVIOUS
<1>6. PICK q \in S : WaitsFor(r, q)
  BY <1>2
<1>7. Rank(r) < Rank(q)
  BY <1>1, <1>2, <1>6, RankGrows
<1>8. Rank(q) \in R /\ Rank(r) \in R
  OBVIOUS
<1>9. Rank(q) <= Rank(r) /\ Rank(q) \in Int /\ Rank(r) \in Int
  BY <1>3, <1>4, <1>5, <1>8
<1>10. QED
  BY <1>7, <1>9

-----------------------------------------------------------------------------
(* The theorems.                                                           *)

\* The invariant holds in every state, for any number of requests, sales,
\* customers, products and keys.
THEOREM InductiveInvariant ==
    ASSUME ConstantsAssumption
    PROVE  Spec => []IInv
<1>1. Init => IInv
  BY InitEstablishes
<1>2. IInv /\ [Next]_vars => IInv'
  BY NextPreserves
<1>3. QED
  BY <1>1, <1>2, PTL DEF Spec

\* An exchange takes place once per key, and whoever is told that it took
\* place asked for that very exchange.
THEOREM KeysExchangeOnce ==
    ASSUME ConstantsAssumption
    PROVE  Spec => []ExchangeOncePerKey
<1>1. IInv => ExchangeOncePerKey
  BY DEF IInv
<1>2. QED
  BY <1>1, InductiveInvariant, PTL

\* Return documents are numbered 1, 2, 3, ..., whatever fails in between.
THEOREM NumbersGapless ==
    ASSUME ConstantsAssumption
    PROVE  Spec => []NumbersRunWithoutGap
<1>1. IInv => NumbersRunWithoutGap
  BY DEF IInv
<1>2. QED
  BY <1>1, InductiveInvariant, PTL

\* A transaction may rely on what it has read under the lock of a sale, of a customer or
\* of a row, for any number of requests, lines and products.
THEOREM TradeInvariant ==
    ASSUME ConstantsAssumption
    PROVE  Spec => []TradeInv
<1>1. Init => TradeInv
  BY InitTrade
<1>2. IInv /\ TradeInv /\ [Next]_vars => TradeInv'
  BY TradePreserved DEF IInv
<1>3. QED
  BY <1>1, <1>2, InductiveInvariant, PTL DEF Spec

\* No more of a line comes back than was sold, as long as no return or exchange lists the
\* line twice: the check of createSalesReturn and processAtomicExchange holds until they
\* commit.
THEOREM NothingOverReturned ==
    ASSUME ConstantsAssumption
    PROVE  Spec => []NoOverReturn
<1>1. TradeInv => NoOverReturn
  BY DEF TradeInv, ReturnInv, ListedOnce, NoOverReturn
<1>2. QED
  BY <1>1, TradeInvariant, PTL

\* The ledger entry committed last shows what the customer owes, as long as what comes
\* back concerns one sale of the customer.
THEOREM LastEntryExact ==
    ASSUME ConstantsAssumption
    PROVE  Spec => []LastEntryIsExact
<1>1. TradeInv => LastEntryIsExact
  BY DEF TradeInv, BookInv
<1>2. QED
  BY <1>1, TradeInvariant, PTL

\* Whoever waits in a circle waits around an exchange, or a return with its lines out of
\* the order of the product ids: the order of the locks excludes every other circle.
THEOREM NoOtherCircles ==
    ASSUME ConstantsAssumption
    PROVE  Spec => []CirclesNeedAnExchange
<1>1. IInv /\ TradeInv => CirclesNeedAnExchange
  BY NoStraightCircle DEF IInv
<1>2. QED
  BY <1>1, InductiveInvariant, TradeInvariant, PTL
=============================================================================
