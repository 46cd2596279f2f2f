------------------------- MODULE CentralStockProofs -------------------------
(***************************************************************************)
(* What the writers of the stock table promise, for any number of          *)
(* requests, branches and products. An id moves stock once because the     *)
(* record of a transfer is inserted last: whoever has inserted it knows    *)
(* that its id is not in use and that nobody else is as far (IInv). The    *)
(* movements of a row add up because whoever writes a quantity that it has *)
(* read holds the lock of the row (LockInv), transfers do not wait in      *)
(* circles because each asks for rows beyond all that it holds (Ordered),  *)
(* and the average cost is exact because the lock of the product row keeps *)
(* receipts apart (CostInv).                                               *)
(***************************************************************************)
EXTENDS CentralStock, FiniteSetTheorems, WellFoundedInduction, TLAPS

Outcomes == {"none", "done", "conflict", "refused", "failed"}

\* The part of TypeOK that the record of a transfer depends on.
RecordTypes ==
    /\ pc \in [Request -> Pcs]
    /\ outcome \in [Request -> Outcomes]
    /\ applied \in SUBSET Request
    /\ recordOf \in [Id -> Request \cup {None}]

RecordInv ==
    /\ \A r \in applied : IdOf[r] # None => recordOf[IdOf[r]] = r
    /\ \A i \in Id : recordOf[i] # None => recordOf[i] \in applied
    /\ \A r \in Request : pc[r] = "commit" =>
          Kind[r] = "transfer" /\ (IdOf[r] # None => recordOf[IdOf[r]] = None)
    /\ \A r, q \in Request :
          pc[r] = "commit" /\ pc[q] = "commit" /\ IdOf[r] # None /\ IdOf[q] = IdOf[r] => r = q

IInv == RecordTypes /\ RecordInv /\ TransferAnswersAreTrue

-----------------------------------------------------------------------------
(* The steps, by what they do to the record of a transfer.                 *)

\* Nobody but r moves.
Others(r) ==
    /\ pc' \in [Request -> Pcs] /\ outcome' \in [Request -> Outcomes]
    /\ \A q \in Request : q # r => pc'[q] = pc[q] /\ outcome'[q] = outcome[q]

\* r goes on without an answer, to a statement before its record.
Walks(r) ==
    /\ Others(r) /\ outcome'[r] = outcome[r]
    /\ pc'[r] \in Pcs \ {"commit"}
    /\ UNCHANGED <<applied, recordOf>>

\* r leaves its transaction without a commit. What it is told of its id is
\* what the record shows.
Ends(r) ==
    /\ Others(r)
    /\ pc'[r] \in {"again", "recheck", "done"}
    /\ outcome'[r] \in Outcomes
    /\ IdOf[r] # None /\ outcome'[r] = "done" =>
          Recorded(r) /\ SamePayload(r, recordOf[IdOf[r]])
    /\ IdOf[r] # None /\ outcome'[r] = "conflict" =>
          Recorded(r) /\ ~SamePayload(r, recordOf[IdOf[r]])
    /\ UNCHANGED <<applied, recordOf>>

\* r inserts its record.
Records(r) ==
    /\ Others(r) /\ outcome'[r] = outcome[r]
    /\ Kind[r] = "transfer" /\ pc'[r] = "commit"
    /\ IdOf[r] # None =>
          /\ recordOf[IdOf[r]] = None
          /\ \A q \in Request \ {r} : IdOf[q] = IdOf[r] => pc[q] # "commit"
    /\ UNCHANGED <<applied, recordOf>>

Commits(r) ==
    /\ Others(r)
    /\ pc'[r] = "done" /\ outcome'[r] \in {"done", "failed"}
    /\ IdOf[r] # None => pc[r] = "commit"
    /\ applied' = applied \cup {r}
    /\ recordOf' = [i \in Id |-> IF i = IdOf[r] THEN r ELSE recordOf[i]]

StepOf(r) == Walks(r) \/ Ends(r) \/ Records(r) \/ Commits(r)

LEMMA GotoWalks ==
    ASSUME RecordTypes, NEW r \in Request, NEW step \in Pcs \ {"commit"},
           pc' = [pc EXCEPT ![r] = step], UNCHANGED <<outcome, applied, recordOf>>
    PROVE  Walks(r)
  BY DEF RecordTypes, Walks, Others, Outcomes

LEMMA EndEnds ==
    ASSUME RecordTypes, NEW r \in Request, NEW step \in {"again", "recheck", "done"},
           NEW result \in Outcomes,
           End(r, step, result), UNCHANGED <<applied, recordOf>>,
           result \in {"done", "conflict"} /\ IdOf[r] # None => Recorded(r) /\ result = Replay(r)
    PROVE  Ends(r)
<1>1. pc' = [pc EXCEPT ![r] = step] /\ outcome' = [outcome EXCEPT ![r] = result]
  BY DEF End, Goto
<1>2. Others(r) /\ pc'[r] = step /\ outcome'[r] = result
  BY <1>1 DEF RecordTypes, Others, Outcomes, Pcs
<1>3. QED
  BY <1>2 DEF Ends, Replay, Outcomes, Recorded

LEMMA AnsweredEnds ==
    ASSUME RecordTypes, NEW r \in Request,
           NEW result \in Outcomes,
           Answered(r, result), UNCHANGED central,
           result \in {"done", "conflict"} /\ IdOf[r] # None => Recorded(r) /\ result = Replay(r)
    PROVE  Ends(r)
<1>1. End(r, "done", result) /\ UNCHANGED <<applied, recordOf>>
  BY DEF Answered, central
<1>2. QED
  BY <1>1, EndEnds

LEMMA ReplayAnswers == \A r : Replay(r) \in {"done", "conflict"}
  BY DEF Replay

\* The transfer's own statements.
LEMMA BeginTransferStep ==
    ASSUME RecordTypes, NEW r \in Request, BeginTransfer(r)
    PROVE  StepOf(r)
<1>1. CASE Recorded(r)
  <2>1. End(r, "done", Replay(r)) /\ UNCHANGED <<applied, recordOf>>
    BY <1>1 DEF BeginTransfer, central
  <2>2. Replay(r) \in Outcomes
    BY ReplayAnswers DEF Outcomes
  <2>3. Ends(r)
    BY <1>1, <2>1, <2>2, EndEnds
  <2>4. QED
    BY <2>3 DEF StepOf
<1>2. CASE ~Recorded(r)
  <2>1. pc' = [pc EXCEPT ![r] = "low"] /\ UNCHANGED <<outcome, applied, recordOf>>
    BY <1>2 DEF BeginTransfer, Goto, central
  <2>2. QED
    BY <2>1, GotoWalks DEF StepOf, Pcs
<1>3. QED
  BY <1>1, <1>2

LEMMA CheckTransferStep ==
    ASSUME RecordTypes, NEW r \in Request, CheckTransfer(r)
    PROVE  StepOf(r)
<1>1. CASE Enough(r)
  <2>1. pc' = [pc EXCEPT ![r] = "write"] /\ UNCHANGED <<outcome, applied, recordOf>>
    BY <1>1 DEF CheckTransfer, Goto, central
  <2>2. QED
    BY <2>1, GotoWalks DEF StepOf, Pcs
<1>2. CASE ~Enough(r)
  <2>1. Answered(r, "refused") /\ UNCHANGED central
    BY <1>2 DEF CheckTransfer
  <2>2. QED
    BY <2>1, AnsweredEnds DEF StepOf, Outcomes
<1>3. QED
  BY <1>1, <1>2

LEMMA RecordTransferStep ==
    ASSUME RecordTypes, NEW r \in Request, RecordTransfer(r)
    PROVE  StepOf(r)
<1>1. CASE Recorded(r)
  <2>1. End(r, "recheck", "none") /\ UNCHANGED <<applied, recordOf>>
    BY <1>1 DEF RecordTransfer, central
  <2>2. QED
    BY <2>1, EndEnds DEF StepOf, Outcomes
<1>2. CASE ~Recorded(r)
  <2>1. pc' = [pc EXCEPT ![r] = "commit"] /\ UNCHANGED <<outcome, applied, recordOf>>
    BY <1>2 DEF RecordTransfer, Goto, central
  <2>2. Others(r) /\ outcome'[r] = outcome[r] /\ pc'[r] = "commit"
    BY <2>1 DEF RecordTypes, Others, Outcomes, Pcs
  <2>3. Kind[r] = "transfer"
    BY DEF RecordTransfer
  <2>4. IdOf[r] # None =>
          /\ recordOf[IdOf[r]] = None
          /\ \A q \in Request \ {r} : IdOf[q] = IdOf[r] => pc[q] # "commit"
    BY <1>2 DEF RecordTransfer, Recorded
  <2>5. QED
    BY <2>1, <2>2, <2>3, <2>4 DEF Records, StepOf
<1>3. QED
  BY <1>1, <1>2

LEMMA CheckRecordStep ==
    ASSUME RecordTypes, NEW r \in Request, CheckRecord(r)
    PROVE  StepOf(r)
<1>1. CASE Recorded(r)
  <2>1. Answered(r, Replay(r)) /\ UNCHANGED central
    BY <1>1 DEF CheckRecord
  <2>2. Replay(r) \in Outcomes
    BY ReplayAnswers DEF Outcomes
  <2>3. QED
    BY <1>1, <2>1, <2>2, AnsweredEnds DEF StepOf, Outcomes
<1>2. CASE ~Recorded(r)
  <2>1. Answered(r, "failed") /\ UNCHANGED central
    BY <1>2 DEF CheckRecord
  <2>2. QED
    BY <2>1, AnsweredEnds DEF StepOf, Outcomes
<1>3. QED
  BY <1>1, <1>2

\* A transfer id is one of its own route.
LEMMA IdTypes ==
    ASSUME ConstantsAssumption
    PROVE  /\ IdOf \in [Request -> Id \cup {None}]
           /\ \A r \in Request : Kind[r] # "transfer" => IdOf[r] = None
<1>1. \A r \in Request : TransferIdOf[r] # None => <<Table[r], TransferIdOf[r]>> \in Id
  BY DEF ConstantsAssumption, Accepted, Id
<1>2. QED
  BY <1>1 DEF ConstantsAssumption, Accepted, IdOf

\* COMMIT, with its answer or without it.
LEMMA CommitStep ==
    ASSUME ConstantsAssumption, RecordTypes, NEW r \in Request, Commit(r)
    PROVE  StepOf(r)
<1>1. PICK result \in {"done", "failed"} : Answered(r, result)
  BY DEF Commit
<1>2. pc' = [pc EXCEPT ![r] = "done"] /\ outcome' = [outcome EXCEPT ![r] = result]
  BY <1>1 DEF Answered, End, Goto
<1>3. Others(r) /\ pc'[r] = "done" /\ outcome'[r] = result
  BY <1>2 DEF RecordTypes, Others, Outcomes, Pcs
<1>4. IdOf[r] # None => pc[r] = "commit"
  BY IdTypes DEF Commit, ReadyToCommit
<1>5. QED
  BY <1>3, <1>4 DEF Commit, Commits, StepOf

LEMMA VictimStep ==
    ASSUME RecordTypes, NEW r \in Request, Victim(r)
    PROVE  StepOf(r)
<1>1. CASE Kind[r] = "transfer" /\ attempts[r] < MaxAttempts
  <2>1. End(r, "again", "none") /\ UNCHANGED <<applied, recordOf>>
    BY <1>1 DEF Victim, central
  <2>2. QED
    BY <2>1, EndEnds DEF StepOf, Outcomes
<1>2. CASE ~(Kind[r] = "transfer" /\ attempts[r] < MaxAttempts)
  <2>1. Answered(r, "failed") /\ UNCHANGED central
    BY <1>2 DEF Victim
  <2>2. QED
    BY <2>1, AnsweredEnds DEF StepOf, Outcomes
<1>3. QED
  BY <1>1, <1>2

\* Every step of the system is one of these.
LEMMA NextIsStepOf ==
    ASSUME ConstantsAssumption, RecordTypes, Next
    PROVE  \E r \in Request : StepOf(r)
<1>1. CASE BreakCircle
  <2>1. PICK S \in Circles : \E r \in S : Victim(r)
    BY <1>1 DEF BreakCircle
  <2>2. S \subseteq Request
    BY DEF Circles, Waits
  <2>3. QED
    BY <2>1, <2>2, VictimStep
<1>2. CASE \E r \in Request : Arrive(r) \/ Step(r) \/ RollBack(r)
  <2>1. PICK r \in Request : Arrive(r) \/ Step(r) \/ RollBack(r)
    BY <1>2
  <2>2. CASE BeginTransfer(r)
    BY <2>2, BeginTransferStep
  <2>3. CASE BeginPush(r)
    <3>1. CASE Answered(r, "refused") /\ UNCHANGED central
      BY <3>1, AnsweredEnds DEF StepOf, Outcomes
    <3>2. CASE pc' = [pc EXCEPT ![r] = "low"] /\ UNCHANGED <<outcome, applied, recordOf>>
      BY <3>2, GotoWalks DEF StepOf, Pcs
    <3>3. QED
      BY <2>3, <3>1, <3>2 DEF BeginPush, Goto, central
  <2>4. CASE BeginReceive(r)
    <3>1. pc' = [pc EXCEPT ![r] = "product"] /\ UNCHANGED <<outcome, applied, recordOf>>
      BY <2>4 DEF BeginReceive, Goto, central
    <3>2. QED
      BY <3>1, GotoWalks DEF StepOf, Pcs
  <2>5. CASE BeginDelta(r)
    <3>1. pc' = [pc EXCEPT ![r] = "low"] /\ UNCHANGED <<outcome, applied, recordOf>>
      BY <2>5 DEF BeginDelta, Goto, central
    <3>2. QED
      BY <3>1, GotoWalks DEF StepOf, Pcs
  <2>6. CASE BeginAdjust(r)
    <3>1. pc' = [pc EXCEPT ![r] = "write"] /\ UNCHANGED <<outcome, applied, recordOf>>
      BY <2>6 DEF BeginAdjust, Goto, central
    <3>2. QED
      BY <3>1, GotoWalks DEF StepOf, Pcs
  <2>7. CASE BeginOpening(r)
    <3>1. pc' = [pc EXCEPT ![r] = "low"] /\ UNCHANGED <<outcome, applied, recordOf>>
      BY <2>7 DEF BeginOpening, Goto, central
    <3>2. QED
      BY <3>1, GotoWalks DEF StepOf, Pcs
  <2>8. CASE SelectSecond(r)
    <3>1. pc' = [pc EXCEPT ![r] = "high"] /\ UNCHANGED <<outcome, applied, recordOf>>
      BY <2>8 DEF SelectSecond, Goto, central
    <3>2. QED
      BY <3>1, GotoWalks DEF StepOf, Pcs
  <2>9. CASE CheckTransfer(r)
    BY <2>9, CheckTransferStep
  <2>10. CASE RecordTransfer(r)
    BY <2>10, RecordTransferStep
  <2>11. CASE CheckPush(r)
    <3>1. CASE Answered(r, "refused") /\ UNCHANGED central
      BY <3>1, AnsweredEnds DEF StepOf, Outcomes
    <3>2. CASE pc' = [pc EXCEPT ![r] = "write"] /\ UNCHANGED <<outcome, applied, recordOf>>
      BY <3>2, GotoWalks DEF StepOf, Pcs
    <3>3. QED
      BY <2>11, <3>1, <3>2 DEF CheckPush, Goto, central
  <2>12. CASE LockProduct(r)
    <3>1. pc' = [pc EXCEPT ![r] = "low"] /\ UNCHANGED <<outcome, applied, recordOf>>
      BY <2>12 DEF LockProduct, Goto, central
    <3>2. QED
      BY <3>1, GotoWalks DEF StepOf, Pcs
  <2>13. CASE ReadTotal(r)
    <3>1. pc' = [pc EXCEPT ![r] = "write"] /\ UNCHANGED <<outcome, applied, recordOf>>
      BY <2>13 DEF ReadTotal, Goto, central
    <3>2. QED
      BY <3>1, GotoWalks DEF StepOf, Pcs
  <2>14. CASE UpsertDelta(r)
    <3>1. pc' = [pc EXCEPT ![r] = "write"] /\ UNCHANGED <<outcome, applied, recordOf>>
      BY <2>14 DEF UpsertDelta, Goto, central
    <3>2. QED
      BY <3>1, GotoWalks DEF StepOf, Pcs
  <2>15. CASE ReadItem(r)
    <3>1. PICK step \in {"high", "write"} : pc' = [pc EXCEPT ![r] = step]
      BY <2>15 DEF ReadItem, Goto
    <3>2. UNCHANGED <<outcome, applied, recordOf>>
      BY <2>15 DEF ReadItem, central
    <3>3. QED
      BY <3>1, <3>2, GotoWalks DEF StepOf, Pcs
  <2>16. CASE LockRow(r) \/ WriteRow(r)
    <3>1. pc' = pc /\ pc[r] \in {"low", "high", "write"} /\ UNCHANGED <<outcome, applied, recordOf>>
      BY <2>16 DEF LockRow, WriteRow, central
    <3>2. QED
      BY <3>1 DEF StepOf, Walks, Others, Pcs, RecordTypes, Outcomes
  <2>17. CASE RowTaken(r) \/ MovementRefused(r)
    <3>1. Answered(r, "failed") /\ UNCHANGED central
      BY <2>17 DEF RowTaken, MovementRefused
    <3>2. QED
      BY <3>1, AnsweredEnds DEF StepOf, Outcomes
  <2>18. CASE InsertMovements(r)
    <3>1. pc[r] \in {"write", "high"} /\ UNCHANGED <<outcome, applied, recordOf>>
      BY <2>18 DEF InsertMovements, central
    <3>2. pc' = [pc EXCEPT ![r] = "low"] \/ pc' = pc
      BY <2>18 DEF InsertMovements
    <3>3. CASE pc' = pc
      BY <3>1, <3>3 DEF StepOf, Walks, Others, Pcs, RecordTypes, Outcomes
    <3>4. CASE pc' = [pc EXCEPT ![r] = "low"]
      BY <3>1, <3>4, GotoWalks DEF StepOf, Pcs
    <3>5. QED
      BY <3>2, <3>3, <3>4
  <2>19. CASE Commit(r)
    BY <2>19, CommitStep
  <2>20. CASE CheckRecord(r)
    BY <2>20, CheckRecordStep
  <2>21. CASE RollBack(r)
    <3>1. Answered(r, "failed") /\ UNCHANGED central
      BY <2>21 DEF RollBack
    <3>2. QED
      BY <3>1, AnsweredEnds DEF StepOf, Outcomes
  <2>22. QED
    BY <2>1, <2>2, <2>3, <2>4, <2>5, <2>6, <2>7, <2>8, <2>9, <2>10, <2>11, <2>12, <2>13,
       <2>14, <2>15, <2>16, <2>17, <2>18, <2>19, <2>20, <2>21 DEF Arrive, Step, TryAgain
<1>3. QED
  BY <1>1, <1>2 DEF Next

-----------------------------------------------------------------------------
(* The invariant.                                                          *)

LEMMA InitEstablishes ==
    ASSUME ConstantsAssumption, Init
    PROVE  IInv
<1>1. RecordTypes
  BY DEF Init, RecordTypes, Pcs, Outcomes
<1>2. RecordInv
  BY DEF Init, RecordInv
<1>3. TransferAnswersAreTrue
  BY DEF Init, TransferAnswersAreTrue
<1>4. QED
  BY <1>1, <1>2, <1>3 DEF IInv

LEMMA TypesPreserved ==
    ASSUME RecordTypes, NEW r \in Request, StepOf(r)
    PROVE  RecordTypes'
<1>1. CASE Walks(r)
  BY <1>1 DEF Walks, Others, RecordTypes, Outcomes
<1>2. CASE Ends(r)
  BY <1>2 DEF Ends, Others, RecordTypes, Outcomes
<1>3. CASE Records(r)
  BY <1>3 DEF Records, Others, RecordTypes, Outcomes
<1>4. CASE Commits(r)
  <2>1. pc' \in [Request -> Pcs] /\ outcome' \in [Request -> Outcomes]
    BY <1>4 DEF Commits, Others
  <2>2. applied' \in SUBSET Request /\ recordOf' \in [Id -> Request \cup {None}]
    BY <1>4 DEF Commits, RecordTypes
  <2>3. QED
    BY <2>1, <2>2 DEF RecordTypes
<1>5. QED
  BY <1>1, <1>2, <1>3, <1>4 DEF StepOf

LEMMA RecordPreserved ==
    ASSUME ConstantsAssumption, RecordTypes, RecordInv, NEW r \in Request, StepOf(r)
    PROVE  RecordInv'
<1>1. CASE Walks(r) \/ Ends(r)
  <2>1. UNCHANGED <<applied, recordOf>> /\ pc'[r] # "commit"
    BY <1>1 DEF Walks, Ends
  <2>2. \A q \in Request : pc'[q] = "commit" => pc[q] = "commit"
    BY <1>1, <2>1 DEF Walks, Ends, Others
  <2>3. QED
    BY <2>1, <2>2 DEF RecordInv
<1>2. CASE Records(r)
  <2>1. UNCHANGED <<applied, recordOf>>
    BY <1>2 DEF Records
  <2>2. \A q \in Request : pc'[q] = "commit" => q = r \/ pc[q] = "commit"
    BY <1>2 DEF Records, Others
  <2>3. Kind[r] = "transfer"
        /\ (IdOf[r] # None => recordOf[IdOf[r]] = None
              /\ \A q \in Request \ {r} : IdOf[q] = IdOf[r] => pc[q] # "commit")
    BY <1>2 DEF Records
  <2>4. \A q \in Request : pc'[q] = "commit" =>
           Kind[q] = "transfer" /\ (IdOf[q] # None => recordOf'[IdOf[q]] = None)
    BY <2>1, <2>2, <2>3 DEF RecordInv
  <2>5. \A p, q \in Request :
           pc'[p] = "commit" /\ pc'[q] = "commit" /\ IdOf[p] # None /\ IdOf[q] = IdOf[p] => p = q
    BY <2>2, <2>3 DEF RecordInv
  <2>6. QED
    BY <2>1, <2>4, <2>5 DEF RecordInv
<1>3. CASE Commits(r)
  <2>1. /\ applied' = applied \cup {r}
        /\ recordOf' = [i \in Id |-> IF i = IdOf[r] THEN r ELSE recordOf[i]]
        /\ IdOf[r] # None => pc[r] = "commit" /\ recordOf[IdOf[r]] = None
    BY <1>3 DEF Commits, RecordInv
  <2>2. \A q \in Request : pc'[q] = "commit" => q # r /\ pc[q] = "commit"
    BY <1>3 DEF Commits, Others
  <2>3. None \notin Request /\ None \notin Id /\ IdOf \in [Request -> Id \cup {None}]
    BY IdTypes DEF ConstantsAssumption, Accepted
  <2>4. \A q \in applied' : IdOf[q] # None => recordOf'[IdOf[q]] = q
    <3>1. TAKE q \in applied'
    <3>2. HAVE IdOf[q] # None
    <3>3. q \in Request /\ IdOf[q] \in Id
      BY <2>1, <2>3, <3>2 DEF RecordTypes
    <3>4. CASE q = r
      BY <2>1, <3>3, <3>4
    <3>5. CASE q # r
      <4>1. recordOf[IdOf[q]] = q
        BY <2>1, <3>2, <3>5 DEF RecordInv
      <4>2. IdOf[q] # IdOf[r]
        BY <2>1, <2>3, <3>2, <3>3, <4>1
      <4>3. QED
        BY <2>1, <3>3, <4>1, <4>2
    <3>6. QED
      BY <3>4, <3>5
  <2>5. \A i \in Id : recordOf'[i] # None => recordOf'[i] \in applied'
    BY <2>1 DEF RecordInv
  <2>6. \A q \in Request : pc'[q] = "commit" =>
           Kind[q] = "transfer" /\ (IdOf[q] # None => recordOf'[IdOf[q]] = None)
    <3>1. TAKE q \in Request
    <3>2. HAVE pc'[q] = "commit"
    <3>3. q # r /\ pc[q] = "commit" /\ Kind[q] = "transfer"
      BY <2>2, <3>2 DEF RecordInv
    <3>4. ASSUME IdOf[q] # None
          PROVE  recordOf'[IdOf[q]] = None
      <4>1. IdOf[q] \in Id /\ recordOf[IdOf[q]] = None
        BY <2>3, <3>3, <3>4 DEF RecordInv
      <4>2. IdOf[q] # IdOf[r]
        BY <2>1, <3>3, <3>4 DEF RecordInv
      <4>3. QED
        BY <2>1, <4>1, <4>2
    <3>5. QED
      BY <3>3, <3>4
  <2>7. \A p, q \in Request :
           pc'[p] = "commit" /\ pc'[q] = "commit" /\ IdOf[p] # None /\ IdOf[q] = IdOf[p] => p = q
    BY <2>2 DEF RecordInv
  <2>8. QED
    BY <2>4, <2>5, <2>6, <2>7 DEF RecordInv
<1>4. QED
  BY <1>1, <1>2, <1>3 DEF StepOf

LEMMA AnswersPreserved ==
    ASSUME ConstantsAssumption, RecordTypes, RecordInv, TransferAnswersAreTrue,
           NEW r \in Request, StepOf(r)
    PROVE  TransferAnswersAreTrue'
<1>1. None \notin Request /\ None \notin Id /\ IdOf \in [Request -> Id \cup {None}]
  BY IdTypes DEF ConstantsAssumption, Accepted
<1>2. \A i \in Id : recordOf[i] \in applied => recordOf'[i] = recordOf[i] /\ recordOf[i] \in applied'
  <2>1. CASE UNCHANGED <<applied, recordOf>>
    BY <2>1
  <2>2. CASE Commits(r)
    <3>1. IdOf[r] # None => recordOf[IdOf[r]] = None
      BY <2>2 DEF Commits, RecordInv
    <3>2. \A i \in Id : recordOf[i] \in applied => i # IdOf[r]
      BY <1>1, <3>1 DEF RecordTypes
    <3>3. QED
      BY <2>2, <3>2 DEF Commits
  <2>3. QED
    BY <2>1, <2>2 DEF StepOf, Walks, Ends, Records
<1>3. SUFFICES ASSUME NEW q \in Request, IdOf[q] # None
               PROVE  /\ outcome'[q] = "done" => /\ recordOf'[IdOf[q]] \in applied'
                                                 /\ SamePayload(q, recordOf'[IdOf[q]])
                      /\ outcome'[q] = "conflict" => /\ recordOf'[IdOf[q]] \in applied'
                                                     /\ ~SamePayload(q, recordOf'[IdOf[q]])
  BY DEF TransferAnswersAreTrue, SamePayload
<1>4. IdOf[q] \in Id
  BY <1>1, <1>3
<1>5. CASE outcome'[q] = outcome[q]
  <2>1. /\ outcome[q] = "done" => /\ recordOf[IdOf[q]] \in applied
                                  /\ SamePayload(q, recordOf[IdOf[q]])
        /\ outcome[q] = "conflict" => /\ recordOf[IdOf[q]] \in applied
                                      /\ ~SamePayload(q, recordOf[IdOf[q]])
    BY <1>3 DEF TransferAnswersAreTrue
  <2>2. QED
    BY <1>2, <1>4, <1>5, <2>1
<1>6. CASE q = r /\ Ends(r)
  <2>1. /\ outcome'[r] \in {"done", "conflict"} => recordOf[IdOf[r]] \in applied
        /\ outcome'[r] = "done" => SamePayload(r, recordOf[IdOf[r]])
        /\ outcome'[r] = "conflict" => ~SamePayload(r, recordOf[IdOf[r]])
    BY <1>3, <1>4, <1>6 DEF Ends, Recorded, RecordInv
  <2>2. QED
    BY <1>6, <2>1 DEF Ends
<1>7. CASE q = r /\ Commits(r)
  <2>1. recordOf'[IdOf[r]] = r /\ r \in applied' /\ outcome'[r] # "conflict"
    BY <1>4, <1>7 DEF Commits
  <2>2. QED
    BY <1>7, <2>1 DEF SamePayload
<1>8. QED
  BY <1>5, <1>6, <1>7 DEF StepOf, Walks, Ends, Records, Commits, Others

LEMMA NextPreserves ==
    ASSUME ConstantsAssumption, IInv, [Next]_vars
    PROVE  IInv'
<1>1. CASE Next
  <2>1. PICK r \in Request : StepOf(r)
    BY <1>1, NextIsStepOf DEF IInv
  <2>2. QED
    BY <2>1, TypesPreserved, RecordPreserved, AnswersPreserved DEF IInv
<1>2. CASE UNCHANGED vars
  <2> USE <1>2 DEF vars, request, central
  <2>1. RecordTypes' /\ RecordInv'
    BY DEF IInv, RecordTypes, RecordInv
  <2>2. TransferAnswersAreTrue'
    BY DEF IInv, TransferAnswersAreTrue, SamePayload
  <2>3. QED
    BY <2>1, <2>2 DEF IInv
<1>3. QED
  BY <1>1, <1>2

-----------------------------------------------------------------------------
(* The row locks: a row belongs to one transaction at a time, the rows of  *)
(* an item are locked before its movements are written, and what a         *)
(* transfer, a push or an import has read of a row it holds is what the    *)
(* table has. So a transaction writes only rows it holds, from quantities  *)
(* that are still true.                                                    *)

\* The rest of TypeOK but the costs.
LockTypes ==
    /\ pc \in [Request -> Pcs]
    /\ want \in [Request -> SUBSET Row] /\ held \in [Request -> SUBSET Row]
    /\ seen \in [Request -> [Row -> Nat]]
    /\ shared \in [Request -> SUBSET Product]
    /\ attempts \in [Request -> 0..MaxAttempts]
    /\ rows \in SUBSET Row /\ stock \in [Row -> Nat] /\ moved \in [Row -> Int]

\* Rows in the order in which transfers lock them.
Before(row, other) == row[1] < other[1] \/ (row[1] = other[1] /\ row[2] < other[2])

BranchNow(r) == IF pc[r] = "low" THEN FirstBranch(r) ELSE SecondBranch(r)

\* A transfer asks for rows beyond all that it holds.
Ordered(r) ==
    /\ want[r] \subseteq RowsAt(r, BranchNow(r))
    /\ pc[r] = "low" => held[r] \subseteq RowsAt(r, FirstBranch(r))
    /\ \A row \in held[r], other \in want[r] : Before(row, other)

Takes(r) == Kind[r] \in {"transfer", "push"}

Own(r) ==
    /\ want[r] \subseteq Rows[r] /\ held[r] \subseteq Rows[r] /\ shared[r] \subseteq Lines[r]
    /\ \A p \in shared[r] : Written(r, p)
    /\ pc[r] \in {"idle", "again", "recheck", "done"} => held[r] = {} /\ shared[r] = {}
    /\ pc[r] = "commit" => shared[r] = Lines[r]
    /\ pc[r] = "product" => Kind[r] = "receive"
    /\ Takes(r) /\ pc[r] \notin {"write", "commit"} => shared[r] = {}
    /\ pc[r] = "idle" => attempts[r] = 0
    /\ pc[r] = "again" => Kind[r] = "transfer" /\ attempts[r] < MaxAttempts
    /\ Takes(r) => \A row \in held[r] : row[1] = From[r] => seen[r][row] = stock[row]
    /\ Takes(r) /\ pc[r] \in {"write", "commit"} =>
          Enough(r) /\ \A row \in want[r] : row[1] # From[r]
    /\ Kind[r] = "opening" =>
          \A row \in Row : seen[r][row] = IF row \in held[r] THEN stock[row] ELSE 0
    /\ Kind[r] = "transfer" /\ pc[r] \in {"low", "high"} => Ordered(r)
    /\ Kind[r] = "adjust" /\ pc[r] = "write" => Rows[r] \subseteq want[r] \cup held[r]

LockInv ==
    /\ LockTypes
    /\ \A r \in Request : Own(r)
    /\ \A r, q \in Request : \A row \in held[r] : row \in held[q] => r = q
    /\ \A row \in Row : row \notin rows => stock[row] = 0
    /\ MovementsAddUp

\* Nobody but r moves.
Alone(r) ==
    /\ pc' \in [Request -> Pcs]
    /\ want' \in [Request -> SUBSET Row] /\ held' \in [Request -> SUBSET Row]
    /\ seen' \in [Request -> [Row -> Nat]]
    /\ shared' \in [Request -> SUBSET Product]
    /\ attempts' \in [Request -> 0..MaxAttempts]
    /\ \A q \in Request : q # r =>
          /\ pc'[q] = pc[q] /\ want'[q] = want[q] /\ held'[q] = held[q]
          /\ seen'[q] = seen[q] /\ shared'[q] = shared[q] /\ attempts'[q] = attempts[q]

\* A step of r that commits nothing.
Quiet(r) ==
    /\ Alone(r) /\ UNCHANGED central /\ Own(r)'
    /\ \A row \in held'[r] : row \in held[r] \/ RowFree(r, row)

LEMMA QuietKeeps ==
    ASSUME LockInv, NEW r \in Request, Quiet(r)
    PROVE  LockInv'
<1>1. Alone(r) /\ UNCHANGED <<rows, stock, moved, applied>> /\ Own(r)'
  BY DEF Quiet, central
<1>2. LockTypes'
  BY <1>1 DEF LockInv, LockTypes, Alone
<1>3. \A q \in Request : Own(q)'
  <2>1. SUFFICES ASSUME NEW q \in Request, q # r
                 PROVE  Own(q)'
    BY <1>1
  <2>2. /\ pc'[q] = pc[q] /\ want'[q] = want[q] /\ held'[q] = held[q]
        /\ seen'[q] = seen[q] /\ shared'[q] = shared[q] /\ attempts'[q] = attempts[q]
    BY <1>1, <2>1 DEF Alone
  <2>3. Own(q)
    BY DEF LockInv
  <2>4. \A p : Written(q, p)' <=> Written(q, p)
    BY <2>2 DEF Written
  <2>5. Enough(q)' <=> Enough(q)
    BY <2>2 DEF Enough, RowsAt
  <2>6. Ordered(q)' <=> Ordered(q)
    BY <2>2 DEF Ordered, BranchNow, RowsAt, FirstBranch, SecondBranch
  <2>7. QED
    BY <1>1, <2>2, <2>3, <2>4, <2>5, <2>6 DEF Own, Takes
<1>4. \A p, q \in Request : \A row \in held'[p] : row \in held'[q] => p = q
  BY <1>1 DEF LockInv, Quiet, Alone, RowFree
<1>5. MovementsAddUp'
  BY <1>1 DEF LockInv, MovementsAddUp
<1>6. QED
  BY <1>1, <1>2, <1>3, <1>4, <1>5 DEF LockInv

\* r goes to its next statement with the locks it has.
LEMMA GotoQuiet ==
    ASSUME LockInv, NEW r \in Request, NEW step \in Pcs \ {"idle", "again", "recheck", "done"},
           NEW locking \in SUBSET Rows[r],
           Goto(r, step, locking), UNCHANGED <<held, shared, central>>,
           attempts' \in [Request -> 0..MaxAttempts],
           \A q \in Request \ {r} : attempts'[q] = attempts[q],
           \/ seen' = seen
           \/ seen' = [seen EXCEPT ![r] = stock] /\ Kind[r] \in {"receive", "increase"} \cup Absolute,
           Kind[r] = "adjust" => locking = Rows[r],
           step = "commit" => shared[r] = Lines[r],
           step = "product" => Kind[r] = "receive",
           Takes(r) /\ step \notin {"write", "commit"} => shared[r] = {},
           Takes(r) /\ step \in {"write", "commit"} =>
              Enough(r) /\ \A row \in locking : row[1] # From[r],
           Kind[r] = "transfer" /\ step \in {"low", "high"} =>
              /\ locking \subseteq RowsAt(r, IF step = "low" THEN FirstBranch(r) ELSE SecondBranch(r))
              /\ step = "low" => held[r] = {}
              /\ \A row \in held[r], other \in locking : Before(row, other)
    PROVE  Quiet(r)
<1>1. LockTypes /\ Own(r) /\ UNCHANGED <<rows, stock>>
  BY DEF LockInv, central
<1>2. /\ pc' \in [Request -> Pcs] /\ pc'[r] = step
      /\ want' \in [Request -> SUBSET Row] /\ want'[r] = locking
      /\ \A q \in Request : q # r => pc'[q] = pc[q] /\ want'[q] = want[q]
  BY <1>1 DEF Goto, LockTypes, Rows, Pcs
<1>3. seen' \in [Request -> [Row -> Nat]] /\ \A q \in Request : q # r => seen'[q] = seen[q]
  BY <1>1 DEF LockTypes
<1>4. Alone(r)
  BY <1>1, <1>2, <1>3 DEF Alone, LockTypes
<1>5. \A p : Written(r, p)' <=> Written(r, p)
  BY DEF Written
<1>6. Takes(r) \/ Kind[r] = "opening" => seen'[r] = seen[r]
  BY DEF Takes, Absolute
<1>7. Takes(r) /\ step \in {"write", "commit"} =>
         Enough(r)' /\ \A row \in want'[r] : row[1] # From[r]
  <2>1. SUFFICES ASSUME Takes(r), step \in {"write", "commit"}
                 PROVE  Enough(r)' /\ \A row \in want'[r] : row[1] # From[r]
    OBVIOUS
  <2>2. Enough(r)' <=> Enough(r)
    BY <1>6, <2>1 DEF Enough, RowsAt
  <2>3. QED
    BY <1>2, <2>1, <2>2
<1>8. Kind[r] = "transfer" /\ step \in {"low", "high"} => Ordered(r)'
  <2>1. SUFFICES ASSUME Kind[r] = "transfer", step \in {"low", "high"}
                 PROVE  Ordered(r)'
    OBVIOUS
  <2>2. BranchNow(r)' = IF step = "low" THEN FirstBranch(r) ELSE SecondBranch(r)
    BY <1>2 DEF BranchNow, FirstBranch, SecondBranch
  <2>3. held'[r] = held[r] /\ \A b : RowsAt(r, b)' = RowsAt(r, b)
    BY DEF RowsAt
  <2>4. QED
    BY <1>2, <2>1, <2>2, <2>3 DEF Ordered
<1>9. Own(r)'
  <2>1. /\ want'[r] \subseteq Rows[r] /\ held'[r] \subseteq Rows[r] /\ shared'[r] \subseteq Lines[r]
        /\ \A p \in shared'[r] : Written(r, p)'
    BY <1>1, <1>2, <1>5 DEF Own
  <2>2. /\ Takes(r) => \A row \in held'[r] : row[1] = From[r] => seen'[r][row] = stock'[row]
        /\ Kind[r] = "opening" =>
              \A row \in Row : seen'[r][row] = IF row \in held'[r] THEN stock'[row] ELSE 0
    BY <1>1, <1>6 DEF Own
  <2>3. Takes(r)' <=> Takes(r)
    BY DEF Takes
  <2>4. QED
    BY <1>2, <1>7, <1>8, <2>1, <2>2, <2>3 DEF Own
<1>10. QED
  BY <1>4, <1>9 DEF Quiet

\* The transaction of r is over without a commit.
LEMMA EndQuiet ==
    ASSUME LockInv, NEW r \in Request, NEW step \in {"again", "recheck", "done"}, NEW result,
           End(r, step, result), UNCHANGED central,
           attempts' \in [Request -> 0..MaxAttempts],
           \A q \in Request \ {r} : attempts'[q] = attempts[q],
           step = "again" => Kind[r] = "transfer" /\ attempts'[r] < MaxAttempts
    PROVE  Quiet(r)
<1>1. LockTypes /\ Own(r)
  BY DEF LockInv
<1>2. Nothing \in [Row -> Nat] /\ \A row \in Row : Nothing[row] = 0
  BY DEF Nothing
<1>3. /\ pc' \in [Request -> Pcs] /\ pc'[r] = step
      /\ want' \in [Request -> SUBSET Row] /\ want'[r] = {}
      /\ held' \in [Request -> SUBSET Row] /\ held'[r] = {}
      /\ shared' \in [Request -> SUBSET Product] /\ shared'[r] = {}
      /\ \A q \in Request : q # r =>
            pc'[q] = pc[q] /\ want'[q] = want[q] /\ held'[q] = held[q] /\ shared'[q] = shared[q]
  BY <1>1 DEF End, Goto, LockTypes, Pcs
<1>4. /\ seen' \in [Request -> [Row -> Nat]] /\ seen'[r] = Nothing
      /\ \A q \in Request : q # r => seen'[q] = seen[q]
  BY <1>1, <1>2 DEF End, LockTypes
<1>5. Alone(r)
  BY <1>1, <1>3, <1>4 DEF Alone
<1>6. Own(r)'
  BY <1>2, <1>3, <1>4 DEF Own, Takes
<1>7. QED
  BY <1>3, <1>5, <1>6 DEF Quiet

LEMMA AnsweredQuiet ==
    ASSUME LockInv, NEW r \in Request, NEW result, Answered(r, result), UNCHANGED central
    PROVE  Quiet(r)
<1>1. End(r, "done", result) /\ attempts' = attempts
  BY DEF Answered
<1>2. QED
  BY <1>1, EndQuiet DEF LockInv, LockTypes

LEMMA Compared ==
    \A m, n \in Int : m # n => (m < n \/ n < m) /\ (m <= n => m < n)
  OBVIOUS

\* The transfer's own statements.
LEMMA FirstIsLower ==
    ASSUME ConstantsAssumption, NEW r \in Request, Kind[r] = "transfer"
    PROVE  /\ From[r] \in Branch /\ To[r] \in Branch /\ From[r] # To[r]
           /\ FirstBranch(r) \in Branch /\ SecondBranch(r) \in Branch
           /\ FirstBranch(r) < SecondBranch(r)
<1>1. From[r] \in Branch /\ To[r] \in Branch /\ From[r] # To[r]
  BY DEF ConstantsAssumption, Accepted
<1>2. From[r] \in Int /\ To[r] \in Int
  BY <1>1 DEF Branch, ConstantsAssumption, Accepted
<1>3. From[r] < To[r] \/ To[r] < From[r]
  BY <1>1, <1>2, Compared
<1>4. CASE From[r] < To[r]
  BY <1>1, <1>4 DEF FirstBranch, SecondBranch
<1>5. CASE ~(From[r] < To[r])
  BY <1>1, <1>3, <1>5 DEF FirstBranch, SecondBranch
<1>6. QED
  BY <1>4, <1>5

LEMMA BeginTransferQuiet ==
    ASSUME ConstantsAssumption, LockInv, NEW r \in Request, BeginTransfer(r)
    PROVE  Quiet(r)
<1>1. /\ Kind[r] = "transfer" /\ pc[r] \in {"idle", "again"} /\ UNCHANGED central
      /\ attempts' = [attempts EXCEPT ![r] = @ + 1]
  BY DEF BeginTransfer
<1>2. LockTypes /\ Own(r) /\ MaxAttempts \in Nat \ {0}
  BY DEF LockInv, ConstantsAssumption, Accepted
<1>3. attempts[r] \in Nat /\ attempts[r] < MaxAttempts
  BY <1>1, <1>2 DEF Own, LockTypes
<1>4. attempts[r] + 1 \in 0..MaxAttempts
  BY <1>2, <1>3
<1>5. /\ attempts' \in [Request -> 0..MaxAttempts]
      /\ \A q \in Request \ {r} : attempts'[q] = attempts[q]
  BY <1>1, <1>2, <1>4 DEF LockTypes
<1>6. CASE Recorded(r)
  <2>1. End(r, "done", Replay(r))
    BY <1>6 DEF BeginTransfer
  <2>2. QED
    BY <1>1, <1>5, <2>1, EndQuiet
<1>7. CASE ~Recorded(r)
  <2>1. Goto(r, "low", RowsAt(r, FirstBranch(r)) \cap rows) /\ UNCHANGED <<held, seen, shared>>
    BY <1>7 DEF BeginTransfer
  <2>2. held[r] = {} /\ shared[r] = {}
    BY <1>1, <1>2 DEF Own
  <2>3. RowsAt(r, FirstBranch(r)) \cap rows \in SUBSET Rows[r]
    BY DEF RowsAt
  <2>4. QED
    BY <1>1, <1>5, <2>1, <2>2, <2>3, GotoQuiet DEF Pcs
<1>8. QED
  BY <1>6, <1>7

LEMMA SelectSecondQuiet ==
    ASSUME ConstantsAssumption, LockInv, NEW r \in Request, SelectSecond(r)
    PROVE  Quiet(r)
<1> DEFINE locking == RowsAt(r, SecondBranch(r)) \cap rows
<1>1. /\ Kind[r] = "transfer" /\ pc[r] = "low" /\ Goto(r, "high", locking)
      /\ UNCHANGED <<held, seen, shared, attempts, central>>
  BY DEF SelectSecond
<1>2. Own(r) /\ attempts \in [Request -> 0..MaxAttempts]
  BY DEF LockInv, LockTypes
<1>3. held[r] \subseteq RowsAt(r, FirstBranch(r)) /\ shared[r] = {}
  BY <1>1, <1>2 DEF Own, Ordered, Takes
<1>4. locking \in SUBSET Rows[r]
  BY DEF RowsAt
<1>5. \A row \in held[r], other \in locking : Before(row, other)
  BY <1>1, <1>3, FirstIsLower DEF Before, RowsAt
<1> HIDE DEF locking
<1>6. locking \subseteq RowsAt(r, SecondBranch(r))
  BY DEF locking
<1>7. QED
  BY <1>1, <1>2, <1>3, <1>4, <1>5, <1>6, GotoQuiet DEF Pcs

LEMMA CheckTransferQuiet ==
    ASSUME ConstantsAssumption, LockInv, NEW r \in Request, CheckTransfer(r)
    PROVE  Quiet(r)
<1>1. Kind[r] = "transfer" /\ pc[r] = "high" /\ UNCHANGED central
  BY DEF CheckTransfer
<1>2. CASE Enough(r)
  <2> DEFINE locking == RowsAt(r, To[r]) \ held[r]
  <2>1. Goto(r, "write", locking) /\ UNCHANGED <<held, seen, shared, attempts>>
    BY <1>2 DEF CheckTransfer
  <2>2. locking \in SUBSET Rows[r] /\ \A row \in locking : row[1] # From[r]
    BY <1>1, FirstIsLower DEF RowsAt
  <2>3. attempts \in [Request -> 0..MaxAttempts]
    BY DEF LockInv, LockTypes
  <2> HIDE DEF locking
  <2>4. QED
    BY <1>1, <1>2, <2>1, <2>2, <2>3, GotoQuiet DEF Pcs
<1>3. CASE ~Enough(r)
  BY <1>1, <1>3, AnsweredQuiet DEF CheckTransfer
<1>4. QED
  BY <1>2, <1>3

LEMMA RecordTransferQuiet ==
    ASSUME ConstantsAssumption, LockInv, NEW r \in Request, RecordTransfer(r)
    PROVE  Quiet(r)
<1>1. Kind[r] = "transfer" /\ pc[r] = "write" /\ shared[r] = Lines[r] /\ UNCHANGED central
  BY DEF RecordTransfer
<1>2. CASE Recorded(r)
  BY <1>1, <1>2, EndQuiet DEF RecordTransfer, LockInv, LockTypes
<1>3. CASE ~Recorded(r)
  <2>1. Goto(r, "commit", {}) /\ UNCHANGED <<held, seen, shared, attempts>>
    BY <1>3 DEF RecordTransfer
  <2>2. Own(r) /\ attempts \in [Request -> 0..MaxAttempts]
    BY DEF LockInv, LockTypes
  <2>3. Enough(r)
    BY <1>1, <2>2 DEF Own, Takes
  <2>4. QED
    BY <1>1, <2>1, <2>2, <2>3, GotoQuiet DEF Pcs
<1>4. QED
  BY <1>2, <1>3

LEMMA CheckRecordQuiet ==
    ASSUME LockInv, NEW r \in Request, CheckRecord(r)
    PROVE  Quiet(r)
<1>1. (\E result : Answered(r, result)) /\ UNCHANGED central
  BY DEF CheckRecord
<1>2. QED
  BY <1>1, AnsweredQuiet

LEMMA CheckPushQuiet ==
    ASSUME ConstantsAssumption, LockInv, NEW r \in Request, CheckPush(r)
    PROVE  Quiet(r)
<1>1. Kind[r] = "push" /\ UNCHANGED central
  BY DEF CheckPush
<1>2. CASE Enough(r)
  <2> DEFINE locking == Rows[r] \ held[r]
  <2>1. Goto(r, "write", locking) /\ UNCHANGED <<held, seen, shared, attempts>>
    BY <1>2 DEF CheckPush
  <2>2. locking \in SUBSET Rows[r] /\ \A row \in locking : row[1] # From[r]
    BY <1>2 DEF Enough, RowsAt
  <2>3. attempts \in [Request -> 0..MaxAttempts]
    BY DEF LockInv, LockTypes
  <2> HIDE DEF locking
  <2>4. QED
    BY <1>1, <1>2, <2>1, <2>2, <2>3, GotoQuiet DEF Pcs
<1>3. CASE ~Enough(r)
  BY <1>1, <1>3, AnsweredQuiet DEF CheckPush
<1>4. QED
  BY <1>2, <1>3

\* The first statements of the other writers, and those that lock nothing new.
LEMMA OtherGotoQuiet ==
    ASSUME ConstantsAssumption, LockInv, NEW r \in Request,
           \/ BeginReceive(r) \/ BeginDelta(r) \/ BeginAdjust(r) \/ BeginOpening(r)
           \/ LockProduct(r)
           \/ ReadTotal(r) \/ UpsertDelta(r) \/ ReadItem(r)
    PROVE  Quiet(r)
<1>1. attempts \in [Request -> 0..MaxAttempts]
  BY DEF LockInv, LockTypes
<1>2. PICK step \in {"product", "low", "high", "write"}, locking \in SUBSET Rows[r] :
        /\ Goto(r, step, locking) /\ (step = "product" => Kind[r] = "receive")
        /\ Kind[r] = "adjust" => locking = Rows[r]
  <2>1. pc[r] = "product" => Kind[r] = "receive"
    BY DEF LockInv, Own
  <2>2. Rows[r] \in SUBSET Rows[r] /\ {} \in SUBSET Rows[r] /\ Rows[r] \cap rows \in SUBSET Rows[r]
        /\ Rows[r] \ held[r] \in SUBSET Rows[r]
    OBVIOUS
  <2>3. CASE BeginReceive(r) \/ BeginOpening(r) \/ BeginDelta(r) \/ BeginAdjust(r)
    BY <2>2, <2>3 DEF BeginReceive, BeginOpening, BeginDelta, BeginAdjust
  <2>4. CASE LockProduct(r) \/ ReadTotal(r) \/ UpsertDelta(r)
    BY <2>1, <2>2, <2>4 DEF LockProduct, ReadTotal, UpsertDelta
  <2>5. CASE ReadItem(r)
    <3>1. PICK row \in Rows[r] : Goto(r, IF row \in rows THEN "high" ELSE "write", {row})
      BY <2>5 DEF ReadItem
    <3>2. {row} \in SUBSET Rows[r] /\ Kind[r] = "opening"
      BY <2>5 DEF ReadItem
    <3>3. QED
      BY <3>1, <3>2
  <2>6. QED
    BY <2>3, <2>4, <2>5
<1>3. /\ UNCHANGED <<held, shared, attempts, central>>
      /\ Kind[r] \notin {"transfer", "push"}
      /\ \/ seen' = seen
         \/ seen' = [seen EXCEPT ![r] = stock] /\ Kind[r] \in {"receive", "increase"} \cup Absolute
  <2>1. pc[r] = "product" => Kind[r] = "receive"
    BY DEF LockInv, Own
  <2>2. CASE BeginReceive(r) \/ BeginDelta(r) \/ BeginAdjust(r) \/ BeginOpening(r)
    <3>1. CASE BeginReceive(r) \/ BeginDelta(r) \/ BeginOpening(r)
      BY <3>1 DEF BeginReceive, BeginDelta, BeginOpening
    <3>2. CASE BeginAdjust(r)
      <4>1. "transfer" \notin Absolute \cup {"increase"} /\ "push" \notin Absolute \cup {"increase"}
        BY DEF Absolute
      <4>2. Kind[r] \in Absolute \cup {"increase"} /\ UNCHANGED <<held, shared, attempts, central>>
        BY <3>2 DEF BeginAdjust
      <4>3. seen' = [seen EXCEPT ![r] = stock]
        BY <3>2 DEF BeginAdjust
      <4>4. QED
        BY <4>1, <4>2, <4>3
    <3>3. QED
      BY <2>2, <3>1, <3>2
  <2>3. CASE LockProduct(r) \/ ReadTotal(r) \/ UpsertDelta(r) \/ ReadItem(r)
    BY <2>1, <2>3 DEF LockProduct, ReadTotal, UpsertDelta, ReadItem
  <2>4. QED
    BY <2>2, <2>3
<1>4. QED
  BY <1>1, <1>2, <1>3, GotoQuiet DEF Pcs, Takes

LEMMA BeginPushQuiet ==
    ASSUME ConstantsAssumption, LockInv, NEW r \in Request, BeginPush(r)
    PROVE  Quiet(r)
<1>1. Kind[r] = "push" /\ UNCHANGED central
  BY DEF BeginPush
<1>2. CASE Answered(r, "refused")
  BY <1>1, <1>2, AnsweredQuiet
<1>3. CASE Goto(r, "low", RowsAt(r, From[r])) /\ UNCHANGED <<held, seen, shared, attempts>>
  <2>1. /\ RowsAt(r, From[r]) \in SUBSET Rows[r] /\ attempts \in [Request -> 0..MaxAttempts]
        /\ shared[r] = {}
    BY DEF LockInv, LockTypes, RowsAt, BeginPush, Own
  <2>2. QED
    BY <1>1, <1>3, <2>1, GotoQuiet DEF Pcs
<1>4. QED
  BY <1>2, <1>3 DEF BeginPush

\* A row that is locked is read at the same time.
LEMMA LockRowQuiet ==
    ASSUME ConstantsAssumption, LockInv, NEW r \in Request, LockRow(r)
    PROVE  Quiet(r)
<1>1. LockTypes /\ Own(r)
  BY DEF LockInv
<1>2. PICK row \in want[r] :
        /\ NextRow(r, row) /\ RowFree(r, row)
        /\ want' = [want EXCEPT ![r] = @ \ {row}]
        /\ held' = [held EXCEPT ![r] = @ \cup {row}]
        /\ seen' = [seen EXCEPT ![r][row] = stock[row]]
  BY DEF LockRow
<1>3. /\ pc[r] \in {"low", "high"}
      /\ UNCHANGED <<pc, shared, attempts, central, rows, stock>>
  BY DEF LockRow, central
<1>4. row \in Rows[r] /\ row \in Row
  BY <1>1 DEF Own, LockTypes
<1>5. /\ want' \in [Request -> SUBSET Row] /\ want'[r] = want[r] \ {row}
      /\ held' \in [Request -> SUBSET Row] /\ held'[r] = held[r] \cup {row}
      /\ \A q \in Request : q # r => want'[q] = want[q] /\ held'[q] = held[q]
  BY <1>1, <1>2, <1>4 DEF LockTypes
<1>6. /\ seen' \in [Request -> [Row -> Nat]]
      /\ \A other \in Row : seen'[r][other] = IF other = row THEN stock[row] ELSE seen[r][other]
      /\ \A q \in Request : q # r => seen'[q] = seen[q]
  BY <1>1, <1>2, <1>4 DEF LockTypes
<1>7. Alone(r)
  BY <1>1, <1>3, <1>5, <1>6 DEF Alone, LockTypes
<1>8. \A p \in shared[r] : Written(r, p)'
  BY <1>1, <1>5 DEF Own, Written
<1>9. Kind[r] = "transfer" => Ordered(r)'
  <2>1. SUFFICES ASSUME Kind[r] = "transfer"
                 PROVE  Ordered(r)'
    OBVIOUS
  <2>2. Ordered(r) /\ BranchNow(r)' = BranchNow(r) /\ \A b : RowsAt(r, b)' = RowsAt(r, b)
    BY <1>1, <1>3, <2>1 DEF Own, BranchNow, RowsAt, FirstBranch, SecondBranch
  <2>3. want'[r] \subseteq RowsAt(r, BranchNow(r))
    BY <1>5, <2>2 DEF Ordered
  <2>4. pc[r] = "low" => held'[r] \subseteq RowsAt(r, FirstBranch(r))
    BY <1>5, <2>2 DEF Ordered, BranchNow
  <2>5. \A other \in want'[r] : Before(row, other)
    <3>1. SUFFICES ASSUME NEW other \in want'[r]
                   PROVE  Before(row, other)
      OBVIOUS
    <3>2. other \in want[r] /\ other # row /\ other \in Row
      BY <1>1, <1>5 DEF LockTypes
    <3>3. row[1] = other[1]
      BY <2>2, <3>2 DEF Ordered, RowsAt
    <3>4. row = <<row[1], row[2]>> /\ other = <<other[1], other[2]>>
      BY <1>4, <3>2 DEF Row
    <3>5. row[2] # other[2] /\ row[2] \in Int /\ other[2] \in Int
      <4>1. row[2] \in Product /\ other[2] \in Product
        BY <1>4, <3>2 DEF Row
      <4>2. Product \subseteq Int
        BY DEF Product
      <4>3. QED
        BY <3>2, <3>3, <3>4, <4>1, <4>2
    <3>6. row[2] <= other[2]
      BY <1>2, <3>2 DEF NextRow
    <3>7. row[2] < other[2]
      <4>1. PICK m \in Int, n \in Int : m = row[2] /\ n = other[2]
        BY <3>5
      <4>2. m # n
        BY <3>5, <4>1
      <4>3. m <= n
        BY <3>6, <4>1
      <4>4. m < n
        BY <4>2, <4>3, Compared
      <4>5. QED
        BY <4>1, <4>4
    <3>8. QED
      BY <3>3, <3>7 DEF Before
  <2>6. \A h \in held'[r], other \in want'[r] : Before(h, other)
    BY <1>5, <2>2, <2>5 DEF Ordered
  <2>7. QED
    BY <1>3, <2>2, <2>3, <2>4, <2>6 DEF Ordered
<1>10. Own(r)'
  <2>1. /\ want'[r] \subseteq Rows[r] /\ held'[r] \subseteq Rows[r] /\ shared'[r] \subseteq Lines[r]
    BY <1>1, <1>3, <1>4, <1>5 DEF Own
  <2>2. /\ Takes(r) => \A other \in held'[r] : other[1] = From[r] => seen'[r][other] = stock[other]
        /\ Kind[r] = "opening" =>
              \A other \in Row : seen'[r][other] = IF other \in held'[r] THEN stock[other] ELSE 0
    BY <1>1, <1>5, <1>6 DEF Own, LockTypes
  <2>3. Takes(r)' <=> Takes(r)
    BY DEF Takes
  <2>4. QED
    BY <1>1, <1>3, <1>8, <1>9, <2>1, <2>2, <2>3 DEF Own
<1>11. QED
  BY <1>2, <1>3, <1>5, <1>7, <1>10 DEF Quiet

LEMMA WriteRowQuiet ==
    ASSUME ConstantsAssumption, LockInv, NEW r \in Request, WriteRow(r)
    PROVE  Quiet(r)
<1>1. LockTypes /\ Own(r)
  BY DEF LockInv
<1>2. PICK row \in want[r] :
        /\ RowFree(r, row) /\ ~InsertFails(r, row)
        /\ want' = [want EXCEPT ![r] = @ \ {row}]
        /\ held' = [held EXCEPT ![r] = @ \cup {row}]
  BY DEF WriteRow
<1>3. /\ pc[r] = "write"
      /\ UNCHANGED <<pc, seen, shared, attempts, central, rows, stock>>
  BY DEF WriteRow, central
<1>4. row \in Rows[r] /\ row \in Row
  BY <1>1 DEF Own, LockTypes
<1>5. /\ want' \in [Request -> SUBSET Row] /\ want'[r] = want[r] \ {row}
      /\ held' \in [Request -> SUBSET Row] /\ held'[r] = held[r] \cup {row}
      /\ \A q \in Request : q # r => want'[q] = want[q] /\ held'[q] = held[q]
  BY <1>1, <1>2, <1>4 DEF LockTypes
<1>6. Alone(r)
  BY <1>1, <1>3, <1>5 DEF Alone, LockTypes
<1>7. \A p \in shared[r] : Written(r, p)'
  BY <1>1, <1>5 DEF Own, Written
<1>8. Takes(r) => row[1] # From[r] /\ Enough(r)'
  <2>1. Takes(r) => Enough(r) /\ row[1] # From[r]
    BY <1>1, <1>3 DEF Own
  <2>2. Enough(r) => Enough(r)'
    BY <1>3, <1>5 DEF Enough, RowsAt
  <2>3. QED
    BY <2>1, <2>2
<1>9. Kind[r] = "opening" => stock[row] = 0
  BY <1>2, <1>4 DEF InsertFails, LockInv
<1>10. Own(r)'
  <2>1. /\ want'[r] \subseteq Rows[r] /\ held'[r] \subseteq Rows[r] /\ shared'[r] \subseteq Lines[r]
    BY <1>1, <1>3, <1>4, <1>5 DEF Own
  <2>2. /\ Takes(r) => \A other \in held'[r] : other[1] = From[r] => seen[r][other] = stock[other]
        /\ Takes(r) => \A other \in want'[r] : other[1] # From[r]
    BY <1>1, <1>3, <1>5, <1>8 DEF Own
  <2>3. Kind[r] = "opening" =>
           \A other \in Row : seen[r][other] = IF other \in held'[r] THEN stock[other] ELSE 0
    BY <1>1, <1>5, <1>9 DEF Own
  <2>4. Takes(r)' <=> Takes(r)
    BY DEF Takes
  <2>5. Kind[r] = "adjust" => Rows[r] \subseteq want'[r] \cup held'[r]
    BY <1>1, <1>3, <1>5 DEF Own
  <2>6. QED
    BY <1>3, <1>7, <1>8, <2>1, <2>2, <2>3, <2>4, <2>5 DEF Own
<1>11. QED
  BY <1>2, <1>3, <1>5, <1>6, <1>10 DEF Quiet

LEMMA InsertMovementsQuiet ==
    ASSUME ConstantsAssumption, LockInv, NEW r \in Request, InsertMovements(r)
    PROVE  Quiet(r)
<1>1. LockTypes /\ Own(r)
  BY DEF LockInv
<1>2. PICK p \in Product :
        /\ NextItem(r, p) /\ Written(r, p)
        /\ shared' = [shared EXCEPT ![r] = @ \cup {p}]
        /\ pc' = IF Kind[r] = "opening" THEN [pc EXCEPT ![r] = "low"] ELSE pc
  BY DEF InsertMovements
<1>3. /\ pc[r] = "write" \/ Kind[r] = "opening"
      /\ UNCHANGED <<want, held, seen, attempts, central, rows, stock>>
  BY DEF InsertMovements, central
<1>4. /\ shared' \in [Request -> SUBSET Product] /\ shared'[r] = shared[r] \cup {p}
      /\ pc' \in [Request -> Pcs] /\ pc'[r] = IF Kind[r] = "opening" THEN "low" ELSE pc[r]
      /\ \A q \in Request : q # r => shared'[q] = shared[q] /\ pc'[q] = pc[q]
  BY <1>1, <1>2 DEF LockTypes, Pcs
<1>5. Alone(r)
  BY <1>1, <1>3, <1>4 DEF Alone, LockTypes
<1>6. /\ \A q \in shared'[r] : Written(r, q)'
      /\ shared'[r] \subseteq Lines[r]
  BY <1>1, <1>2, <1>3, <1>4 DEF Own, Written, NextItem
<1>7. /\ Enough(r)' <=> Enough(r)
      /\ Takes(r)' <=> Takes(r)
  BY <1>3 DEF Enough, RowsAt, Takes
<1>8. Own(r)'
  BY <1>1, <1>3, <1>4, <1>6, <1>7 DEF Own, Takes
<1>9. QED
  BY <1>3, <1>5, <1>8 DEF Quiet

-----------------------------------------------------------------------------
(* A commit writes the rows it holds.                                      *)

LEMMA CommitHoldsItsRows ==
    ASSUME ConstantsAssumption, LockInv, NEW r \in Request, Commit(r)
    PROVE  /\ Rows[r] \subseteq held[r]
           /\ Takes(r) => \A row \in Rows[r] : row[1] = From[r] =>
                 stock[row] >= Amount[r][row[2]]
           /\ Kind[r] = "opening" => \A row \in Rows[r] : seen[r][row] = stock[row]
<1>1. Own(r) /\ LockTypes
  BY DEF LockInv
<1>2. shared[r] = Lines[r] \/ (NothingMoves(r) /\ ~Takes(r) /\ Rows[r] \subseteq held[r])
  BY <1>1 DEF Commit, ReadyToCommit, Own, NothingMoves, Takes
<1>3. ASSUME NEW row \in Rows[r]
      PROVE  row \in held[r] /\ row \in Row
  <2>1. row[2] \in Lines[r] /\ row \in Row
    BY <1>3 DEF Rows
  <2>2. CASE shared[r] = Lines[r]
    <3>1. Written(r, row[2])
      BY <1>1, <2>1, <2>2 DEF Own
    <3>2. QED
      BY <1>3, <2>1, <3>1 DEF Written
  <2>3. CASE Rows[r] \subseteq held[r]
    BY <1>3, <2>1, <2>3
  <2>4. QED
    BY <1>2, <2>2, <2>3
<1>4. ASSUME Takes(r), NEW row \in Rows[r], row[1] = From[r]
      PROVE  stock[row] >= Amount[r][row[2]]
  <2>1. seen[r][row] = stock[row]
    BY <1>1, <1>3, <1>4 DEF Own
  <2>2. PICK p \in Lines[r] : p = row[2]
    BY DEF Rows
  <2>3. p \in Product /\ Amount[r][p] > 0 /\ Amount[r][p] \in Nat
    <3>1. Lines[r] \in SUBSET Product /\ Amount[r] \in [Product -> Nat]
      BY DEF ConstantsAssumption, Accepted
    <3>2. Kind[r] \notin Absolute
      BY <1>4 DEF Takes, Absolute
    <3>3. QED
      BY <3>1, <3>2 DEF ConstantsAssumption, Accepted
  <2>4. CASE pc[r] \in {"write", "commit"}
    <3>1. Enough(r)
      BY <1>1, <1>4, <2>4 DEF Own
    <3>2. QED
      BY <1>4, <2>1, <3>1 DEF Enough, RowsAt
  <2>5. CASE pc[r] \notin {"write", "commit"}
    BY <1>1, <1>2, <1>4, <2>2, <2>5 DEF Own
  <2>6. QED
    BY <2>4, <2>5
<1>5. QED
  BY <1>1, <1>3, <1>4 DEF Own

LEMMA WhatACommitWrites ==
    ASSUME ConstantsAssumption, LockInv, NEW r \in Request, Commit(r), NEW row \in Rows[r]
    PROVE  /\ NewStock(r, row) \in Nat /\ Movement(r, row) \in Int
           /\ Kind[r] \notin Absolute \cup {"remove"} =>
                 NewStock(r, row) = stock[row] + Movement(r, row)
<1>1. /\ row \in Row /\ row[1] \in Branch /\ row[1] \in {From[r], To[r]}
      /\ row[2] \in Product /\ None \notin Branch
  BY DEF Rows, Row, ConstantsAssumption, Accepted
<1>2. PICK amount \in Nat : amount = Amount[r][row[2]]
  BY <1>1 DEF ConstantsAssumption, Accepted
<1>3. PICK had \in Nat, read \in Nat : had = stock[row] /\ read = seen[r][row]
  BY <1>1 DEF LockInv, LockTypes
<1>4. Kind[r] \in Kinds
  BY DEF ConstantsAssumption, Accepted
<1>5. CASE Takes(r) /\ row[1] = From[r]
  <2>1. From[r] # To[r]
    BY <1>5 DEF Takes, ConstantsAssumption, Accepted
  <2>2. Signed(r, row) = 0 - amount
    BY <1>2, <1>5, <2>1 DEF Signed
  <2>3. amount <= had
    BY <1>2, <1>3, <1>5, CommitHoldsItsRows
  <2>4. NewStock(r, row) = had + (0 - amount) /\ Movement(r, row) = 0 - amount
    BY <1>3, <1>5, <2>2 DEF NewStock, Movement, Takes, Absolute
  <2>5. QED
    BY <1>3, <2>3, <2>4
<1>6. CASE Kind[r] \notin Absolute \cup {"remove"} /\ row[1] # From[r]
  <2>1. row[1] = To[r]
    BY <1>1, <1>6
  <2>2. Signed(r, row) = amount - 0
    BY <1>2, <1>6, <2>1 DEF Signed
  <2>3. Kind[r] = "opening" => read = had
    BY <1>3, CommitHoldsItsRows
  <2>4. NewStock(r, row) = had + amount /\ Movement(r, row) = amount
    BY <1>2, <1>3, <1>6, <2>2, <2>3 DEF NewStock, Movement, Absolute
  <2>5. QED
    BY <1>3, <2>4
<1>7. CASE Kind[r] \in Absolute
  <2>1. NewStock(r, row) = amount /\ Movement(r, row) = amount - read
    BY <1>2, <1>3, <1>7 DEF NewStock, Movement, Absolute
  <2>2. QED
    BY <1>7, <2>1
<1>8. CASE Kind[r] = "remove"
  <2>1. row[1] # To[r] /\ row[1] = From[r]
    BY <1>1, <1>8 DEF ConstantsAssumption, Accepted
  <2>2. Signed(r, row) = 0 - amount
    BY <1>2, <2>1 DEF Signed
  <2>3. NewStock(r, row) = AtLeastZero(had + (0 - amount)) /\ Movement(r, row) = 0 - amount
    BY <1>3, <1>8, <2>2 DEF NewStock, Movement, Absolute
  <2>4. AtLeastZero(had + (0 - amount)) \in Nat
    BY DEF AtLeastZero
  <2>5. QED
    BY <1>8, <2>3, <2>4
<1>9. Kind[r] \notin Absolute \cup {"remove"} /\ ~Takes(r) => row[1] # From[r]
  BY <1>1, <1>4 DEF Takes, Kinds, Absolute, ConstantsAssumption, Accepted
<1>10. QED
  BY <1>5, <1>6, <1>7, <1>8, <1>9 DEF Takes

LEMMA CommitKeeps ==
    ASSUME ConstantsAssumption, LockInv, NEW r \in Request, Commit(r)
    PROVE  LockInv'
<1> DEFINE NewMoved(row) == moved[row] + Movement(r, row)
<1>1. PICK result : Answered(r, result)
  BY DEF Commit
<1>2. LockTypes /\ Own(r)
  BY DEF LockInv
<1>3. Nothing \in [Row -> Nat] /\ \A row \in Row : Nothing[row] = 0
  BY DEF Nothing
<1>4. /\ pc' \in [Request -> Pcs] /\ pc'[r] = "done"
      /\ want' \in [Request -> SUBSET Row] /\ want'[r] = {}
      /\ held' \in [Request -> SUBSET Row] /\ held'[r] = {}
      /\ shared' \in [Request -> SUBSET Product] /\ shared'[r] = {}
      /\ seen' \in [Request -> [Row -> Nat]] /\ seen'[r] = Nothing
      /\ attempts' = attempts
      /\ \A q \in Request : q # r =>
            /\ pc'[q] = pc[q] /\ want'[q] = want[q] /\ held'[q] = held[q]
            /\ shared'[q] = shared[q] /\ seen'[q] = seen[q]
  BY <1>1, <1>2, <1>3 DEF Answered, End, Goto, LockTypes, Pcs
<1>5. /\ applied' = applied \cup {r} /\ rows' = rows \cup Rows[r] /\ Rows[r] \subseteq Row
      /\ \A row \in Row : stock'[row] = IF row \in Rows[r] THEN NewStock(r, row) ELSE stock[row]
      /\ \A row \in Row : moved'[row] = IF row \in Rows[r] THEN NewMoved(row) ELSE moved[row]
  BY DEF Commit, Rows
<1>6. \A row \in Rows[r] :
        /\ NewStock(r, row) \in Nat /\ NewMoved(row) \in Int
        /\ Kind[r] \notin Absolute \cup {"remove"} =>
              NewStock(r, row) = stock[row] + Movement(r, row) /\ Movement(r, row) \in Int
  <2>1. SUFFICES ASSUME NEW row \in Rows[r]
                 PROVE  /\ NewStock(r, row) \in Nat /\ NewMoved(row) \in Int
                        /\ Kind[r] \notin Absolute \cup {"remove"} =>
                              NewStock(r, row) = stock[row] + Movement(r, row) /\ Movement(r, row) \in Int
    OBVIOUS
  <2>2. NewStock(r, row) \in Nat /\ Movement(r, row) \in Int
    BY WhatACommitWrites
  <2>3. Kind[r] \notin Absolute \cup {"remove"} => NewStock(r, row) = stock[row] + Movement(r, row)
    BY WhatACommitWrites
  <2>4. moved[row] \in Int
    BY <1>2, <1>5 DEF LockTypes
  <2>5. QED
    BY <2>2, <2>3, <2>4
<1>7. LockTypes'
  <2>1. stock' \in [Row -> Nat]
    <3>1. stock' = [row \in Row |-> IF row \in Rows[r] THEN NewStock(r, row) ELSE stock[row]]
      BY DEF Commit
    <3>2. QED
      BY <1>2, <1>6, <3>1 DEF LockTypes
  <2>2. moved' \in [Row -> Int]
    <3>1. moved' = [row \in Row |-> IF row \in Rows[r] THEN NewMoved(row) ELSE moved[row]]
      BY DEF Commit
    <3>2. QED
      BY <1>2, <1>6, <3>1 DEF LockTypes
  <2>3. rows' \in SUBSET Row
    BY <1>2, <1>5 DEF LockTypes
  <2>4. QED
    BY <1>2, <1>4, <2>1, <2>2, <2>3 DEF LockTypes
<1>8. \A q \in Request : Own(q)'
  <2>1. Own(r)'
    BY <1>3, <1>4 DEF Own, Takes
  <2>2. ASSUME NEW q \in Request, q # r
        PROVE  Own(q)'
    <3>1. /\ pc'[q] = pc[q] /\ want'[q] = want[q] /\ held'[q] = held[q]
          /\ seen'[q] = seen[q] /\ shared'[q] = shared[q] /\ attempts'[q] = attempts[q]
      BY <1>4, <2>2
    <3>2. Own(q) /\ held[q] \subseteq Row
      BY DEF LockInv, LockTypes
    <3>3. \A row \in held[q] : stock'[row] = stock[row]
      <4>1. \A row \in held[q] : row \notin Rows[r]
        BY <2>2, CommitHoldsItsRows DEF LockInv
      <4>2. QED
        BY <1>5, <3>2, <4>1
    <3>4. \A p : Written(q, p)' <=> Written(q, p)
      BY <3>1 DEF Written
    <3>5. Enough(q)' <=> Enough(q)
      BY <3>1 DEF Enough, RowsAt
    <3>6. Ordered(q)' <=> Ordered(q)
      BY <3>1 DEF Ordered, BranchNow, RowsAt, FirstBranch, SecondBranch
    <3>7. QED
      BY <3>1, <3>2, <3>3, <3>4, <3>5, <3>6 DEF Own, Takes
  <2>3. QED
    BY <2>1, <2>2
<1>9. \A p, q \in Request : \A row \in held'[p] : row \in held'[q] => p = q
  BY <1>4 DEF LockInv
<1>10. \A row \in Row : row \notin rows' => stock'[row] = 0
  BY <1>5 DEF LockInv
<1>11. MovementsAddUp'
  <2>1. SUFFICES ASSUME NEW row \in Row,
                        \A q \in applied' : row \in Rows[q] => Kind[q] \notin Absolute \cup {"remove"}
                 PROVE  stock'[row] = InitialStock[row] + moved'[row]
    BY DEF MovementsAddUp
  <2>2. stock[row] = InitialStock[row] + moved[row]
    BY <1>5, <2>1 DEF LockInv, MovementsAddUp
  <2>3. moved[row] \in Int /\ InitialStock[row] \in Nat
    BY <1>2 DEF LockTypes, ConstantsAssumption, Accepted
  <2>4. CASE row \in Rows[r]
    <3>1. stock'[row] = stock[row] + Movement(r, row) /\ Movement(r, row) \in Int
      BY <1>5, <1>6, <2>1, <2>4
    <3>2. moved'[row] = moved[row] + Movement(r, row)
      BY <1>5, <2>4
    <3>3. PICK mv \in Int, old \in Int, first \in Int :
            mv = Movement(r, row) /\ old = moved[row] /\ first = InitialStock[row]
      BY <2>3, <3>1
    <3>4. (first + old) + mv = first + (old + mv)
      BY <3>3
    <3>5. QED
      BY <2>2, <3>1, <3>2, <3>3, <3>4
  <2>5. CASE row \notin Rows[r]
    BY <1>5, <2>2, <2>5
  <2>6. QED
    BY <2>4, <2>5
<1>12. QED
  BY <1>7, <1>8, <1>9, <1>10, <1>11 DEF LockInv

LEMMA VictimQuiet ==
    ASSUME ConstantsAssumption, LockInv, NEW r \in Request, Victim(r)
    PROVE  Quiet(r)
<1>1. UNCHANGED central
  BY DEF Victim
<1>2. CASE Kind[r] = "transfer" /\ attempts[r] < MaxAttempts
  BY <1>1, <1>2, EndQuiet DEF Victim, LockInv, LockTypes
<1>3. CASE ~(Kind[r] = "transfer" /\ attempts[r] < MaxAttempts)
  BY <1>1, <1>3, AnsweredQuiet DEF Victim
<1>4. QED
  BY <1>2, <1>3

LEMMA StepQuiet ==
    ASSUME ConstantsAssumption, LockInv, NEW r \in Request,
           Arrive(r) \/ Step(r) \/ RollBack(r), ~Commit(r)
    PROVE  Quiet(r)
<1>1. CASE RowTaken(r) \/ MovementRefused(r) \/ RollBack(r)
  <2>1. Answered(r, "failed") /\ UNCHANGED central
    BY <1>1 DEF RowTaken, MovementRefused, RollBack
  <2>2. QED
    BY <2>1, AnsweredQuiet
<1>2. CASE \/ BeginTransfer(r) \/ SelectSecond(r) \/ CheckTransfer(r) \/ RecordTransfer(r)
           \/ CheckRecord(r)
  BY <1>2, BeginTransferQuiet, SelectSecondQuiet, CheckTransferQuiet, RecordTransferQuiet,
     CheckRecordQuiet
<1>3. CASE \/ BeginReceive(r) \/ BeginDelta(r) \/ BeginAdjust(r) \/ BeginOpening(r)
           \/ LockProduct(r) \/ ReadTotal(r) \/ UpsertDelta(r) \/ ReadItem(r)
  BY <1>3, OtherGotoQuiet
<1>4. CASE BeginPush(r) \/ CheckPush(r)
  BY <1>4, BeginPushQuiet, CheckPushQuiet
<1>5. CASE LockRow(r) \/ WriteRow(r) \/ InsertMovements(r)
  BY <1>5, LockRowQuiet, WriteRowQuiet, InsertMovementsQuiet
<1>6. QED
  BY <1>1, <1>2, <1>3, <1>4, <1>5 DEF Arrive, Step, TryAgain

\* Every step of the system keeps the locks in order.
LEMMA LockPreserved ==
    ASSUME ConstantsAssumption, LockInv, [Next]_vars
    PROVE  LockInv'
<1>1. CASE BreakCircle
  <2>1. PICK S \in Circles : \E r \in S : Victim(r)
    BY <1>1 DEF BreakCircle
  <2>2. S \subseteq Request
    BY DEF Circles, Waits
  <2>3. QED
    BY <2>1, <2>2, VictimQuiet, QuietKeeps
<1>2. CASE \E r \in Request : Arrive(r) \/ Step(r) \/ RollBack(r)
  <2>1. PICK r \in Request : Arrive(r) \/ Step(r) \/ RollBack(r)
    BY <1>2
  <2>2. CASE Commit(r)
    BY <2>2, CommitKeeps
  <2>3. CASE ~Commit(r)
    BY <2>1, <2>3, StepQuiet, QuietKeeps
  <2>4. QED
    BY <2>2, <2>3
<1>3. CASE UNCHANGED vars
  <2> USE <1>3 DEF vars, request, central, LockInv
  <2>1. LockTypes' /\ MovementsAddUp'
    BY DEF LockTypes, MovementsAddUp
  <2>2. \A r \in Request : Own(r)'
    BY DEF Own, Takes, Written, Enough, RowsAt, Ordered, BranchNow, FirstBranch, SecondBranch
  <2>3. QED
    BY <2>1, <2>2
<1>4. QED
  BY <1>1, <1>2, <1>3 DEF Next

LEMMA InitLocks ==
    ASSUME ConstantsAssumption, Init
    PROVE  LockInv
<1>1. LockTypes
  BY DEF Init, LockTypes, Pcs, Nothing, ConstantsAssumption, Accepted
<1>2. \A r \in Request : Own(r)
  BY DEF Init, Own, Takes, Nothing
<1>3. MovementsAddUp
  BY DEF Init, MovementsAddUp, ConstantsAssumption, Accepted
<1>4. \A row \in Row : row \notin rows => stock[row] = 0
  BY DEF Init, ConstantsAssumption, Accepted
<1>5. QED
  BY <1>1, <1>2, <1>3, <1>4 DEF LockInv, Init

-----------------------------------------------------------------------------
(* Circles. In a set of transfers each of which waits for a row of another *)
(* one, there would be a last row among those that are waited for, and its *)
(* holder waits for a later one.                                           *)

\* A set of natural numbers with a bound has a greatest element.
LEMMA Greatest ==
    ASSUME NEW N \in Nat, NEW S, S \subseteq 1..N, S # {}
    PROVE  \E n \in S : \A m \in S : m <= n
<1> DEFINE T == {N - n : n \in S}
<1>1. T \subseteq Nat /\ T # {}
  <2>1. \A n \in S : n \in 1..N
    OBVIOUS
  <2>2. \A n \in 1..N : N - n \in Nat
    OBVIOUS
  <2>3. QED
    BY <2>1, <2>2
<1>2. PICK t \in T : \A m \in T : <<m, t>> \notin OpToRel(<, Nat)
  <2> HIDE DEF T
  <2>1. QED
    BY <1>1, NatLessThanWellFounded, WFMin
<1>3. PICK n \in S : t = N - n
  OBVIOUS
<1>4. ASSUME NEW m \in S
      PROVE  m <= n
  <2>1. N - m \in T /\ N - m \in Nat /\ t \in Nat
    BY <1>1
  <2>2. ~(N - m < t)
    BY <1>2, <2>1 DEF OpToRel
  <2>3. n \in Int /\ m \in Int
    OBVIOUS
  <2>4. QED
    BY <1>3, <2>2, <2>3
<1>5. QED
  BY <1>4

\* Who waits for a transfer that is still locking waits for a row.
LEMMA WaitsForARow ==
    ASSUME ConstantsAssumption, NEW r \in Request, NEW q \in Request, WaitsFor(r, q),
           Kind[r] = "transfer", pc[r] \in {"low", "high"},
           Kind[q] = "transfer", pc[q] \in {"low", "high"}
    PROVE  \E row \in held[q] : row \in want[r]
<1>1. \A p \in Product : ~HoldsProduct(q, p)
  BY DEF HoldsProduct
<1>2. CASE \E row \in held[q] : NextRow(r, row)
  BY <1>2 DEF NextRow
<1>3. CASE \E p \in Product : HoldsProduct(q, p)
  BY <1>1, <1>3
<1>4. pc[r] # "product" /\ pc[q] # "commit"
  OBVIOUS
<1>5. (\E row \in held[q] : NextRow(r, row)) \/ (\E p \in Product : HoldsProduct(q, p))
  BY <1>4 DEF WaitsFor
<1>6. QED
  BY <1>2, <1>3, <1>5

LEMMA NoCircle ==
    ASSUME ConstantsAssumption, LockInv
    PROVE  TransfersNeverCircle
<1>1. SUFFICES ASSUME NEW S \in Circles,
                      \A r \in S : Kind[r] = "transfer" /\ pc[r] \in {"low", "high"}
               PROVE  FALSE
  BY DEF TransfersNeverCircle
<1>2. /\ S # {} /\ S \subseteq Request
      /\ \A r \in S : \E q \in S : WaitsFor(r, q)
  BY DEF Circles, Circle, Waits
<1> DEFINE Waited == {row \in Row : \E r, q \in S : row \in want[r] /\ row \in held[q]}
<1>3. \A r \in S : \E q \in S : \E row \in Row : row \in want[r] /\ row \in held[q]
  <2>1. SUFFICES ASSUME NEW r \in S
                 PROVE  \E q \in S : \E row \in Row : row \in want[r] /\ row \in held[q]
    OBVIOUS
  <2>2. PICK q \in S : WaitsFor(r, q)
    BY <1>2
  <2>3. PICK row \in held[q] : row \in want[r]
    BY <1>1, <1>2, <2>2, WaitsForARow
  <2>4. row \in Row
    BY <1>2 DEF LockInv, LockTypes
  <2>5. QED
    BY <2>3, <2>4
<1>4. Waited # {}
  BY <1>2, <1>3
\* After each row that is waited for comes another one.
<1>5. ASSUME NEW row \in Waited
      PROVE  \E other \in Waited : Before(row, other)
  <2>1. PICK q \in S : row \in held[q]
    OBVIOUS
  <2>2. PICK t \in S, other \in Row : other \in want[q] /\ other \in held[t]
    BY <1>3
  <2>3. Ordered(q)
    BY <1>1, <1>2 DEF LockInv, Own
  <2>4. QED
    BY <2>1, <2>2, <2>3 DEF Ordered
<1>6. \A row \in Waited : row[1] \in 1..NumBranches /\ row[2] \in 1..NumProducts
  BY DEF Row, Branch, Product
<1>7. NumBranches \in Nat /\ NumProducts \in Nat
  BY DEF ConstantsAssumption, Accepted
<1> HIDE DEF Waited
<1> DEFINE branches == {row[1] : row \in Waited}
<1>8. PICK b \in branches : \A c \in branches : c <= b
  <2>1. branches \subseteq 1..NumBranches /\ branches # {}
    BY <1>4, <1>6
  <2> HIDE DEF branches
  <2>2. QED
    BY <1>7, <2>1, Greatest
<1> DEFINE products == {row[2] : row \in {other \in Waited : other[1] = b}}
<1>9. PICK p \in products : \A n \in products : n <= p
  <2>1. products \subseteq 1..NumProducts /\ products # {}
    BY <1>6, <1>8
  <2> HIDE DEF products
  <2>2. QED
    BY <1>7, <2>1, Greatest
<1>10. PICK row \in Waited : row[1] = b /\ row[2] = p
  BY <1>9
<1>11. PICK other \in Waited : Before(row, other)
  BY <1>5
<1>12. other[1] <= b /\ (other[1] = b => other[2] <= p)
  BY <1>8, <1>9
<1>13. b \in Int /\ p \in Int /\ other[1] \in Int /\ other[2] \in Int
  BY <1>6, <1>10
<1>14. QED
  BY <1>10, <1>11, <1>12, <1>13 DEF Before

-----------------------------------------------------------------------------
(* Sums. SumFunctionOnSet is a recursion over the subsets of a set, for    *)
(* which the library has no theorem: that there is a function that obeys   *)
(* it, and only one, follows by induction on the size of the subsets, and  *)
(* so does that the order of the elements does not matter.                 *)

\* Induction over the natural numbers, for a set.
LEMMA SetInduction ==
    ASSUME NEW M, 0 \in M, \A n \in M \cap Nat : n + 1 \in M
    PROVE  Nat \subseteq M
<1>1. SUFFICES ASSUME Nat \ M # {}
               PROVE  FALSE
  OBVIOUS
<1>2. PICK n \in Nat \ M : \A m \in Nat \ M : <<m, n>> \notin OpToRel(<, Nat)
  BY <1>1, NatLessThanWellFounded, WFMin
<1>3. \A m \in Nat \ M : ~(m < n)
  BY <1>2 DEF OpToRel
<1>4. n \in Nat /\ n # 0 /\ n - 1 \in Nat /\ n - 1 \in M
  BY <1>3
<1>5. (n - 1) + 1 \in M
  BY <1>4
<1>6. QED
  BY <1>4, <1>5

Pick(s) == CHOOSE x \in s : TRUE

\* The recursion behind a sum: g adds up f over the subsets of S.
Adds(g, f, S) ==
    g = [s \in SUBSET S |-> IF s = {} THEN 0 ELSE f[Pick(s)] + g[s \ {Pick(s)}]]

\* In whatever order the elements are taken.
AddsUp(g, f, D) ==
    /\ g \in [D -> Int]
    /\ \A s \in D : s = {} => g[s] = 0
    /\ \A s \in D : \A x \in s : g[s] = f[x] + g[s \ {x}]

\* SumFunctionOnSet takes its elements in the order of a CHOOSE.
LEMMA SumIsChosen ==
    ASSUME NEW f, NEW S
    PROVE  SumFunctionOnSet(f, S) = (CHOOSE g : Adds(g, f, S))[S]
  BY DEF SumFunctionOnSet, FoldFunctionOnSet, MapThenFoldSet, Adds, Pick

\* The subsets of S with at most n elements.
Small(S, n) == {s \in SUBSET S : Cardinality(s) <= n}

LEMMA SmallSets ==
    ASSUME NEW S, IsFiniteSet(S), NEW n \in Nat
    PROVE  /\ Small(S, 0) = {{}}
           /\ \A s \in Small(S, n + 1) : \A x \in s : s \ {x} \in Small(S, n)
           /\ Small(S, n) \subseteq Small(S, n + 1)
           /\ Small(S, Cardinality(S)) = SUBSET S
<1>1. \A s \in SUBSET S : IsFiniteSet(s) /\ Cardinality(s) \in Nat /\ Cardinality(s) <= Cardinality(S)
  BY FS_Subset, FS_CardinalityType
<1>2. Small(S, 0) = {{}}
  BY <1>1, FS_EmptySet DEF Small
<1>3. \A s \in Small(S, n + 1) : \A x \in s : s \ {x} \in Small(S, n)
  <2>1. SUFFICES ASSUME NEW s \in Small(S, n + 1), NEW x \in s
                 PROVE  s \ {x} \in Small(S, n)
    OBVIOUS
  <2>2. s \in SUBSET S /\ IsFiniteSet(s) /\ Cardinality(s) \in Nat /\ Cardinality(s) <= n + 1
    BY <1>1 DEF Small
  <2>3. Cardinality(s \ {x}) = Cardinality(s) - 1
    BY <2>2, FS_RemoveElement
  <2>4. QED
    BY <2>2, <2>3 DEF Small
<1>4. Small(S, n) \subseteq Small(S, n + 1)
  BY <1>1 DEF Small
<1>5. Small(S, Cardinality(S)) = SUBSET S
  BY <1>1 DEF Small
<1>6. QED
  BY <1>2, <1>3, <1>4, <1>5

LEMMA AdderExists ==
    ASSUME NEW S, IsFiniteSet(S), NEW f, \A x \in S : f[x] \in Int
    PROVE  \E g : AddsUp(g, f, SUBSET S)
<1> DEFINE M == {n \in Nat : \E g : AddsUp(g, f, Small(S, n))}
<1>1. 0 \in M
  <2>1. AddsUp([s \in {{}} |-> 0], f, {{}})
    BY DEF AddsUp
  <2>2. QED
    BY <2>1, SmallSets
<1>2. ASSUME NEW n \in M
      PROVE  n + 1 \in M
  <2>1. PICK g : AddsUp(g, f, Small(S, n))
    OBVIOUS
  <2> DEFINE h == [s \in Small(S, n + 1) |-> IF s = {} THEN 0 ELSE f[Pick(s)] + g[s \ {Pick(s)}]]
  <2>2. \A s \in Small(S, n + 1) : s # {} => Pick(s) \in s
    BY DEF Pick
  <2>3. \A s \in Small(S, n + 1) : \A x \in s : s \ {x} \in Small(S, n) /\ x \in S
    BY SmallSets DEF Small
  <2>4. h \in [Small(S, n + 1) -> Int]
    BY <2>1, <2>2, <2>3 DEF AddsUp
  <2>5. \A s \in Small(S, n) : h[s] = g[s]
    BY <2>1, <2>2, SmallSets DEF AddsUp
  <2>6. ASSUME NEW s \in Small(S, n + 1), NEW x \in s
        PROVE  h[s] = f[x] + h[s \ {x}]
    <3> DEFINE y == Pick(s)
    <3>1. y \in s /\ h[s] = f[y] + g[s \ {y}] /\ h[s \ {x}] = g[s \ {x}]
      BY <2>2, <2>3, <2>5
    <3>2. CASE x = y
      BY <3>1, <3>2
    <3>3. CASE x # y
      <4>1. g[s \ {y}] = f[x] + g[(s \ {y}) \ {x}] /\ g[s \ {x}] = f[y] + g[(s \ {x}) \ {y}]
        BY <2>1, <2>3, <3>1, <3>3 DEF AddsUp
      <4>2. (s \ {x}) \ {y} = (s \ {y}) \ {x}
        OBVIOUS
      <4>3. (s \ {y}) \ {x} \in Small(S, n)
        BY <2>3, <3>1, <3>3, SmallSets
      <4>4. PICK rest \in Int : rest = g[(s \ {y}) \ {x}]
        BY <2>1, <4>3 DEF AddsUp
      <4>5. f[x] \in Int /\ f[y] \in Int
        BY <2>3, <3>1
      <4>6. h[s] = f[y] + (f[x] + rest)
        BY <3>1, <4>1, <4>4
      <4>7. h[s \ {x}] = f[y] + rest
        BY <3>1, <4>1, <4>2, <4>4
      <4>8. QED
        BY <4>4, <4>5, <4>6, <4>7
    <3>4. QED
      BY <3>2, <3>3
  <2>7. AddsUp(h, f, Small(S, n + 1))
    BY <2>4, <2>6 DEF AddsUp
  <2>8. QED
    BY <2>7
<1>3. Cardinality(S) \in Nat /\ Small(S, Cardinality(S)) = SUBSET S
  BY FS_CardinalityType, SmallSets
<1>4. Cardinality(S) \in M
  <2> HIDE DEF M
  <2>1. QED
    BY <1>1, <1>2, <1>3, SetInduction
<1>5. QED
  BY <1>3, <1>4

\* Whatever satisfies the recursion on the subsets of T is a part of it.
LEMMA AdderUnique ==
    ASSUME NEW S, IsFiniteSet(S), NEW f, NEW g, AddsUp(g, f, SUBSET S),
           NEW T \in SUBSET S, NEW h, Adds(h, f, T)
    PROVE  h[T] = g[T]
<1> DEFINE M == {n \in Nat : \A s \in Small(T, n) : h[s] = g[s]}
<1>0. IsFiniteSet(T)
  BY FS_Subset
<1>1. 0 \in M
  BY <1>0, SmallSets DEF Adds, AddsUp
<1>2. ASSUME NEW n \in M
      PROVE  n + 1 \in M
  <2>1. SUFFICES ASSUME NEW s \in Small(T, n + 1)
                 PROVE  h[s] = g[s]
    OBVIOUS
  <2>2. s \in SUBSET T /\ s \in SUBSET S
    BY DEF Small
  <2>3. CASE s = {}
    BY <2>2, <2>3 DEF Adds, AddsUp
  <2>4. CASE s # {}
    <3>1. Pick(s) \in s
      BY <2>4 DEF Pick
    <3>2. h[s] = f[Pick(s)] + h[s \ {Pick(s)}]
      BY <2>2, <2>4 DEF Adds
    <3>3. h[s \ {Pick(s)}] = g[s \ {Pick(s)}]
      BY <1>0, <3>1, SmallSets
    <3>4. QED
      BY <2>2, <3>1, <3>2, <3>3 DEF AddsUp
  <2>5. QED
    BY <2>3, <2>4
<1>3. Cardinality(T) \in Nat /\ T \in Small(T, Cardinality(T))
  BY <1>0, FS_CardinalityType, SmallSets
<1>4. Cardinality(T) \in M
  <2> HIDE DEF M
  <2>1. QED
    BY <1>1, <1>2, <1>3, SetInduction
<1>5. QED
  BY <1>3, <1>4

LEMMA SumIsAdder ==
    ASSUME NEW S, IsFiniteSet(S), NEW f, NEW g, AddsUp(g, f, SUBSET S), NEW T \in SUBSET S
    PROVE  SumFunctionOnSet(f, T) = g[T]
<1> DEFINE h == [s \in SUBSET T |-> g[s]]
<1>1. Adds(h, f, T)
  <2>1. ASSUME NEW s \in SUBSET T
        PROVE  h[s] = IF s = {} THEN 0 ELSE f[Pick(s)] + h[s \ {Pick(s)}]
    <3>1. CASE s = {}
      BY <3>1 DEF AddsUp
    <3>2. CASE s # {}
      <4>1. Pick(s) \in s
        BY <3>2 DEF Pick
      <4>2. QED
        BY <3>2, <4>1 DEF AddsUp
    <3>3. QED
      BY <3>1, <3>2
  <2>2. QED
    BY <2>1 DEF Adds
<1>2. Adds(CHOOSE k : Adds(k, f, T), f, T)
  BY <1>1
<1>3. QED
  BY <1>2, AdderUnique, SumIsChosen

\* What a sum is: zero of nothing, and one more with every element.
LEMMA SumFacts ==
    ASSUME NEW S, IsFiniteSet(S), NEW f, \A x \in S : f[x] \in Int
    PROVE  /\ SumFunctionOnSet(f, {}) = 0
           /\ SumFunctionOnSet(f, S) \in Int
           /\ \A x \in S : SumFunctionOnSet(f, S) = f[x] + SumFunctionOnSet(f, S \ {x})
<1>1. PICK g : AddsUp(g, f, SUBSET S)
  BY AdderExists
<1>2. \A T \in SUBSET S : SumFunctionOnSet(f, T) = g[T]
  BY <1>1, SumIsAdder
<1>3. QED
  BY <1>1, <1>2 DEF AddsUp

\* One element more.
LEMMA SumAdd ==
    ASSUME NEW S, IsFiniteSet(S), NEW f, NEW x, x \notin S, f[x] \in Int, \A y \in S : f[y] \in Int
    PROVE  /\ IsFiniteSet(S \cup {x})
           /\ SumFunctionOnSet(f, S) \in Int
           /\ SumFunctionOnSet(f, S \cup {x}) = f[x] + SumFunctionOnSet(f, S)
<1>1. IsFiniteSet(S \cup {x}) /\ (S \cup {x}) \ {x} = S
  BY FS_AddElement
<1>2. \A y \in S \cup {x} : f[y] \in Int
  OBVIOUS
<1>3. QED
  BY <1>1, <1>2, SumFacts

\* A sum depends on the values at its places only.
LEMMA SumAgrees ==
    ASSUME NEW S, IsFiniteSet(S), NEW f, NEW g, \A x \in S : f[x] \in Int /\ g[x] = f[x]
    PROVE  SumFunctionOnSet(f, S) = SumFunctionOnSet(g, S)
<1>1. PICK h : AddsUp(h, f, SUBSET S)
  BY AdderExists
<1>2. AddsUp(h, g, SUBSET S)
  BY <1>1 DEF AddsUp
<1>3. QED
  BY <1>1, <1>2, SumIsAdder

\* A sum with another value at one place.
LEMMA SumChange ==
    ASSUME NEW S, IsFiniteSet(S), NEW f, NEW g, NEW x \in S, \A y \in S : f[y] \in Int /\ g[y] \in Int,
           \A y \in S : y # x => g[y] = f[y]
    PROVE  SumFunctionOnSet(g, S) = SumFunctionOnSet(f, S) + (g[x] - f[x])
<1> DEFINE T == S \ {x}
<1>1. IsFiniteSet(T) /\ \A y \in T : y \in S /\ f[y] \in Int /\ g[y] = f[y]
  BY FS_Subset
<1>2. SumFunctionOnSet(f, T) = SumFunctionOnSet(g, T) /\ SumFunctionOnSet(f, T) \in Int
  BY <1>1, SumAgrees, SumFacts
<1>3. SumFunctionOnSet(f, S) = f[x] + SumFunctionOnSet(f, T)
  BY SumFacts
<1>4. SumFunctionOnSet(g, S) = g[x] + SumFunctionOnSet(g, T)
  BY SumFacts
<1>5. PICK rest \in Int, old \in Int, new \in Int :
         rest = SumFunctionOnSet(f, T) /\ old = f[x] /\ new = g[x]
  BY <1>2
<1>6. QED
  BY <1>2, <1>3, <1>4, <1>5

LEMMA SumIsNat ==
    ASSUME NEW S, IsFiniteSet(S), NEW f, \A x \in S : f[x] \in Nat
    PROVE  SumFunctionOnSet(f, S) \in Nat
<1>0. \A x \in S : f[x] \in Int
  OBVIOUS
<1>1. PICK g : AddsUp(g, f, SUBSET S)
  BY <1>0, AdderExists
<1> DEFINE M == {n \in Nat : \A s \in Small(S, n) : g[s] \in Nat}
<1>2. 0 \in M
  BY <1>1, SmallSets DEF AddsUp
<1>3. ASSUME NEW n \in M
      PROVE  n + 1 \in M
  <2>1. ASSUME NEW s \in Small(S, n + 1)
        PROVE  g[s] \in Nat
    <3>1. s \in SUBSET S
      BY DEF Small
    <3>2. CASE s = {}
      BY <1>1, <3>1, <3>2 DEF AddsUp
    <3>3. CASE s # {}
      <4>1. PICK x \in s : TRUE
        BY <3>3
      <4>2. g[s] = f[x] + g[s \ {x}]
        BY <1>1, <3>1 DEF AddsUp
      <4>3. g[s \ {x}] \in Nat /\ f[x] \in Nat
        BY <3>1, SmallSets
      <4>4. QED
        BY <4>2, <4>3
    <3>4. QED
      BY <3>2, <3>3
  <2>2. QED
    BY <2>1
<1>4. Cardinality(S) \in Nat /\ S \in Small(S, Cardinality(S))
  BY FS_CardinalityType, SmallSets
<1>5. Cardinality(S) \in M
  <2> HIDE DEF M
  <2>1. QED
    BY <1>2, <1>3, <1>4, SetInduction
<1>6. g[S] \in Nat
  BY <1>4, <1>5
<1>7. QED
  BY <1>1, <1>6, SumIsAdder

-----------------------------------------------------------------------------
(* The rounding of an average.                                             *)

LEMMA Quotient ==
    ASSUME NEW n \in Nat, NEW d \in Nat, d > 0
    PROVE  /\ n \div d \in Nat
           /\ d * (n \div d) <= n /\ n < d * (n \div d) + d
  OBVIOUS

\* A receipt of a pieces at k each, to q pieces at c each.
LEMMA Rounded ==
    ASSUME NEW q \in Nat, NEW c \in Nat, NEW a \in Nat, a > 0, NEW k \in Nat
    PROVE  LET t == q + a
               new == (2 * (q * c + a * k) + t) \div (2 * t)
           IN  /\ new \in Nat
               /\ 2 * (new * t) - 2 * (q * c + a * k) <= t
               /\ -t <= 2 * (new * t) - 2 * (q * c + a * k)
<1> DEFINE t == q + a
           n == 2 * (q * c + a * k) + t
           new == n \div (2 * t)
<1>1. q * c \in Nat /\ a * k \in Nat
  OBVIOUS
<1>2. t \in Nat /\ t > 0 /\ 2 * t \in Nat /\ 2 * t > 0 /\ n \in Nat
  BY <1>1
<1>3. PICK p \in Nat : p = q * c + a * k
  BY <1>1
<1> HIDE DEF t, n
<1>4. new \in Nat /\ (2 * t) * new <= n /\ n < (2 * t) * new + 2 * t
  BY <1>2, Quotient
<1> HIDE DEF new
<1>5. PICK m \in Nat : m = new * t /\ (2 * t) * new = 2 * m
  BY <1>2, <1>4
<1>6. n = 2 * p + t
  BY <1>3 DEF n
<1>7. 2 * m <= 2 * p + t /\ 2 * p + t < 2 * m + 2 * t
  BY <1>4, <1>5, <1>6
<1>8. 2 * m - 2 * p <= t /\ -t <= 2 * m - 2 * p
  BY <1>2, <1>7
<1>9. QED
  BY <1>3, <1>4, <1>5, <1>8 DEF t, n, new

\* The error of an average grows by half a rupee per piece.
LEMMA ErrorGrows ==
    ASSUME NEW q \in Nat, NEW c \in Nat, NEW a \in Nat, a > 0, NEW k \in Nat, NEW n \in Nat,
           NEW paid \in Int, NEW new \in Nat,
           new = (2 * (q * c + a * k) + (q + a)) \div (2 * (q + a)),
           -(n * q) <= 2 * (c * q - paid), 2 * (c * q - paid) <= n * q
    PROVE  /\ -((n + 1) * (q + a)) <= 2 * (new * (q + a) - (paid + a * k))
           /\ 2 * (new * (q + a) - (paid + a * k)) <= (n + 1) * (q + a)
<1>1. PICK x \in Nat, y \in Nat : x = q * c /\ x = c * q /\ y = a * k
  OBVIOUS
<1>2. PICK t \in Nat : t = q + a /\ t >= q
  OBVIOUS
<1>3. PICK z \in Nat : z = new * t
  BY <1>2
<1>4. PICK u \in Nat, v \in Nat : u = n * q /\ v = n * t /\ u <= v
  <2>1. n * t = n * q + n * a /\ n * q \in Nat /\ n * t \in Nat /\ n * a \in Nat
    BY <1>2
  <2>2. QED
    BY <2>1
<1>5. (n + 1) * t = v + t
  BY <1>2, <1>4
<1>6. 2 * z - 2 * (x + y) <= t /\ -t <= 2 * z - 2 * (x + y)
  BY <1>1, <1>2, <1>3, Rounded
<1>7. -u <= 2 * (x - paid) /\ 2 * (x - paid) <= u
  BY <1>1, <1>4
<1>8. -(v + t) <= 2 * (z - (paid + y)) /\ 2 * (z - (paid + y)) <= v + t
  BY <1>4, <1>6, <1>7
<1>9. QED
  BY <1>1, <1>2, <1>3, <1>5, <1>8

-----------------------------------------------------------------------------
(* The average cost: the lock of the product row keeps receipts of one     *)
(* product apart, and what a receipt has read of the cost and of the total *)
(* is true until it commits, whatever is moved from branch to branch.      *)

Receives(r) == Kind[r] = "receive"

CostInv ==
    /\ cost \in [Request -> Nat] /\ average \in [Product -> Nat]
    /\ applied \in SUBSET Request /\ IsFiniteSet(applied) /\ \A r \in applied : pc[r] = "done"
    /\ \A r \in Request : Receives(r) =>
          /\ pc[r] \notin {"write", "done"} => shared[r] = {}
          /\ pc[r] \notin {"high", "commit", "again"}
    /\ \A r, q \in Request, p \in Product : HoldsProduct(r, p) /\ HoldsProduct(q, p) => r = q
    /\ \A r \in Request, p \in Product : HoldsProduct(r, p) => cost[r] = average[p]
    /\ \A r \in Request, p \in Product :
          HoldsProduct(r, p) /\ pc[r] = "write" /\ OnlyReceived(p) => Total(seen[r], p) = Total(stock, p)
    /\ AverageCostIsExact

\* What a step of r that commits nothing may do to a receipt.
Prudent(r) ==
    /\ pc[r] # "done"
    /\ cost' \in [Request -> Nat] /\ \A q \in Request : q # r => cost'[q] = cost[q]
    /\ Receives(r) =>
          \/ pc'[r] = "product" /\ shared'[r] = {}
          \/ pc'[r] = "done"
          \/ /\ pc'[r] = pc[r] /\ cost'[r] = cost[r]
             /\ shared'[r] = shared[r] \/ pc[r] = "write"
             /\ seen'[r] = seen[r] \/ pc[r] # "write"
          \/ /\ pc'[r] = "low" /\ shared'[r] = {}
             /\ \A p \in Lines[r] :
                   cost'[r] = average[p] /\ \A q \in Request \ {r} : ~HoldsProduct(q, p)
          \/ pc[r] = "low" /\ pc'[r] = "write" /\ cost'[r] = cost[r] /\ seen'[r] = stock

LEMMA PrudentKeeps ==
    ASSUME CostInv, NEW r \in Request, Quiet(r), Prudent(r)
    PROVE  CostInv'
<1>1. UNCHANGED <<stock, applied, average>>
  BY DEF Quiet, central
<1>2. \A q \in Request : q # r =>
         pc'[q] = pc[q] /\ seen'[q] = seen[q] /\ shared'[q] = shared[q] /\ cost'[q] = cost[q]
  BY DEF Quiet, Alone, Prudent
<1>3. \A q \in applied : q # r
  BY DEF CostInv, Prudent
<1>4. /\ cost' \in [Request -> Nat] /\ average' \in [Product -> Nat]
      /\ applied' \in SUBSET Request /\ IsFiniteSet(applied)' /\ \A q \in applied' : pc'[q] = "done"
  <2>1. cost' \in [Request -> Nat] /\ average' \in [Product -> Nat] /\ IsFiniteSet(applied')
    BY <1>1 DEF CostInv, Prudent
  <2>2. applied \in SUBSET Request /\ applied' \in SUBSET Request
    BY <1>1 DEF CostInv
  <2>3. QED
    BY <1>1, <1>2, <1>3, <2>1, <2>2 DEF CostInv
<1>5. \A q \in Request : Receives(q) =>
         /\ pc'[q] \notin {"write", "done"} => shared'[q] = {}
         /\ pc'[q] \notin {"high", "commit", "again"}
  <2>1. SUFFICES ASSUME Receives(r)
                 PROVE  /\ pc'[r] \notin {"write", "done"} => shared'[r] = {}
                        /\ pc'[r] \notin {"high", "commit", "again"}
    BY <1>2 DEF CostInv
  <2>2. /\ pc[r] \notin {"write", "done"} => shared[r] = {}
        /\ pc[r] \notin {"high", "commit", "again"}
    BY <2>1 DEF CostInv
  <2>3. QED
    BY <2>1, <2>2 DEF Prudent
<1>6. ASSUME NEW q \in Request, q # r, NEW p \in Product
      PROVE  HoldsProduct(q, p)' <=> HoldsProduct(q, p)
  BY <1>2, <1>6 DEF HoldsProduct
<1>7. ASSUME NEW p \in Product, HoldsProduct(r, p)'
      PROVE  /\ cost'[r] = average[p]
             /\ HoldsProduct(r, p) \/ \A q \in Request \ {r} : ~HoldsProduct(q, p)
             /\ pc'[r] = "write" =>
                   \/ seen'[r] = stock
                   \/ HoldsProduct(r, p) /\ pc[r] = "write" /\ seen'[r] = seen[r]
  <2>1. Receives(r) /\ p \in Lines[r] /\ pc'[r] \in {"low", "write", "commit"}
    BY <1>7 DEF HoldsProduct, Receives
  <2>2. HoldsProduct(r, p) => cost[r] = average[p]
    BY DEF CostInv
  <2>3. pc[r] \in {"low", "write", "commit"} <=> HoldsProduct(r, p)
    BY <2>1 DEF HoldsProduct, Receives
  <2>4. QED
    BY <2>1, <2>2, <2>3 DEF Prudent
<1>8. \A q, o \in Request, p \in Product : HoldsProduct(q, p)' /\ HoldsProduct(o, p)' => q = o
  BY <1>6, <1>7 DEF CostInv
<1>9. \A q \in Request, p \in Product : HoldsProduct(q, p)' => cost'[q] = average'[p]
  BY <1>1, <1>2, <1>6, <1>7 DEF CostInv
<1>10. ASSUME NEW q \in Request, NEW p \in Product,
              HoldsProduct(q, p)', pc'[q] = "write", OnlyReceived(p)'
       PROVE  Total(seen[q], p)' = Total(stock, p)'
  <2>1. OnlyReceived(p)
    BY <1>1, <1>10 DEF OnlyReceived, Touching
  <2>2. Total(stock, p)' = Total(stock, p)
    BY <1>1 DEF Total
  <2>3. CASE q # r
    <3>1. Total(seen[q], p)' = Total(seen[q], p)
      BY <1>2, <2>3 DEF Total
    <3>2. HoldsProduct(q, p) /\ pc[q] = "write"
      BY <1>2, <1>6, <1>10, <2>3
    <3>3. QED
      BY <2>1, <2>2, <3>1, <3>2 DEF CostInv
  <2>4. CASE q = r
    <3>1. CASE seen'[r] = stock
      BY <2>2, <2>4, <3>1 DEF Total
    <3>2. CASE HoldsProduct(r, p) /\ pc[r] = "write" /\ seen'[r] = seen[r]
      <4>1. Total(seen[r], p)' = Total(seen[r], p)
        BY <3>2 DEF Total
      <4>2. QED
        BY <2>1, <2>2, <2>4, <3>2, <4>1 DEF CostInv
    <3>3. QED
      BY <1>7, <1>10, <2>4, <3>1, <3>2
  <2>5. QED
    BY <2>3, <2>4
<1>11. AverageCostIsExact'
  BY <1>1 DEF CostInv, AverageCostIsExact, OnlyReceived, Paid, Receipts, Touching, Total
<1>12. QED
  BY <1>4, <1>5, <1>8, <1>9, <1>10, <1>11 DEF CostInv

\* The transaction of a receipt ends for good; that of a transfer may begin again.
LEMMA EndPrudent ==
    ASSUME CostInv, NEW r \in Request, NEW step \in {"again", "recheck", "done"}, NEW result,
           pc[r] # "done", pc \in [Request -> Pcs], End(r, step, result), Receives(r) => step = "done"
    PROVE  Prudent(r)
  BY DEF CostInv, End, Goto, Prudent

LEMMA AnsweredPrudent ==
    ASSUME CostInv, NEW r \in Request, NEW result, Running(r), pc \in [Request -> Pcs],
           Answered(r, result)
    PROVE  Prudent(r)
  BY EndPrudent DEF Answered, Running

\* Whoever is not a receipt leaves the cost alone until it commits.
LEMMA StrangerPrudent ==
    ASSUME CostInv, NEW r \in Request, pc[r] # "done", ~Receives(r), UNCHANGED cost
    PROVE  Prudent(r)
  BY DEF CostInv, Prudent

LEMMA ReceivePrudent ==
    ASSUME ConstantsAssumption, LockInv, CostInv, NEW r \in Request, Receives(r),
           \/ BeginReceive(r) \/ LockProduct(r) \/ ReadTotal(r) \/ LockRow(r) \/ WriteRow(r)
           \/ InsertMovements(r)
    PROVE  Prudent(r)
<1>1. /\ pc \in [Request -> Pcs] /\ seen \in [Request -> [Row -> Nat]] /\ cost \in [Request -> Nat]
      /\ average \in [Product -> Nat] /\ shared \in [Request -> SUBSET Product]
      /\ pc[r] \notin {"write", "done"} => shared[r] = {}
      /\ pc[r] \notin {"high", "commit", "again"}
  BY DEF LockInv, LockTypes, CostInv
<1>2. CASE BeginReceive(r)
  BY <1>1, <1>2 DEF BeginReceive, Goto, Prudent
<1>3. CASE LockProduct(r)
  <2>1. PICK p \in Lines[r] : ProductFree(r, p) /\ cost' = [cost EXCEPT ![r] = average[p]]
    BY <1>3 DEF LockProduct
  <2>2. \A q \in Lines[r] : q = p
    BY DEF ConstantsAssumption, Accepted, Receives
  <2>3. p \in Product
    BY DEF ConstantsAssumption, Accepted
  <2>4. pc[r] = "product" /\ pc' = [pc EXCEPT ![r] = "low"] /\ shared' = shared
    BY <1>3 DEF LockProduct, Goto
  <2>5. /\ cost' \in [Request -> Nat] /\ cost'[r] = average[p]
        /\ \A q \in Request : q # r => cost'[q] = cost[q]
    BY <1>1, <2>1, <2>3
  <2>6. \A q \in Request \ {r} : ~HoldsProduct(q, p)
    BY <2>1 DEF ProductFree
  <2>7. pc[r] # "done" /\ pc'[r] = "low" /\ shared'[r] = {}
    BY <1>1, <2>4
  <2>8. \A line \in Lines[r] : cost'[r] = average[line] /\ \A q \in Request \ {r} : ~HoldsProduct(q, line)
    BY <2>2, <2>5, <2>6
  <2>9. QED
    BY <2>5, <2>7, <2>8 DEF Prudent
<1>4. CASE ReadTotal(r)
  <2>1. /\ pc[r] = "low" /\ pc'[r] = "write" /\ cost' = cost /\ seen'[r] = stock
    BY <1>1, <1>4 DEF ReadTotal, Goto
  <2>2. QED
    BY <1>1, <2>1 DEF Prudent
<1>5. CASE LockRow(r)
  <2>1. pc[r] = "low" /\ pc' = pc /\ shared' = shared /\ cost' = cost
    BY <1>1, <1>5 DEF LockRow
  <2>2. QED
    BY <1>1, <2>1 DEF Prudent
<1>6. CASE WriteRow(r)
  BY <1>1, <1>6 DEF WriteRow, Prudent
<1>7. CASE InsertMovements(r)
  <2>1. pc[r] = "write" /\ pc' = pc /\ seen' = seen /\ cost' = cost
    BY <1>7 DEF InsertMovements, Receives
  <2>2. QED
    BY <1>1, <2>1 DEF Prudent
<1>8. QED
  BY <1>2, <1>3, <1>4, <1>5, <1>6, <1>7

\* Nobody waits who is done.
LEMMA WhoWaitsRuns ==
    ASSUME ConstantsAssumption, LockInv, NEW r \in Request, NEW q, WaitsFor(r, q)
    PROVE  Running(r)
<1>1. SUFFICES ASSUME pc[r] \in {"idle", "done"}
               PROVE  FALSE
  BY DEF Running
<1>2. held[r] = {}
  BY <1>1 DEF LockInv, Own
<1>3. PICK p \in Product : NextItem(r, p) /\ Written(r, p)
  BY <1>1 DEF WaitsFor
<1>4. PICK b \in Branch : b \in {From[r], To[r]}
  <2>1. Kind[r] \in Kinds
    BY DEF ConstantsAssumption, Accepted
  <2>2. QED
    BY <2>1 DEF ConstantsAssumption, Accepted, Kinds
<1>5. <<b, p>> \in Rows[r]
  BY <1>3, <1>4 DEF Rows, Row, NextItem
<1>6. QED
  BY <1>2, <1>3, <1>5 DEF Written

\* A victim has waited.
LEMMA VictimPrudent ==
    ASSUME ConstantsAssumption, LockInv, CostInv, NEW r \in Request, NEW q, WaitsFor(r, q), Victim(r)
    PROVE  Prudent(r)
<1>1. Running(r) /\ pc \in [Request -> Pcs]
  BY WhoWaitsRuns DEF LockInv, LockTypes
<1>2. CASE Kind[r] = "transfer" /\ attempts[r] < MaxAttempts
  BY <1>1, <1>2, EndPrudent DEF Victim, Receives, Running
<1>3. CASE ~(Kind[r] = "transfer" /\ attempts[r] < MaxAttempts)
  BY <1>1, <1>3, AnsweredPrudent DEF Victim
<1>4. QED
  BY <1>2, <1>3

LEMMA StepPrudent ==
    ASSUME ConstantsAssumption, LockInv, CostInv, NEW r \in Request,
           Arrive(r) \/ Step(r) \/ RollBack(r), ~Commit(r)
    PROVE  Prudent(r)
<1>1. pc \in [Request -> Pcs] /\ (pc[r] = "product" => Receives(r))
  BY DEF LockInv, LockTypes, Own, Receives
<1>2. CASE RowTaken(r) \/ MovementRefused(r) \/ CheckRecord(r) \/ RollBack(r)
  <2>1. Running(r) /\ \E result : Answered(r, result)
    BY <1>2 DEF RowTaken, MovementRefused, MovementFails, CheckRecord, RollBack, Running
  <2>2. QED
    BY <1>1, <2>1, AnsweredPrudent
<1>3. CASE BeginTransfer(r) \/ RecordTransfer(r) \/ CheckTransfer(r) \/ CheckPush(r) \/ BeginPush(r)
  <2>1. pc[r] # "done" /\ ~Receives(r)
    BY <1>3 DEF BeginTransfer, RecordTransfer, CheckTransfer, CheckPush, BeginPush, Receives
  <2>2. UNCHANGED cost \/ \E step \in {"recheck", "done"} : \E result : End(r, step, result)
    BY <1>3 DEF BeginTransfer, RecordTransfer, CheckTransfer, CheckPush, BeginPush, Answered
  <2>3. QED
    BY <1>1, <2>1, <2>2, EndPrudent, StrangerPrudent
<1>4. CASE \/ SelectSecond(r) \/ BeginDelta(r) \/ UpsertDelta(r) \/ BeginAdjust(r)
           \/ BeginOpening(r) \/ ReadItem(r)
  <2>1. pc[r] # "done" /\ ~Receives(r) /\ UNCHANGED cost
    BY <1>4 DEF SelectSecond, BeginDelta, UpsertDelta, BeginAdjust, BeginOpening, ReadItem, Receives, Absolute
  <2>2. QED
    BY <2>1, StrangerPrudent
<1>5. CASE BeginReceive(r) \/ LockProduct(r) \/ ReadTotal(r)
  <2>1. Receives(r)
    BY <1>1, <1>5 DEF BeginReceive, LockProduct, ReadTotal, Receives
  <2>2. QED
    BY <1>5, <2>1, ReceivePrudent
<1>6. CASE LockRow(r) \/ WriteRow(r) \/ InsertMovements(r)
  <2>1. pc[r] # "done" /\ UNCHANGED cost
    BY <1>1, <1>6 DEF LockRow, WriteRow, InsertMovements
  <2>2. QED
    BY <1>6, <2>1, StrangerPrudent, ReceivePrudent
<1>7. QED
  BY <1>2, <1>3, <1>4, <1>5, <1>6 DEF Arrive, Step, TryAgain

LEMMA FiniteBranch == ASSUME ConstantsAssumption PROVE IsFiniteSet(Branch)
  BY FS_Interval DEF ConstantsAssumption, Accepted, Branch

LEMMA TotalIsNat ==
    ASSUME ConstantsAssumption, NEW quantity \in [Row -> Nat], NEW p \in Product
    PROVE  Total(quantity, p) \in Nat
<1> DEFINE f == [b \in Branch |-> quantity[<<b, p>>]]
<1>1. \A b \in Branch : f[b] \in Nat
  BY DEF Row
<1> HIDE DEF f
<1>2. SumFunctionOnSet(f, Branch) \in Nat
  BY <1>1, FiniteBranch, SumIsNat
<1>3. QED
  BY <1>2 DEF f, Total

\* n pieces more at branch b.
More(old, new, p, b, n) ==
    /\ old \in [Row -> Nat] /\ new \in [Row -> Nat]
    /\ p \in Product /\ b \in Branch /\ n \in Int
    /\ new[<<b, p>>] = old[<<b, p>>] + n
    /\ \A c \in Branch : c # b => new[<<c, p>>] = old[<<c, p>>]

LEMMA TotalGrows ==
    ASSUME ConstantsAssumption, NEW old, NEW new, NEW p, NEW b, NEW n, More(old, new, p, b, n)
    PROVE  Total(new, p) = Total(old, p) + n
<1> DEFINE f == [c \in Branch |-> old[<<c, p>>]]
           g == [c \in Branch |-> new[<<c, p>>]]
<1>1. \A c \in Branch : f[c] \in Int /\ g[c] \in Int
  BY DEF Row, More
<1>2. \A c \in Branch : c # b => g[c] = f[c]
  BY DEF Row, More
<1>3. g[b] = f[b] + n
  BY DEF Row, More
<1>4. IsFiniteSet(Branch)
  BY FiniteBranch
<1>5. Total(old, p) = SumFunctionOnSet(f, Branch) /\ Total(new, p) = SumFunctionOnSet(g, Branch)
  BY DEF Total, More
<1> HIDE DEF f, g
<1>9. b \in Branch /\ n \in Int
  BY DEF More
<1>6. SumFunctionOnSet(g, Branch) = SumFunctionOnSet(f, Branch) + (g[b] - f[b])
  <2>1. b \in Branch
    BY <1>9
  <2>2. QED
    BY <1>1, <2>1, <1>2, <1>4, SumChange
<1>7. g[b] - f[b] = n
  BY <1>1, <1>3, <1>9
<1>8. QED
  BY <1>5, <1>6, <1>7

\* n pieces from branch b to branch d.
Moved(old, new, p, b, d, n) ==
    /\ old \in [Row -> Nat] /\ new \in [Row -> Nat]
    /\ p \in Product /\ b \in Branch /\ d \in Branch /\ b # d /\ n \in Nat
    /\ new[<<b, p>>] = old[<<b, p>>] - n
    /\ new[<<d, p>>] = old[<<d, p>>] + n
    /\ \A c \in Branch : c \notin {b, d} => new[<<c, p>>] = old[<<c, p>>]

LEMMA TotalStays ==
    ASSUME ConstantsAssumption, NEW old, NEW new, NEW p, NEW b, NEW d, NEW n, Moved(old, new, p, b, d, n)
    PROVE  Total(new, p) = Total(old, p)
<1> DEFINE mid == [row \in Row |-> IF row = <<b, p>> THEN new[row] ELSE old[row]]
<1>1. mid \in [Row -> Nat]
  BY DEF Moved
<1>2. PICK m \in Int : m = 0 - n
  BY DEF Moved
<1>3. More(old, mid, p, b, m)
  <2>1. <<b, p>> \in Row
    BY DEF Row, Moved
  <2>2. mid[<<b, p>>] = new[<<b, p>>] /\ old[<<b, p>>] \in Nat
    BY <2>1 DEF Moved
  <2>3. mid[<<b, p>>] = old[<<b, p>>] + m
    BY <1>2, <2>2 DEF Moved
  <2>4. \A c \in Branch : c # b => mid[<<c, p>>] = old[<<c, p>>]
    BY DEF Row, Moved
  <2>5. QED
    BY <1>1, <2>3, <2>4 DEF More, Moved
<1>4. More(mid, new, p, d, n)
  BY <1>1 DEF Row, More, Moved
<1> HIDE DEF mid
<1>5. Total(mid, p) = Total(old, p) + m
  BY <1>3, TotalGrows
<1>6. Total(new, p) = Total(mid, p) + n
  BY <1>4, TotalGrows
<1>7. Total(old, p) \in Nat /\ n \in Nat
  BY TotalIsNat DEF Moved
<1>8. QED
  BY <1>2, <1>5, <1>6, <1>7

\* What a commit does to the stock.
LEMMA CommitStock ==
    ASSUME ConstantsAssumption, LockInv, NEW r \in Request, Commit(r)
    PROVE  /\ stock \in [Row -> Nat] /\ stock' \in [Row -> Nat]
           /\ \A row \in Row : stock'[row] = IF row \in Rows[r] THEN NewStock(r, row) ELSE stock[row]
<1>1. LockInv'
  BY CommitKeeps
<1>2. QED
  BY <1>1 DEF LockInv, LockTypes, Commit

LEMMA CommitElsewhere ==
    ASSUME ConstantsAssumption, LockInv, NEW r \in Request, Commit(r), NEW p \in Product, p \notin Lines[r]
    PROVE  Total(stock, p)' = Total(stock, p) /\ average'[p] = average[p]
<1>1. \A b \in Branch : stock'[<<b, p>>] = stock[<<b, p>>]
  <2>1. ASSUME NEW b \in Branch
        PROVE  stock'[<<b, p>>] = stock[<<b, p>>]
    <3>1. <<b, p>> \in Row /\ <<b, p>> \notin Rows[r]
      BY DEF Row, Rows
    <3>2. QED
      BY <3>1, CommitStock
  <2>2. QED
    BY <2>1
<1>2. [b \in Branch |-> stock'[<<b, p>>]] = [b \in Branch |-> stock[<<b, p>>]]
  BY <1>1
<1>3. QED
  BY <1>2 DEF Total, Commit

LEMMA CommitMoves ==
    ASSUME ConstantsAssumption, LockInv, NEW r \in Request, Commit(r), NEW p \in Lines[r],
           ~Receives(r), None \notin {From[r], To[r]}
    PROVE  Total(stock, p)' = Total(stock, p) /\ average'[p] = average[p]
<1>1. /\ p \in Product /\ Takes(r) /\ From[r] \in Branch /\ To[r] \in Branch /\ From[r] # To[r]
      /\ Kind[r] \notin Absolute \cup {"remove", "opening"}
  <2>1. Kind[r] \in Kinds /\ Lines[r] \in SUBSET Product
    BY DEF ConstantsAssumption, Accepted
  <2>2. Takes(r)
    BY <2>1 DEF Takes, Receives, Kinds, ConstantsAssumption, Accepted
  <2>3. QED
    BY <2>1, <2>2 DEF Takes, Absolute, ConstantsAssumption, Accepted
<1>2. PICK n \in Nat : n = Amount[r][p]
  BY <1>1 DEF ConstantsAssumption, Accepted
<1>3. <<From[r], p>> \in Rows[r] /\ <<To[r], p>> \in Rows[r]
  BY <1>1 DEF Rows, Row
<1>4. <<From[r], p>> \in Row /\ <<To[r], p>> \in Row
  BY <1>1 DEF Row
<1>5. stock'[<<From[r], p>>] = stock[<<From[r], p>>] - n
  <2>1. Signed(r, <<From[r], p>>) = 0 - n
    BY <1>1, <1>2 DEF Signed
  <2>2. NewStock(r, <<From[r], p>>) = stock[<<From[r], p>>] + (0 - n)
    BY <1>1, <2>1 DEF NewStock
  <2>3. stock[<<From[r], p>>] \in Nat
    BY <1>4, CommitStock
  <2>4. QED
    BY <1>3, <1>4, <2>2, <2>3, CommitStock
<1>6. stock'[<<To[r], p>>] = stock[<<To[r], p>>] + n
  <2>1. Signed(r, <<To[r], p>>) = n - 0
    BY <1>1, <1>2 DEF Signed
  <2>2. NewStock(r, <<To[r], p>>) = stock[<<To[r], p>>] + n
    BY <1>1, <2>1 DEF NewStock
  <2>3. QED
    BY <1>3, <1>4, <2>2, CommitStock
<1>7. ASSUME NEW c \in Branch, c \notin {From[r], To[r]}
      PROVE  stock'[<<c, p>>] = stock[<<c, p>>]
  <2>1. <<c, p>> \in Row /\ <<c, p>> \notin Rows[r]
    BY <1>1, <1>7 DEF Row, Rows
  <2>2. QED
    BY <2>1, CommitStock
<1>8. PICK before \in [Row -> Nat], now \in [Row -> Nat] : before = stock /\ now = stock'
  BY CommitStock
<1>9. Total(now, p) = Total(before, p)
  <2>1. PICK b \in Branch, d \in Branch : b = From[r] /\ d = To[r]
    BY <1>1
  <2>2. now[<<b, p>>] = before[<<b, p>>] - n
    BY <1>5, <1>8, <2>1
  <2>3. now[<<d, p>>] = before[<<d, p>>] + n
    BY <1>6, <1>8, <2>1
  <2>4. \A c \in Branch : c \notin {b, d} => now[<<c, p>>] = before[<<c, p>>]
    BY <1>7, <1>8, <2>1
  <2>5. b # d /\ p \in Product
    BY <1>1, <2>1
  <2>6. Moved(before, now, p, b, d, n)
    BY <1>2, <1>8, <2>2, <2>3, <2>4, <2>5 DEF Moved
  <2>7. QED
    BY <2>6, TotalStays
<1>10. Total(stock, p)' = Total(now, p)
  BY <1>8 DEF Total
<1>11. average'[p] = average[p]
  BY <1>1 DEF Commit, Receives
<1>12. QED
  BY <1>8, <1>9, <1>10, <1>11

LEMMA CommitReceives ==
    ASSUME ConstantsAssumption, LockInv, CostInv, NEW r \in Request, Commit(r), NEW p \in Lines[r],
           Receives(r)
    PROVE  /\ p \in Product /\ HoldsProduct(r, p) /\ pc[r] = "write"
           /\ Amount[r][p] \in Nat /\ Amount[r][p] > 0
           /\ Total(stock, p)' = Total(stock, p) + Amount[r][p]
           /\ average'[p] = NewCost(r, p)
<1>1. /\ p \in Product /\ From[r] = None /\ To[r] \in Branch /\ Kind[r] = "receive"
      /\ Amount[r][p] \in Nat /\ Amount[r][p] > 0
  BY DEF Receives, Absolute, ConstantsAssumption, Accepted
<1>2. pc[r] = "write"
  <2>1. shared[r] = Lines[r] /\ Running(r)
    BY <1>1 DEF Commit, ReadyToCommit, NothingMoves
  <2>2. QED
    BY <1>1, <2>1 DEF Running, Receives, CostInv
<1>3. HoldsProduct(r, p)
  BY <1>1, <1>2 DEF HoldsProduct
<1>4. PICK n \in Nat : n = Amount[r][p]
  BY <1>1
<1>5. <<To[r], p>> \in Rows[r] /\ <<To[r], p>> \in Row
  BY <1>1 DEF Rows, Row
<1>6. stock'[<<To[r], p>>] = stock[<<To[r], p>>] + n
  <2>1. To[r] # From[r]
    BY <1>1 DEF ConstantsAssumption, Accepted
  <2>2. Signed(r, <<To[r], p>>) = n - 0
    BY <1>1, <1>4, <2>1 DEF Signed
  <2>3. NewStock(r, <<To[r], p>>) = stock[<<To[r], p>>] + n
    BY <1>1, <2>2 DEF NewStock, Absolute
  <2>4. QED
    BY <1>5, <2>3, CommitStock
<1>7. ASSUME NEW c \in Branch, c # To[r]
      PROVE  stock'[<<c, p>>] = stock[<<c, p>>]
  <2>1. <<c, p>> \in Row /\ <<c, p>> \notin Rows[r]
    BY <1>1, <1>7 DEF Row, Rows, ConstantsAssumption, Accepted
  <2>2. QED
    BY <2>1, CommitStock
<1>8. PICK before \in [Row -> Nat], now \in [Row -> Nat] : before = stock /\ now = stock'
  BY CommitStock
<1>9. Total(now, p) = Total(before, p) + n
  <2>1. More(before, now, p, To[r], n)
    BY <1>1, <1>6, <1>7, <1>8 DEF More
  <2>2. QED
    BY <2>1, TotalGrows
<1>10. Total(stock, p)' = Total(now, p)
  BY <1>8 DEF Total
<1>11. average'[p] = NewCost(r, p)
  BY <1>1 DEF Commit
<1>12. QED
  BY <1>1, <1>2, <1>3, <1>4, <1>8, <1>9, <1>10, <1>11

\* What is paid for a product, by which receipts.
LEMMA PaidTypes ==
    ASSUME ConstantsAssumption, CostInv, NEW p \in Product
    PROVE  /\ IsFiniteSet(Receipts(p)) /\ Cardinality(Receipts(p)) \in Nat
           /\ Receipts(p) \subseteq Request
           /\ \A r \in Request : Amount[r][p] * Cost[r] \in Int
           /\ Total(InitialStock, p) * InitialCost[p] \in Int
           /\ SumFunctionOnSet([r \in Request |-> Amount[r][p] * Cost[r]], Receipts(p)) \in Int
           /\ Paid(p) \in Int
<1>1. Receipts(p) \subseteq applied /\ applied \subseteq Request /\ IsFiniteSet(applied)
  BY DEF Receipts, Touching, CostInv
<1>2. IsFiniteSet(Receipts(p)) /\ Cardinality(Receipts(p)) \in Nat
  BY <1>1, FS_Subset, FS_CardinalityType
<1>3. \A r \in Request : Amount[r][p] * Cost[r] \in Int
  <2>1. ASSUME NEW r \in Request
        PROVE  Amount[r][p] * Cost[r] \in Int
    <3>1. Amount[r][p] \in Nat /\ Cost[r] \in Nat
      BY DEF ConstantsAssumption, Accepted
    <3>2. QED
      BY <3>1
  <2>2. QED
    BY <2>1
<1>4. Total(InitialStock, p) * InitialCost[p] \in Int
  <2>1. InitialStock \in [Row -> Nat] /\ InitialCost[p] \in Nat
    BY DEF ConstantsAssumption, Accepted
  <2>2. Total(InitialStock, p) \in Nat
    BY <2>1, TotalIsNat
  <2>3. QED
    BY <2>1, <2>2
<1> DEFINE f == [r \in Request |-> Amount[r][p] * Cost[r]]
<1>5. \A r \in Receipts(p) : f[r] \in Int
  BY <1>1, <1>3
<1>6. SumFunctionOnSet(f, Receipts(p)) \in Int
  <2> HIDE DEF f
  <2>1. QED
    BY <1>2, <1>5, SumFacts
<1>7. Paid(p) \in Int
  BY <1>4, <1>6 DEF Paid
<1>8. QED
  BY <1>1, <1>2, <1>3, <1>4, <1>6, <1>7

\* What a commit does besides.
LEMMA CommitEnds ==
    ASSUME LockInv, CostInv, NEW r \in Request, Commit(r)
    PROVE  /\ pc[r] # "done" /\ pc'[r] = "done" /\ r \notin applied
           /\ applied' = applied \cup {r} /\ cost' \in [Request -> Nat]
           /\ \A q \in Request \ {r} : /\ pc'[q] = pc[q] /\ seen'[q] = seen[q]
                                       /\ shared'[q] = shared[q] /\ cost'[q] = cost[q]
           /\ \A p \in Product : OnlyReceived(p)' => OnlyReceived(p)
<1>1. pc \in [Request -> Pcs] /\ seen \in [Request -> [Row -> Nat]] /\ cost \in [Request -> Nat]
      /\ shared \in [Request -> SUBSET Product]
  BY DEF LockInv, LockTypes, CostInv
<1>2. pc[r] # "done"
  BY DEF Commit, ReadyToCommit, Running
<1>3. PICK result : Answered(r, result)
  BY DEF Commit
<1>4. /\ pc'[r] = "done" /\ cost' \in [Request -> Nat]
      /\ \A q \in Request \ {r} : /\ pc'[q] = pc[q] /\ seen'[q] = seen[q]
                                  /\ shared'[q] = shared[q] /\ cost'[q] = cost[q]
  BY <1>1, <1>3 DEF Answered, End, Goto
<1>5. applied' = applied \cup {r} /\ r \notin applied
  BY <1>2 DEF Commit, CostInv
<1>6. \A p \in Product : OnlyReceived(p)' => OnlyReceived(p)
  BY <1>5 DEF OnlyReceived, Touching
<1>7. QED
  BY <1>2, <1>4, <1>5, <1>6

\* A commit of a receipt.
LEMMA ReceiptIsExact ==
    ASSUME ConstantsAssumption, LockInv, CostInv, NEW r \in Request, Commit(r), NEW p \in Lines[r],
           Receives(r), OnlyReceived(p)'
    PROVE  LET error == 2 * (average[p] * Total(stock, p) - Paid(p))
               bound == Cardinality(Receipts(p)) * Total(stock, p)
           IN  (-bound <= error /\ error <= bound)'
<1>1. /\ p \in Product /\ HoldsProduct(r, p) /\ pc[r] = "write" /\ OnlyReceived(p)
      /\ r \notin applied /\ applied' = applied \cup {r}
  BY CommitReceives, CommitEnds
<1>2. PICK a \in Nat, k \in Nat : a = Amount[r][p] /\ a > 0 /\ k = Cost[r]
  BY CommitReceives DEF ConstantsAssumption, Accepted
<1>3. PICK q \in Nat : q = Total(stock, p) /\ q = Total(seen[r], p)
  <2>1. Total(stock, p) \in Nat
    BY <1>1, CommitStock, TotalIsNat
  <2>2. Total(seen[r], p) = Total(stock, p)
    BY <1>1 DEF CostInv
  <2>3. QED
    BY <2>1, <2>2
<1>4. PICK c \in Nat : c = average[p] /\ c = cost[r]
  BY <1>1 DEF CostInv
<1>5. PICK n \in Nat, paid \in Int : n = Cardinality(Receipts(p)) /\ paid = Paid(p)
  BY <1>1, PaidTypes
<1>6. -(n * q) <= 2 * (c * q - paid) /\ 2 * (c * q - paid) <= n * q
  BY <1>1, <1>3, <1>4, <1>5 DEF CostInv, AverageCostIsExact
<1>7. average'[p] = (2 * (q * c + a * k) + (q + a)) \div (2 * (q + a))
  <2>1. average'[p] = NewCost(r, p)
    BY CommitReceives
  <2>2. NewCost(r, p) = (2 * (q * c + a * k) + (q + a)) \div (2 * (q + a))
    BY <1>2, <1>3, <1>4 DEF NewCost
  <2>3. QED
    BY <2>1, <2>2
<1>8. PICK new \in Nat : new = average'[p] /\ new = (2 * (q * c + a * k) + (q + a)) \div (2 * (q + a))
  <2>1. q * c \in Nat /\ a * k \in Nat
    OBVIOUS
  <2>2. PICK x \in Nat : x = 2 * (q * c + a * k) + (q + a)
    <3>1. PICK y \in Nat, z \in Nat : y = q * c /\ z = a * k
      BY <2>1
    <3>2. 2 * (y + z) + (q + a) \in Nat
      OBVIOUS
    <3>3. QED
      BY <3>1, <3>2
  <2>3. 2 * (q + a) \in Nat /\ 2 * (q + a) > 0
    BY <1>2
  <2>4. x \div (2 * (q + a)) \in Nat
    BY <2>2, <2>3, Quotient
  <2>5. QED
    BY <1>7, <2>2, <2>4
<1>9. /\ -((n + 1) * (q + a)) <= 2 * (new * (q + a) - (paid + a * k))
      /\ 2 * (new * (q + a) - (paid + a * k)) <= (n + 1) * (q + a)
  BY <1>2, <1>6, <1>8, ErrorGrows
<1>10. Total(stock, p)' = q + a
  <2>1. Total(stock, p)' = Total(stock, p) + Amount[r][p]
    BY CommitReceives
  <2>2. QED
    BY <1>2, <1>3, <2>1
<1>11. Receipts(p)' = Receipts(p) \cup {r} /\ r \notin Receipts(p)
  BY <1>1 DEF Receipts, Touching, Receives
<1>12. Cardinality(Receipts(p)') = n + 1
  <2>1. IsFiniteSet(Receipts(p))
    BY <1>1, PaidTypes
  <2>2. Cardinality(Receipts(p) \cup {r}) = Cardinality(Receipts(p)) + 1
    BY <1>11, <2>1, FS_AddElement
  <2>3. QED
    BY <1>5, <1>11, <2>2
<1>13. Paid(p)' = paid + a * k
  <2> DEFINE f == [x \in Request |-> Amount[x][p] * Cost[x]]
             R == Receipts(p)
  <2>1. f[r] = a * k /\ f[r] \in Int
    BY <1>2
  <2>2. \A x \in R : f[x] \in Int
    BY <1>1, PaidTypes
  <2>3. IsFiniteSet(R) /\ r \notin R
    BY <1>1, <1>11, PaidTypes
  <2>4. Paid(p) = Total(InitialStock, p) * InitialCost[p] + SumFunctionOnSet(f, R)
    BY DEF Paid
  <2>5. Paid(p)' = Total(InitialStock, p) * InitialCost[p] + SumFunctionOnSet(f, R \cup {r})
    BY <1>11 DEF Paid
  <2>6. PICK first \in Int, sum \in Int :
           first = Total(InitialStock, p) * InitialCost[p] /\ sum = SumFunctionOnSet(f, R)
    BY <1>1, PaidTypes
  <2> HIDE DEF f, R
  <2>7. SumFunctionOnSet(f, R \cup {r}) = f[r] + SumFunctionOnSet(f, R)
    BY <2>1, <2>2, <2>3, SumAdd
  <2>8. PICK y \in Nat : y = a * k
    OBVIOUS
  <2>9. paid = first + sum /\ Paid(p)' = first + (y + sum)
    BY <1>5, <2>1, <2>4, <2>5, <2>6, <2>7, <2>8
  <2>10. QED
    BY <2>6, <2>8, <2>9
<1>14. QED
  BY <1>8, <1>9, <1>10, <1>12, <1>13

\* Any other commit.
LEMMA CommitIsExact ==
    ASSUME ConstantsAssumption, LockInv, CostInv, NEW r \in Request, Commit(r), NEW p \in Product,
           ~(Receives(r) /\ p \in Lines[r]), OnlyReceived(p)'
    PROVE  /\ Total(stock, p)' = Total(stock, p) /\ average'[p] = average[p]
           /\ Receipts(p)' = Receipts(p) /\ Paid(p)' = Paid(p)
<1>1. OnlyReceived(p) /\ applied' = applied \cup {r} /\ r \notin applied
  BY CommitEnds
<1>2. Total(stock, p)' = Total(stock, p) /\ average'[p] = average[p]
  <2>1. CASE p \notin Lines[r]
    BY <2>1, CommitElsewhere
  <2>2. CASE p \in Lines[r]
    <3>1. ~Receives(r)
      BY <2>2
    <3>2. None \notin {From[r], To[r]}
      BY <1>1, <2>2, <3>1 DEF OnlyReceived, Touching, Receives
    <3>3. QED
      BY <2>2, <3>1, <3>2, CommitMoves
  <2>3. QED
    BY <2>1, <2>2
<1>3. Receipts(p)' = Receipts(p)
  BY <1>1 DEF Receipts, Touching, Receives
<1>4. Paid(p)' = Paid(p)
  BY <1>3 DEF Paid
<1>5. QED
  BY <1>2, <1>3, <1>4

LEMMA CommitCost ==
    ASSUME ConstantsAssumption, LockInv, CostInv, NEW r \in Request, Commit(r)
    PROVE  CostInv'
<1>1. \A q \in Request \ {r}, p \in Product : HoldsProduct(q, p)' <=> HoldsProduct(q, p)
  BY CommitEnds DEF HoldsProduct
<1>2. \A p \in Product : ~HoldsProduct(r, p)'
  BY CommitEnds DEF HoldsProduct
<1>3. \A q \in Request \ {r}, p \in Product :
         HoldsProduct(q, p) => ~(Receives(r) /\ p \in Lines[r])
  <2>1. ASSUME NEW q \in Request \ {r}, NEW p \in Product, HoldsProduct(q, p), Receives(r), p \in Lines[r]
        PROVE  FALSE
    <3>1. HoldsProduct(r, p)
      BY <2>1, CommitReceives
    <3>2. QED
      BY <2>1, <3>1 DEF CostInv
  <2>2. QED
    BY <2>1
<1>4. average' \in [Product -> Nat]
  <2>1. ASSUME NEW p \in Product
        PROVE  average'[p] \in Nat
    <3>1. CASE Receives(r) /\ p \in Lines[r]
      <4>1. /\ Amount[r][p] \in Nat /\ Amount[r][p] > 0 /\ average'[p] = NewCost(r, p)
        BY <3>1, CommitReceives
      <4>2. Total(seen[r], p) \in Nat
        <5>1. seen[r] \in [Row -> Nat]
          BY DEF LockInv, LockTypes
        <5>2. QED
          BY <5>1, TotalIsNat
      <4>3. PICK q \in Nat, a \in Nat, c \in Nat, k \in Nat :
               q = Total(seen[r], p) /\ a = Amount[r][p] /\ a > 0 /\ c = cost[r] /\ k = Cost[r]
        BY <4>1, <4>2 DEF CostInv, ConstantsAssumption, Accepted
      <4>4. (2 * (q * c + a * k) + (q + a)) \div (2 * (q + a)) \in Nat
        BY <4>3, Rounded
      <4>5. QED
        BY <4>1, <4>3, <4>4 DEF NewCost
    <3>2. CASE ~(Receives(r) /\ p \in Lines[r])
      BY <3>2 DEF Commit, Receives, CostInv
    <3>3. QED
      BY <3>1, <3>2
  <2>2. average' = [p \in Product |-> IF Kind[r] = "receive" /\ p \in Lines[r]
                                      THEN NewCost(r, p) ELSE average[p]]
    BY DEF Commit
  <2> DEFINE F(p) == IF Kind[r] = "receive" /\ p \in Lines[r] THEN NewCost(r, p) ELSE average[p]
  <2>3. average' = [p \in Product |-> F(p)]
    BY <2>2
  <2> HIDE DEF F
  <2>4. QED
    BY <2>1, <2>3
<1>5. /\ applied' \in SUBSET Request /\ IsFiniteSet(applied)' /\ \A q \in applied' : pc'[q] = "done"
  <2>1. applied \in SUBSET Request /\ IsFiniteSet(applied) /\ \A q \in applied : pc[q] = "done"
    BY DEF CostInv
  <2>2. IsFiniteSet(applied \cup {r})
    BY <2>1, FS_AddElement
  <2>3. applied' = applied \cup {r}
    BY CommitEnds
  <2>4. \A q \in applied \cup {r} : pc'[q] = "done"
    BY <2>1, CommitEnds
  <2>5. applied' \in SUBSET Request
    BY <2>1, <2>3
  <2>6. QED
    BY <2>2, <2>3, <2>4, <2>5
<1>6. \A q \in Request : Receives(q) =>
         /\ pc'[q] \notin {"write", "done"} => shared'[q] = {}
         /\ pc'[q] \notin {"high", "commit", "again"}
  BY CommitEnds DEF CostInv
<1>7. \A q, o \in Request, p \in Product : HoldsProduct(q, p)' /\ HoldsProduct(o, p)' => q = o
  <2>1. ASSUME NEW q \in Request, NEW o \in Request, NEW p \in Product,
               HoldsProduct(q, p)', HoldsProduct(o, p)'
        PROVE  q = o
    <3>1. q # r /\ o # r
      BY <1>2, <2>1
    <3>2. HoldsProduct(q, p) /\ HoldsProduct(o, p)
      BY <1>1, <2>1, <3>1
    <3>3. QED
      BY <3>2 DEF CostInv
  <2>2. QED
    BY <2>1
<1>8. ASSUME NEW q \in Request, NEW p \in Product, HoldsProduct(q, p)'
      PROVE  cost'[q] = average'[p]
  <2>1. q # r /\ HoldsProduct(q, p)
    BY <1>1, <1>2, <1>8
  <2>2. ~(Receives(r) /\ p \in Lines[r])
    BY <1>3, <2>1
  <2>3. average'[p] = average[p]
    BY <2>2 DEF Commit, Receives
  <2>4. QED
    BY <2>1, <2>3, CommitEnds DEF CostInv
<1>9. ASSUME NEW q \in Request, NEW p \in Product,
             HoldsProduct(q, p)', pc'[q] = "write", OnlyReceived(p)'
      PROVE  Total(seen[q], p)' = Total(stock, p)'
  <2>1. q # r /\ HoldsProduct(q, p)
    BY <1>1, <1>2, <1>9
  <2>2. ~(Receives(r) /\ p \in Lines[r])
    BY <1>3, <2>1
  <2>3. pc[q] = "write" /\ seen'[q] = seen[q] /\ OnlyReceived(p)
    BY <1>9, <2>1, CommitEnds
  <2>4. Total(stock, p)' = Total(stock, p)
    BY <1>9, <2>2, CommitIsExact
  <2>5. Total(seen[q], p)' = Total(seen[q], p)
    BY <2>3 DEF Total
  <2>6. QED
    BY <2>1, <2>3, <2>4, <2>5 DEF CostInv
<1>10. AverageCostIsExact'
  <2>1. ASSUME NEW p \in Product, OnlyReceived(p)'
        PROVE  LET error == 2 * (average[p] * Total(stock, p) - Paid(p))
                   bound == Cardinality(Receipts(p)) * Total(stock, p)
               IN  (-bound <= error /\ error <= bound)'
    <3>1. CASE Receives(r) /\ p \in Lines[r]
      BY <2>1, <3>1, ReceiptIsExact
    <3>2. CASE ~(Receives(r) /\ p \in Lines[r])
      <4>1. /\ Total(stock, p)' = Total(stock, p) /\ average'[p] = average[p]
            /\ Receipts(p)' = Receipts(p) /\ Paid(p)' = Paid(p) /\ OnlyReceived(p)
        BY <2>1, <3>2, CommitIsExact, CommitEnds
      <4>2. QED
        BY <4>1 DEF CostInv, AverageCostIsExact
    <3>3. QED
      BY <3>1, <3>2
  <2>2. QED
    BY <2>1 DEF AverageCostIsExact
<1>11. QED
  BY <1>4, <1>5, <1>6, <1>7, <1>8, <1>9, <1>10, CommitEnds DEF CostInv

LEMMA InitCost ==
    ASSUME ConstantsAssumption, Init
    PROVE  CostInv
<1>1. /\ cost \in [Request -> Nat] /\ average \in [Product -> Nat]
      /\ applied \in SUBSET Request /\ \A r \in applied : pc[r] = "done"
      /\ \A r \in Request : pc[r] = "idle" /\ shared[r] = {}
  BY DEF Init, ConstantsAssumption, Accepted
<1>2. IsFiniteSet(applied)
  BY FS_EmptySet DEF Init
<1>3. \A r \in Request, p \in Product : ~HoldsProduct(r, p)
  BY <1>1 DEF HoldsProduct
<1>4. AverageCostIsExact
  <2>1. ASSUME NEW p \in Product
        PROVE  LET error == 2 * (average[p] * Total(stock, p) - Paid(p))
                   bound == Cardinality(Receipts(p)) * Total(stock, p)
               IN  -bound <= error /\ error <= bound
    <3>1. PICK t \in Nat, c \in Nat : t = Total(stock, p) /\ c = average[p]
      <4>1. Total(stock, p) \in Nat
        BY TotalIsNat DEF Init, ConstantsAssumption, Accepted
      <4>2. QED
        BY <1>1, <4>1
    <3>2. Receipts(p) = {}
      BY DEF Init, Receipts, Touching
    <3>3. Paid(p) = t * c
      <4> DEFINE f == [r \in Request |-> Amount[r][p] * Cost[r]]
      <4>1. Paid(p) = t * c + SumFunctionOnSet(f, {})
        BY <3>1, <3>2 DEF Init, Paid
      <4> HIDE DEF f
      <4>2. IsFiniteSet({}) /\ \A x \in {} : f[x] \in Int
        BY FS_EmptySet
      <4>3. SumFunctionOnSet(f, {}) = 0
        BY <4>2, SumFacts
      <4>4. t * c \in Nat
        OBVIOUS
      <4>5. QED
        BY <4>1, <4>3, <4>4
    <3>4. Cardinality(Receipts(p)) = 0
      BY <3>2, FS_EmptySet
    <3>5. PICK m \in Nat : m = t * c /\ m = c * t
      OBVIOUS
    <3>6. Cardinality(Receipts(p)) * Total(stock, p) = 0
      BY <3>1, <3>4
    <3>7. 2 * (average[p] * Total(stock, p) - Paid(p)) = 0
      BY <3>1, <3>3, <3>5
    <3>8. QED
      BY <3>6, <3>7
  <2>2. QED
    BY <2>1 DEF AverageCostIsExact
<1>5. QED
  BY <1>1, <1>2, <1>3, <1>4 DEF CostInv

\* Every step of the system keeps the costs true.
LEMMA CostPreserved ==
    ASSUME ConstantsAssumption, LockInv, CostInv, [Next]_vars
    PROVE  CostInv'
<1>1. CASE BreakCircle
  <2>1. PICK S \in Circles : \E r \in S : Victim(r)
    BY <1>1 DEF BreakCircle
  <2>2. PICK r \in S : Victim(r)
    BY <2>1
  <2>3. PICK q \in S : <<r, q>> \in Waits
    BY DEF Circles, Circle
  <2>4. r \in Request /\ WaitsFor(r, q)
    BY <2>3 DEF Waits
  <2>5. QED
    BY <2>2, <2>4, VictimQuiet, VictimPrudent, PrudentKeeps
<1>2. CASE \E r \in Request : Arrive(r) \/ Step(r) \/ RollBack(r)
  <2>1. PICK r \in Request : Arrive(r) \/ Step(r) \/ RollBack(r)
    BY <1>2
  <2>2. CASE Commit(r)
    BY <2>2, CommitCost
  <2>3. CASE ~Commit(r)
    BY <2>1, <2>3, StepQuiet, StepPrudent, PrudentKeeps
  <2>4. QED
    BY <2>2, <2>3
<1>3. CASE UNCHANGED vars
  <2> USE <1>3 DEF vars, request, central
  <2>1. \A p \in Product : /\ Total(stock, p)' = Total(stock, p)
                           /\ Paid(p)' = Paid(p)
                           /\ Receipts(p)' = Receipts(p)
                           /\ OnlyReceived(p)' <=> OnlyReceived(p)
    BY DEF Total, Paid, Receipts, Touching, OnlyReceived
  <2>2. AverageCostIsExact'
    BY <2>1 DEF CostInv, AverageCostIsExact
  <2>3. \A r \in Request, p \in Product : /\ HoldsProduct(r, p)' <=> HoldsProduct(r, p)
                                          /\ Total(seen[r], p)' = Total(seen[r], p)
    BY DEF HoldsProduct, Total
  <2>4. IsFiniteSet(applied)'
    BY DEF CostInv
  <2>5. \A r \in Request, p \in Product :
           /\ HoldsProduct(r, p)' => cost'[r] = average'[p]
           /\ HoldsProduct(r, p)' /\ pc'[r] = "write" /\ OnlyReceived(p)'
                 => Total(seen[r], p)' = Total(stock, p)'
    BY <2>1, <2>3 DEF CostInv
  <2>6. \A r, q \in Request, p \in Product : HoldsProduct(r, p)' /\ HoldsProduct(q, p)' => r = q
    BY <2>3 DEF CostInv
  <2>7. QED
    BY <2>2, <2>4, <2>5, <2>6 DEF CostInv
<1>4. QED
  BY <1>1, <1>2, <1>3 DEF Next

-----------------------------------------------------------------------------
(* The theorems.                                                           *)

\* The invariant holds in every state, for any number of requests, branches,
\* products and transfer ids.
THEOREM InductiveInvariant ==
    ASSUME ConstantsAssumption
    PROVE  Spec => []IInv
<1>1. Init => IInv
  BY InitEstablishes
<1>2. IInv /\ [Next]_vars => IInv'
  BY NextPreserves
<1>3. QED
  BY <1>1, <1>2, PTL DEF Spec

\* However often and at once a transfer is sent, retries after deadlocks
\* included, its id moves stock once.
THEOREM TransfersHappenOnce ==
    ASSUME ConstantsAssumption
    PROVE  Spec => []OneTransferPerId
<1>1. IInv => OneTransferPerId
  BY DEF IInv, RecordInv, OneTransferPerId
<1>2. QED
  BY <1>1, InductiveInvariant, PTL

\* A transfer is told "done" only when its payload is recorded under its id,
\* and 409 only when another one is; neither ever ceases to be true.
THEOREM TransferAnswersTrue ==
    ASSUME ConstantsAssumption
    PROVE  Spec => []TransferAnswersAreTrue
<1>1. IInv => TransferAnswersAreTrue
  BY DEF IInv
<1>2. QED
  BY <1>1, InductiveInvariant, PTL

\* The row locks are in order in every state.
THEOREM LocksInOrder ==
    ASSUME ConstantsAssumption
    PROVE  Spec => []LockInv
<1>1. Init => LockInv
  BY InitLocks
<1>2. LockInv /\ [Next]_vars => LockInv'
  BY LockPreserved
<1>3. QED
  BY <1>1, <1>2, PTL DEF Spec

\* The movements of a row add up to its quantity, whatever runs at the same
\* time, until the row is set without a lock or cut off at zero.
THEOREM MovementsMatch ==
    ASSUME ConstantsAssumption
    PROVE  Spec => []MovementsAddUp
<1>1. LockInv => MovementsAddUp
  BY DEF LockInv
<1>2. QED
  BY <1>1, LocksInOrder, PTL

\* Transfers never wait for each other in a circle while they lock the rows
\* they find: each asks for rows beyond all that it holds.
THEOREM NoCircleOfTransfers ==
    ASSUME ConstantsAssumption
    PROVE  Spec => []TransfersNeverCircle
<1>1. LockInv => TransfersNeverCircle
  BY NoCircle
<1>2. QED
  BY <1>1, LocksInOrder, PTL

\* What a receipt knows of costs and totals is true in every state.
THEOREM CostsAreTrue ==
    ASSUME ConstantsAssumption
    PROVE  Spec => []CostInv
<1>1. Init => CostInv
  BY InitCost
<1>2. LockInv /\ CostInv /\ [Next]_vars => CostInv'
  BY CostPreserved
<1>3. QED
  BY <1>1, <1>2, LocksInOrder, PTL DEF Spec

\* Receipts of one product never lose a price, however they interleave with
\* each other and with transfers: the average cost times the total is what was
\* paid, up to half a rupee per piece and receipt.
THEOREM AverageCostExact ==
    ASSUME ConstantsAssumption
    PROVE  Spec => []AverageCostIsExact
<1>1. CostInv => AverageCostIsExact
  BY DEF CostInv
<1>2. QED
  BY <1>1, CostsAreTrue, PTL

\* Every variable has its type; in particular no quantity falls below zero.
THEOREM TypeCorrectness ==
    ASSUME ConstantsAssumption
    PROVE  Spec => []TypeOK
<1>1. IInv /\ LockInv /\ CostInv => TypeOK
  BY DEF IInv, RecordTypes, Outcomes, LockInv, LockTypes, CostInv, TypeOK
<1>2. QED
  BY <1>1, InductiveInvariant, LocksInOrder, CostsAreTrue, PTL
=============================================================================
