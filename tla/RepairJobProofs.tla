-------------------------- MODULE RepairJobProofs --------------------------
(***************************************************************************)
(* The repair desk, for any number of requests, jobs and branches: first   *)
(* the invoice numbers (a delivery past the counter holds its branch's row *)
(* and the number that comes next; one that is ready to commit knows that  *)
(* no other job shows its number and that no other delivery is as far with *)
(* it), then parts, payments and status of the jobs, which whoever holds a *)
(* job keeps as it has found them. The theorems come last.                 *)
(***************************************************************************)
EXTENDS RepairJob, FiniteSetTheorems, WellFoundedInduction, TLAPS

\* The part of TypeOK that the invoice numbers depend on.
InvoiceTypes ==
    /\ pc \in [Request -> Pcs]
    /\ number \in [Request -> Nat]
    /\ applied \in SUBSET Request
    /\ invoice \in [Job -> Nat]
    /\ nextValue \in [Branch -> Nat \ {0}]

BranchHere(r) == BranchOf[JobOf[r]]

\* Which requests come past a statement.
OnPath(r) ==
    /\ pc[r] = "stock" => Kind[r] \in {"part", "unpart"}
    /\ pc[r] \in {"counter", "update"} => Kind[r] = "finish"
    /\ pc[r] \in {"read", "again", "write"} => Kind[r] = "status"
    /\ pc[r] = "advisory" => Kind[r] \in {"book", "finish"}
    /\ pc[r] = "counter" \/ HoldsCounter(r) => BranchHere(r) \in Branch

PathInv ==
    /\ \A r \in Request : OnPath(r)
    /\ \A r \in applied : pc[r] \in {"reply", "done"}

CounterInv ==
    /\ \A r, q \in Request :
          HoldsCounter(r) /\ HoldsCounter(q) /\ BranchHere(r) = BranchHere(q) => r = q
    /\ \A r \in Request : HoldsCounter(r) => number[r] = nextValue[BranchHere(r)]

UniqueInv ==
    /\ \A r \in Request, j \in Job :
          pc[r] = "commit" /\ Kind[r] = "finish" /\ j # JobOf[r] => invoice[j] # number[r]
    /\ \A r, q \in Request :
          pc[r] = "commit" /\ Kind[r] = "finish" /\ SameInvoice(r, q) => r = q

IInv == /\ InvoiceTypes /\ PathInv
        /\ CounterInv /\ InvoicesRunWithoutGap
        /\ UniqueInv /\ InvoicesAreUnique

-----------------------------------------------------------------------------
(* The steps, by what they do to the invoice numbers.                      *)

\* Nobody but r moves, and r has not been answered before.
Others(r) ==
    /\ pc' \in [Request -> Pcs] /\ number' \in [Request -> Nat]
    /\ pc[r] \notin {"reply", "done"} /\ OnPath(r)'
    /\ \A q \in Request : q # r => pc'[q] = pc[q] /\ number'[q] = number[q]

\* r goes to another statement, or commits something that is no delivery.
Walks(r) ==
    /\ Others(r) /\ UNCHANGED <<number, invoice, nextValue>>
    /\ \/ applied' = applied
       \/ applied' = applied \cup {r} /\ Kind[r] # "finish" /\ pc'[r] = "reply"
    /\ HoldsCounter(r)' => HoldsCounter(r)
    /\ pc'[r] = "commit" /\ Kind[r] = "finish" =>
          /\ \A j \in Job \ {JobOf[r]} : invoice[j] # number[r]
          /\ \A q \in Request \ {r} : ~SameInvoice(r, q)

Takes(r) ==
    /\ Others(r) /\ UNCHANGED <<applied, invoice, nextValue>>
    /\ pc'[r] \in {"session", "update"}
    /\ \A q \in Request \ {r} : BranchHere(q) = BranchHere(r) => ~HoldsCounter(q)
    /\ number'[r] = nextValue[BranchHere(r)]

Fails(r) ==
    /\ Others(r) /\ UNCHANGED <<applied, invoice, nextValue>>
    /\ pc'[r] = "done"

Delivers(r) ==
    /\ Others(r) /\ UNCHANGED number
    /\ Kind[r] = "finish" /\ pc[r] = "commit" /\ pc'[r] = "reply"
    /\ applied' = applied \cup {r}
    /\ invoice' = [invoice EXCEPT ![JobOf[r]] = number[r]]
    /\ nextValue' = [nextValue EXCEPT ![BranchHere(r)] = number[r] + 1]

StepOf(r) == Walks(r) \/ Takes(r) \/ Fails(r) \/ Delivers(r)

LEMMA FailedFails ==
    ASSUME InvoiceTypes, NEW r \in Request, pc[r] \notin {"reply", "done"}, Failed(r)
    PROVE  StepOf(r)
<1>1. pc' = [pc EXCEPT ![r] = "done"] /\ number' = [number EXCEPT ![r] = 0]
  BY DEF Failed, Goto
<1>2. pc' \in [Request -> Pcs] /\ pc'[r] = "done" /\ \A q \in Request : q # r => pc'[q] = pc[q]
  BY <1>1 DEF InvoiceTypes, Pcs
<1>3. number' \in [Request -> Nat] /\ \A q \in Request : q # r => number'[q] = number[q]
  BY <1>1 DEF InvoiceTypes
<1>4. OnPath(r)'
  BY <1>2 DEF OnPath, HoldsCounter
<1>5. QED
  BY <1>2, <1>3, <1>4 DEF Failed, central, Fails, Others, StepOf

LEMMA GotoWalks ==
    ASSUME InvoiceTypes, NEW r \in Request, NEW step \in Pcs, pc[r] \notin {"reply", "done"},
           Goto(r, step), UNCHANGED <<number, invoice, nextValue>>,
           \/ applied' = applied
           \/ applied' = applied \cup {r} /\ Kind[r] # "finish" /\ step = "reply",
           pc'[r] = step => OnPath(r)' /\ (HoldsCounter(r)' => HoldsCounter(r)),
           step = "commit" /\ Kind[r] = "finish" =>
              /\ \A j \in Job \ {JobOf[r]} : invoice[j] # number[r]
              /\ \A q \in Request \ {r} : ~SameInvoice(r, q)
    PROVE  StepOf(r)
<1>1. pc' \in [Request -> Pcs] /\ pc'[r] = step
  BY DEF InvoiceTypes, Goto
<1>2. \A q \in Request : q # r => pc'[q] = pc[q]
  BY DEF InvoiceTypes, Goto
<1>3. Others(r)
  BY <1>1, <1>2 DEF Others, InvoiceTypes
<1>4. QED
  BY <1>1, <1>3 DEF Walks, StepOf

LEMMA ConnectStep ==
    ASSUME InvoiceTypes, PathInv, NEW r \in Request, Connect(r)
    PROVE  StepOf(r)
<1>1. PICK step \in {"advisory", "read", "job", "write"} :
        /\ Goto(r, step) /\ pc[r] \in {"idle", "again"}
        /\ step \in {"read", "write"} => Kind[r] = "status"
        /\ step = "advisory" => Kind[r] \in {"book", "finish"}
        /\ UNCHANGED <<number, applied, invoice, nextValue>>
  <2>1. CASE pc[r] = "idle"
    BY <2>1 DEF Connect, FirstStatement, central
  <2>2. CASE pc[r] = "again"
    BY <2>2 DEF Connect, PathInv, OnPath, central
  <2>3. QED
    BY <2>1, <2>2 DEF Connect
<1>2. pc'[r] = step => OnPath(r)' /\ ~HoldsCounter(r)'
  BY <1>1 DEF OnPath, HoldsCounter
<1>3. QED
  BY <1>1, <1>2, GotoWalks DEF Pcs

LEMMA ReadStatusStep ==
    ASSUME InvoiceTypes, PathInv, NEW r \in Request, ReadStatus(r)
    PROVE  StepOf(r)
<1>1. pc[r] = "read" /\ Kind[r] = "status"
  BY DEF ReadStatus, PathInv, OnPath
<1>2. CASE status[JobOf[r]] = "open"
  <2>1. Goto(r, "again") /\ UNCHANGED <<number, applied, invoice, nextValue>>
    BY <1>2 DEF ReadStatus, central
  <2>2. pc'[r] = "again" => OnPath(r)' /\ ~HoldsCounter(r)'
    BY <1>1 DEF OnPath, HoldsCounter
  <2>3. QED
    BY <1>1, <2>1, <2>2, GotoWalks DEF Pcs
<1>3. CASE status[JobOf[r]] # "open"
  BY <1>1, <1>3, FailedFails DEF ReadStatus
<1>4. QED
  BY <1>2, <1>3

LEMMA WriteStatusStep ==
    ASSUME InvoiceTypes, PathInv, NEW r \in Request, WriteStatus(r)
    PROVE  StepOf(r)
<1>1. /\ pc[r] = "write" /\ Kind[r] = "status"
      /\ Goto(r, "reply") /\ applied' = applied \cup {r}
      /\ UNCHANGED <<number, invoice, nextValue>>
  BY DEF WriteStatus, PathInv, OnPath
<1>2. pc'[r] = "reply" => OnPath(r)' /\ ~HoldsCounter(r)'
  BY DEF OnPath, HoldsCounter
<1>3. QED
  BY <1>1, <1>2, GotoWalks DEF Pcs

LEMMA LockAdvisoryStep ==
    ASSUME InvoiceTypes, PathInv, NEW r \in Request, LockAdvisory(r)
    PROVE  StepOf(r)
<1>1. PICK step \in {"job", "session", "commit"} :
        /\ Goto(r, step) /\ (step = "job" <=> Kind[r] = "finish")
        /\ pc[r] = "advisory" /\ UNCHANGED <<number, applied, invoice, nextValue>>
  BY DEF LockAdvisory, central
<1>2. pc'[r] = step => OnPath(r)' /\ ~HoldsCounter(r)'
  BY <1>1 DEF OnPath, HoldsCounter
<1>3. QED
  BY <1>1, <1>2, GotoWalks DEF Pcs

LEMMA LockJobStep ==
    ASSUME ConstantsAssumption, InvoiceTypes, PathInv, NEW r \in Request, LockJob(r)
    PROVE  StepOf(r)
<1>1. pc[r] = "job"
  BY DEF LockJob
<1>2. CASE Workable(r)
  <2>1. PICK step \in {"counter", "stock", "session", "commit"} :
          /\ Goto(r, step) /\ (step = "counter" <=> Kind[r] = "finish")
          /\ step = "stock" => Kind[r] \in {"part", "unpart"}
          /\ UNCHANGED <<number, applied, invoice, nextValue>>
    BY <1>2 DEF LockJob, central
  <2>2. step = "counter" => BranchHere(r) \in Branch
    BY <1>2, <2>1 DEF Workable, BranchHere, ConstantsAssumption
  <2>3. BranchHere(r)' = BranchHere(r)
    BY DEF BranchHere
  <2>4. pc'[r] = step => OnPath(r)' /\ ~HoldsCounter(r)'
    BY <2>1, <2>2, <2>3 DEF OnPath, HoldsCounter
  <2>5. QED
    BY <1>1, <2>1, <2>4, GotoWalks DEF Pcs
<1>3. CASE ~Workable(r)
  BY <1>1, <1>3, FailedFails DEF LockJob
<1>4. QED
  BY <1>2, <1>3

LEMMA LockStockStep ==
    ASSUME InvoiceTypes, PathInv, NEW r \in Request, LockStock(r)
    PROVE  StepOf(r)
<1>1. pc[r] = "stock" /\ Kind[r] \in {"part", "unpart"}
  BY DEF LockStock, PathInv, OnPath
<1>2. CASE Failed(r)
  BY <1>1, <1>2, FailedFails
<1>3. CASE Goto(r, "commit") /\ UNCHANGED <<number, applied, invoice, nextValue>>
  <2>1. pc'[r] = "commit" => OnPath(r)' /\ ~HoldsCounter(r)'
    BY <1>1 DEF OnPath, HoldsCounter
  <2>2. QED
    BY <1>1, <1>3, <2>1, GotoWalks DEF Pcs
<1>4. QED
  BY <1>2, <1>3 DEF LockStock, central

LEMMA TakeNumberStep ==
    ASSUME InvoiceTypes, PathInv, NEW r \in Request, TakeNumber(r)
    PROVE  StepOf(r)
<1>1. PICK step \in {"session", "update"} :
        /\ pc[r] = "counter" /\ Free(r) /\ pc' = [pc EXCEPT ![r] = step]
        /\ number' = [number EXCEPT ![r] = nextValue[BranchHere(r)]]
        /\ UNCHANGED <<applied, invoice, nextValue>>
  BY DEF TakeNumber, Goto, central, BranchHere
<1>2. Kind[r] = "finish" /\ BranchHere(r) \in Branch
  BY <1>1 DEF PathInv, OnPath
<1>3. pc' \in [Request -> Pcs] /\ pc'[r] = step /\ \A q \in Request : q # r => pc'[q] = pc[q]
  BY <1>1 DEF InvoiceTypes, Pcs
<1>4. /\ number' \in [Request -> Nat] /\ number'[r] = nextValue[BranchHere(r)]
      /\ \A q \in Request : q # r => number'[q] = number[q]
  BY <1>1, <1>2 DEF InvoiceTypes
<1>5. OnPath(r)'
  <2>1. BranchHere(r)' = BranchHere(r)
    BY DEF BranchHere
  <2>2. QED
    BY <1>2, <1>3, <2>1 DEF OnPath
<1>6. \A q \in Request \ {r} : BranchHere(q) = BranchHere(r) => ~HoldsCounter(q)
  BY <1>1 DEF Free, WaitsFor, BranchHere
<1>7. QED
  BY <1>1, <1>3, <1>4, <1>5, <1>6 DEF Takes, Others, StepOf

LEMMA LockSessionStep ==
    ASSUME InvoiceTypes, PathInv, NEW r \in Request, LockSession(r)
    PROVE  StepOf(r)
<1>1. pc[r] = "session"
  BY DEF LockSession
<1>2. CASE Failed(r)
  BY <1>1, <1>2, FailedFails
<1>3. CASE /\ Goto(r, IF Kind[r] = "finish" THEN "update" ELSE "commit")
           /\ UNCHANGED <<number, applied, invoice, nextValue>>
  <2>1. PICK step \in {"update", "commit"} :
          Goto(r, step) /\ (step = "update" <=> Kind[r] = "finish")
    BY <1>3
  <2>2. Kind[r] = "finish" => HoldsCounter(r) /\ BranchHere(r) \in Branch
    BY <1>1 DEF HoldsCounter, PathInv, OnPath
  <2>3. BranchHere(r)' = BranchHere(r)
    BY DEF BranchHere
  <2>4. pc'[r] = step => OnPath(r)' /\ (HoldsCounter(r)' => HoldsCounter(r))
    BY <2>1, <2>2, <2>3 DEF OnPath, HoldsCounter
  <2>5. QED
    BY <1>1, <1>3, <2>1, <2>4, GotoWalks DEF Pcs
<1>4. QED
  BY <1>2, <1>3 DEF LockSession, central

LEMMA UpdateJobStep ==
    ASSUME InvoiceTypes, PathInv, NEW r \in Request, UpdateJob(r)
    PROVE  StepOf(r)
<1>1. pc[r] = "update" /\ Kind[r] = "finish" /\ HoldsCounter(r) /\ BranchHere(r) \in Branch
  BY DEF UpdateJob, PathInv, OnPath, HoldsCounter
<1>2. CASE Failed(r)
  BY <1>1, <1>2, FailedFails
<1>3. CASE /\ Free(r) /\ ~\E j \in Job \ {JobOf[r]} : invoice[j] = number[r]
           /\ Goto(r, "commit") /\ UNCHANGED <<number, applied, invoice, nextValue>>
  <2>1. \A q \in Request \ {r} : ~SameInvoice(r, q)
    BY <1>1, <1>3 DEF Free, WaitsFor
  <2>2. BranchHere(r)' = BranchHere(r)
    BY DEF BranchHere
  <2>3. pc'[r] = "commit" => OnPath(r)' /\ (HoldsCounter(r)' => HoldsCounter(r))
    BY <1>1, <2>2 DEF OnPath
  <2>4. QED
    BY <1>1, <1>3, <2>1, <2>3, GotoWalks DEF Pcs
<1>4. QED
  BY <1>2, <1>3 DEF UpdateJob, central

LEMMA CommitStep ==
    ASSUME InvoiceTypes, PathInv, NEW r \in Request, Commit(r)
    PROVE  StepOf(r)
<1>1. pc[r] = "commit" /\ Goto(r, "reply") /\ applied' = applied \cup {r} /\ number' = number
  BY DEF Commit
<1>2. OnPath(r)' /\ pc'[r] = "reply" /\ ~HoldsCounter(r)'
  BY <1>1 DEF Goto, InvoiceTypes, OnPath, HoldsCounter
<1>3. CASE Kind[r] = "finish"
  <2>1. /\ invoice' = [invoice EXCEPT ![JobOf[r]] = number[r]]
        /\ nextValue' = [nextValue EXCEPT ![BranchHere(r)] = number[r] + 1]
    BY <1>3 DEF Commit, Delivered, BranchHere
  <2>2. pc' \in [Request -> Pcs] /\ \A q \in Request : q # r => pc'[q] = pc[q]
    BY <1>1 DEF Goto, InvoiceTypes, Pcs
  <2>3. Others(r)
    BY <1>1, <1>2, <2>2 DEF Others, InvoiceTypes
  <2>4. QED
    BY <1>1, <1>2, <1>3, <2>1, <2>3 DEF Delivers, StepOf
<1>4. CASE Kind[r] # "finish"
  <2>1. UNCHANGED <<invoice, nextValue>>
    BY <1>4 DEF Commit, Booked
  <2>2. QED
    BY <1>1, <1>2, <1>4, <2>1, GotoWalks DEF Pcs
<1>5. QED
  BY <1>3, <1>4

\* Every step of the system is one of these, or an answer.
LEMMA NextIsStepOf ==
    ASSUME ConstantsAssumption, InvoiceTypes, PathInv, Next
    PROVE  \E r \in Request : StepOf(r) \/ Reply(r)
<1>1. PICK r \in Request : Step(r) \/ Abort(r)
  BY DEF Next
<1>2. CASE Abort(r)
  <2>1. pc[r] \notin {"reply", "done"} /\ Failed(r)
    BY <1>2 DEF Abort, HoldsCounter
  <2>2. QED
    BY <2>1, FailedFails
<1>3. CASE Step(r)
  BY <1>3, ConnectStep, ReadStatusStep, WriteStatusStep, LockAdvisoryStep, LockJobStep, LockStockStep,
     TakeNumberStep, LockSessionStep, UpdateJobStep, CommitStep DEF Step
<1>4. QED
  BY <1>1, <1>2, <1>3

-----------------------------------------------------------------------------
(* The invariant.                                                          *)

LEMMA InitEstablishes ==
    ASSUME ConstantsAssumption, Init
    PROVE  IInv
<1>1. \A r \in Request : pc[r] = "idle"
  BY DEF Init
<1>2. InvoiceTypes
  BY <1>1 DEF Init, InvoiceTypes, Pcs
<1>3. \A r \in Request : ~HoldsCounter(r) /\ OnPath(r)
  BY <1>1 DEF HoldsCounter, OnPath
<1>4. PathInv /\ CounterInv /\ UniqueInv
  BY <1>1, <1>3 DEF Init, PathInv, CounterInv, UniqueInv
<1>5. InvoicesAreUnique
  BY DEF Init, InvoicesAreUnique
<1>6. InvoicesRunWithoutGap
  <2>1. SUFFICES ASSUME NEW b \in Branch
                 PROVE  {number[r] : r \in Deliveries(b)} = 1..(nextValue[b] - 1)
    BY DEF InvoicesRunWithoutGap
  <2>2. {number[r] : r \in Deliveries(b)} = {}
    BY DEF Init, Deliveries
  <2>3. 1..(nextValue[b] - 1) = {}
    BY DEF Init
  <2>4. QED
    BY <2>2, <2>3
<1>7. QED
  BY <1>2, <1>4, <1>5, <1>6 DEF IInv

LEMMA TypesPreserved ==
    ASSUME InvoiceTypes, NEW r \in Request, StepOf(r)
    PROVE  InvoiceTypes'
<1>1. CASE Delivers(r)
  <2>1. applied' \in SUBSET Request /\ invoice' \in [Job -> Nat]
    BY <1>1 DEF Delivers, InvoiceTypes
  <2>2. number[r] + 1 \in Nat \ {0}
    BY DEF InvoiceTypes
  <2>3. nextValue' \in [Branch -> Nat \ {0}]
    BY <1>1, <2>2 DEF Delivers, InvoiceTypes
  <2>4. QED
    BY <1>1, <2>1, <2>3 DEF Delivers, Others, InvoiceTypes
<1>2. CASE Walks(r) \/ Takes(r) \/ Fails(r)
  BY <1>2 DEF Walks, Takes, Fails, Others, InvoiceTypes
<1>3. QED
  BY <1>1, <1>2 DEF StepOf

LEMMA HoldersAre ==
    ASSUME NEW r \in Request, Others(r)
    PROVE  \A q \in Request : q # r => HoldsCounter(q)' = HoldsCounter(q)
<1>1. TAKE q \in Request
<1>2. HAVE q # r
<1>3. pc'[q] = pc[q]
  BY <1>2 DEF Others
<1>4. QED
  BY <1>3 DEF HoldsCounter

LEMMA PathPreserved ==
    ASSUME InvoiceTypes, PathInv, NEW r \in Request, StepOf(r)
    PROVE  PathInv'
<1>1. Others(r)
  BY DEF StepOf, Walks, Takes, Fails, Delivers
<1>2. \A q \in Request : OnPath(q)'
  <2>1. TAKE q \in Request
  <2>2. CASE q = r
    BY <1>1, <2>2 DEF Others
  <2>3. CASE q # r
    <3>1. pc'[q] = pc[q] /\ HoldsCounter(q)' = HoldsCounter(q) /\ BranchHere(q)' = BranchHere(q)
      BY <1>1, <2>3, HoldersAre DEF Others, BranchHere
    <3>2. QED
      BY <3>1 DEF PathInv, OnPath
  <2>4. QED
    BY <2>2, <2>3
<1>3. applied' = applied \/ (applied' = applied \cup {r} /\ pc'[r] = "reply")
  BY DEF StepOf, Walks, Takes, Fails, Delivers
<1>4. \A q \in applied' : pc'[q] \in {"reply", "done"}
  BY <1>1, <1>3 DEF Others, PathInv, InvoiceTypes
<1>5. QED
  BY <1>2, <1>4 DEF PathInv

LEMMA UniquePreserved ==
    ASSUME ConstantsAssumption, InvoiceTypes, PathInv, UniqueInv, InvoicesAreUnique,
           NEW r \in Request, StepOf(r)
    PROVE  UniqueInv' /\ InvoicesAreUnique'
<1>1. Others(r)
  BY DEF StepOf, Walks, Takes, Fails, Delivers
<1>2. CASE Takes(r) \/ Fails(r)
  <2>1. UNCHANGED invoice /\ pc'[r] # "commit"
    BY <1>2 DEF Takes, Fails
  <2>2. \A q \in Request : pc'[q] = "commit" => pc[q] = "commit" /\ number'[q] = number[q]
    BY <1>1, <2>1 DEF Others
  <2>3. UniqueInv'
    BY <2>1, <2>2 DEF UniqueInv, SameInvoice
  <2>4. QED
    BY <2>1, <2>3 DEF InvoicesAreUnique
<1>3. CASE Walks(r)
  <2>1. UNCHANGED <<invoice, number>>
    BY <1>3 DEF Walks
  <2>2. \A q \in Request : pc'[q] = "commit" => q = r \/ pc[q] = "commit"
    BY <1>1 DEF Others
  <2>3. pc'[r] = "commit" /\ Kind[r] = "finish" =>
          /\ \A j \in Job \ {JobOf[r]} : invoice[j] # number[r]
          /\ \A q \in Request \ {r} : ~SameInvoice(r, q)
    BY <1>3 DEF Walks
  <2>4. \A p, q \in Request : pc'[p] = "commit" /\ Kind[p] = "finish" /\ SameInvoice(p, q)' => p = q
    BY <2>1, <2>2, <2>3 DEF UniqueInv, SameInvoice
  <2>5. \A q \in Request, j \in Job :
           pc'[q] = "commit" /\ Kind[q] = "finish" /\ j # JobOf[q] => invoice'[j] # number'[q]
    BY <2>1, <2>2, <2>3 DEF UniqueInv
  <2>6. QED
    BY <2>1, <2>4, <2>5 DEF UniqueInv, InvoicesAreUnique
<1>4. CASE Delivers(r)
  <2>1. /\ Kind[r] = "finish" /\ pc[r] = "commit" /\ pc'[r] = "reply" /\ number' = number
        /\ invoice' = [invoice EXCEPT ![JobOf[r]] = number[r]]
    BY <1>4 DEF Delivers
  <2>2. \A q \in Request : pc'[q] = "commit" => q # r /\ pc[q] = "commit"
    BY <1>1, <2>1 DEF Others
  <2>3. JobOf[r] \in Job
    BY DEF ConstantsAssumption
  <2>4. \A j \in Job : invoice'[j] = IF j = JobOf[r] THEN number[r] ELSE invoice[j]
    BY <2>1, <2>3 DEF InvoiceTypes
  <2>5. \A j \in Job : j # JobOf[r] => invoice[j] # number[r]
    BY <2>1 DEF UniqueInv
  <2>6. InvoicesAreUnique'
    BY <2>4, <2>5 DEF InvoicesAreUnique
  <2>7. \A q \in Request : pc'[q] = "commit" /\ Kind[q] = "finish" => number[q] # number[r]
    BY <2>1, <2>2 DEF UniqueInv, SameInvoice
  <2>8. \A q \in Request, j \in Job :
           pc'[q] = "commit" /\ Kind[q] = "finish" /\ j # JobOf[q] => invoice'[j] # number'[q]
    BY <2>1, <2>2, <2>4, <2>7 DEF UniqueInv
  <2>9. \A p, q \in Request : pc'[p] = "commit" /\ Kind[p] = "finish" /\ SameInvoice(p, q)' => p = q
    BY <2>1, <2>2 DEF UniqueInv, SameInvoice
  <2>10. QED
    BY <2>6, <2>8, <2>9 DEF UniqueInv
<1>5. QED
  BY <1>2, <1>3, <1>4 DEF StepOf

LEMMA OneMore ==
    ASSUME NEW n \in Nat \ {0}
    PROVE  (1..(n - 1)) \cup {n} = 1..((n + 1) - 1)
  OBVIOUS

\* A delivery that draws or gives back a number changes nothing of those that
\* are delivered.
LEMMA DeliveriesKeep ==
    ASSUME PathInv, InvoiceTypes, NEW r \in Request, Others(r), NEW b \in Branch,
           Deliveries(b)' = Deliveries(b)
    PROVE  {number'[q] : q \in Deliveries(b)'} = {number[q] : q \in Deliveries(b)}
<1>1. \A q \in Deliveries(b) : number'[q] = number[q]
  BY DEF Deliveries, Others, PathInv, InvoiceTypes
<1>2. ASSUME NEW n \in {number'[q] : q \in Deliveries(b)}
      PROVE  n \in {number[q] : q \in Deliveries(b)}
  <2>1. PICK q \in Deliveries(b) : n = number'[q]
    BY <1>2
  <2>2. QED
    BY <1>1, <2>1
<1>3. ASSUME NEW n \in {number[q] : q \in Deliveries(b)}
      PROVE  n \in {number'[q] : q \in Deliveries(b)}
  <2>1. PICK q \in Deliveries(b) : n = number[q]
    BY <1>3
  <2>2. n = number'[q]
    BY <1>1, <2>1
  <2>3. QED
    BY <2>1, <2>2
<1>4. {number'[q] : q \in Deliveries(b)} = {number[q] : q \in Deliveries(b)}
  BY <1>2, <1>3
<1>5. QED
  BY <1>4

LEMMA CounterPreserved ==
    ASSUME ConstantsAssumption, InvoiceTypes, PathInv, CounterInv, InvoicesRunWithoutGap,
           NEW r \in Request, StepOf(r)
    PROVE  CounterInv' /\ InvoicesRunWithoutGap'
<1>1. Others(r)
  BY DEF StepOf, Walks, Takes, Fails, Delivers
<1>2. \A q \in Request : q # r => HoldsCounter(q)' = HoldsCounter(q) /\ number'[q] = number[q]
  BY <1>1, HoldersAre DEF Others
<1>3. \A q \in Request : BranchHere(q)' = BranchHere(q)
  BY DEF BranchHere
<1>4. CASE ~Delivers(r)
  <2>1. UNCHANGED nextValue
    BY <1>4 DEF StepOf, Walks, Takes, Fails
  <2>2. HoldsCounter(r)' =>
          /\ \A q \in Request \ {r} : BranchHere(q) = BranchHere(r) => ~HoldsCounter(q)
          /\ number'[r] = nextValue[BranchHere(r)]
    <3>1. CASE Walks(r)
      BY <3>1 DEF Walks, CounterInv
    <3>2. CASE Takes(r)
      BY <3>2 DEF Takes
    <3>3. CASE Fails(r)
      BY <3>3 DEF Fails, HoldsCounter
    <3>4. QED
      BY <1>4, <3>1, <3>2, <3>3 DEF StepOf
  <2>3. CounterInv'
    BY <1>2, <1>3, <2>1, <2>2 DEF CounterInv
  <2>4. ASSUME NEW b \in Branch
        PROVE  {number'[q] : q \in Deliveries(b)'} = 1..(nextValue'[b] - 1)
    <3>1. Deliveries(b)' = Deliveries(b)
      BY <1>4 DEF StepOf, Walks, Takes, Fails, Deliveries
    <3>2. {number'[q] : q \in Deliveries(b)'} = {number[q] : q \in Deliveries(b)}
      BY <1>1, <3>1, DeliveriesKeep
    <3>3. QED
      BY <2>1, <3>2 DEF InvoicesRunWithoutGap
  <2>5. InvoicesRunWithoutGap'
    BY <2>4 DEF InvoicesRunWithoutGap
  <2>6. QED
    BY <2>3, <2>5
<1>5. CASE Delivers(r)
  <2>1. /\ Kind[r] = "finish" /\ pc[r] = "commit" /\ pc'[r] = "reply" /\ number' = number
        /\ applied' = applied \cup {r}
        /\ nextValue' = [nextValue EXCEPT ![BranchHere(r)] = number[r] + 1]
    BY <1>5 DEF Delivers
  <2>2. HoldsCounter(r) /\ BranchHere(r) \in Branch /\ number[r] = nextValue[BranchHere(r)]
    BY <2>1 DEF HoldsCounter, PathInv, OnPath, CounterInv
  <2>3. ~HoldsCounter(r)'
    BY <2>1 DEF HoldsCounter
  <2>4. \A b \in Branch : nextValue'[b] = IF b = BranchHere(r) THEN number[r] + 1 ELSE nextValue[b]
    BY <2>1 DEF InvoiceTypes
  <2>5. \A q \in Request : HoldsCounter(q)' =>
           HoldsCounter(q) /\ BranchHere(q) \in Branch /\ BranchHere(q) # BranchHere(r)
    BY <1>2, <2>2, <2>3 DEF CounterInv, PathInv, OnPath
  <2>6. CounterInv'
    BY <1>3, <2>1, <2>4, <2>5 DEF CounterInv
  <2>7. ASSUME NEW b \in Branch
        PROVE  {number'[q] : q \in Deliveries(b)'} = 1..(nextValue'[b] - 1)
    <3>1. {number[q] : q \in Deliveries(b)} = 1..(nextValue[b] - 1)
      BY DEF InvoicesRunWithoutGap
    <3>2. CASE b # BranchHere(r)
      <4>1. Deliveries(b)' = Deliveries(b)
        BY <2>1, <3>2 DEF Deliveries, BranchHere
      <4>2. QED
        BY <2>1, <2>4, <3>1, <3>2, <4>1
    <3>3. CASE b = BranchHere(r)
      <4>1. Deliveries(b)' = Deliveries(b) \cup {r}
        BY <2>1, <3>3 DEF Deliveries, BranchHere
      <4>2. {number'[q] : q \in Deliveries(b)'} =
               {number[q] : q \in Deliveries(b)} \cup {number[r]}
        BY <2>1, <4>1
      <4>3. nextValue[b] \in Nat \ {0} /\ number[r] = nextValue[b] /\ nextValue'[b] = nextValue[b] + 1
        BY <2>2, <2>4, <3>3 DEF InvoiceTypes
      <4>4. QED
        BY <3>1, <4>2, <4>3, OneMore
    <3>4. QED
      BY <3>2, <3>3
  <2>8. InvoicesRunWithoutGap'
    BY <2>7 DEF InvoicesRunWithoutGap
  <2>9. QED
    BY <2>6, <2>8
<1>6. QED
  BY <1>4, <1>5

\* An answer changes nothing but the place of the request.
LEMMA ReplyMoves ==
    ASSUME InvoiceTypes, NEW r \in Request, Reply(r)
    PROVE  /\ pc' \in [Request -> Pcs] /\ UNCHANGED <<number, due, central>>
           /\ pc[r] = "reply" /\ pc'[r] = "done" /\ \A q \in Request : q # r => pc'[q] = pc[q]
  BY DEF Reply, Goto, InvoiceTypes, Pcs

LEMMA ReplyKeeps ==
    ASSUME IInv, NEW r \in Request, Reply(r)
    PROVE  IInv'
<1> USE DEF IInv
<1>1. /\ pc' \in [Request -> Pcs] /\ UNCHANGED <<number, applied, invoice, nextValue>>
      /\ pc[r] = "reply" /\ pc'[r] = "done" /\ \A q \in Request : q # r => pc'[q] = pc[q]
  BY ReplyMoves DEF central
<1>2. \A q \in Request : HoldsCounter(q)' = HoldsCounter(q) /\ BranchHere(q)' = BranchHere(q)
  BY <1>1 DEF HoldsCounter, BranchHere
<1>3. \A q \in Request : pc'[q] = "commit" <=> pc[q] = "commit"
  BY <1>1
<1>4. \A q \in Request : OnPath(q)'
  BY <1>1, <1>2 DEF PathInv, OnPath
<1>5. \A q \in applied : pc'[q] \in {"reply", "done"}
  BY <1>1 DEF PathInv, InvoiceTypes
<1>6. InvoiceTypes' /\ PathInv'
  BY <1>1, <1>4, <1>5 DEF InvoiceTypes, PathInv
<1>7. CounterInv'
  BY <1>1, <1>2 DEF CounterInv
<1>8. UniqueInv'
  BY <1>1, <1>3 DEF UniqueInv, SameInvoice
<1>9. InvoicesAreUnique' /\ InvoicesRunWithoutGap'
  BY <1>1 DEF InvoicesAreUnique, InvoicesRunWithoutGap, Deliveries
<1>10. QED
  BY <1>6, <1>7, <1>8, <1>9

LEMMA StepKeeps ==
    ASSUME ConstantsAssumption, IInv, NEW r \in Request, StepOf(r)
    PROVE  IInv'
<1>1. InvoiceTypes' /\ PathInv'
  BY TypesPreserved, PathPreserved DEF IInv
<1>2. CounterInv' /\ InvoicesRunWithoutGap'
  BY CounterPreserved DEF IInv
<1>3. UniqueInv' /\ InvoicesAreUnique'
  BY UniquePreserved DEF IInv
<1>4. QED
  BY <1>1, <1>2, <1>3 DEF IInv

LEMMA NextPreserves ==
    ASSUME ConstantsAssumption, IInv, [Next]_vars
    PROVE  IInv'
<1>1. CASE Next
  <2>1. PICK r \in Request : StepOf(r) \/ Reply(r)
    BY <1>1, NextIsStepOf DEF IInv
  <2>2. QED
    BY <2>1, StepKeeps, ReplyKeeps
<1>2. CASE UNCHANGED vars
  <2> USE <1>2 DEF vars, request, central, IInv
  <2>1. InvoiceTypes' /\ PathInv'
    BY DEF InvoiceTypes, PathInv, OnPath, HoldsCounter, BranchHere
  <2>2. CounterInv' /\ UniqueInv' /\ InvoicesAreUnique'
    BY DEF CounterInv, HoldsCounter, BranchHere, UniqueInv, SameInvoice, InvoicesAreUnique
  <2>3. InvoicesRunWithoutGap'
    BY DEF InvoicesRunWithoutGap, Deliveries
  <2>4. QED
    BY <2>1, <2>2, <2>3
<1>3. QED
  BY <1>1, <1>2

-----------------------------------------------------------------------------
(* Sums. SumFunctionOnSet is a recursion over the subsets of a set, for    *)
(* which the library has no theorem: that there is a function that obeys   *)
(* it, and only one, follows by induction on the size of the subsets, and  *)
(* so does that the order of the elements does not matter.                 *)

\* Induction over the natural numbers, for a set.
LEMMA SetInduction ==
    ASSUME NEW M, 0 \in M, \A n \in M \cap Nat : n + 1 \in M
    PROVE  Nat \subseteq M
<1>1. SUFFICES ASSUME Nat \ M # {}
               PROVE  FALSE
  OBVIOUS
<1>2. PICK n \in Nat \ M : \A m \in Nat \ M : <<m, n>> \notin OpToRel(<, Nat)
  BY <1>1, NatLessThanWellFounded, WFMin
<1>3. \A m \in Nat \ M : ~(m < n)
  BY <1>2 DEF OpToRel
<1>4. n \in Nat /\ n # 0 /\ n - 1 \in Nat /\ n - 1 \in M
  BY <1>3
<1>5. (n - 1) + 1 \in M
  BY <1>4
<1>6. QED
  BY <1>4, <1>5

Pick(s) == CHOOSE x \in s : TRUE

\* The recursion behind a sum: g adds up f over the subsets of S.
Adds(g, f, S) ==
    g = [s \in SUBSET S |-> IF s = {} THEN 0 ELSE f[Pick(s)] + g[s \ {Pick(s)}]]

\* In whatever order the elements are taken.
AddsUp(g, f, D) ==
    /\ g \in [D -> Int]
    /\ \A s \in D : s = {} => g[s] = 0
    /\ \A s \in D : \A x \in s : g[s] = f[x] + g[s \ {x}]

\* SumFunctionOnSet takes its elements in the order of a CHOOSE.
LEMMA SumIsChosen ==
    ASSUME NEW f, NEW S
    PROVE  SumFunctionOnSet(f, S) = (CHOOSE g : Adds(g, f, S))[S]
  BY DEF SumFunctionOnSet, FoldFunctionOnSet, MapThenFoldSet, Adds, Pick

\* The subsets of S with at most n elements.
Small(S, n) == {s \in SUBSET S : Cardinality(s) <= n}

LEMMA SmallSets ==
    ASSUME NEW S, IsFiniteSet(S), NEW n \in Nat
    PROVE  /\ Small(S, 0) = {{}}
           /\ \A s \in Small(S, n + 1) : \A x \in s : s \ {x} \in Small(S, n)
           /\ Small(S, n) \subseteq Small(S, n + 1)
           /\ Small(S, Cardinality(S)) = SUBSET S
<1>1. \A s \in SUBSET S : IsFiniteSet(s) /\ Cardinality(s) \in Nat /\ Cardinality(s) <= Cardinality(S)
  BY FS_Subset, FS_CardinalityType
<1>2. Small(S, 0) = {{}}
  BY <1>1, FS_EmptySet DEF Small
<1>3. \A s \in Small(S, n + 1) : \A x \in s : s \ {x} \in Small(S, n)
  <2>1. SUFFICES ASSUME NEW s \in Small(S, n + 1), NEW x \in s
                 PROVE  s \ {x} \in Small(S, n)
    OBVIOUS
  <2>2. s \in SUBSET S /\ IsFiniteSet(s) /\ Cardinality(s) \in Nat /\ Cardinality(s) <= n + 1
    BY <1>1 DEF Small
  <2>3. Cardinality(s \ {x}) = Cardinality(s) - 1
    BY <2>2, FS_RemoveElement
  <2>4. QED
    BY <2>2, <2>3 DEF Small
<1>4. Small(S, n) \subseteq Small(S, n + 1)
  BY <1>1 DEF Small
<1>5. Small(S, Cardinality(S)) = SUBSET S
  BY <1>1 DEF Small
<1>6. QED
  BY <1>2, <1>3, <1>4, <1>5

LEMMA AdderExists ==
    ASSUME NEW S, IsFiniteSet(S), NEW f, \A x \in S : f[x] \in Int
    PROVE  \E g : AddsUp(g, f, SUBSET S)
<1> DEFINE M == {n \in Nat : \E g : AddsUp(g, f, Small(S, n))}
<1>1. 0 \in M
  <2>1. AddsUp([s \in {{}} |-> 0], f, {{}})
    BY DEF AddsUp
  <2>2. QED
    BY <2>1, SmallSets
<1>2. ASSUME NEW n \in M
      PROVE  n + 1 \in M
  <2>1. PICK g : AddsUp(g, f, Small(S, n))
    OBVIOUS
  <2> DEFINE h == [s \in Small(S, n + 1) |-> IF s = {} THEN 0 ELSE f[Pick(s)] + g[s \ {Pick(s)}]]
  <2>2. \A s \in Small(S, n + 1) : s # {} => Pick(s) \in s
    BY DEF Pick
  <2>3. \A s \in Small(S, n + 1) : \A x \in s : s \ {x} \in Small(S, n) /\ x \in S
    BY SmallSets DEF Small
  <2>4. h \in [Small(S, n + 1) -> Int]
    BY <2>1, <2>2, <2>3 DEF AddsUp
  <2>5. \A s \in Small(S, n) : h[s] = g[s]
    BY <2>1, <2>2, SmallSets DEF AddsUp
  <2>6. ASSUME NEW s \in Small(S, n + 1), NEW x \in s
        PROVE  h[s] = f[x] + h[s \ {x}]
    <3> DEFINE y == Pick(s)
    <3>1. y \in s /\ h[s] = f[y] + g[s \ {y}] /\ h[s \ {x}] = g[s \ {x}]
      BY <2>2, <2>3, <2>5
    <3>2. CASE x = y
      BY <3>1, <3>2
    <3>3. CASE x # y
      <4>1. g[s \ {y}] = f[x] + g[(s \ {y}) \ {x}] /\ g[s \ {x}] = f[y] + g[(s \ {x}) \ {y}]
        BY <2>1, <2>3, <3>1, <3>3 DEF AddsUp
      <4>2. (s \ {x}) \ {y} = (s \ {y}) \ {x}
        OBVIOUS
      <4>3. (s \ {y}) \ {x} \in Small(S, n)
        BY <2>3, <3>1, <3>3, SmallSets
      <4>4. PICK rest \in Int : rest = g[(s \ {y}) \ {x}]
        BY <2>1, <4>3 DEF AddsUp
      <4>5. f[x] \in Int /\ f[y] \in Int
        BY <2>3, <3>1
      <4>6. h[s] = f[y] + (f[x] + rest)
        BY <3>1, <4>1, <4>4
      <4>7. h[s \ {x}] = f[y] + rest
        BY <3>1, <4>1, <4>2, <4>4
      <4>8. QED
        BY <4>4, <4>5, <4>6, <4>7
    <3>4. QED
      BY <3>2, <3>3
  <2>7. AddsUp(h, f, Small(S, n + 1))
    BY <2>4, <2>6 DEF AddsUp
  <2>8. QED
    BY <2>7
<1>3. Cardinality(S) \in Nat /\ Small(S, Cardinality(S)) = SUBSET S
  BY FS_CardinalityType, SmallSets
<1>4. Cardinality(S) \in M
  <2> HIDE DEF M
  <2>1. QED
    BY <1>1, <1>2, <1>3, SetInduction
<1>5. QED
  BY <1>3, <1>4

\* Whatever satisfies the recursion on the subsets of T is a part of it.
LEMMA AdderUnique ==
    ASSUME NEW S, IsFiniteSet(S), NEW f, NEW g, AddsUp(g, f, SUBSET S),
           NEW T \in SUBSET S, NEW h, Adds(h, f, T)
    PROVE  h[T] = g[T]
<1> DEFINE M == {n \in Nat : \A s \in Small(T, n) : h[s] = g[s]}
<1>0. IsFiniteSet(T)
  BY FS_Subset
<1>1. 0 \in M
  BY <1>0, SmallSets DEF Adds, AddsUp
<1>2. ASSUME NEW n \in M
      PROVE  n + 1 \in M
  <2>1. SUFFICES ASSUME NEW s \in Small(T, n + 1)
                 PROVE  h[s] = g[s]
    OBVIOUS
  <2>2. s \in SUBSET T /\ s \in SUBSET S
    BY DEF Small
  <2>3. CASE s = {}
    BY <2>2, <2>3 DEF Adds, AddsUp
  <2>4. CASE s # {}
    <3>1. Pick(s) \in s
      BY <2>4 DEF Pick
    <3>2. h[s] = f[Pick(s)] + h[s \ {Pick(s)}]
      BY <2>2, <2>4 DEF Adds
    <3>3. h[s \ {Pick(s)}] = g[s \ {Pick(s)}]
      BY <1>0, <3>1, SmallSets
    <3>4. QED
      BY <2>2, <3>1, <3>2, <3>3 DEF AddsUp
  <2>5. QED
    BY <2>3, <2>4
<1>3. Cardinality(T) \in Nat /\ T \in Small(T, Cardinality(T))
  BY <1>0, FS_CardinalityType, SmallSets
<1>4. Cardinality(T) \in M
  <2> HIDE DEF M
  <2>1. QED
    BY <1>1, <1>2, <1>3, SetInduction
<1>5. QED
  BY <1>3, <1>4

LEMMA SumIsAdder ==
    ASSUME NEW S, IsFiniteSet(S), NEW f, NEW g, AddsUp(g, f, SUBSET S), NEW T \in SUBSET S
    PROVE  SumFunctionOnSet(f, T) = g[T]
<1> DEFINE h == [s \in SUBSET T |-> g[s]]
<1>1. Adds(h, f, T)
  <2>1. ASSUME NEW s \in SUBSET T
        PROVE  h[s] = IF s = {} THEN 0 ELSE f[Pick(s)] + h[s \ {Pick(s)}]
    <3>1. CASE s = {}
      BY <3>1 DEF AddsUp
    <3>2. CASE s # {}
      <4>1. Pick(s) \in s
        BY <3>2 DEF Pick
      <4>2. QED
        BY <3>2, <4>1 DEF AddsUp
    <3>3. QED
      BY <3>1, <3>2
  <2>2. QED
    BY <2>1 DEF Adds
<1>2. Adds(CHOOSE k : Adds(k, f, T), f, T)
  BY <1>1
<1>3. QED
  BY <1>2, AdderUnique, SumIsChosen

\* What a sum is: zero of nothing, and one more with every element.
LEMMA SumFacts ==
    ASSUME NEW S, IsFiniteSet(S), NEW f, \A x \in S : f[x] \in Int
    PROVE  /\ SumFunctionOnSet(f, {}) = 0
           /\ SumFunctionOnSet(f, S) \in Int
           /\ \A x \in S : SumFunctionOnSet(f, S) = f[x] + SumFunctionOnSet(f, S \ {x})
<1>1. PICK g : AddsUp(g, f, SUBSET S)
  BY AdderExists
<1>2. \A T \in SUBSET S : SumFunctionOnSet(f, T) = g[T]
  BY <1>1, SumIsAdder
<1>3. QED
  BY <1>1, <1>2 DEF AddsUp

LEMMA SumAdd ==
    ASSUME NEW S, IsFiniteSet(S), NEW f, NEW x, x \notin S, f[x] \in Int, \A y \in S : f[y] \in Int
    PROVE  /\ IsFiniteSet(S \cup {x})
           /\ SumFunctionOnSet(f, S) \in Int
           /\ SumFunctionOnSet(f, S \cup {x}) = f[x] + SumFunctionOnSet(f, S)
<1>1. IsFiniteSet(S \cup {x}) /\ (S \cup {x}) \ {x} = S
  BY FS_AddElement
<1>2. \A y \in S \cup {x} : f[y] \in Int
  OBVIOUS
<1>3. QED
  BY <1>1, <1>2, SumFacts

-----------------------------------------------------------------------------
(* The desk: who holds a job keeps its parts, its payments and its status, *)
(* so that what a delivery has found outstanding is still so when it       *)
(* commits, and a part is removed once.                                    *)

\* The rest of TypeOK.
DeskTypes ==
    /\ due \in [Request -> Int]
    /\ status \in [Job -> {"none", "open", "Delivered"}]
    /\ settlement \in [Job -> {"UNPAID", "PAID", "CREDIT"}]
    /\ extra \in [Job -> Int]
    /\ parts \in SUBSET Of("part")
    /\ stock \in [StockRow -> Nat]

\* Where a booking, a change of status and the stock of a part can be.
OnDesk(r) ==
    /\ Kind[r] = "status" => pc[r] \in {"idle", "read", "again", "write", "reply", "done"}
    /\ Kind[r] = "book" => pc[r] \in {"idle", "advisory", "session", "commit", "reply", "done"}
    /\ pc[r] = "stock" => RowOf[r] # None
    /\ pc[r] = "session" => Kind[r] \in {"book", "pay", "finish"}

JobInv ==
    /\ \A r \in Request : OnDesk(r)
    /\ \A r, q \in Request : HoldsJob(r) /\ HoldsJob(q) /\ JobOf[q] = JobOf[r] => q = r
    /\ \A r \in Request : HoldsJob(r) =>
          status[JobOf[r]] = "open" /\ (Kind[r] = "unpart" => PartOf[r] \in parts)
    /\ \A r \in Request : pc[r] \in {"again", "write"} => status[JobOf[r]] # "none"
    /\ \A r \in Of("book") : r \notin applied => status[JobOf[r]] = "none"
    /\ IsFiniteSet(applied) /\ parts \subseteq applied

StockInv ==
    /\ \A r, q \in Request : HoldsStock(r) /\ HoldsStock(q) /\ RowOf[q] = RowOf[r] => q = r
    /\ \A r \in Of("part") : HoldsStock(r) => Qty[r] <= stock[RowOf[r]]
    /\ PartsComeFromStock

Outstanding(r) == Charges(JobOf[r]) + ExtraOf(r) - Paid(JobOf[r]) - Amount[r]

MoneyInv ==
    /\ \A r \in Request : HoldsCounter(r) => due[r] = Outstanding(r)
    /\ \A r \in Of("finish") : pc[r] = "commit" /\ JobOf[r] \in WalkIn => due[r] <= 0
    /\ SettlementIsTrue

HistoryInv ==
    Of("status") \cap applied = {} =>
        \A r \in applied : Kind[r] = "finish" =>
            status[JobOf[r]] = "Delivered" /\ invoice[JobOf[r]] = number[r]

DeskInv == DeskTypes /\ JobInv /\ StockInv /\ MoneyInv /\ HistoryInv

\* Nobody but r moves, and nothing is committed.
Alone(r) ==
    /\ pc' \in [Request -> Pcs] /\ due' \in [Request -> Int]
    /\ pc[r] \notin {"reply", "done"} /\ OnDesk(r)'
    /\ \A q \in Request : q # r => pc'[q] = pc[q] /\ due'[q] = due[q] /\ number'[q] = number[q]

\* r takes a lock, reads or fails.
Calm(r) ==
    /\ Alone(r) /\ UNCHANGED central
    /\ HoldsJob(r)' => \/ HoldsJob(r)
                       \/ /\ Workable(r)
                          /\ \A q \in Request \ {r} : JobOf[q] = JobOf[r] => ~HoldsJob(q)
    /\ HoldsStock(r)' => /\ \A q \in Request \ {r} : RowOf[q] = RowOf[r] => ~HoldsStock(q)
                         /\ Kind[r] = "part" => Qty[r] <= stock[RowOf[r]]
    /\ HoldsCounter(r)' => due'[r] = Outstanding(r)
    /\ pc'[r] = "commit" /\ Kind[r] = "finish" /\ JobOf[r] \in WalkIn => due'[r] <= 0
    /\ pc'[r] \in {"again", "write"} => status[JobOf[r]] # "none"

\* r changes the status of its job, which nobody holds.
Opens(r) ==
    /\ Alone(r) /\ UNCHANGED <<number, settlement, extra, invoice, parts, stock, nextValue>>
    /\ Kind[r] = "status" /\ pc[r] = "write" /\ pc'[r] = "reply"
    /\ \A q \in Request \ {r} : JobOf[q] = JobOf[r] => ~HoldsJob(q)
    /\ applied' = applied \cup {r}
    /\ status' = [status EXCEPT ![JobOf[r]] = "open"]

DeskStep(r) == Calm(r) \/ Opens(r) \/ (Alone(r) /\ Commit(r))

LEMMA FailedCalm ==
    ASSUME InvoiceTypes, DeskTypes, NEW r \in Request, pc[r] \notin {"reply", "done"}, Failed(r)
    PROVE  DeskStep(r)
<1>1. /\ pc' = [pc EXCEPT ![r] = "done"] /\ due' = [due EXCEPT ![r] = 0]
      /\ number' = [number EXCEPT ![r] = 0] /\ UNCHANGED central
  BY DEF Failed, Goto
<1>2. /\ pc' \in [Request -> Pcs] /\ pc'[r] = "done" /\ due' \in [Request -> Int]
      /\ \A q \in Request : q # r => pc'[q] = pc[q] /\ due'[q] = due[q] /\ number'[q] = number[q]
  BY <1>1 DEF InvoiceTypes, DeskTypes, Pcs
<1>3. Alone(r)
  BY <1>2 DEF Alone, OnDesk
<1>4. ~HoldsJob(r)' /\ ~HoldsStock(r)' /\ ~HoldsCounter(r)'
  BY <1>2 DEF HoldsJob, HoldsStock, HoldsCounter, AfterJob
<1>5. QED
  BY <1>1, <1>2, <1>3, <1>4 DEF Calm, DeskStep

\* A step of r that only goes on.
LEMMA GotoCalm ==
    ASSUME InvoiceTypes, DeskTypes, MoneyInv, NEW r \in Request, NEW step \in Pcs,
           pc[r] \notin {"reply", "done"}, Goto(r, step), UNCHANGED <<number, due, central>>,
           pc'[r] = step =>
              /\ OnDesk(r)' /\ (HoldsCounter(r)' => HoldsCounter(r))
              /\ HoldsJob(r)' => \/ HoldsJob(r)
                                 \/ /\ Workable(r)
                                    /\ \A q \in Request \ {r} : JobOf[q] = JobOf[r] => ~HoldsJob(q)
              /\ HoldsStock(r)' => /\ \A q \in Request \ {r} : RowOf[q] = RowOf[r] => ~HoldsStock(q)
                                   /\ Kind[r] = "part" => Qty[r] <= stock[RowOf[r]],
           step = "commit" /\ Kind[r] = "finish" /\ JobOf[r] \in WalkIn => due[r] <= 0,
           step \in {"again", "write"} => status[JobOf[r]] # "none"
    PROVE  DeskStep(r)
<1>1. pc' \in [Request -> Pcs] /\ pc'[r] = step /\ \A q \in Request : q # r => pc'[q] = pc[q]
  BY DEF InvoiceTypes, Goto
<1>2. Alone(r)
  BY <1>1 DEF Alone, DeskTypes
<1>3. HoldsCounter(r)' => due'[r] = Outstanding(r)
  BY <1>1 DEF MoneyInv
<1>4. QED
  BY <1>1, <1>2, <1>3 DEF Calm, DeskStep

LEMMA ConnectDesk ==
    ASSUME IInv, DeskInv, NEW r \in Request, Connect(r)
    PROVE  DeskStep(r)
<1> USE DEF IInv, DeskInv
<1>1. PICK step \in {"advisory", "read", "job", "write"} :
        /\ Goto(r, step) /\ pc[r] \in {"idle", "again"}
        /\ Kind[r] = "status" <=> step \in {"read", "write"}
        /\ Kind[r] = "book" => step = "advisory"
        /\ step = "write" => status[JobOf[r]] # "none"
        /\ UNCHANGED <<number, due, central>>
  <2>1. CASE pc[r] = "idle"
    BY <2>1 DEF Connect, FirstStatement
  <2>2. CASE pc[r] = "again"
    BY <2>2 DEF Connect, PathInv, OnPath, JobInv
  <2>3. QED
    BY <2>1, <2>2 DEF Connect
<1>2. pc'[r] = step => OnDesk(r)' /\ ~HoldsCounter(r)' /\ ~HoldsJob(r)' /\ ~HoldsStock(r)'
  BY <1>1 DEF OnDesk, HoldsCounter, HoldsJob, HoldsStock, AfterJob
<1>3. QED
  BY <1>1, <1>2, GotoCalm DEF Pcs

LEMMA ReadStatusDesk ==
    ASSUME IInv, DeskInv, NEW r \in Request, ReadStatus(r)
    PROVE  DeskStep(r)
<1> USE DEF IInv, DeskInv
<1>1. pc[r] = "read" /\ Kind[r] = "status"
  BY DEF ReadStatus, PathInv, OnPath
<1>2. CASE status[JobOf[r]] = "open"
  <2>1. Goto(r, "again") /\ UNCHANGED <<number, due, central>>
    BY <1>2 DEF ReadStatus
  <2>2. pc'[r] = "again" => OnDesk(r)' /\ ~HoldsCounter(r)' /\ ~HoldsJob(r)' /\ ~HoldsStock(r)'
    BY <1>1 DEF OnDesk, HoldsCounter, HoldsJob, HoldsStock, AfterJob
  <2>3. QED
    BY <1>1, <1>2, <2>1, <2>2, GotoCalm DEF Pcs
<1>3. CASE status[JobOf[r]] # "open"
  BY <1>1, <1>3, FailedCalm DEF ReadStatus
<1>4. QED
  BY <1>2, <1>3

LEMMA WriteStatusDesk ==
    ASSUME IInv, DeskInv, NEW r \in Request, WriteStatus(r)
    PROVE  DeskStep(r)
<1> USE DEF IInv, DeskInv
<1>1. /\ pc[r] = "write" /\ Kind[r] = "status" /\ Free(r) /\ pc' = [pc EXCEPT ![r] = "reply"]
      /\ applied' = applied \cup {r} /\ status' = [status EXCEPT ![JobOf[r]] = "open"]
      /\ UNCHANGED <<number, due, settlement, extra, invoice, parts, stock, nextValue>>
  BY DEF WriteStatus, PathInv, OnPath, Goto
<1>2. \A q \in Request \ {r} : JobOf[q] = JobOf[r] => ~HoldsJob(q)
  BY <1>1 DEF Free, WaitsFor
<1>3. /\ pc' \in [Request -> Pcs] /\ pc'[r] = "reply"
      /\ \A q \in Request : q # r => pc'[q] = pc[q]
  BY <1>1 DEF InvoiceTypes, Pcs
<1>4. Alone(r)
  BY <1>1, <1>3 DEF Alone, DeskTypes, OnDesk
<1>5. QED
  BY <1>1, <1>2, <1>3, <1>4 DEF Opens, DeskStep

LEMMA LockAdvisoryDesk ==
    ASSUME IInv, DeskInv, NEW r \in Request, LockAdvisory(r)
    PROVE  DeskStep(r)
<1> USE DEF IInv, DeskInv
<1>1. PICK step \in {"job", "session", "commit"} :
        /\ Goto(r, step) /\ (step = "job" <=> Kind[r] = "finish")
        /\ pc[r] = "advisory" /\ UNCHANGED <<number, due, central>>
  BY DEF LockAdvisory
<1>2. Kind[r] \in {"book", "finish"}
  BY <1>1 DEF PathInv, OnPath
<1>3. pc'[r] = step => OnDesk(r)' /\ ~HoldsCounter(r)' /\ ~HoldsJob(r)' /\ ~HoldsStock(r)'
  BY <1>1, <1>2 DEF OnDesk, HoldsCounter, HoldsJob, HoldsStock, AfterJob
<1>4. QED
  BY <1>1, <1>3, GotoCalm DEF Pcs

LEMMA LockJobDesk ==
    ASSUME ConstantsAssumption, IInv, DeskInv, NEW r \in Request, LockJob(r)
    PROVE  DeskStep(r)
<1> USE DEF IInv, DeskInv
<1>1. pc[r] = "job" /\ Free(r)
  BY DEF LockJob
<1>2. Kind[r] \notin {"book", "status"} /\ Kind[r] \in Kinds
  BY <1>1 DEF JobInv, OnDesk, ConstantsAssumption
<1>3. \A q \in Request \ {r} : JobOf[q] = JobOf[r] => ~HoldsJob(q)
  BY <1>1 DEF Free, WaitsFor
<1>4. CASE Workable(r)
  <2>1. PICK step \in {"counter", "stock", "session", "commit"} :
          /\ Goto(r, step) /\ (step = "counter" <=> Kind[r] = "finish")
          /\ Kind[r] \in {"part", "unpart"} /\ RowOf[r] # None <=> step = "stock"
          /\ step = "session" => Kind[r] = "pay"
          /\ UNCHANGED <<number, due, central>>
    BY <1>4 DEF LockJob
  <2>2. pc'[r] = step => OnDesk(r)' /\ ~HoldsCounter(r)' /\ ~HoldsStock(r)'
    BY <1>2, <2>1 DEF OnDesk, HoldsCounter, HoldsStock
  <2>3. QED
    BY <1>1, <1>3, <1>4, <2>1, <2>2, GotoCalm DEF Pcs
<1>5. CASE ~Workable(r)
  BY <1>1, <1>5, FailedCalm DEF LockJob
<1>6. QED
  BY <1>4, <1>5

LEMMA LockStockDesk ==
    ASSUME IInv, DeskInv, NEW r \in Request, LockStock(r)
    PROVE  DeskStep(r)
<1> USE DEF IInv, DeskInv
<1>1. pc[r] = "stock" /\ Free(r) /\ Kind[r] \in {"part", "unpart"}
  BY DEF LockStock, PathInv, OnPath
<1>2. CASE Failed(r)
  BY <1>1, <1>2, FailedCalm
<1>3. CASE /\ Kind[r] = "part" => Qty[r] <= stock[RowOf[r]]
           /\ Goto(r, "commit") /\ UNCHANGED <<number, due, central>>
  <2>1. \A q \in Request \ {r} : RowOf[q] = RowOf[r] => ~HoldsStock(q)
    BY <1>1 DEF Free, WaitsFor
  <2>2. HoldsJob(r)
    BY <1>1 DEF HoldsJob, AfterJob
  <2>3. pc'[r] = "commit" => OnDesk(r)' /\ ~HoldsCounter(r)'
    BY <1>1 DEF OnDesk, HoldsCounter
  <2>4. QED
    BY <1>1, <1>3, <2>1, <2>2, <2>3, GotoCalm DEF Pcs
<1>4. QED
  BY <1>2, <1>3 DEF LockStock

LEMMA LockSessionDesk ==
    ASSUME IInv, DeskInv, NEW r \in Request, LockSession(r)
    PROVE  DeskStep(r)
<1> USE DEF IInv, DeskInv
<1>1. pc[r] = "session" /\ Kind[r] \in {"book", "pay", "finish"}
  BY DEF LockSession, JobInv, OnDesk
<1>2. CASE Failed(r)
  BY <1>1, <1>2, FailedCalm
<1>3. CASE /\ Goto(r, IF Kind[r] = "finish" THEN "update" ELSE "commit")
           /\ UNCHANGED <<number, due, central>>
  <2>1. PICK step \in {"update", "commit"} :
          Goto(r, step) /\ (step = "update" <=> Kind[r] = "finish")
    BY <1>3
  <2>2. pc'[r] = step => /\ OnDesk(r)' /\ ~HoldsStock(r)'
                         /\ (HoldsJob(r)' => HoldsJob(r)) /\ (HoldsCounter(r)' => HoldsCounter(r))
    BY <1>1, <2>1 DEF OnDesk, HoldsStock, HoldsJob, HoldsCounter, AfterJob
  <2>3. QED
    BY <1>1, <1>3, <2>1, <2>2, GotoCalm DEF Pcs
<1>4. QED
  BY <1>2, <1>3 DEF LockSession

LEMMA UpdateJobDesk ==
    ASSUME IInv, DeskInv, NEW r \in Request, UpdateJob(r)
    PROVE  DeskStep(r)
<1> USE DEF IInv, DeskInv
<1>1. pc[r] = "update" /\ Kind[r] = "finish" /\ due[r] \in Int
  BY DEF UpdateJob, PathInv, OnPath, DeskTypes
<1>2. CASE Failed(r)
  BY <1>1, <1>2, FailedCalm
<1>3. CASE /\ ~(JobOf[r] \in WalkIn /\ due[r] > 0)
           /\ Goto(r, "commit") /\ UNCHANGED <<number, due, central>>
  <2>1. HoldsJob(r) /\ HoldsCounter(r)
    BY <1>1 DEF HoldsJob, HoldsCounter, AfterJob
  <2>2. JobOf[r] \in WalkIn => due[r] <= 0
    BY <1>1, <1>3
  <2>3. pc'[r] = "commit" => OnDesk(r)' /\ ~HoldsStock(r)'
    BY <1>1 DEF OnDesk, HoldsStock
  <2>4. QED
    BY <1>1, <1>3, <2>1, <2>2, <2>3, GotoCalm DEF Pcs
<1>4. QED
  BY <1>2, <1>3 DEF UpdateJob

LEMMA MoneyTypes ==
    ASSUME ConstantsAssumption, IInv, DeskInv
    PROVE  /\ \A j \in Job : Paid(j) \in Int /\ Charges(j) \in Int
           /\ \A r \in Request : ExtraOf(r) \in Int /\ Outstanding(r) \in Int
<1>1. IsFiniteSet(applied) /\ applied \subseteq Request /\ parts \subseteq applied
  BY DEF IInv, DeskInv, JobInv, InvoiceTypes
<1>2. \A r \in Request : Amount[r] \in Int /\ PartCost[r] \in Int
  <2>1. SUFFICES ASSUME NEW r \in Request
                 PROVE  Amount[r] \in Int /\ PartCost[r] \in Int
    OBVIOUS
  <2>2. Amount[r] \in Nat /\ Qty[r] \in Nat /\ Price[r] \in Nat
    BY DEF ConstantsAssumption
  <2>3. Qty[r] * Price[r] \in Nat
    BY <2>2
  <2>4. QED
    BY <2>2, <2>3 DEF PartCost
<1>3. ASSUME NEW j \in Job
      PROVE  Paid(j) \in Int /\ Charges(j) \in Int
  <2> DEFINE payers == {r \in applied : JobOf[r] = j}
             fitted == {p \in parts : JobOf[p] = j}
  <2>1. IsFiniteSet(payers) /\ IsFiniteSet(fitted) /\ payers \subseteq Request /\ fitted \subseteq Request
    BY <1>1, FS_Subset
  <2>2. SumFunctionOnSet(Amount, payers) \in Int /\ SumFunctionOnSet(PartCost, fitted) \in Int
    <3> HIDE DEF payers, fitted
    <3>1. QED
      BY <1>2, <2>1, SumFacts
  <2>3. Labour[j] \in Nat
    BY DEF ConstantsAssumption
  <2>4. QED
    BY <2>2, <2>3 DEF Paid, Charges
<1>4. ASSUME NEW r \in Request
      PROVE  ExtraOf(r) \in Int /\ Outstanding(r) \in Int
  <2>1. JobOf[r] \in Job /\ Extra[r] \in Int \cup {None}
    BY DEF ConstantsAssumption
  <2>2. ExtraOf(r) \in Int
    BY <2>1 DEF ExtraOf, DeskInv, DeskTypes
  <2>3. QED
    BY <1>2, <1>3, <2>1, <2>2 DEF Outstanding
<1>5. QED
  BY <1>3, <1>4

LEMMA TakeNumberDesk ==
    ASSUME ConstantsAssumption, IInv, DeskInv, NEW r \in Request, TakeNumber(r)
    PROVE  DeskStep(r)
<1> USE DEF IInv, DeskInv
<1>1. PICK step \in {"session", "update"} :
        /\ pc[r] = "counter" /\ pc' = [pc EXCEPT ![r] = step]
        /\ number' = [number EXCEPT ![r] = nextValue[BranchHere(r)]]
        /\ due' = [due EXCEPT ![r] = Outstanding(r)]
        /\ UNCHANGED central
  BY DEF TakeNumber, Goto, BranchHere, Outstanding
<1>2. Kind[r] = "finish"
  BY <1>1 DEF PathInv, OnPath
<1>3. Outstanding(r) \in Int
  BY MoneyTypes
<1>4. /\ pc' \in [Request -> Pcs] /\ pc'[r] = step
      /\ due' \in [Request -> Int] /\ due'[r] = Outstanding(r)
      /\ \A q \in Request : q # r => pc'[q] = pc[q] /\ due'[q] = due[q] /\ number'[q] = number[q]
  BY <1>1, <1>3 DEF InvoiceTypes, DeskTypes, Pcs
<1>5. Alone(r)
  BY <1>1, <1>2, <1>4 DEF Alone, OnDesk
<1>6. HoldsJob(r) /\ ~HoldsStock(r)'
  BY <1>1, <1>2 DEF HoldsJob, HoldsStock, AfterJob
<1>7. QED
  BY <1>1, <1>4, <1>5, <1>6 DEF Calm, DeskStep

LEMMA CommitDesk ==
    ASSUME IInv, DeskInv, NEW r \in Request, Commit(r)
    PROVE  DeskStep(r)
<1>1. /\ pc[r] = "commit" /\ pc' = [pc EXCEPT ![r] = "reply"]
      /\ due' = [due EXCEPT ![r] = 0] /\ number' = number
  BY DEF Commit, Goto
<1>2. /\ pc' \in [Request -> Pcs] /\ pc'[r] = "reply" /\ due' \in [Request -> Int]
      /\ \A q \in Request : q # r => pc'[q] = pc[q] /\ due'[q] = due[q]
  BY <1>1 DEF IInv, DeskInv, InvoiceTypes, DeskTypes, Pcs
<1>3. Alone(r)
  BY <1>1, <1>2 DEF Alone, OnDesk
<1>4. QED
  BY <1>3 DEF DeskStep

LEMMA NextIsDeskStep ==
    ASSUME ConstantsAssumption, IInv, DeskInv, Next
    PROVE  \E r \in Request : DeskStep(r) \/ Reply(r)
<1>1. PICK r \in Request : Step(r) \/ Abort(r)
  BY DEF Next
<1>2. CASE Abort(r)
  <2>1. pc[r] \notin {"reply", "done"} /\ Failed(r)
    BY <1>2 DEF Abort, HoldsCounter
  <2>2. QED
    BY <2>1, FailedCalm DEF IInv, DeskInv
<1>3. CASE Step(r)
  BY <1>3, ConnectDesk, ReadStatusDesk, WriteStatusDesk, LockAdvisoryDesk, LockJobDesk, LockStockDesk,
     TakeNumberDesk, LockSessionDesk, UpdateJobDesk, CommitDesk DEF Step
<1>4. QED
  BY <1>1, <1>2, <1>3

-----------------------------------------------------------------------------
(* What each kind of step keeps.                                           *)

\* The locks of the others are as they were.
LEMMA LocksOfOthers ==
    ASSUME NEW r \in Request, Alone(r)
    PROVE  \A q \in Request : q # r =>
              /\ pc'[q] = pc[q] /\ due'[q] = due[q] /\ number'[q] = number[q]
              /\ HoldsJob(q)' = HoldsJob(q)
              /\ HoldsStock(q)' = HoldsStock(q)
              /\ HoldsCounter(q)' = HoldsCounter(q)
              /\ OnDesk(q)' = OnDesk(q)
<1>1. SUFFICES ASSUME NEW q \in Request, q # r
               PROVE  /\ pc'[q] = pc[q] /\ due'[q] = due[q] /\ number'[q] = number[q]
                      /\ HoldsJob(q)' = HoldsJob(q)
                      /\ HoldsStock(q)' = HoldsStock(q)
                      /\ HoldsCounter(q)' = HoldsCounter(q)
                      /\ OnDesk(q)' = OnDesk(q)
  OBVIOUS
<1>2. pc'[q] = pc[q] /\ due'[q] = due[q] /\ number'[q] = number[q]
  BY <1>1 DEF Alone
<1>3. QED
  BY <1>2 DEF HoldsJob, HoldsStock, HoldsCounter, OnDesk

LEMMA CalmKeeps ==
    ASSUME ConstantsAssumption, IInv, DeskInv, NEW r \in Request, Calm(r)
    PROVE  DeskInv'
<1> USE DEF IInv, DeskInv
<1>1. /\ Alone(r)
      /\ UNCHANGED <<applied, status, settlement, extra, invoice, parts, stock, nextValue>>
  BY DEF Calm, central
<1>2. DeskTypes'
  BY <1>1 DEF DeskTypes, Alone
<1>3. JobInv'
  <2>1. \A q \in Request : OnDesk(q)'
    BY <1>1, LocksOfOthers DEF JobInv, Alone
  <2>2. \A p, q \in Request : HoldsJob(p)' /\ HoldsJob(q)' /\ JobOf[q] = JobOf[p] => q = p
    BY <1>1, LocksOfOthers DEF JobInv, Calm
  <2>3. \A q \in Request : HoldsJob(q)' =>
           status[JobOf[q]] = "open" /\ (Kind[q] = "unpart" => PartOf[q] \in parts)
    <3>1. SUFFICES ASSUME NEW q \in Request, HoldsJob(q)'
                   PROVE  status[JobOf[q]] = "open" /\ (Kind[q] = "unpart" => PartOf[q] \in parts)
      OBVIOUS
    <3>2. HoldsJob(q) \/ (q = r /\ Workable(r))
      BY <1>1, <3>1, LocksOfOthers DEF Calm
    <3>3. QED
      BY <3>2 DEF JobInv, Workable
  <2>4. \A q \in Request : pc'[q] \in {"again", "write"} => status[JobOf[q]] # "none"
    <3>1. SUFFICES ASSUME NEW q \in Request, pc'[q] \in {"again", "write"}
                   PROVE  status[JobOf[q]] # "none"
      OBVIOUS
    <3>2. CASE q = r
      BY <3>1, <3>2 DEF Calm
    <3>3. CASE q # r
      BY <1>1, <3>1, <3>3, LocksOfOthers DEF JobInv
    <3>4. QED
      BY <3>2, <3>3
  <2>5. QED
    BY <1>1, <2>1, <2>2, <2>3, <2>4 DEF JobInv
<1>4. StockInv'
  <2>1. \A p, q \in Request : HoldsStock(p)' /\ HoldsStock(q)' /\ RowOf[q] = RowOf[p] => q = p
    BY <1>1, LocksOfOthers DEF StockInv, Calm
  <2>2. \A q \in Of("part") : HoldsStock(q)' => Qty[q] <= stock[RowOf[q]]
    <3>1. SUFFICES ASSUME NEW q \in Of("part"), HoldsStock(q)'
                   PROVE  Qty[q] <= stock[RowOf[q]]
      OBVIOUS
    <3>2. q \in Request /\ Kind[q] = "part"
      BY DEF Of
    <3>3. CASE q = r
      BY <3>1, <3>2, <3>3 DEF Calm
    <3>4. CASE q # r
      BY <1>1, <3>1, <3>2, <3>4, LocksOfOthers DEF StockInv
    <3>5. QED
      BY <3>3, <3>4
  <2>3. PartsComeFromStock'
    BY <1>1 DEF PartsComeFromStock, StockInv
  <2>4. QED
    BY <1>1, <2>1, <2>2, <2>3 DEF StockInv
<1>5. MoneyInv'
  <2>1. \A q \in Request : Outstanding(q)' = Outstanding(q)
    BY <1>1 DEF Outstanding, Charges, Paid, ExtraOf
  <2>2. \A q \in Request : HoldsCounter(q)' => due'[q] = Outstanding(q)
    BY <1>1, LocksOfOthers DEF Calm, MoneyInv
  <2>3. \A q \in Of("finish") : pc'[q] = "commit" /\ JobOf[q] \in WalkIn => due'[q] <= 0
    <3>1. SUFFICES ASSUME NEW q \in Of("finish"), pc'[q] = "commit", JobOf[q] \in WalkIn
                   PROVE  due'[q] <= 0
      OBVIOUS
    <3>2. q \in Request /\ Kind[q] = "finish"
      BY DEF Of
    <3>3. CASE q = r
      BY <3>1, <3>2, <3>3 DEF Calm
    <3>4. CASE q # r
      BY <1>1, <3>1, <3>2, <3>4, LocksOfOthers DEF MoneyInv
    <3>5. QED
      BY <3>3, <3>4
  <2>4. SettlementIsTrue'
    BY <1>1 DEF SettlementIsTrue, MoneyInv, Charges, Paid
  <2>5. QED
    BY <2>1, <2>2, <2>3, <2>4 DEF MoneyInv
<1>6. HistoryInv'
  <2>1. \A q \in applied : number'[q] = number[q]
    <3>1. SUFFICES ASSUME NEW q \in applied
                   PROVE  number'[q] = number[q]
      OBVIOUS
    <3>2. q \in Request /\ q # r
      BY DEF InvoiceTypes, PathInv, Calm, Alone
    <3>3. QED
      BY <1>1, <3>2, LocksOfOthers
  <2>2. QED
    BY <1>1, <2>1 DEF HistoryInv
<1>7. QED
  BY <1>2, <1>3, <1>4, <1>5, <1>6

LEMMA ReplyKeepsDesk ==
    ASSUME IInv, DeskInv, NEW r \in Request, Reply(r)
    PROVE  DeskInv'
<1> USE DEF IInv, DeskInv
<1>1. /\ UNCHANGED <<number, due, applied, status, settlement, extra, invoice, parts, stock>>
      /\ pc[r] = "reply" /\ pc'[r] = "done" /\ \A q \in Request : q # r => pc'[q] = pc[q]
  BY ReplyMoves DEF central
<1>2. \A q \in Request : /\ HoldsJob(q)' = HoldsJob(q) /\ HoldsStock(q)' = HoldsStock(q)
                         /\ HoldsCounter(q)' = HoldsCounter(q)
  BY <1>1 DEF HoldsJob, HoldsStock, HoldsCounter, AfterJob
<1>3. \A q \in Request : OnDesk(q)'
  BY <1>1 DEF JobInv, OnDesk
<1>4. \A q \in Request : /\ pc'[q] \in {"again", "write"} <=> pc[q] \in {"again", "write"}
                         /\ pc'[q] = "commit" <=> pc[q] = "commit"
  BY <1>1
<1>5. DeskTypes' /\ HistoryInv'
  BY <1>1 DEF DeskTypes, HistoryInv
<1>6. JobInv'
  BY <1>1, <1>2, <1>3, <1>4 DEF JobInv
<1>7. StockInv'
  BY <1>1, <1>2 DEF StockInv, PartsComeFromStock, Of
<1>8. MoneyInv'
  <2>1. \A q \in Request : Outstanding(q)' = Outstanding(q)
    BY <1>1 DEF Outstanding, Charges, Paid, ExtraOf
  <2>2. SettlementIsTrue'
    BY <1>1 DEF MoneyInv, SettlementIsTrue, Charges, Paid
  <2>3. QED
    BY <1>1, <1>2, <1>4, <2>1, <2>2 DEF MoneyInv, Of
<1>9. QED
  BY <1>5, <1>6, <1>7, <1>8

\* r commits, on a job that nobody else holds.
Ends(r) ==
    /\ Alone(r) /\ pc'[r] = "reply" /\ r \notin applied
    /\ number' = number /\ applied' = applied \cup {r}
    /\ \A q \in Request \ {r} : JobOf[q] = JobOf[r] => ~HoldsJob(q)
    /\ Kind[r] = "book" \/ status[JobOf[r]] # "none"
    /\ status' \in [Job -> {"none", "open", "Delivered"}] /\ status'[JobOf[r]] # "none"
    /\ \A j \in Job \ {JobOf[r]} : /\ status'[j] = status[j] /\ settlement'[j] = settlement[j]
                                   /\ extra'[j] = extra[j] /\ invoice'[j] = invoice[j]
    /\ parts' \in SUBSET Of("part") /\ parts' \subseteq applied'
    /\ \A p \in Request : JobOf[p] # JobOf[r] => (p \in parts' <=> p \in parts)

LEMMA OpensEnds ==
    ASSUME ConstantsAssumption, IInv, DeskInv, NEW r \in Request, Opens(r)
    PROVE  Ends(r)
<1> USE DEF IInv, DeskInv
<1>1. JobOf[r] \in Job
  BY DEF ConstantsAssumption
<1>2. /\ Alone(r) /\ pc[r] = "write" /\ pc'[r] = "reply" /\ Kind[r] = "status"
      /\ applied' = applied \cup {r} /\ status' = [status EXCEPT ![JobOf[r]] = "open"]
      /\ UNCHANGED <<settlement, extra, invoice, parts, stock, nextValue>>
      /\ \A q \in Request \ {r} : JobOf[q] = JobOf[r] => ~HoldsJob(q)
  BY DEF Opens
<1>3. r \notin applied
  BY <1>2 DEF PathInv
<1>4. status[JobOf[r]] # "none"
  BY <1>2 DEF JobInv
<1>5. /\ status' \in [Job -> {"none", "open", "Delivered"}] /\ status'[JobOf[r]] # "none"
      /\ \A j \in Job \ {JobOf[r]} : status'[j] = status[j]
  BY <1>1, <1>2 DEF DeskTypes
<1>6. parts' \in SUBSET Of("part") /\ parts' \subseteq applied'
  BY <1>2 DEF DeskTypes, JobInv
<1>7. number' = number
  BY DEF Opens
<1>8. QED
  BY <1>2, <1>3, <1>4, <1>5, <1>6, <1>7 DEF Ends

\* What a request finds when it commits.
LEMMA AtCommit ==
    ASSUME ConstantsAssumption, IInv, DeskInv, NEW r \in Request, pc[r] = "commit"
    PROVE  /\ r \notin applied /\ JobOf[r] \in Job /\ Kind[r] \in Kinds \ {"status"}
           /\ \A q \in Request \ {r} : JobOf[q] = JobOf[r] => ~HoldsJob(q)
           /\ Kind[r] = "book" => status[JobOf[r]] = "none"
           /\ Kind[r] # "book" => HoldsJob(r) /\ status[JobOf[r]] = "open"
           /\ Kind[r] = "unpart" => /\ PartOf[r] \in parts /\ JobOf[PartOf[r]] = JobOf[r]
                                    /\ RowOf[r] = RowOf[PartOf[r]] /\ Qty[r] = Qty[PartOf[r]]
<1> USE DEF IInv, DeskInv
<1>1. r \notin applied /\ JobOf[r] \in Job /\ Kind[r] \in Kinds \ {"status"}
  BY DEF PathInv, ConstantsAssumption, JobInv, OnDesk
<1>2. CASE Kind[r] = "book"
  <2>1. status[JobOf[r]] = "none"
    BY <1>1, <1>2 DEF JobInv, Of
  <2>2. \A q \in Request : JobOf[q] = JobOf[r] => ~HoldsJob(q)
    BY <2>1 DEF JobInv
  <2>3. QED
    BY <1>1, <1>2, <2>1, <2>2
<1>3. CASE Kind[r] # "book"
  <2>1. HoldsJob(r)
    BY <1>1, <1>3 DEF HoldsJob, AfterJob
  <2>2. \A q \in Request \ {r} : JobOf[q] = JobOf[r] => ~HoldsJob(q)
    BY <2>1 DEF JobInv
  <2>3. Kind[r] = "unpart" => /\ JobOf[PartOf[r]] = JobOf[r]
                              /\ RowOf[r] = RowOf[PartOf[r]] /\ Qty[r] = Qty[PartOf[r]]
    BY DEF ConstantsAssumption, Of
  <2>4. QED
    BY <1>1, <1>3, <2>1, <2>2, <2>3 DEF JobInv
<1>4. QED
  BY <1>2, <1>3

LEMMA CommitEnds ==
    ASSUME ConstantsAssumption, IInv, DeskInv, NEW r \in Request, Alone(r), Commit(r)
    PROVE  Ends(r)
<1> USE DEF IInv, DeskInv
<1>1. /\ pc[r] = "commit" /\ pc' = [pc EXCEPT ![r] = "reply"]
      /\ applied' = applied \cup {r} /\ number' = number
  BY DEF Commit, Goto
<1>2. pc'[r] = "reply"
  BY <1>1 DEF InvoiceTypes
<1>3. /\ r \notin applied /\ JobOf[r] \in Job
      /\ \A q \in Request \ {r} : JobOf[q] = JobOf[r] => ~HoldsJob(q)
      /\ Kind[r] = "book" \/ status[JobOf[r]] # "none"
  BY <1>1, AtCommit
<1>4. /\ status' \in [Job -> {"none", "open", "Delivered"}] /\ status'[JobOf[r]] # "none"
      /\ \A j \in Job \ {JobOf[r]} : /\ status'[j] = status[j] /\ settlement'[j] = settlement[j]
                                     /\ extra'[j] = extra[j] /\ invoice'[j] = invoice[j]
  <2>1. CASE Kind[r] = "finish"
    BY <1>3, <2>1 DEF Commit, Delivered, DeskTypes, InvoiceTypes
  <2>2. CASE Kind[r] # "finish"
    <3>1. /\ status' = IF Kind[r] = "book" THEN [status EXCEPT ![JobOf[r]] = "open"] ELSE status
          /\ UNCHANGED <<settlement, extra, invoice>>
      BY <2>2 DEF Commit, Booked
    <3>2. QED
      BY <1>3, <3>1 DEF DeskTypes
  <2>3. QED
    BY <2>1, <2>2
<1>5. /\ parts' \in SUBSET Of("part") /\ parts' \subseteq applied'
      /\ \A p \in Request : JobOf[p] # JobOf[r] => (p \in parts' <=> p \in parts)
  <2>1. parts \in SUBSET Of("part") /\ parts \subseteq applied
    BY DEF DeskTypes, JobInv
  <2>2. CASE Kind[r] = "part"
    BY <1>1, <2>1, <2>2 DEF Commit, Of
  <2>3. CASE Kind[r] = "unpart"
    <3>1. parts' = parts \ {PartOf[r]} /\ JobOf[PartOf[r]] = JobOf[r]
      BY <1>1, <2>3, AtCommit DEF Commit
    <3>2. QED
      BY <1>1, <2>1, <3>1
  <2>4. CASE Kind[r] \notin {"part", "unpart"}
    BY <1>1, <2>1, <2>4 DEF Commit
  <2>5. QED
    BY <2>2, <2>3, <2>4
<1>6. QED
  BY <1>1, <1>2, <1>3, <1>4, <1>5 DEF Ends

LEMMA EndsKeepsJobs ==
    ASSUME ConstantsAssumption, IInv, DeskInv, NEW r \in Request, Ends(r)
    PROVE  JobInv'
<1> USE DEF IInv, DeskInv
<1>1. /\ Alone(r) /\ pc'[r] = "reply" /\ applied' = applied \cup {r}
      /\ \A q \in Request \ {r} : JobOf[q] = JobOf[r] => ~HoldsJob(q)
      /\ Kind[r] = "book" \/ status[JobOf[r]] # "none"
      /\ status'[JobOf[r]] # "none"
      /\ \A j \in Job \ {JobOf[r]} : status'[j] = status[j]
      /\ \A p \in Request : JobOf[p] # JobOf[r] => (p \in parts' <=> p \in parts)
  BY DEF Ends
<1>2. ~HoldsJob(r)'
  BY <1>1 DEF HoldsJob, AfterJob
<1>3. \A q \in Request : HoldsJob(q)' => q # r /\ HoldsJob(q) /\ JobOf[q] # JobOf[r]
  BY <1>1, <1>2, LocksOfOthers
<1>4. \A q \in Request : OnDesk(q)'
  BY <1>1, LocksOfOthers DEF JobInv, Alone
<1>5. \A p, q \in Request : HoldsJob(p)' /\ HoldsJob(q)' /\ JobOf[q] = JobOf[p] => q = p
  BY <1>3 DEF JobInv
<1>6. \A q \in Request : JobOf[q] \in Job
  BY DEF ConstantsAssumption
<1>7. \A q \in Request : HoldsJob(q)' =>
         status'[JobOf[q]] = "open" /\ (Kind[q] = "unpart" => PartOf[q] \in parts')
  <2>1. SUFFICES ASSUME NEW q \in Request, HoldsJob(q)'
                 PROVE  status'[JobOf[q]] = "open" /\ (Kind[q] = "unpart" => PartOf[q] \in parts')
    OBVIOUS
  <2>2. HoldsJob(q) /\ JobOf[q] # JobOf[r] /\ JobOf[q] \in Job
    BY <1>3, <1>6, <2>1
  <2>3. status[JobOf[q]] = "open" /\ (Kind[q] = "unpart" => PartOf[q] \in parts)
    BY <2>2 DEF JobInv
  <2>4. Kind[q] = "unpart" => PartOf[q] \in Request /\ JobOf[PartOf[q]] = JobOf[q]
    BY DEF ConstantsAssumption, Of
  <2>5. QED
    BY <1>1, <2>2, <2>3, <2>4
<1>8. \A q \in Request : pc'[q] \in {"again", "write"} => status'[JobOf[q]] # "none"
  <2>1. SUFFICES ASSUME NEW q \in Request, pc'[q] \in {"again", "write"}
                 PROVE  status'[JobOf[q]] # "none"
    OBVIOUS
  <2>2. q # r /\ pc[q] \in {"again", "write"}
    BY <1>1, <2>1, LocksOfOthers
  <2>3. status[JobOf[q]] # "none"
    BY <2>2 DEF JobInv
  <2>4. QED
    BY <1>1, <1>6, <2>3
<1>9. \A q \in Of("book") : q \notin applied' => status'[JobOf[q]] = "none"
  <2>1. SUFFICES ASSUME NEW q \in Of("book"), q \notin applied'
                 PROVE  status'[JobOf[q]] = "none"
    OBVIOUS
  <2>2. q \in Request /\ Kind[q] = "book" /\ q # r /\ status[JobOf[q]] = "none"
    BY <1>1, <2>1 DEF JobInv, Of
  <2>3. JobOf[q] # JobOf[r]
    BY <1>1, <2>2 DEF ConstantsAssumption, Of
  <2>4. QED
    BY <1>1, <1>6, <2>2, <2>3
<1>10. IsFiniteSet(applied') /\ parts' \subseteq applied'
  BY <1>1, FS_AddElement DEF JobInv, Ends
<1>11. QED
  BY <1>4, <1>5, <1>7, <1>8, <1>9, <1>10 DEF JobInv

LEMMA MoneyElsewhere ==
    ASSUME ConstantsAssumption, IInv, DeskInv, NEW r \in Request, Ends(r)
    PROVE  /\ \A j \in Job \ {JobOf[r]} : Paid(j)' = Paid(j) /\ Charges(j)' = Charges(j)
           /\ \A q \in Request : JobOf[q] # JobOf[r] => Outstanding(q)' = Outstanding(q)
<1> USE DEF IInv, DeskInv
<1>1. ASSUME NEW j \in Job \ {JobOf[r]}
      PROVE  Paid(j)' = Paid(j) /\ Charges(j)' = Charges(j)
  <2>1. {q \in applied' : JobOf[q] = j} = {q \in applied : JobOf[q] = j}
    BY DEF Ends
  <2>2. {p \in parts' : JobOf[p] = j} = {p \in parts : JobOf[p] = j}
    <3>1. parts \subseteq Request /\ parts' \subseteq Request
      BY DEF Ends, DeskTypes, Of
    <3>2. QED
      BY <3>1 DEF Ends
  <2>3. QED
    BY <2>1, <2>2 DEF Paid, Charges
<1>2. ASSUME NEW q \in Request, JobOf[q] # JobOf[r]
      PROVE  Outstanding(q)' = Outstanding(q)
  <2>1. JobOf[q] \in Job \ {JobOf[r]}
    BY <1>2 DEF ConstantsAssumption
  <2>2. ExtraOf(q)' = ExtraOf(q)
    BY <2>1 DEF ExtraOf, Ends
  <2>3. QED
    BY <1>1, <2>1, <2>2 DEF Outstanding
<1>3. QED
  BY <1>1, <1>2

\* The money of a delivery is what it has found, and that of any other commit
\* leaves its job undelivered.
LEMMA EndsKeepsMoney ==
    ASSUME ConstantsAssumption, IInv, DeskInv, NEW r \in Request, Ends(r),
           LET j == JobOf[r]
           IN  status'[j] = "Delivered" =>
                  /\ settlement'[j] = IF Charges(j)' + extra'[j] > Paid(j)' THEN "CREDIT" ELSE "PAID"
                  /\ j \in WalkIn => settlement'[j] = "PAID"
    PROVE  MoneyInv'
<1> USE DEF IInv, DeskInv
<1>1. \A q \in Request : HoldsCounter(q) => HoldsJob(q)
  BY DEF HoldsCounter, HoldsJob, AfterJob
<1>2. Alone(r) /\ pc'[r] = "reply"
  BY DEF Ends
<1>3. \A q \in Request : HoldsCounter(q)' => due'[q] = Outstanding(q)'
  <2>1. SUFFICES ASSUME NEW q \in Request, HoldsCounter(q)'
                 PROVE  due'[q] = Outstanding(q)'
    OBVIOUS
  <2>2. q # r
    BY <1>2, <2>1 DEF HoldsCounter
  <2>3. HoldsCounter(q) /\ due'[q] = due[q]
    BY <1>2, <2>1, <2>2, LocksOfOthers
  <2>4. JobOf[q] # JobOf[r]
    <3>1. HoldsJob(q)
      BY <1>1, <2>3
    <3>2. \A p \in Request \ {r} : JobOf[p] = JobOf[r] => ~HoldsJob(p)
      BY DEF Ends
    <3>3. QED
      BY <2>2, <3>1, <3>2
  <2>5. QED
    BY <2>3, <2>4, MoneyElsewhere DEF MoneyInv
<1>4. \A q \in Of("finish") : pc'[q] = "commit" /\ JobOf[q] \in WalkIn => due'[q] <= 0
  <2>1. SUFFICES ASSUME NEW q \in Of("finish"), pc'[q] = "commit", JobOf[q] \in WalkIn
                 PROVE  due'[q] <= 0
    OBVIOUS
  <2>2. q \in Request /\ q # r
    BY <1>2, <2>1 DEF Of
  <2>3. pc[q] = "commit" /\ due'[q] = due[q]
    BY <1>2, <2>1, <2>2, LocksOfOthers
  <2>4. QED
    BY <2>1, <2>3 DEF MoneyInv
<1>5. SettlementIsTrue'
  <2>1. SUFFICES ASSUME NEW j \in Job, status'[j] = "Delivered"
                 PROVE  /\ settlement'[j] = IF Charges(j)' + extra'[j] > Paid(j)'
                                            THEN "CREDIT" ELSE "PAID"
                        /\ j \in WalkIn => settlement'[j] = "PAID"
    BY DEF SettlementIsTrue
  <2>2. CASE j = JobOf[r]
    BY <2>1, <2>2
  <2>3. CASE j # JobOf[r]
    <3>1. /\ status[j] = "Delivered" /\ settlement'[j] = settlement[j] /\ extra'[j] = extra[j]
          /\ Paid(j)' = Paid(j) /\ Charges(j)' = Charges(j)
      BY <2>1, <2>3, MoneyElsewhere DEF Ends
    <3>2. QED
      BY <3>1 DEF MoneyInv, SettlementIsTrue
  <2>4. QED
    BY <2>2, <2>3
<1>6. QED
  BY <1>3, <1>4, <1>5 DEF MoneyInv

LEMMA EndsKeepsHistory ==
    ASSUME ConstantsAssumption, IInv, DeskInv, NEW r \in Request, Ends(r),
           IF Kind[r] = "status" THEN status'[JobOf[r]] # "Delivered"
           ELSE /\ status[JobOf[r]] # "Delivered"
                /\ IF Kind[r] = "finish"
                   THEN status'[JobOf[r]] = "Delivered" /\ invoice'[JobOf[r]] = number[r]
                   ELSE status'[JobOf[r]] # "Delivered"
    PROVE  HistoryInv'
<1> USE DEF IInv, DeskInv
<1>1. ASSUME Of("status") \cap applied' = {}, NEW q \in applied', Kind[q] = "finish"
      PROVE  status'[JobOf[q]] = "Delivered" /\ invoice'[JobOf[q]] = number'[q]
  <2>1. Kind[r] # "status" /\ Of("status") \cap applied = {} /\ number' = number
    BY <1>1 DEF Of, Ends
  <2>2. CASE q = r
    BY <1>1, <2>1, <2>2
  <2>3. CASE q # r
    <3>1. q \in applied /\ q \in Request
      BY <2>3 DEF Ends, InvoiceTypes
    <3>2. status[JobOf[q]] = "Delivered" /\ invoice[JobOf[q]] = number[q]
      BY <1>1, <2>1, <3>1 DEF HistoryInv
    <3>3. JobOf[q] # JobOf[r] /\ JobOf[q] \in Job
      BY <2>1, <3>1, <3>2 DEF ConstantsAssumption
    <3>4. QED
      BY <2>1, <3>2, <3>3 DEF Ends
  <2>4. QED
    BY <2>2, <2>3
<1>2. QED
  BY <1>1 DEF HistoryInv

LEMMA OpensKeeps ==
    ASSUME ConstantsAssumption, IInv, DeskInv, NEW r \in Request, Opens(r)
    PROVE  DeskInv'
<1>1. Ends(r) /\ Alone(r)
  BY OpensEnds DEF Opens
<1>2. /\ Kind[r] = "status" /\ pc'[r] = "reply"
      /\ UNCHANGED <<settlement, extra, invoice, parts, stock, nextValue>>
  BY DEF Opens
<1>3. status'[JobOf[r]] = "open"
  <2>1. JobOf[r] \in Job
    BY DEF ConstantsAssumption
  <2>2. QED
    BY <2>1 DEF Opens, DeskInv, DeskTypes
<1>4. DeskTypes'
  BY <1>1, <1>2 DEF DeskInv, DeskTypes, Alone, Ends
<1>5. JobInv' /\ MoneyInv' /\ HistoryInv'
  BY <1>1, <1>2, <1>3, EndsKeepsJobs, EndsKeepsMoney, EndsKeepsHistory
<1>6. StockInv'
  <2>1. \A q \in Request : HoldsStock(q)' => HoldsStock(q)
    <3>1. ~HoldsStock(r)'
      BY <1>2 DEF HoldsStock
    <3>2. QED
      BY <1>1, <3>1, LocksOfOthers
  <2>2. \A q \in Of("part") : q \in Request
    BY DEF Of
  <2>3. PartsComeFromStock'
    BY <1>2 DEF DeskInv, StockInv, PartsComeFromStock
  <2>4. QED
    BY <1>2, <2>1, <2>2, <2>3 DEF DeskInv, StockInv
<1>7. QED
  BY <1>4, <1>5, <1>6 DEF DeskInv

\* What a commit does to the stock: it takes a part's quantity from its row or
\* gives it back, and the parts on jobs change by as much.
LEMMA CommitKeepsStock ==
    ASSUME ConstantsAssumption, IInv, DeskInv, NEW r \in Request, Alone(r), Commit(r)
    PROVE  StockInv' /\ stock' \in [StockRow -> Nat]
<1> USE DEF IInv, DeskInv
<1>1. pc[r] = "commit" /\ pc' = [pc EXCEPT ![r] = "reply"] /\ applied' = applied \cup {r}
  BY DEF Commit, Goto
<1>2. ~HoldsStock(r)'
  BY <1>1 DEF InvoiceTypes, HoldsStock
<1>3. \A q \in Request : HoldsStock(q)' => q # r /\ HoldsStock(q)
  BY <1>2, LocksOfOthers
<1>4. /\ IsFiniteSet(parts) /\ parts \subseteq Request /\ r \notin parts
      /\ \A p \in Request : Qty[p] \in Nat
  <2>1. IsFiniteSet(applied) /\ parts \subseteq applied /\ applied \subseteq Request
    BY DEF JobInv, InvoiceTypes
  <2>2. QED
    BY <1>1, <2>1, FS_Subset, AtCommit DEF ConstantsAssumption
<1>5. \A s \in StockRow : stock[s] \in Nat /\ s # None
  BY DEF DeskTypes, ConstantsAssumption
<1>6. ASSUME NEW s \in StockRow
      PROVE  /\ stock'[s] \in Nat
             /\ stock'[s] + SumFunctionOnSet(Qty, {p \in parts' : RowOf[p] = s}) = InitialStock[s]
             /\ RowOf[r] # s \/ ~HoldsStock(r) => stock'[s] = stock[s]
  <2> DEFINE here == {p \in parts : RowOf[p] = s}
             sum  == SumFunctionOnSet(Qty, here)
  <2>1. IsFiniteSet(here) /\ (\A p \in here : Qty[p] \in Int) /\ r \notin here
    BY <1>4, FS_Subset
  <2>2. sum \in Int
    <3> HIDE DEF here
    <3>1. QED
      BY <2>1, SumFacts
  <2>3. stock[s] + sum = InitialStock[s]
    BY DEF StockInv, PartsComeFromStock
  <2>4. CASE Kind[r] = "part" /\ RowOf[r] = s
    <3>1. HoldsStock(r) /\ Qty[r] <= stock[s] /\ Qty[r] \in Nat
      BY <1>1, <1>4, <1>5, <2>4 DEF HoldsStock, StockInv, Of
    <3>2. {p \in parts' : RowOf[p] = s} = here \cup {r}
      BY <2>4 DEF Commit
    <3>3. SumFunctionOnSet(Qty, here \cup {r}) = Qty[r] + sum
      <4> HIDE DEF here
      <4>1. QED
        BY <2>1, <3>1, SumAdd
    <3>4. stock'[s] = stock[s] + (-Qty[r])
      BY <2>4 DEF Commit
    <3>5. stock'[s] + SumFunctionOnSet(Qty, {p \in parts' : RowOf[p] = s}) = InitialStock[s]
      <4> HIDE DEF sum, here
      <4>1. PICK qty \in Nat, had \in Nat : qty = Qty[r] /\ had = stock[s]
        BY <1>5, <3>1
      <4>2. had + (-qty) + (qty + sum) = had + sum
        BY <2>2, <4>1
      <4>3. QED
        BY <2>3, <3>2, <3>3, <3>4, <4>1, <4>2
    <3>6. stock'[s] \in Nat
      BY <1>5, <3>1, <3>4
    <3>7. QED
      BY <2>4, <3>1, <3>5, <3>6
  <2>5. CASE Kind[r] = "unpart" /\ RowOf[r] = s
    <3>1. PartOf[r] \in here /\ Qty[PartOf[r]] = Qty[r] /\ Qty[r] \in Nat /\ HoldsStock(r)
      BY <1>1, <1>4, <1>5, <2>5, AtCommit DEF HoldsStock
    <3>2. {p \in parts' : RowOf[p] = s} = here \ {PartOf[r]}
      BY <2>5 DEF Commit
    <3>3. sum = Qty[r] + SumFunctionOnSet(Qty, here \ {PartOf[r]})
      <4> HIDE DEF here
      <4>1. QED
        BY <2>1, <3>1, SumFacts
    <3>4. SumFunctionOnSet(Qty, here \ {PartOf[r]}) \in Int
      <4>1. IsFiniteSet(here \ {PartOf[r]}) /\ \A p \in here \ {PartOf[r]} : Qty[p] \in Int
        BY <2>1, FS_RemoveElement, <3>1
      <4> HIDE DEF here
      <4>2. QED
        BY <4>1, SumFacts
    <3>5. stock'[s] = stock[s] + Qty[r]
      BY <2>5 DEF Commit
    <3>6. stock'[s] + SumFunctionOnSet(Qty, {p \in parts' : RowOf[p] = s}) = InitialStock[s]
      <4> DEFINE less == SumFunctionOnSet(Qty, here \ {PartOf[r]})
      <4>1. PICK qty \in Nat, had \in Nat : qty = Qty[r] /\ had = stock[s]
        BY <1>5, <3>1
      <4>2. less \in Int /\ sum = qty + less
        BY <3>3, <3>4, <4>1
      <4>3. SumFunctionOnSet(Qty, {p \in parts' : RowOf[p] = s}) = less /\ stock'[s] = had + qty
        BY <3>2, <3>5, <4>1
      <4> HIDE DEF sum, here, less
      <4>4. had + qty + less = had + sum
        BY <4>1, <4>2
      <4>5. QED
        BY <2>3, <4>1, <4>3, <4>4
    <3>7. stock'[s] \in Nat
      BY <1>5, <3>1, <3>5
    <3>8. QED
      BY <2>5, <3>1, <3>6, <3>7
  <2>6. CASE Kind[r] \notin {"part", "unpart"} \/ RowOf[r] # s
    <3>1. stock'[s] = stock[s]
      BY <1>5, <2>6 DEF Commit
    <3>2. {p \in parts' : RowOf[p] = s} = here
      <4>1. Kind[r] = "unpart" => RowOf[PartOf[r]] = RowOf[r]
        BY <1>1, AtCommit
      <4>2. QED
        BY <2>6, <4>1 DEF Commit
    <3>3. QED
      BY <1>5, <2>3, <3>1, <3>2
  <2>7. QED
    BY <2>4, <2>5, <2>6
<1>7. stock' \in [StockRow -> Nat]
  BY <1>6 DEF Commit
<1>8. ASSUME NEW q \in Of("part"), HoldsStock(q)'
      PROVE  Qty[q] <= stock'[RowOf[q]]
  <2>1. q \in Request /\ q # r /\ HoldsStock(q) /\ RowOf[q] \in StockRow
    BY <1>3, <1>8 DEF Of, HoldsStock, ConstantsAssumption
  <2>2. RowOf[r] # RowOf[q] \/ ~HoldsStock(r)
    BY <2>1 DEF StockInv
  <2>3. stock'[RowOf[q]] = stock[RowOf[q]]
    BY <1>6, <2>1, <2>2
  <2>4. QED
    BY <2>1, <2>3 DEF StockInv
<1>9. QED
  BY <1>3, <1>6, <1>7, <1>8 DEF StockInv, PartsComeFromStock

LEMMA CommitKeeps ==
    ASSUME ConstantsAssumption, IInv, DeskInv, NEW r \in Request, Alone(r), Commit(r)
    PROVE  DeskInv'
<1>1. Ends(r)
  BY CommitEnds
<1>2. pc[r] = "commit" /\ JobOf[r] \in Job /\ Kind[r] # "status"
  BY AtCommit DEF Commit
<1>3. /\ Kind[r] = "book" => status[JobOf[r]] = "none"
      /\ Kind[r] # "book" => status[JobOf[r]] = "open"
  BY <1>2, AtCommit
<1>4. Kind[r] # "finish" => /\ status'[JobOf[r]] = "open"
                            /\ UNCHANGED <<settlement, extra>>
  BY <1>2, <1>3 DEF Commit, Booked, DeskInv, DeskTypes
<1>5. Kind[r] = "finish" =>
         /\ status'[JobOf[r]] = "Delivered" /\ invoice'[JobOf[r]] = number[r]
         /\ settlement' = [settlement EXCEPT ![JobOf[r]] = IF due[r] > 0 THEN "CREDIT" ELSE "PAID"]
         /\ extra' = [extra EXCEPT ![JobOf[r]] = ExtraOf(r)]
         /\ parts' = parts
  BY <1>2 DEF Commit, Delivered, DeskInv, DeskTypes, IInv, InvoiceTypes
<1>6. DeskTypes'
  <2>1. settlement' \in [Job -> {"UNPAID", "PAID", "CREDIT"}] /\ extra' \in [Job -> Int]
    <3>1. CASE Kind[r] = "finish"
      <4>1. ExtraOf(r) \in Int
        BY MoneyTypes
      <4>2. QED
        BY <1>5, <3>1, <4>1 DEF DeskInv, DeskTypes
    <3>2. CASE Kind[r] # "finish"
      BY <1>4, <3>2 DEF DeskInv, DeskTypes
    <3>3. QED
      BY <3>1, <3>2
  <2>2. QED
    BY <1>1, <2>1, CommitKeepsStock DEF DeskTypes, Alone, Ends
<1>7. JobInv' /\ HistoryInv'
  BY <1>1, <1>2, <1>3, <1>4, <1>5, EndsKeepsJobs, EndsKeepsHistory
<1>8. MoneyInv'
  <2>1. CASE Kind[r] # "finish"
    BY <1>1, <1>4, <2>1, EndsKeepsMoney
  <2>2. CASE Kind[r] = "finish"
    <3> DEFINE j == JobOf[r]
               payers == {q \in applied : JobOf[q] = j}
    <3>1. HoldsCounter(r) /\ r \in Of("finish")
      BY <1>2, <2>2 DEF HoldsCounter, Of
    <3>2. due[r] = Charges(j) + ExtraOf(r) - Paid(j) - Amount[r] /\ (j \in WalkIn => due[r] <= 0)
      BY <1>2, <3>1 DEF DeskInv, MoneyInv, Outstanding
    <3>3. Paid(j)' = Amount[r] + Paid(j)
      <4>1. {q \in applied' : JobOf[q] = j} = payers \cup {r} /\ r \notin payers
        BY <1>1 DEF Ends
      <4>2. IsFiniteSet(payers) /\ payers \subseteq Request
        BY FS_Subset DEF IInv, DeskInv, InvoiceTypes, JobInv
      <4>3. \A q \in Request : Amount[q] \in Int
        BY DEF ConstantsAssumption
      <4>4. SumFunctionOnSet(Amount, payers \cup {r}) = Amount[r] + SumFunctionOnSet(Amount, payers)
        <5> HIDE DEF payers
        <5>1. QED
          BY <4>1, <4>2, <4>3, SumAdd
      <4>5. QED
        BY <4>1, <4>4 DEF Paid
    <3>4. Charges(j)' = Charges(j)
      BY <1>5, <2>2 DEF Charges
    <3>5. /\ Amount[r] \in Int /\ due[r] \in Int
          /\ Charges(j) \in Int /\ ExtraOf(r) \in Int /\ Paid(j) \in Int
      BY <1>2, MoneyTypes DEF ConstantsAssumption, DeskInv, DeskTypes
    <3>6. /\ settlement'[j] = IF due[r] > 0 THEN "CREDIT" ELSE "PAID"
          /\ extra'[j] = ExtraOf(r)
      BY <1>2, <1>5, <2>2 DEF DeskInv, DeskTypes
    <3>7. due[r] > 0 <=> Charges(j)' + extra'[j] > Paid(j)'
      <4>1. PICK charges \in Int, paid \in Int, more \in Int, last \in Int :
              charges = Charges(j) /\ paid = Paid(j) /\ more = ExtraOf(r) /\ last = Amount[r]
        BY <3>5
      <4>2. due[r] = charges + more - paid - last
        BY <3>2, <4>1
      <4>3. Charges(j)' = charges /\ extra'[j] = more /\ Paid(j)' = last + paid
        BY <3>3, <3>4, <3>6, <4>1
      <4>4. charges + more - paid - last > 0 <=> charges + more > last + paid
        BY <4>1
      <4>5. QED
        BY <4>2, <4>3, <4>4
    <3>8. j \in WalkIn => ~(due[r] > 0)
      BY <3>2, <3>5
    <3> HIDE DEF j
    <3>9. /\ settlement'[j] = IF Charges(j)' + extra'[j] > Paid(j)' THEN "CREDIT" ELSE "PAID"
          /\ j \in WalkIn => settlement'[j] = "PAID"
      BY <3>6, <3>7, <3>8
    <3>10. QED
      BY <1>1, <3>9, EndsKeepsMoney DEF j
  <2>3. QED
    BY <2>1, <2>2
<1>9. StockInv'
  BY CommitKeepsStock
<1>10. QED
  BY <1>6, <1>7, <1>8, <1>9 DEF DeskInv

-----------------------------------------------------------------------------
(* The invariant of the desk.                                              *)

LEMMA InitDesk ==
    ASSUME ConstantsAssumption, Init
    PROVE  DeskInv
<1>1. /\ applied = {} /\ parts = {} /\ stock = InitialStock
      /\ \A r \in Request : pc[r] = "idle"
      /\ \A j \in Job : status[j] = IF \E r \in Of("book") : JobOf[r] = j THEN "none" ELSE "open"
  BY DEF Init
<1>2. \A r \in Request : pc[r] = "idle"
  BY <1>1
<1>3. \A r \in Request : ~HoldsJob(r) /\ ~HoldsStock(r) /\ ~HoldsCounter(r)
  BY <1>2 DEF HoldsJob, HoldsStock, HoldsCounter, AfterJob
<1>4. DeskTypes
  BY DEF Init, DeskTypes, ConstantsAssumption
<1>5. JobInv
  <2>1. \A r \in Request : OnDesk(r)
    BY <1>1 DEF OnDesk
  <2>2. \A r \in Of("book") : status[JobOf[r]] = "none"
    BY <1>1 DEF Of, ConstantsAssumption
  <2>3. IsFiniteSet(applied)
    BY <1>1, FS_EmptySet
  <2>4. QED
    BY <1>1, <1>2, <1>3, <2>1, <2>2, <2>3 DEF JobInv
<1>6. StockInv
  <2>1. \A s \in StockRow : {p \in parts : RowOf[p] = s} = {}
    BY <1>1
  <2>2. SumFunctionOnSet(Qty, {}) = 0
    BY FS_EmptySet, SumFacts
  <2>3. PartsComeFromStock
    BY <1>1, <2>1, <2>2 DEF PartsComeFromStock, ConstantsAssumption
  <2>4. QED
    BY <1>3, <2>3 DEF StockInv, Of
<1>7. MoneyInv
  BY <1>1, <1>2, <1>3 DEF MoneyInv, SettlementIsTrue, Of
<1>8. HistoryInv
  BY <1>1 DEF HistoryInv
<1>9. QED
  BY <1>4, <1>5, <1>6, <1>7, <1>8 DEF DeskInv

LEMMA DeskPreserved ==
    ASSUME ConstantsAssumption, IInv, DeskInv, [Next]_vars
    PROVE  DeskInv'
<1>1. CASE Next
  <2>1. PICK r \in Request : DeskStep(r) \/ Reply(r)
    BY <1>1, NextIsDeskStep
  <2>2. QED
    BY <2>1, CalmKeeps, OpensKeeps, CommitKeeps, ReplyKeepsDesk DEF DeskStep
<1>2. CASE UNCHANGED vars
  <2> USE <1>2 DEF vars, request, central, DeskInv
  <2>1. DeskTypes'
    BY DEF DeskTypes
  <2>2. JobInv'
    BY DEF JobInv, OnDesk, HoldsJob
  <2>3. StockInv'
    BY DEF StockInv, HoldsStock, PartsComeFromStock
  <2>4. MoneyInv'
    BY DEF MoneyInv, HoldsCounter, Outstanding, Charges, Paid, ExtraOf, SettlementIsTrue
  <2>5. HistoryInv'
    BY DEF HistoryInv
  <2>6. QED
    BY <2>1, <2>2, <2>3, <2>4, <2>5
<1>3. QED
  BY <1>1, <1>2

-----------------------------------------------------------------------------
(* The theorems.                                                           *)

\* The invariant holds in every state, for any number of requests, jobs and
\* branches.
THEOREM InductiveInvariant ==
    ASSUME ConstantsAssumption
    PROVE  Spec => []IInv
<1>1. Init => IInv
  BY InitEstablishes
<1>2. IInv /\ [Next]_vars => IInv'
  BY NextPreserves
<1>3. QED
  BY <1>1, <1>2, PTL DEF Spec

\* No two jobs show the same invoice number.
THEOREM NumbersUnique ==
    ASSUME ConstantsAssumption
    PROVE  Spec => []InvoicesAreUnique
<1>1. IInv => InvoicesAreUnique
  BY DEF IInv
<1>2. QED
  BY <1>1, InductiveInvariant, PTL

\* The invoice numbers of a branch run 1, 2, 3, ..., whatever fails after it
\* has drawn one.
THEOREM NumbersGapless ==
    ASSUME ConstantsAssumption
    PROVE  Spec => []InvoicesRunWithoutGap
<1>1. IInv => InvoicesRunWithoutGap
  BY DEF IInv
<1>2. QED
  BY <1>1, InductiveInvariant, PTL

\* The invariant of the desk holds in every state.
THEOREM DeskInvariant ==
    ASSUME ConstantsAssumption
    PROVE  Spec => []DeskInv
<1>1. Init => DeskInv
  BY InitDesk
<1>2. IInv /\ DeskInv /\ [Next]_vars => DeskInv'
  BY DeskPreserved
<1>3. QED
  BY <1>1, <1>2, InductiveInvariant, PTL DEF Spec

\* Every variable stays within its type; no part takes stock that is not there.
THEOREM TypeCorrectness ==
    ASSUME ConstantsAssumption
    PROVE  Spec => []TypeOK
<1>1. IInv /\ DeskInv => TypeOK
  BY DEF IInv, InvoiceTypes, DeskInv, DeskTypes, TypeOK
<1>2. QED
  BY <1>1, InductiveInvariant, DeskInvariant, PTL

\* Stock and the parts on jobs add up, however often a removal is asked for.
THEOREM PartsFromStock ==
    ASSUME ConstantsAssumption
    PROVE  Spec => []PartsComeFromStock
<1>1. DeskInv => PartsComeFromStock
  BY DEF DeskInv, StockInv
<1>2. QED
  BY <1>1, DeskInvariant, PTL

\* What a delivered job says of its settlement is true.
THEOREM SettlementTrue ==
    ASSUME ConstantsAssumption
    PROVE  Spec => []SettlementIsTrue
<1>1. DeskInv => SettlementIsTrue
  BY DEF DeskInv, MoneyInv
<1>2. QED
  BY <1>1, DeskInvariant, PTL

\* A delivery is committed only on an open job, which it closes, and nothing but a
\* change of status opens it again.
LEMMA DeliveryStep ==
    ASSUME ConstantsAssumption, IInv, DeskInv, [Next]_vars
    PROVE  /\ \A r \in Of("finish") \ applied : r \in applied' =>
                 status[JobOf[r]] = "open" /\ status'[JobOf[r]] = "Delivered"
           /\ \A j \in Job : status[j] = "Delivered" /\ status'[j] # "Delivered" =>
                 \E r \in Of("status") \ applied : r \in applied' /\ JobOf[r] = j
<1>1. CASE UNCHANGED <<applied, status>>
  BY <1>1
<1>2. ASSUME NEW r \in Request, Opens(r)
      PROVE  /\ applied' = applied \cup {r} /\ r \in Of("status") \ applied
             /\ status' = [status EXCEPT ![JobOf[r]] = "open"]
  BY <1>2 DEF Opens, Of, IInv, PathInv
<1>3. ASSUME NEW r \in Request, Commit(r)
      PROVE  /\ applied' = applied \cup {r} /\ r \notin applied
             /\ IF Kind[r] = "finish"
                THEN /\ status[JobOf[r]] = "open"
                     /\ status' = [status EXCEPT ![JobOf[r]] = "Delivered"]
                ELSE \/ status' = status
                     \/ /\ status[JobOf[r]] = "none"
                        /\ status' = [status EXCEPT ![JobOf[r]] = "open"]
  <2>1. pc[r] = "commit" /\ applied' = applied \cup {r}
    BY <1>3 DEF Commit
  <2>2. CASE Kind[r] = "finish"
    BY <1>3, <2>1, <2>2, AtCommit DEF Commit, Delivered
  <2>3. CASE Kind[r] # "finish"
    BY <1>3, <2>1, <2>3, AtCommit DEF Commit, Booked
  <2>4. QED
    BY <2>2, <2>3
<1>4. status \in [Job -> {"none", "open", "Delivered"}] /\ \A r \in Request : JobOf[r] \in Job
  BY DEF DeskInv, DeskTypes, ConstantsAssumption
<1>5. CASE \E r \in Request : Opens(r)
  <2>1. PICK r \in Request : Opens(r)
    BY <1>5
  <2>2. QED
    BY <1>2, <1>4, <2>1 DEF Of
<1>6. CASE \E r \in Request : Commit(r)
  <2>1. PICK r \in Request : Commit(r)
    BY <1>6
  <2>2. CASE Kind[r] = "finish"
    BY <1>3, <1>4, <2>1, <2>2 DEF Of
  <2>3. CASE Kind[r] # "finish"
    BY <1>3, <1>4, <2>1, <2>3 DEF Of
  <2>4. QED
    BY <2>2, <2>3
<1>7. CASE UNCHANGED central
  BY <1>1, <1>7 DEF central
<1>8. CASE UNCHANGED vars
  BY <1>7, <1>8 DEF vars
<1>9. CASE Next
  <2>1. PICK r \in Request : DeskStep(r) \/ Reply(r)
    BY <1>9, NextIsDeskStep
  <2>2. QED
    BY <1>5, <1>6, <1>7, <2>1 DEF DeskStep, Calm, Reply
<1>10. QED
  BY <1>8, <1>9

\* A job is delivered again only after a change of status that came after its last
\* delivery.
THEOREM JobsDeliveredOnce ==
    ASSUME ConstantsAssumption
    PROVE  Spec => DeliveredOnce
<1>1. IInv /\ DeskInv /\ [Next]_vars =>
         [/\ \A r \in Of("finish") \ applied : r \in applied' =>
                status[JobOf[r]] = "open" /\ status'[JobOf[r]] = "Delivered"
          /\ \A j \in Job : status[j] = "Delivered" /\ status'[j] # "Delivered" =>
                \E r \in Of("status") \ applied : r \in applied' /\ JobOf[r] = j]_vars
  BY DeliveryStep
<1>2. QED
  BY <1>1, InductiveInvariant, DeskInvariant, PTL DEF Spec, DeliveredOnce

\* Until a delivered job is opened again, only the branch that delivered first
\* can deliver: each branch would have to have used the number 1.
THEOREM OneBranch ==
    ASSUME ConstantsAssumption
    PROVE  Spec => []OneBranchDelivers
<1>1. ASSUME IInv, DeskInv
      PROVE  OneBranchDelivers
  <2>1. SUFFICES ASSUME Of("status") \cap applied = {}, NEW b \in Branch, NEW c \in Branch,
                        Deliveries(b) # {}, Deliveries(c) # {}
                 PROVE  b = c
    BY DEF OneBranchDelivers
  <2>2. ASSUME NEW d \in Branch, Deliveries(d) # {}
        PROVE  \E r \in Deliveries(d) : number[r] = 1
    <3>1. {number[r] : r \in Deliveries(d)} = 1..(nextValue[d] - 1) /\ nextValue[d] \in Nat
      BY <1>1 DEF IInv, InvoicesRunWithoutGap, InvoiceTypes
    <3>2. PICK r \in Deliveries(d) : number[r] \in 1..(nextValue[d] - 1)
      BY <2>2, <3>1
    <3>3. 1 \in 1..(nextValue[d] - 1)
      BY <3>1, <3>2
    <3>4. QED
      BY <3>1, <3>3
  <2>3. PICK r \in Deliveries(b), q \in Deliveries(c) : number[r] = 1 /\ number[q] = 1
    BY <2>1, <2>2
  <2>4. /\ r \in applied /\ Kind[r] = "finish" /\ BranchOf[JobOf[r]] = b
        /\ q \in applied /\ Kind[q] = "finish" /\ BranchOf[JobOf[q]] = c
    BY DEF Deliveries
  <2>5. invoice[JobOf[r]] = 1 /\ invoice[JobOf[q]] = 1
    BY <1>1, <2>1, <2>3, <2>4 DEF DeskInv, HistoryInv
  <2>6. JobOf[r] \in Job /\ JobOf[q] \in Job
    BY <1>1, <2>4 DEF IInv, InvoiceTypes, ConstantsAssumption
  <2>7. JobOf[r] = JobOf[q]
    BY <1>1, <2>5, <2>6 DEF IInv, InvoicesAreUnique
  <2>8. QED
    BY <2>4, <2>7
<1>2. QED
  BY <1>1, InductiveInvariant, DeskInvariant, PTL
=============================================================================
