--------------------------- MODULE SyncPushProofs ---------------------------
(***************************************************************************)
(* Proofs about SyncPush, for any number of terminals, events and requests *)
(* in flight and any retry cap: IInv is inductive, it implies the safety   *)
(* properties, and every step is a step of EventDelivery or a stutter.     *)
(***************************************************************************)
EXTENDS SyncPush, FiniteSetTheorems, TLAPS

\* What a push takes from the outbox of its own terminal is pending.
LEMMA GetPendingIsPending ==
    ASSUME NEW t \in Terminal, NEW e \in GetPending(t)
    PROVE  e \in Event /\ TerminalOf[e] = t /\ qstatus[e] = "PENDING"
  BY DEF GetPending, PendingWindow, Oldest, Owned

\* The first of a set of events is one of them.
LEMMA OldestIsMember ==
    ASSUME NEW n, NEW S, NEW e \in Oldest(n, S)
    PROVE  e \in S
  BY DEF Oldest

\* A rank in an outbox is a natural number.
LEMMA RankIsNat ==
    ASSUME NEW t \in Terminal
    PROVE  Cardinality({f \in Owned(t) : qstatus[f] # "ABSENT"}) + 1 \in Nat
<1>1. {f \in Owned(t) : qstatus[f] # "ABSENT"} \in SUBSET Event
  BY DEF Owned
<1>2. IsFiniteSet({f \in Owned(t) : qstatus[f] # "ABSENT"})
  BY <1>1, FS_Subset, ConstantsAssumption
<1> QED  BY <1>2, FS_CardinalityType

\* An outcome is written only for a row the worker still has pending.
LEMMA AckedRow ==
    ASSUME IInv, NEW t \in Terminal,
           NEW e \in Oldest(1, {f \in Event : ack[t][f] # "NONE"})
    PROVE  /\ e \in Event /\ ack[t][e] \in Acks \ {"NONE"}
           /\ TerminalOf[e] = t /\ qstatus[e] = "PENDING"
           /\ attempts[e] \in Nat /\ attempts[e] < MaxRetries
           /\ waiting[t] = None /\ batch[t] = {}
<1>1. e \in Event /\ ack[t][e] # "NONE"
  BY OldestIsMember
<1>2. ack[t] # NoAcks
  BY <1>1 DEF NoAcks
<1> QED
  BY <1>1, <1>2, ConstantsAssumption
     DEF IInv, TypeOK, WorkerInv, NoStrandedRow, AckMeetsPendingRow
-----------------------------------------------------------------------------
LEMMA InitIInv == Init => IInv
  BY ConstantsAssumption
     DEF Init, IInv, TypeOK, WorkerInv, NoStrandedRow, AckMeetsPendingRow,
         RequestInv, TransactionInv, CommitInv, AtMostOnce, Committed,
         NoAcks, QStatus, Acks, Outcomes, Pcs

\* Types: Answer, Release and UpdateStatusExt are the updates that actions share.
LEMMA AnswerType ==
    ASSUME TypeOK, NEW r \in Request, NEW e \in Event, NEW a \in Outcomes, Answer(r, e, a)
    PROVE  /\ rpc' \in [Request -> Pcs] /\ todo' \in [Request -> SUBSET Event]
           /\ rcur' \in [Request -> Event \cup {None}]
           /\ rtx' \in [Request -> {"none", "stock", "log"}]
           /\ results' \in [Request -> [Event -> Acks]]
           /\ termLock' \in [Terminal -> Request \cup {None}]
  BY DEF Answer, TypeOK, Pcs, Acks

LEMMA ReleaseType ==
    ASSUME TypeOK, NEW S, Release(S)
    PROVE  /\ rpc' \in [Request -> Pcs] /\ todo' \in [Request -> SUBSET Event]
           /\ rcur' \in [Request -> Event \cup {None}]
           /\ rtx' \in [Request -> {"none", "stock", "log"}]
           /\ results' \in [Request -> [Event -> Acks]]
  BY DEF Release, TypeOK, Pcs, Acks, NoAcks

LEMMA UpdateStatusExtType ==
    ASSUME TypeOK, NEW e \in Event, attempts[e] < MaxRetries,
           NEW s \in QStatus, NEW i \in BOOLEAN, UpdateStatusExt(e, s, i)
    PROVE  /\ qstatus' \in [Event -> QStatus] /\ attempts' \in [Event -> 0..MaxRetries]
           /\ cooling' \in SUBSET Event
  BY ConstantsAssumption DEF UpdateStatusExt, TypeOK, QStatus

LEMMA AckOutcome ==
    ASSUME NEW a \in Acks \ {"NONE"}
    PROVE  /\ AckStatus(a) \in QStatus \ {"ABSENT"} /\ AckCounts(a) \in BOOLEAN
           /\ AckStatus(a) = "SYNCED" => a = "SYNCED"
  BY DEF Acks, Outcomes, AckStatus, AckCounts, QStatus

LEMMA TypeStep == IInv /\ [Next]_vars => TypeOK'
<1> SUFFICES ASSUME IInv, [Next]_vars PROVE TypeOK'
  OBVIOUS
<1> USE ConstantsAssumption
<1>0. TypeOK
  BY DEF IInv
<1>1. ASSUME NEW t \in Terminal, TerminalNext(t) PROVE TypeOK'
  <2>1. CASE SyncOutboxPush(t)
    <3>1. GetPending(t) \in SUBSET Event
      BY GetPendingIsPending
    <3> QED  BY <1>0, <2>1, <3>1 DEF SyncOutboxPush, TypeOK, Pcs, outbox, central, budget
  <2>2. CASE ReceiveResults(t)
    BY <1>0, <2>2, ReleaseType DEF ReceiveResults, TakeAnswer, TypeOK, outbox, central, budget
  <2>3. CASE GiveUpWaiting(t) \/ AnswerUnread(t)
    <3>1. ForBatch(t, "RETRY") \in [Event -> Acks] /\ NoAcks \in [Event -> Acks]
      BY DEF ForBatch, NoAcks, Acks
    <3>2. ack' \in [Terminal -> [Event -> Acks]]
      BY <1>0, <2>3, <3>1 DEF GiveUpWaiting, AnswerUnread, TakeAnswer, TypeOK
    <3> QED  BY <1>0, <2>3, <3>2 DEF GiveUpWaiting, AnswerUnread, TakeAnswer, TypeOK,
                                     outbox, request, central, budget
  <2>4. CASE Unauthorized(t) \/ BatchRejected(t)
    <3>1. crashes' \in Nat /\ refusals' \in Nat /\ resets' \in Nat
      BY <1>0, <2>4 DEF Unauthorized, BatchRejected, TypeOK, budget
    <3>2. PICK a \in Acks : TurnedAway(t, a)
      BY <2>4 DEF Unauthorized, BatchRejected, Acks
    <3> QED  BY <1>0, <3>1, <3>2, ReleaseType
             DEF TurnedAway, TakeAnswer, ForBatch, TypeOK, Acks, outbox, central, budget
  <2>5. CASE WriteAck(t)
    <3> PICK e \in Oldest(1, {f \in Event : ack[t][f] # "NONE"}) :
             /\ UpdateStatusExt(e, AckStatus(ack[t][e]), AckCounts(ack[t][e]))
             /\ ack' = [ack EXCEPT ![t][e] = "NONE"]
             /\ UNCHANGED <<createdAt, signedIn, waiting, batch, request, central, budget>>
      BY <2>5 DEF WriteAck
    <3>1. e \in Event /\ attempts[e] < MaxRetries /\ ack[t][e] \in Acks \ {"NONE"}
      BY AckedRow
    <3>2. AckStatus(ack[t][e]) \in QStatus /\ AckCounts(ack[t][e]) \in BOOLEAN
      BY <3>1, AckOutcome
    <3>3. /\ qstatus' \in [Event -> QStatus] /\ attempts' \in [Event -> 0..MaxRetries]
          /\ cooling' \in SUBSET Event
      BY <1>0, <3>1, <3>2, UpdateStatusExtType
    <3> QED  BY <1>0, <3>3 DEF TypeOK, Acks, request, central, budget
  <2>6. CASE Login(t) \/ Logout(t)
    BY <1>0, <2>6 DEF Login, Logout, TypeOK, outbox, request, central, budget
  <2>7. CASE Crash(t)
    <3>1. crashes' \in Nat /\ refusals' \in Nat /\ resets' \in Nat
      BY <1>0, <2>7 DEF Crash, TypeOK
    <3> QED  BY <1>0, <2>7, <3>1 DEF Crash, TypeOK, NoAcks, Acks, outbox, request, central, budget
  <2>8. CASE WriteFails(t)
    <3>1. ack' \in [Terminal -> [Event -> Acks]]
      <4> PICK e \in Oldest(1, {f \in Event : ack[t][f] # "NONE"}) :
               ack' = [ack EXCEPT ![t][e] = "NONE"]
        BY <2>8 DEF WriteFails
      <4>1. "NONE" \in Acks
        BY DEF Acks
      <4> QED  BY <1>0, <4>1 DEF TypeOK
    <3> QED  BY <1>0, <2>8, <3>1 DEF WriteFails, TypeOK, outbox, request, central, budget
  <2> QED  BY <1>1, <2>1, <2>2, <2>3, <2>4, <2>5, <2>6, <2>7, <2>8 DEF TerminalNext
<1>2. ASSUME NEW e \in Event, OutboxNext(e) PROVE TypeOK'
  <2>1. CASE EnqueueInTx(e)
    <3>1. createdAt' \in [Event -> Nat]
      BY <1>0, <2>1, RankIsNat DEF EnqueueInTx, TypeOK
    <3>2. qstatus' \in [Event -> QStatus] /\ attempts' \in [Event -> 0..MaxRetries]
      BY <1>0, <2>1 DEF EnqueueInTx, TypeOK, QStatus
    <3> QED  BY <1>0, <2>1, <3>1, <3>2 DEF EnqueueInTx, TypeOK, worker, request, central, budget
  <2>2. CASE BackoffElapses(e)
    BY <1>0, <2>2 DEF BackoffElapses, TypeOK, worker, request, central, budget
  <2>3. CASE ResetFailedPermanentForRetry(e)
    <3>1. crashes' \in Nat /\ refusals' \in Nat /\ resets' \in Nat
      BY <1>0, <2>3 DEF ResetFailedPermanentForRetry, TypeOK
    <3> QED  BY <1>0, <2>3, <3>1 DEF ResetFailedPermanentForRetry, TypeOK, QStatus,
                                     worker, request, central, budget
  <2> QED  BY <1>2, <2>1, <2>2, <2>3 DEF OutboxNext
<1>3. ASSUME NEW r \in Request, RouteNext(r) PROVE TypeOK'
  <2>1. CASE NetworkLoses(r) \/ AnswerUnheard(r)
    BY <1>0, <2>1, ReleaseType DEF NetworkLoses, AnswerUnheard, TypeOK, outbox, worker, central, budget
  <2>2. CASE AcceptPush(r) \/ FinishPush(r)
    BY <1>0, <2>2 DEF AcceptPush, FinishPush, TypeOK, Pcs, outbox, worker, central, budget
  <2>7. CASE EnsureTerminal(r)
    BY <1>0, <2>7 DEF EnsureTerminal, TypeOK, Pcs, outbox, worker, budget
  <2>8. CASE HandlerSucceeds(r)
    BY <1>0, <2>8 DEF HandlerSucceeds, TypeOK, Pcs, outbox, worker, central, budget
  <2>3. CASE CheckAudit(r)
    <3> PICK e \in Oldest(1, todo[r]) :
          \/ Answer(r, e, "SYNCED") /\ UNCHANGED <<audit, applied, logRows>>
          \/ Answer(r, e, "FAILED_PERMANENT") /\ UNCHANGED <<audit, applied, logRows>>
          \/ /\ rpc'  = [rpc EXCEPT ![r] = "begin"]
             /\ rcur' = [rcur EXCEPT ![r] = e]
             /\ UNCHANGED <<outbox, worker, todo, rtx, results, central, budget>>
      BY <2>3 DEF CheckAudit
    <3>1. e \in Event
      BY <1>0, OldestIsMember DEF TypeOK
    <3>2. CASE Answer(r, e, "SYNCED") /\ UNCHANGED <<audit, applied, logRows>>
      BY <1>0, <3>1, <3>2, AnswerType DEF Answer, TypeOK, Outcomes, outbox, worker, budget
    <3>3. CASE Answer(r, e, "FAILED_PERMANENT") /\ UNCHANGED <<audit, applied, logRows>>
      BY <1>0, <3>1, <3>3, AnswerType DEF Answer, TypeOK, Outcomes, outbox, worker, budget
    <3>4. CASE /\ rpc'  = [rpc EXCEPT ![r] = "begin"]
               /\ rcur' = [rcur EXCEPT ![r] = e]
               /\ UNCHANGED <<outbox, worker, todo, rtx, results, central, budget>>
      <4>1. rpc' \in [Request -> Pcs] /\ rcur' \in [Request -> Event \cup {None}]
        BY <1>0, <3>1, <3>4 DEF TypeOK, Pcs
      <4> QED  BY <1>0, <3>4, <4>1 DEF TypeOK, outbox, worker, central, budget
    <3> QED  BY <3>2, <3>3, <3>4
  <2>4. CASE RefuseBranch(r) \/ TransactionError(r)
    <3>1. rcur[r] \in Event /\ Answer(r, rcur[r], "FAILED_PERMANENT")
      BY <1>0, <2>4 DEF RefuseBranch, TransactionError, IInv, RequestInv, TypeOK
    <3> QED  BY <1>0, <2>4, <3>1, AnswerType
             DEF RefuseBranch, TransactionError, Answer, TypeOK, Outcomes, outbox, worker, budget
  <2>5. CASE HandlerRefuses(r)
    <3>1. PICK a \in HandlerRefusals(rcur[r]) : Answer(r, rcur[r], a)
      BY <2>5 DEF HandlerRefuses
    <3>2. rcur[r] \in Event /\ a \in Outcomes
      BY <1>0, <2>5 DEF HandlerRefuses, HandlerRefusals, IInv, RequestInv, TypeOK, Outcomes
    <3> QED  BY <1>0, <2>5, <3>1, <3>2, AnswerType
             DEF HandlerRefuses, Answer, TypeOK, outbox, worker, budget
  <2>6. CASE CommitEvent(r)
    <3>1. PICK a \in {"SYNCED", "FAILED_PERMANENT"} : Answer(r, rcur[r], a)
      BY <2>6 DEF CommitEvent
    <3>2. rcur[r] \in Event
      BY <1>0, <2>6 DEF CommitEvent, IInv, RequestInv, TypeOK
    <3>3. audit' \in SUBSET Event /\ logRows' \in [Event -> Nat]
      BY <1>0, <2>6, <3>2 DEF CommitEvent, TypeOK
    <3>4. applied' \in [Event -> Nat]
      BY <1>0, <2>6, <3>2 DEF CommitEvent, TypeOK
    <3>5. a \in Outcomes
      BY DEF Outcomes
    <3> QED  BY <1>0, <3>1, <3>2, <3>3, <3>4, <3>5, AnswerType
             DEF Answer, TypeOK, outbox, worker, budget
  <2> QED  BY <1>3, <2>1, <2>2, <2>3, <2>4, <2>5, <2>6, <2>7, <2>8 DEF RouteNext
<1>4. CASE BackendRestart
  BY <1>0, <1>4, ReleaseType DEF BackendRestart, TypeOK, outbox, worker, budget
<1>5. CASE UNCHANGED vars
  BY <1>0, <1>5 DEF vars, TypeOK, outbox, worker, request, central, budget
<1> QED  BY <1>1, <1>2, <1>3, <1>4, <1>5 DEF Next

-----------------------------------------------------------------------------
\* The backend never touches an outbox or a worker.
LEMMA RouteKeepsTerminals ==
    ASSUME NEW r \in Request, RouteNext(r)
    PROVE  UNCHANGED <<outbox, worker, budget>>
  BY DEF RouteNext, NetworkLoses, AcceptPush, CheckAudit, EnsureTerminal, RefuseBranch,
         HandlerSucceeds, HandlerRefuses, CommitEvent, TransactionError, FinishPush,
         AnswerUnheard, Answer

LEMMA WorkerStep == IInv /\ [Next]_vars => WorkerInv'
<1> SUFFICES ASSUME IInv, [Next]_vars PROVE WorkerInv'
  OBVIOUS
<1> USE ConstantsAssumption DEF WorkerInv, NoStrandedRow, AckMeetsPendingRow
<1>0. TypeOK /\ WorkerInv /\ RequestInv
  BY DEF IInv
<1>1. CASE UNCHANGED <<qstatus, attempts, waiting, batch, ack>>
  BY <1>0, <1>1
<1>2. ASSUME NEW t \in Terminal, TerminalNext(t) PROVE WorkerInv'
  <2>1. CASE SyncOutboxPush(t)
    BY <1>0, <2>1, GetPendingIsPending DEF SyncOutboxPush, WorkerIdle, TypeOK, outbox
  <2>2. CASE ReceiveResults(t)
    BY <1>0, <2>2 DEF ReceiveResults, TakeAnswer, RequestInv, TypeOK, NoAcks, outbox
  <2>3. ASSUME NEW a \in Acks, TakeAnswer(t, ForBatch(t, a)), UNCHANGED outbox,
               waiting[t] \in Request
        PROVE  WorkerInv'
    BY <1>0, <2>3 DEF TakeAnswer, ForBatch, TypeOK, NoAcks, outbox
  <2>4. CASE GiveUpWaiting(t) \/ Unauthorized(t) \/ BatchRejected(t)
    BY <2>3, <2>4 DEF GiveUpWaiting, Unauthorized, BatchRejected, TurnedAway, Acks
  <2>5. CASE WriteAck(t)
    <3> PICK e \in Oldest(1, {f \in Event : ack[t][f] # "NONE"}) :
             /\ UpdateStatusExt(e, AckStatus(ack[t][e]), AckCounts(ack[t][e]))
             /\ ack' = [ack EXCEPT ![t][e] = "NONE"]
             /\ UNCHANGED <<waiting, batch>>
      BY <2>5 DEF WriteAck
    <3>1. /\ e \in Event /\ TerminalOf[e] = t /\ waiting[t] = None /\ batch[t] = {}
          /\ attempts[e] \in Nat /\ attempts[e] < MaxRetries
      BY AckedRow
    <3>2. /\ \A f \in Event \ {e} : qstatus'[f] = qstatus[f] /\ attempts'[f] = attempts[f]
          /\ qstatus'[e] = "PENDING" => attempts'[e] < MaxRetries
      BY <1>0, <3>1 DEF UpdateStatusExt, TypeOK
    <3>3. /\ ack'[t][e] = "NONE"
          /\ \A u \in Terminal, f \in Event : ~(u = t /\ f = e) => ack'[u][f] = ack[u][f]
          /\ \A u \in Terminal : u # t => ack'[u] = ack[u]
      BY <1>0, <3>1 DEF TypeOK
    <3>4. NoStrandedRow'
      BY <1>0, <3>2
    <3>5. AckMeetsPendingRow'
      BY <1>0, <3>1, <3>2, <3>3
    <3>6. \A u \in Terminal : \A f \in batch[u] : TerminalOf[f] = u /\ qstatus'[f] = "PENDING"
      BY <1>0, <3>1, <3>2 DEF TypeOK
    <3>7. \A u \in Terminal : waiting[u] # None => ack'[u] = NoAcks
      BY <1>0, <3>1, <3>3
    <3> QED  BY <1>0, <3>4, <3>5, <3>6, <3>7
  <2>6. CASE Crash(t)
    BY <1>0, <2>6 DEF Crash, TypeOK, NoAcks, outbox
  <2>7. CASE Login(t) \/ Logout(t)
    BY <1>1, <2>7 DEF Login, Logout, outbox
  <2>8. CASE AnswerUnread(t)
    BY <1>0, <2>8 DEF AnswerUnread, TakeAnswer, TypeOK, NoAcks, outbox
  <2>9. CASE WriteFails(t)
    <3>1. \A u \in Terminal, f \in Event : ack'[u][f] \in {ack[u][f], "NONE"}
      BY <1>0, <2>9 DEF WriteFails, TypeOK
    <3>2. \A u \in Terminal : ack[u] = NoAcks => ack'[u] = NoAcks
      <4>1. \A u \in Terminal : ack'[u] \in [Event -> Acks \cup {"NONE"}]
        <5> PICK e \in Oldest(1, {f \in Event : ack[t][f] # "NONE"}) :
                 ack' = [ack EXCEPT ![t][e] = "NONE"]
          BY <2>9 DEF WriteFails
        <5>1. ack \in [Terminal -> [Event -> Acks]]
          BY <1>0 DEF TypeOK
        <5> SUFFICES ASSUME NEW u \in Terminal
                     PROVE  ack'[u] \in [Event -> Acks \cup {"NONE"}]
          OBVIOUS
        <5>2. ack[u] \in [Event -> Acks]
          BY <5>1
        <5>3. CASE u = t
          <6>1. ack'[u] = [ack[u] EXCEPT ![e] = "NONE"]
            BY <5>1, <5>3
          <6> QED  BY <5>2, <6>1
        <5>4. CASE u # t
          <6>1. ack'[u] = ack[u]
            BY <5>1, <5>4
          <6> QED  BY <5>2, <6>1
        <5> QED  BY <5>3, <5>4
      <4> QED  BY <3>1, <4>1 DEF NoAcks
    <3> QED  BY <1>0, <2>9, <3>1, <3>2 DEF WriteFails, outbox
  <2> QED  BY <1>2, <2>1, <2>2, <2>4, <2>5, <2>6, <2>7, <2>8, <2>9 DEF TerminalNext
<1>3. ASSUME NEW e \in Event, OutboxNext(e) PROVE WorkerInv'
  <2>1. CASE EnqueueInTx(e)
    BY <1>0, <2>1 DEF EnqueueInTx, TypeOK, worker
  <2>2. CASE BackoffElapses(e)
    BY <1>1, <2>2 DEF BackoffElapses, worker
  <2>3. CASE ResetFailedPermanentForRetry(e)
    BY <1>0, <2>3 DEF ResetFailedPermanentForRetry, TypeOK, worker
  <2> QED  BY <1>3, <2>1, <2>2, <2>3 DEF OutboxNext
<1>4. CASE (\E r \in Request : RouteNext(r)) \/ BackendRestart \/ UNCHANGED vars
  BY <1>1, <1>4, RouteKeepsTerminals DEF BackendRestart, vars, outbox, worker
<1> QED  BY <1>2, <1>3, <1>4 DEF Next

-----------------------------------------------------------------------------
\* The outbox may change under the requests, but no row ever goes away.
LEMMA RowsStay ==
    ASSUME IInv, [Next]_vars, NEW e \in Event, qstatus[e] # "ABSENT"
    PROVE  qstatus'[e] # "ABSENT"
<1> USE ConstantsAssumption
<1>0. TypeOK
  BY DEF IInv
<1>1. ASSUME NEW t \in Terminal, TerminalNext(t) PROVE qstatus'[e] # "ABSENT"
  <2>1. CASE WriteAck(t)
    <3> PICK f \in Oldest(1, {g \in Event : ack[t][g] # "NONE"}) :
             UpdateStatusExt(f, AckStatus(ack[t][f]), AckCounts(ack[t][f]))
      BY <2>1 DEF WriteAck
    <3>1. f \in Event /\ AckStatus(ack[t][f]) # "ABSENT"
      BY AckedRow, AckOutcome
    <3> QED  BY <1>0, <3>1 DEF UpdateStatusExt, TypeOK
  <2>2. CASE UNCHANGED qstatus
    BY <2>2
  <2> QED  BY <1>1, <2>1, <2>2
           DEF TerminalNext, SyncOutboxPush, ReceiveResults, GiveUpWaiting, AnswerUnread,
               Unauthorized, BatchRejected, TurnedAway, WriteFails, Login, Logout, Crash, outbox
<1>2. ASSUME NEW f \in Event, OutboxNext(f) PROVE qstatus'[e] # "ABSENT"
  BY <1>0, <1>2 DEF OutboxNext, EnqueueInTx, BackoffElapses, ResetFailedPermanentForRetry,
                    TypeOK
<1>3. CASE (\E r \in Request : RouteNext(r)) \/ BackendRestart \/ UNCHANGED vars
  BY <1>3, RouteKeepsTerminals DEF BackendRestart, vars, outbox
<1> QED  BY <1>1, <1>2, <1>3 DEF Next

LEMMA ReleaseKeepsRequests ==
    ASSUME IInv, NEW S, Release(S), UNCHANGED qstatus,
           \A t \in Terminal : \/ waiting'[t] = waiting[t] /\ batch'[t] = batch[t]
                               \/ waiting'[t] = None
    PROVE  RequestInv'
  BY ConstantsAssumption DEF IInv, Release, RequestInv, NoAcks, TypeOK

LEMMA AnswerKeepsRequests ==
    ASSUME IInv, NEW r \in Request, NEW e \in todo[r], NEW a \in Outcomes, Answer(r, e, a)
    PROVE  RequestInv'
<1>0. TypeOK /\ RequestInv /\ e \in Event
  BY DEF IInv, TypeOK
<1>1. /\ \A q \in Request : todo'[q] \subseteq todo[q]
      /\ rpc'[r] = "next" /\ \A q \in Request \ {r} : /\ rpc'[q] = rpc[q] /\ rcur'[q] = rcur[q]
                                                      /\ todo'[q] = todo[q] /\ results'[q] = results[q]
      /\ \A f \in Event \ {e} : results'[r][f] = results[r][f]
      /\ UNCHANGED <<qstatus, waiting, batch>>
  BY <1>0 DEF Answer, TypeOK, outbox, worker
<1> QED  BY <1>0, <1>1 DEF RequestInv

LEMMA RequestStep == IInv /\ [Next]_vars => RequestInv'
<1> SUFFICES ASSUME IInv, [Next]_vars PROVE RequestInv'
  OBVIOUS
<1> USE ConstantsAssumption
<1>0. TypeOK /\ RequestInv /\ WorkerInv
  BY DEF IInv
<1>1. CASE UNCHANGED <<rpc, rcur, todo, results, waiting, batch>>
  BY <1>0, <1>1, RowsStay DEF RequestInv, TypeOK
<1>2. ASSUME NEW t \in Terminal, TerminalNext(t) PROVE RequestInv'
  <2>1. CASE SyncOutboxPush(t)
    <3>1. PICK r \in Request :
             /\ rpc[r] = "free" /\ \A u \in Terminal : waiting[u] # r
             /\ rpc'  = [rpc EXCEPT ![r] = "sent"]
             /\ todo' = [todo EXCEPT ![r] = GetPending(t)]
             /\ waiting' = [waiting EXCEPT ![t] = r]
      BY <2>1 DEF SyncOutboxPush
    <3>2. /\ batch' = [batch EXCEPT ![t] = GetPending(t)]
          /\ UNCHANGED <<qstatus, rcur, results>>
      BY <2>1 DEF SyncOutboxPush, outbox
    <3>3. \A e \in GetPending(t) : qstatus[e] # "ABSENT"
      BY GetPendingIsPending
    <3> QED  BY <1>0, <3>1, <3>2, <3>3 DEF RequestInv, TypeOK, NoAcks
  <2>2. CASE ReceiveResults(t) \/ Unauthorized(t) \/ BatchRejected(t)
    <3>1. Release({waiting[t]}) /\ UNCHANGED qstatus
      BY <2>2 DEF ReceiveResults, Unauthorized, BatchRejected, TurnedAway, outbox
    <3>2. \A u \in Terminal : \/ waiting'[u] = waiting[u] /\ batch'[u] = batch[u]
                              \/ waiting'[u] = None
      BY <1>0, <2>2 DEF ReceiveResults, Unauthorized, BatchRejected, TurnedAway, TakeAnswer,
                        TypeOK
    <3> QED  BY <3>1, <3>2, ReleaseKeepsRequests
  <2>3. CASE GiveUpWaiting(t) \/ AnswerUnread(t) \/ Crash(t)
    <3>1. UNCHANGED <<qstatus, rpc, rcur, todo, results>>
      BY <2>3 DEF GiveUpWaiting, AnswerUnread, Crash, outbox, request
    <3>2. \A u \in Terminal : \/ waiting'[u] = waiting[u] /\ batch'[u] = batch[u]
                              \/ waiting'[u] = None
      BY <1>0, <2>3 DEF GiveUpWaiting, AnswerUnread, TakeAnswer, Crash, TypeOK
    <3> QED  BY <1>0, <3>1, <3>2 DEF RequestInv, TypeOK
  <2>4. CASE WriteAck(t) \/ WriteFails(t) \/ Login(t) \/ Logout(t)
    BY <1>1, <2>4 DEF WriteAck, WriteFails, Login, Logout, outbox, request
  <2> QED  BY <1>2, <2>1, <2>2, <2>3, <2>4 DEF TerminalNext
<1>3. ASSUME NEW e \in Event, OutboxNext(e) PROVE RequestInv'
  BY <1>1, <1>3 DEF OutboxNext, EnqueueInTx, BackoffElapses, ResetFailedPermanentForRetry,
                    worker, request
<1>4. ASSUME NEW r \in Request, RouteNext(r) PROVE RequestInv'
  <2>1. CASE NetworkLoses(r) \/ AnswerUnheard(r)
    BY <2>1, ReleaseKeepsRequests DEF NetworkLoses, AnswerUnheard, outbox, worker
  <2>2. CASE AcceptPush(r) \/ FinishPush(r) \/ EnsureTerminal(r) \/ HandlerSucceeds(r)
    BY <1>0, <2>2 DEF AcceptPush, FinishPush, EnsureTerminal, HandlerSucceeds, RequestInv,
                      TypeOK, outbox, worker
  <2>3. CASE CheckAudit(r)
    <3> PICK e \in Oldest(1, todo[r]) :
          \/ \E a \in {"SYNCED", "FAILED_PERMANENT"} : Answer(r, e, a)
          \/ /\ rpc'  = [rpc EXCEPT ![r] = "begin"]
             /\ rcur' = [rcur EXCEPT ![r] = e]
             /\ UNCHANGED <<outbox, worker, todo, results>>
      BY <2>3 DEF CheckAudit
    <3>1. e \in todo[r]
      BY OldestIsMember
    <3>2. CASE \E a \in {"SYNCED", "FAILED_PERMANENT"} : Answer(r, e, a)
      BY <3>1, <3>2, AnswerKeepsRequests DEF Outcomes
    <3>3. CASE /\ rpc'  = [rpc EXCEPT ![r] = "begin"]
               /\ rcur' = [rcur EXCEPT ![r] = e]
               /\ UNCHANGED <<outbox, worker, todo, results>>
      BY <1>0, <3>1, <3>3 DEF RequestInv, TypeOK, outbox, worker
    <3> QED  BY <3>2, <3>3
  <2>4. CASE RefuseBranch(r) \/ HandlerRefuses(r) \/ CommitEvent(r) \/ TransactionError(r)
    <3>1. rcur[r] \in todo[r]
      BY <1>0, <2>4 DEF RefuseBranch, HandlerRefuses, CommitEvent, TransactionError, RequestInv
    <3>2. \E a \in Outcomes : Answer(r, rcur[r], a)
      BY <2>4 DEF RefuseBranch, HandlerRefuses, HandlerRefusals, CommitEvent,
                  TransactionError, Outcomes
    <3> QED  BY <3>1, <3>2, AnswerKeepsRequests
  <2> QED  BY <1>4, <2>1, <2>2, <2>3, <2>4 DEF RouteNext
<1>5. CASE BackendRestart
  BY <1>5, ReleaseKeepsRequests DEF BackendRestart, outbox, worker
<1>6. CASE UNCHANGED vars
  BY <1>1, <1>6 DEF vars, worker, request
<1> QED  BY <1>2, <1>3, <1>4, <1>5, <1>6 DEF Next

-----------------------------------------------------------------------------
\* Two requests past ensureTerminal carry events of different terminals.
LEMMA LockExcludes ==
    ASSUME TransactionInv, NEW r \in Request, NEW q \in Request, q # r,
           rpc[r] \in {"handle", "commit"}, rpc[q] \in {"handle", "commit"}
    PROVE  TerminalOf[rcur[q]] # TerminalOf[rcur[r]] /\ rcur[q] # rcur[r]
  BY DEF TransactionInv

\* A request that answers an event leaves the other open transactions alone.
LEMMA AnswerKeepsTransactions ==
    ASSUME IInv, NEW r \in Request, NEW e \in Event, NEW a, Answer(r, e, a),
           \A q \in Request \ {r} : rpc[q] = "commit" => applied'[rcur[q]] = applied[rcur[q]]
    PROVE  TransactionInv'
<1>0. TypeOK /\ RequestInv /\ TransactionInv
  BY DEF IInv
<1>1. /\ rpc'[r] = "next"
      /\ \A q \in Request \ {r} : rpc'[q] = rpc[q] /\ rcur'[q] = rcur[q] /\ rtx'[q] = rtx[q]
      /\ \A t \in Terminal : termLock[t] # r => termLock'[t] = termLock[t]
  BY <1>0 DEF Answer, TypeOK
<1>2. \A q \in Request : rpc[q] \in {"handle", "commit"} => TerminalOf[rcur[q]] \in Terminal
  BY <1>0, ConstantsAssumption DEF RequestInv, TypeOK
<1> QED  BY <1>0, <1>1, <1>2 DEF TransactionInv

LEMMA ReleaseKeepsTransactions ==
    ASSUME TransactionInv, NEW S, Release(S), UNCHANGED <<termLock, applied>>
    PROVE  TransactionInv'
  BY DEF Release, TransactionInv

LEMMA TransactionStep == IInv /\ [Next]_vars => TransactionInv'
<1> SUFFICES ASSUME IInv, [Next]_vars PROVE TransactionInv'
  OBVIOUS
<1> USE ConstantsAssumption
<1>0. TypeOK /\ RequestInv /\ TransactionInv
  BY DEF IInv
<1>1. CASE UNCHANGED <<rpc, rcur, rtx, termLock, applied>>
  BY <1>0, <1>1 DEF TransactionInv
<1>2. ASSUME UNCHANGED <<termLock, applied>>,
             NEW q \in Request, rpc[q] \notin {"handle", "commit"},
             rpc'[q] \notin {"handle", "commit"},
             \A r \in Request \ {q} : rpc'[r] = rpc[r] /\ rcur'[r] = rcur[r] /\ rtx'[r] = rtx[r]
      PROVE  TransactionInv'
  BY <1>0, <1>2 DEF TransactionInv
<1>3. ASSUME NEW t \in Terminal, TerminalNext(t) PROVE TransactionInv'
  <2>1. CASE SyncOutboxPush(t)
    BY <1>0, <1>2, <2>1 DEF SyncOutboxPush, TypeOK, central
  <2>2. CASE ReceiveResults(t) \/ Unauthorized(t) \/ BatchRejected(t)
    BY <1>0, <2>2, ReleaseKeepsTransactions
       DEF ReceiveResults, Unauthorized, BatchRejected, TurnedAway, central
  <2>3. CASE \/ GiveUpWaiting(t) \/ AnswerUnread(t) \/ WriteAck(t) \/ WriteFails(t)
             \/ Login(t) \/ Logout(t) \/ Crash(t)
    BY <1>1, <2>3 DEF GiveUpWaiting, AnswerUnread, WriteAck, WriteFails, Login, Logout, Crash,
                      request, central
  <2> QED  BY <1>3, <2>1, <2>2, <2>3 DEF TerminalNext
<1>4. ASSUME NEW e \in Event, OutboxNext(e) PROVE TransactionInv'
  BY <1>1, <1>4 DEF OutboxNext, EnqueueInTx, BackoffElapses, ResetFailedPermanentForRetry,
                    request, central
<1>5. ASSUME NEW r \in Request, RouteNext(r) PROVE TransactionInv'
  <2>1. CASE NetworkLoses(r) \/ AnswerUnheard(r)
    BY <1>0, <2>1, ReleaseKeepsTransactions DEF NetworkLoses, AnswerUnheard, central
  <2>2. CASE AcceptPush(r) \/ FinishPush(r)
    BY <1>0, <1>2, <2>2 DEF AcceptPush, FinishPush, TypeOK, central
  <2>3. CASE CheckAudit(r)
    <3> PICK e \in Oldest(1, todo[r]) :
          \/ \E a \in {"SYNCED", "FAILED_PERMANENT"} : Answer(r, e, a) /\ UNCHANGED applied
          \/ /\ rpc'  = [rpc EXCEPT ![r] = "begin"]
             /\ rcur' = [rcur EXCEPT ![r] = e]
             /\ UNCHANGED <<rtx, central>>
      BY <2>3 DEF CheckAudit
    <3>1. e \in Event /\ rpc[r] = "next"
      BY <1>0, <2>3, OldestIsMember DEF CheckAudit, TypeOK
    <3>2. CASE \E a \in {"SYNCED", "FAILED_PERMANENT"} : Answer(r, e, a) /\ UNCHANGED applied
      BY <3>1, <3>2, AnswerKeepsTransactions
    <3>3. CASE /\ rpc'  = [rpc EXCEPT ![r] = "begin"]
               /\ rcur' = [rcur EXCEPT ![r] = e]
               /\ UNCHANGED <<rtx, central>>
      BY <1>0, <1>2, <3>1, <3>3 DEF TypeOK, central
    <3> QED  BY <3>2, <3>3
  <2>4. CASE EnsureTerminal(r)
    <3>1. rcur[r] \in Event /\ rpc'[r] = "handle"
      BY <1>0, <2>4 DEF EnsureTerminal, RequestInv, TypeOK
    <3>2. \A q \in Request \ {r} : rpc'[q] = rpc[q] /\ (rpc[q] \in {"handle", "commit"}
                                    => termLock'[TerminalOf[rcur[q]]] = termLock[TerminalOf[rcur[q]]])
      BY <1>0, <2>4 DEF EnsureTerminal, RequestInv, TransactionInv, TypeOK
    <3> QED  BY <1>0, <2>4, <3>1, <3>2 DEF EnsureTerminal, TransactionInv, TypeOK
  <2>5. CASE HandlerSucceeds(r)
    <3>1. rcur[r] \in Event
      BY <1>0, <2>5 DEF HandlerSucceeds, RequestInv, TypeOK
    <3> QED  BY <1>0, <2>5, <3>1
             DEF HandlerSucceeds, AlreadyMoved, TransactionInv, TypeOK, central
  <2>6. CASE RefuseBranch(r) \/ HandlerRefuses(r) \/ TransactionError(r)
    <3>1. rcur[r] \in Event /\ applied' = applied
      BY <1>0, <2>6 DEF RefuseBranch, HandlerRefuses, TransactionError, RequestInv, TypeOK
    <3> QED  BY <2>6, <3>1, AnswerKeepsTransactions
             DEF RefuseBranch, HandlerRefuses, TransactionError
  <2>7. CASE CommitEvent(r)
    <3>1. rcur[r] \in Event /\ \E a \in {"SYNCED", "FAILED_PERMANENT"} : Answer(r, rcur[r], a)
      BY <1>0, <2>7 DEF CommitEvent, RequestInv, TypeOK
    <3>2. \A q \in Request \ {r} : rpc[q] = "commit" => applied'[rcur[q]] = applied[rcur[q]]
      BY <1>0, <2>7, LockExcludes DEF CommitEvent, RequestInv, TypeOK
    <3> QED  BY <3>1, <3>2, AnswerKeepsTransactions
  <2> QED  BY <1>5, <2>1, <2>2, <2>3, <2>4, <2>5, <2>6, <2>7 DEF RouteNext
<1>6. CASE BackendRestart
  BY <1>0, <1>6 DEF BackendRestart, Release, TransactionInv
<1>7. CASE UNCHANGED vars
  BY <1>1, <1>7 DEF vars, request, central
<1> QED  BY <1>3, <1>4, <1>5, <1>6, <1>7 DEF Next

-----------------------------------------------------------------------------
\* The three tables of the central database are written by CommitEvent only.
LEMMA CommittedStays ==
    ASSUME IInv, NEW r \in Request, CommitEvent(r)
    PROVE  /\ rcur[r] \in Event /\ audit' = audit \cup {rcur[r]}
           /\ AtMostOnce' /\ \A e \in audit' : Committed(e)'
<1>0. TypeOK /\ RequestInv /\ TransactionInv /\ CommitInv
  BY DEF IInv
<1>1. rcur[r] \in Event /\ rpc[r] = "commit"
  BY <1>0 DEF CommitEvent, RequestInv, TypeOK
<1>2. /\ logRows' = [logRows EXCEPT ![rcur[r]] = @ + 1]
      /\ applied' = [applied EXCEPT ![rcur[r]] = IF rtx[r] = "stock" THEN @ + 1 ELSE @]
      /\ audit' = audit \cup {rcur[r]}
  BY DEF CommitEvent
<1>3. applied'[rcur[r]] <= 1 /\ (Kind[rcur[r]] = "INVENTORY" => applied'[rcur[r]] = 1)
  BY <1>0, <1>1, <1>2 DEF TransactionInv, CommitInv, AtMostOnce, TypeOK
<1>4. logRows'[rcur[r]] > 0
  BY <1>0, <1>1, <1>2 DEF TypeOK
<1>5. \A e \in Event \ {rcur[r]} : applied'[e] = applied[e] /\ logRows'[e] = logRows[e]
  BY <1>0, <1>1, <1>2 DEF TypeOK
<1>6. AtMostOnce'
  BY <1>0, <1>3, <1>5 DEF CommitInv, AtMostOnce
<1>7. \A e \in audit' : Committed(e)'
  BY <1>0, <1>1, <1>2, <1>3, <1>4, <1>5 DEF CommitInv, Committed, TypeOK
<1> QED  BY <1>1, <1>2, <1>6, <1>7

\* An answer SYNCED is given for an audited event, so CommitInv is kept.
LEMMA AnswerKeepsCommits ==
    ASSUME IInv, NEW r \in Request, NEW e \in Event, NEW a \in Outcomes, Answer(r, e, a),
           a = "SYNCED" => e \in audit', audit \subseteq audit',
           AtMostOnce', \A f \in audit' : Committed(f)'
    PROVE  CommitInv'
<1>0. TypeOK /\ CommitInv
  BY DEF IInv
<1>1. /\ UNCHANGED <<ack, qstatus>>
      /\ results'[r][e] = a
      /\ \A q \in Request, f \in Event : ~(q = r /\ f = e) => results'[q][f] = results[q][f]
  BY <1>0 DEF Answer, TypeOK, outbox, worker
<1> QED  BY <1>0, <1>1 DEF CommitInv

LEMMA CommitStep == IInv /\ [Next]_vars => CommitInv'
<1> SUFFICES ASSUME IInv, [Next]_vars PROVE CommitInv'
  OBVIOUS
<1> USE ConstantsAssumption
<1>0. TypeOK /\ RequestInv /\ CommitInv
  BY DEF IInv
<1>1. CASE UNCHANGED <<audit, applied, logRows, results, ack, qstatus>>
  BY <1>0, <1>1 DEF CommitInv, AtMostOnce, Committed
<1>2. ASSUME UNCHANGED <<audit, applied, logRows>>,
             \A r \in Request, e \in Event : results'[r][e] = "SYNCED" => e \in audit,
             \A t \in Terminal, e \in Event : ack'[t][e] = "SYNCED" => e \in audit,
             \A e \in Event : qstatus'[e] = "SYNCED" => e \in audit
      PROVE  CommitInv'
  BY <1>0, <1>2 DEF CommitInv, AtMostOnce, Committed
<1>3. ASSUME NEW S, Release(S) PROVE
        \A r \in Request, e \in Event : results'[r][e] = "SYNCED" => e \in audit
  BY <1>0, <1>3 DEF Release, NoAcks, CommitInv
<1>4. ASSUME NEW t \in Terminal, TerminalNext(t) PROVE CommitInv'
  <2>1. CASE ReceiveResults(t)
    BY <1>0, <1>2, <1>3, <2>1 DEF ReceiveResults, TakeAnswer, CommitInv, TypeOK, outbox, central
  <2>2. CASE Unauthorized(t) \/ BatchRejected(t)
    <3>1. PICK a \in {"UNAUTHORIZED", "REJECTED"} : TurnedAway(t, a)
      BY <2>2 DEF Unauthorized, BatchRejected
    <3>2. \A u \in Terminal, e \in Event : ack'[u][e] = "SYNCED" => e \in audit
      BY <1>0, <3>1 DEF TurnedAway, TakeAnswer, ForBatch, CommitInv, TypeOK
    <3> QED  BY <1>0, <1>2, <1>3, <3>1, <3>2 DEF TurnedAway, CommitInv, outbox, central
  <2>3. CASE GiveUpWaiting(t) \/ AnswerUnread(t)
    <3>1. \A u \in Terminal, e \in Event : ack'[u][e] = "SYNCED" => e \in audit
      <4>1. \A e \in Event : ForBatch(t, "RETRY")[e] # "SYNCED" /\ NoAcks[e] # "SYNCED"
        BY DEF ForBatch, NoAcks
      <4> QED  BY <1>0, <2>3, <4>1
               DEF GiveUpWaiting, AnswerUnread, TakeAnswer, CommitInv, TypeOK
    <3> QED  BY <1>0, <1>2, <2>3, <3>1 DEF GiveUpWaiting, AnswerUnread, CommitInv,
                                           outbox, request, central
  <2>4. CASE WriteAck(t)
    <3> PICK e \in Oldest(1, {f \in Event : ack[t][f] # "NONE"}) :
             /\ UpdateStatusExt(e, AckStatus(ack[t][e]), AckCounts(ack[t][e]))
             /\ ack' = [ack EXCEPT ![t][e] = "NONE"]
             /\ UNCHANGED <<request, central>>
      BY <2>4 DEF WriteAck
    <3>1. e \in Event /\ ack[t][e] \in Acks \ {"NONE"}
      BY AckedRow
    <3>2. AckStatus(ack[t][e]) = "SYNCED" => e \in audit
      BY <1>0, <3>1, AckOutcome DEF CommitInv
    <3>3. \A f \in Event : qstatus'[f] = "SYNCED" => f \in audit
      BY <1>0, <3>1, <3>2 DEF UpdateStatusExt, CommitInv, TypeOK
    <3>4. \A u \in Terminal, f \in Event : ack'[u][f] = "SYNCED" => f \in audit
      BY <1>0, <3>1 DEF CommitInv, TypeOK
    <3> QED  BY <1>0, <1>2, <3>3, <3>4 DEF CommitInv, request, central
  <2>5. CASE Crash(t)
    BY <1>0, <1>2, <2>5 DEF Crash, NoAcks, CommitInv, TypeOK, outbox, request, central
  <2>6. CASE SyncOutboxPush(t) \/ Login(t) \/ Logout(t)
    BY <1>1, <2>6 DEF SyncOutboxPush, Login, Logout, outbox, request, central
  <2>7. CASE WriteFails(t)
    BY <1>0, <1>2, <2>7 DEF WriteFails, CommitInv, TypeOK, outbox, request, central
  <2> QED  BY <1>4, <2>1, <2>2, <2>3, <2>4, <2>5, <2>6, <2>7 DEF TerminalNext
<1>5. ASSUME NEW e \in Event, OutboxNext(e) PROVE CommitInv'
  BY <1>0, <1>2, <1>5 DEF OutboxNext, EnqueueInTx, BackoffElapses,
     ResetFailedPermanentForRetry, CommitInv, TypeOK, worker, request, central
<1>6. ASSUME NEW r \in Request, RouteNext(r) PROVE CommitInv'
  <2>1. CASE NetworkLoses(r) \/ AnswerUnheard(r)
    BY <1>0, <1>2, <1>3, <2>1 DEF NetworkLoses, AnswerUnheard, CommitInv, outbox, worker, central
  <2>2. CASE AcceptPush(r) \/ FinishPush(r) \/ EnsureTerminal(r) \/ HandlerSucceeds(r)
    BY <1>1, <2>2 DEF AcceptPush, FinishPush, EnsureTerminal, HandlerSucceeds,
                      outbox, worker, central
  <2>3. ASSUME NEW e \in Event, NEW a \in Outcomes, Answer(r, e, a), a = "SYNCED" => e \in audit,
               UNCHANGED <<audit, applied, logRows>>
        PROVE  CommitInv'
    <3>1. AtMostOnce' /\ \A f \in audit' : Committed(f)'
      BY <1>0, <2>3 DEF CommitInv, AtMostOnce, Committed
    <3> QED  BY <2>3, <3>1, AnswerKeepsCommits
  <2>4. CASE CheckAudit(r)
    <3> PICK e \in Oldest(1, todo[r]) :
          \/ e \in audit /\ Answer(r, e, "SYNCED") /\ UNCHANGED <<audit, applied, logRows>>
          \/ Answer(r, e, "FAILED_PERMANENT") /\ UNCHANGED <<audit, applied, logRows>>
          \/ UNCHANGED <<outbox, worker, results, central>>
      BY <2>4 DEF CheckAudit
    <3>1. e \in Event
      BY <1>0, OldestIsMember DEF TypeOK
    <3> QED  BY <1>1, <2>3, <3>1 DEF Outcomes, outbox, worker, central
  <2>5. CASE RefuseBranch(r) \/ HandlerRefuses(r) \/ TransactionError(r)
    <3>1. rcur[r] \in Event /\ \E a \in Outcomes \ {"SYNCED"} : Answer(r, rcur[r], a)
      BY <1>0, <2>5 DEF RefuseBranch, HandlerRefuses, HandlerRefusals, TransactionError,
                        RequestInv, TypeOK, Outcomes
    <3> QED  BY <2>3, <2>5, <3>1 DEF RefuseBranch, HandlerRefuses, TransactionError
  <2>6. CASE CommitEvent(r)
    <3>1. PICK a \in {"SYNCED", "FAILED_PERMANENT"} : Answer(r, rcur[r], a)
      BY <2>6 DEF CommitEvent
    <3> QED  BY <2>6, <3>1, CommittedStays, AnswerKeepsCommits DEF Outcomes
  <2> QED  BY <1>6, <2>1, <2>2, <2>4, <2>5, <2>6 DEF RouteNext
<1>7. CASE BackendRestart
  BY <1>0, <1>2, <1>3, <1>7 DEF BackendRestart, CommitInv, outbox, worker
<1>8. CASE UNCHANGED vars
  BY <1>1, <1>8 DEF vars, outbox, worker, request, central
<1> QED  BY <1>4, <1>5, <1>6, <1>7, <1>8 DEF Next

-----------------------------------------------------------------------------
\* IInv is an invariant of the pipeline.
THEOREM Invariance == Spec => []IInv
<1>1. Init => IInv
  BY InitIInv
<1>2. IInv /\ [Next]_vars => IInv'
  BY TypeStep, WorkerStep, RequestStep, TransactionStep, CommitStep DEF IInv
<1> QED  BY <1>1, <1>2, PTL DEF Spec

\* Every variable of outbox, worker, route and database keeps its type.
THEOREM TypeCorrectness == Spec => []TypeOK
<1>1. IInv => TypeOK
  BY DEF IInv
<1> QED  BY <1>1, Invariance, PTL

\* The stock writes of an event are committed at most once, for any number of
\* requests that carry it at the same time.
THEOREM StockWrittenAtMostOnce == Spec => []AtMostOnce
<1>1. IInv => AtMostOnce
  BY DEF IInv, CommitInv
<1> QED  BY <1>1, Invariance, PTL

\* A row a terminal calls SYNCED is committed in the central database.
THEOREM SyncedMeansCommitted == Spec => []SyncedIsCommitted
<1>1. IInv => SyncedIsCommitted
  BY DEF IInv, CommitInv, SyncedIsCommitted
<1> QED  BY <1>1, Invariance, PTL

\* No row is left pending with its attempts used up, where no push sees it.
THEOREM NoRowStranded == Spec => []NoStrandedRow
<1>1. IInv => NoStrandedRow
  BY DEF IInv, WorkerInv
<1> QED  BY <1>1, Invariance, PTL

\* No late answer overwrites a settled row.
THEOREM AcksMeetPendingRows == Spec => []AckMeetsPendingRow
<1>1. IInv => AckMeetsPendingRow
  BY DEF IInv, WorkerInv
<1> QED  BY <1>1, Invariance, PTL

-----------------------------------------------------------------------------
\* A step that leaves the outbox statuses alone delivers one event or none.
LEMMA RouteDelivers ==
    ASSUME IInv, NEW r \in Request, RouteNext(r)
    PROVE  [Delivery!Next]_<<qstatus, audit>>
<1>0. TypeOK /\ RequestInv
  BY DEF IInv
<1>1. qstatus' = qstatus
  BY RouteKeepsTerminals DEF outbox
<1>2. CASE CommitEvent(r)
  <2>1. rcur[r] \in Event /\ qstatus[rcur[r]] # "ABSENT" /\ audit' = audit \cup {rcur[r]}
    BY <1>0, <1>2 DEF CommitEvent, RequestInv, TypeOK
  <2>2. CASE rcur[r] \in audit
    BY <1>1, <2>1, <2>2
  <2>3. CASE rcur[r] \notin audit
    BY <1>1, <2>1, <2>3 DEF Delivery!Next, Delivery!Deliver
  <2> QED  BY <2>2, <2>3
<1>3. CASE UNCHANGED audit
  BY <1>1, <1>3
<1> QED
  BY <1>2, <1>3
     DEF RouteNext, NetworkLoses, AcceptPush, CheckAudit, EnsureTerminal, RefuseBranch,
         HandlerSucceeds, HandlerRefuses, TransactionError, FinishPush, AnswerUnheard, central

\* An outcome written by the worker settles a pending event or leaves it so.
LEMMA WriteAckSettles ==
    ASSUME IInv, NEW t \in Terminal, WriteAck(t)
    PROVE  [Delivery!Next]_<<qstatus, audit>>
<1>0. TypeOK /\ CommitInv
  BY DEF IInv
<1> PICK e \in Oldest(1, {f \in Event : ack[t][f] # "NONE"}) :
         /\ UpdateStatusExt(e, AckStatus(ack[t][e]), AckCounts(ack[t][e]))
         /\ UNCHANGED central
  BY DEF WriteAck
<1>1. e \in Event /\ ack[t][e] \in Acks \ {"NONE"} /\ qstatus[e] = "PENDING"
  BY AckedRow
<1>2. PICK s \in {"PENDING", "SYNCED", "CONFLICT", "FAILED_PERMANENT"} :
           /\ qstatus' = [qstatus EXCEPT ![e] = s]
           /\ s = "SYNCED" => e \in audit
  BY <1>0, <1>1, AckOutcome DEF UpdateStatusExt, CommitInv, QStatus
<1>3. CASE s = "PENDING"
  BY <1>0, <1>1, <1>2, <1>3 DEF TypeOK, central
<1>4. CASE s # "PENDING"
  BY <1>1, <1>2, <1>4 DEF Delivery!Next, Delivery!Settle, central
<1> QED  BY <1>3, <1>4

\* The pipeline implements EventDelivery: recording, delivering, settling and
\* reopening are the only changes of an event that its steps can make.
THEOREM ImplementsEventDelivery == Spec => DeliverySpec
<1>1. Init => Delivery!Init
  BY DEF Init, Delivery!Init
<1>2. IInv /\ [Next]_vars => [Delivery!Next]_<<qstatus, audit>>
  <2> SUFFICES ASSUME IInv, [Next]_vars PROVE [Delivery!Next]_<<qstatus, audit>>
    OBVIOUS
  <2>0. TypeOK /\ WorkerInv
    BY DEF IInv
  <2>1. ASSUME NEW t \in Terminal, TerminalNext(t)
        PROVE  [Delivery!Next]_<<qstatus, audit>>
    <3>1. CASE UNCHANGED <<qstatus, audit>>
      BY <3>1
    <3> QED
      BY <2>1, <3>1, WriteAckSettles
         DEF TerminalNext, SyncOutboxPush, ReceiveResults, GiveUpWaiting, AnswerUnread,
             Unauthorized, BatchRejected, TurnedAway, WriteFails, Login, Logout, Crash, outbox, central
  <2>2. ASSUME NEW e \in Event, OutboxNext(e)
        PROVE  [Delivery!Next]_<<qstatus, audit>>
    <3>1. CASE EnqueueInTx(e)
      BY <3>1 DEF EnqueueInTx, Delivery!Next, Delivery!Record, central
    <3>2. CASE BackoffElapses(e)
      BY <3>2 DEF BackoffElapses, central
    <3>3. CASE ResetFailedPermanentForRetry(e)
      <4>1. ~(qstatus[e] = "PENDING" /\ attempts[e] >= MaxRetries)
        BY <2>0, ConstantsAssumption DEF WorkerInv, NoStrandedRow, TypeOK
      <4> QED  BY <3>3, <4>1
               DEF ResetFailedPermanentForRetry, Delivery!Next, Delivery!Reopen, central
    <3> QED  BY <2>2, <3>1, <3>2, <3>3 DEF OutboxNext
  <2>3. CASE BackendRestart \/ UNCHANGED vars
    BY <2>3 DEF BackendRestart, vars, outbox, central
  <2> QED  BY <2>1, <2>2, <2>3, RouteDelivers DEF Next
<1> QED  BY <1>1, <1>2, Invariance, PTL DEF Spec, DeliverySpec, Delivery!Spec
=============================================================================
