------------------------------ MODULE SyncPush ------------------------------
(***************************************************************************)
(* The upstream half of the offline-first pipeline: the SQLite outbox of   *)
(* every desktop terminal (offline_sync_queue), the worker that pushes it  *)
(* in batches, the HTTP exchange, and the push route of the backend, which *)
(* runs every event of a batch in a PostgreSQL transaction of its own.     *)
(*                                                                         *)
(* The worker gives up on a request after ten seconds and sends the events *)
(* again later, while the backend may still be running the first request:  *)
(* several requests of one terminal can be at work on the same event.      *)
(***************************************************************************)
EXTENDS Integers, FiniteSets

CONSTANTS
    Terminal,      \* desktop terminals, each with its own outbox and worker
    Event,         \* client_event_ids that the terminals may record
    TerminalOf,    \* the terminal_id stored in an event's outbox row
    Kind,          \* how the push route dispatches the event's event_type
    Request,       \* slots for push requests in flight (bounds concurrency)
    None,          \* "no request", "no event"
    MaxRetries,    \* MAX_RETRIES
    PushLimit,     \* how many events a push takes (50)
    FetchLimit,    \* how many pending rows the outbox query reads (250)
    MaxCrashes,    \* bound: desktop crashes in a behaviour
    MaxRefusals,   \* bound: HTTP 401 answers in a behaviour
    MaxResets,     \* bound: manual retries by an administrator
    Together       \* bound: the events, request slots and disturbances that come
                   \* in one behaviour

Kinds == {"INVENTORY", "PRODUCT", "PARTY", "UNSUPPORTED"}
Disturbances == {"crash", "refusal", "reset"}

ASSUME ConstantsAssumption ==
    /\ IsFiniteSet(Event)
    /\ TerminalOf \in [Event -> Terminal]
    /\ Kind \in [Event -> Kinds]
    /\ None \notin Request /\ None \notin Event
    /\ MaxRetries \in Nat \ {0}
    /\ PushLimit \in Nat \ {0} /\ FetchLimit \in Nat \ {0}
    /\ MaxCrashes \in Nat /\ MaxRefusals \in Nat /\ MaxResets \in Nat
    /\ Together \subseteq SUBSET (Event \cup Request \cup Disturbances)

VARIABLES
    qstatus,     \* offline_sync_queue.status of an event ("ABSENT": no row)
    attempts,    \* offline_sync_queue.attempt_count
    createdAt,   \* offline_sync_queue.created_at, as a rank in its outbox
    cooling,     \* pending events whose retry back-off has not elapsed
    signedIn,    \* terminals whose session holds a token
    waiting,     \* the request a terminal's worker awaits, or None
    batch,       \* the pending_items of the worker's current push
    ack,         \* outcomes the worker has yet to write to its outbox
    rpc,         \* where a request is in the push route
    todo,        \* the events of a request that its loop has not reached
    rcur,        \* the event a request is processing
    rtx,         \* what the open transaction of a request will commit
    results,     \* the per-event answers a request has collected
    termLock,    \* the request whose transaction holds a terminals row lock
    audit,       \* events with a sync_audit row
    applied,     \* committed stock effects of an event
    logRows,     \* change_log rows of an event
    crashes,     \* desktop crashes still allowed
    refusals,    \* HTTP 401 answers still allowed
    resets       \* manual retries still allowed

outbox  == <<qstatus, attempts, createdAt, cooling>>
worker  == <<signedIn, waiting, batch, ack>>
request == <<rpc, todo, rcur, rtx, results>>
central == <<termLock, audit, applied, logRows>>
budget  == <<crashes, refusals, resets>>
vars    == <<outbox, worker, request, central, budget>>

QStatus  == {"ABSENT", "PENDING", "SYNCED", "CONFLICT", "FAILED_PERMANENT"}
Outcomes == {"SYNCED", "FAILED_PERMANENT", "DEPENDENCY_NOT_FOUND", "CONFLICT"}
Acks     == Outcomes \cup {"RETRY", "UNAUTHORIZED", "REJECTED", "NONE"}
Pcs      == {"free", "sent", "next", "begin", "handle", "commit", "done"}
NoAcks   == [e \in Event |-> "NONE"]

Init ==
    /\ qstatus   = [e \in Event |-> "ABSENT"]
    /\ attempts  = [e \in Event |-> 0]
    /\ createdAt = [e \in Event |-> 0]
    /\ cooling   = {}
    /\ signedIn  = {}
    /\ waiting   = [t \in Terminal |-> None]
    /\ batch     = [t \in Terminal |-> {}]
    /\ ack       = [t \in Terminal |-> NoAcks]
    /\ rpc       = [r \in Request |-> "free"]
    /\ todo      = [r \in Request |-> {}]
    /\ rcur      = [r \in Request |-> None]
    /\ rtx       = [r \in Request |-> "none"]
    /\ results   = [r \in Request |-> NoAcks]
    /\ termLock  = [t \in Terminal |-> None]
    /\ audit     = {}
    /\ applied   = [e \in Event |-> 0]
    /\ logRows   = [e \in Event |-> 0]
    /\ crashes = MaxCrashes /\ refusals = MaxRefusals /\ resets = MaxResets

-----------------------------------------------------------------------------
(* The outbox of a terminal.                                               *)

Comes(x) == \E mix \in Together : {e \in Event : qstatus[e] # "ABSENT"} \cup {x} \subseteq mix

Owned(t) == {e \in Event : TerminalOf[e] = t}

\* The n oldest events of S (all of one terminal) by created_at.
Oldest(n, S) ==
    {e \in S : Cardinality({f \in S : createdAt[f] < createdAt[e]}) < n}

\* The rows the outbox query reads: pending, below the attempt cap, oldest
\* first, cut off before the back-off of each row is looked at.
PendingWindow(t) ==
    Oldest(FetchLimit, {e \in Owned(t) : /\ qstatus[e] = "PENDING"
                                         /\ attempts[e] < MaxRetries})

GetPending(t) == Oldest(PushLimit, PendingWindow(t) \ cooling)

\* A local operation commits its outbox row in the same SQLite transaction.
\* A second row for the same client_event_id is refused by UNIQUE.
EnqueueInTx(e) ==
    /\ qstatus[e] = "ABSENT" /\ Comes(e)
    /\ qstatus' = [qstatus EXCEPT ![e] = "PENDING"]
    /\ attempts' = [attempts EXCEPT ![e] = 0]
    /\ createdAt' = [createdAt EXCEPT ![e] =
           Cardinality({f \in Owned(TerminalOf[e]) : qstatus[f] # "ABSENT"}) + 1]
    /\ UNCHANGED <<cooling, worker, request, central, budget>>

BackoffElapses(e) ==
    /\ e \in cooling
    /\ cooling' = cooling \ {e}
    /\ UNCHANGED <<qstatus, attempts, createdAt, worker, request, central, budget>>

\* FAULTY: the cap is compared one attempt too late.
UpdateStatusExtLateCap(e, status, increment) ==
    LET count == attempts[e] + (IF increment THEN 1 ELSE 0)
        final == IF status = "PENDING" /\ count > MaxRetries
                 THEN "FAILED_PERMANENT" ELSE status
    IN  /\ qstatus'  = [qstatus EXCEPT ![e] = final]
        /\ attempts' = [attempts EXCEPT ![e] = count]
        /\ cooling'  = IF final = "PENDING" THEN cooling \cup {e} ELSE cooling \ {e}

\* One write of an outcome: attempts are counted first, and a row that would
\* stay pending at the cap becomes FAILED_PERMANENT instead.
UpdateStatusExt(e, status, increment) ==
    LET count == attempts[e] + (IF increment THEN 1 ELSE 0)
        final == IF status = "PENDING" /\ count >= MaxRetries
                 THEN "FAILED_PERMANENT" ELSE status
    IN  /\ qstatus'  = [qstatus EXCEPT ![e] = final]
        /\ attempts' = [attempts EXCEPT ![e] = count]
        /\ cooling'  = IF final = "PENDING" /\ count > 0
                       THEN cooling \cup {e} ELSE cooling \ {e}

\* FAULTY: a CONFLICT row can be sent back too.
ResetAlsoConflicts(e) ==
    /\ resets > 0 /\ Comes("reset")
    /\ qstatus[e] \in {"FAILED_PERMANENT", "CONFLICT"}
    /\ qstatus'  = [qstatus EXCEPT ![e] = "PENDING"]
    /\ attempts' = [attempts EXCEPT ![e] = 0]
    /\ cooling'  = cooling \ {e}
    /\ resets'  = resets - 1
    /\ UNCHANGED <<createdAt, worker, request, central, crashes, refusals>>

\* An administrator sends a FAILED_PERMANENT row back to the queue.
ResetFailedPermanentForRetry(e) ==
    /\ resets > 0 /\ Comes("reset")
    /\ \/ qstatus[e] = "FAILED_PERMANENT"
       \/ qstatus[e] = "PENDING" /\ attempts[e] >= MaxRetries
    /\ qstatus'  = [qstatus EXCEPT ![e] = "PENDING"]
    /\ attempts' = [attempts EXCEPT ![e] = 0]
    /\ cooling'  = cooling \ {e}
    /\ resets'  = resets - 1
    /\ UNCHANGED <<createdAt, worker, request, central, crashes, refusals>>

-----------------------------------------------------------------------------
(* The worker of a terminal.                                               *)

Login(t) ==
    /\ t \notin signedIn
    /\ signedIn' = signedIn \cup {t}
    /\ UNCHANGED <<outbox, waiting, batch, ack, request, central, budget>>

Logout(t) ==
    /\ t \in signedIn
    /\ signedIn' = signedIn \ {t}
    /\ UNCHANGED <<outbox, waiting, batch, ack, request, central, budget>>

\* FAULTY: the lock is released before the outcomes are written.
WorkerIdleEarly(t) == waiting[t] = None

\* The worker's execution_lock is free: no push of this terminal under way.
WorkerIdle(t) == waiting[t] = None /\ ack[t] = NoAcks

\* A manual sync or a background tick posts the eligible events.
SyncOutboxPush(t) ==
    /\ WorkerIdle(t)
    /\ t \in signedIn
    /\ GetPending(t) # {}
    /\ \E r \in Request :
          /\ rpc[r] = "free" /\ Comes(r)
          /\ \A u \in Terminal : waiting[u] # r
          /\ rpc'     = [rpc EXCEPT ![r] = "sent"]
          /\ todo'    = [todo EXCEPT ![r] = GetPending(t)]
          /\ waiting' = [waiting EXCEPT ![t] = r]
    /\ batch' = [batch EXCEPT ![t] = GetPending(t)]
    /\ UNCHANGED <<outbox, signedIn, ack, rcur, rtx, results, central, budget>>

\* One outcome for the whole batch of the terminal.
ForBatch(t, a) == [e \in Event |-> IF e \in batch[t] THEN a ELSE "NONE"]

\* The slots in S hold no request any more.
Release(S) ==
    /\ rpc'     = [r \in Request |-> IF r \in S THEN "free" ELSE rpc[r]]
    /\ todo'    = [r \in Request |-> IF r \in S THEN {} ELSE todo[r]]
    /\ rcur'    = [r \in Request |-> IF r \in S THEN None ELSE rcur[r]]
    /\ rtx'     = [r \in Request |-> IF r \in S THEN "none" ELSE rtx[r]]
    /\ results' = [r \in Request |-> IF r \in S THEN NoAcks ELSE results[r]]

\* The worker stops waiting and has an outcome to write for each event.
TakeAnswer(t, answer) ==
    /\ ack' = [ack EXCEPT ![t] = answer]
    /\ waiting' = [waiting EXCEPT ![t] = None]
    /\ batch' = [batch EXCEPT ![t] = {}]

\* HTTP 200: the per-event results.
ReceiveResults(t) ==
    /\ waiting[t] \in Request
    /\ rpc[waiting[t]] = "done"
    /\ TakeAnswer(t, results[waiting[t]])
    /\ Release({waiting[t]})
    /\ UNCHANGED <<outbox, signedIn, central, budget>>

\* No usable answer: ten seconds passed, the connection broke, or a 409, 5xx
\* or dependency 422 came back. What the backend does with the request is open.
GiveUpWaiting(t) ==
    /\ waiting[t] \in Request
    /\ TakeAnswer(t, ForBatch(t, "RETRY"))
    /\ UNCHANGED <<outbox, signedIn, request, central, budget>>

\* A 2xx whose body breaks off or holds no results: nothing is written, not
\* even an attempt, and the whole batch stays as it was.
AnswerUnread(t) ==
    /\ waiting[t] \in Request
    /\ rpc[waiting[t]] = "done"
    /\ TakeAnswer(t, NoAcks)
    /\ UNCHANGED <<outbox, signedIn, request, central, budget>>

\* The request is turned away before the route runs: 401 by the session check
\* of authMiddleware, or 400, 403, 404, 422 for the batch as a whole.
TurnedAway(t, a) ==
    /\ waiting[t] \in Request
    /\ rpc[waiting[t]] = "sent"
    /\ TakeAnswer(t, ForBatch(t, a))
    /\ Release({waiting[t]})
    /\ UNCHANGED <<outbox, signedIn, central>>

Unauthorized(t) ==
    /\ refusals > 0 /\ Comes("refusal")
    /\ refusals' = refusals - 1
    /\ UNCHANGED <<crashes, resets>>
    /\ TurnedAway(t, "UNAUTHORIZED")

BatchRejected(t) ==
    /\ TurnedAway(t, "REJECTED")
    /\ UNCHANGED budget

\* FAULTY: an answer without a status counts as SYNCED.
AckStatusOptimistic(a) ==
    IF a \in {"CONFLICT", "FAILED_PERMANENT"} THEN a ELSE "SYNCED"

\* What each answer makes of a row, and whether it counts as an attempt.
AckStatus(a) ==
    CASE a \in {"SYNCED", "CONFLICT", "FAILED_PERMANENT"} -> a
      [] a = "REJECTED" -> "FAILED_PERMANENT"
      [] OTHER -> "PENDING"

\* FAULTY: transport failures are retried without counting.
AckCountsAnswersOnly(a) == a \in {"DEPENDENCY_NOT_FOUND", "FAILED_PERMANENT", "REJECTED"}

AckCounts(a) == a \in {"DEPENDENCY_NOT_FOUND", "FAILED_PERMANENT", "RETRY", "REJECTED"}

\* The loop over the answers takes the events in the order of the batch and
\* writes each outcome in a statement of its own.
WriteAck(t) ==
    \E e \in Oldest(1, {f \in Event : ack[t][f] # "NONE"}) :
        /\ UpdateStatusExt(e, AckStatus(ack[t][e]), AckCounts(ack[t][e]))
        /\ ack' = [ack EXCEPT ![t][e] = "NONE"]
        /\ UNCHANGED <<createdAt, signedIn, waiting, batch, request, central, budget>>

\* SQLite refuses the write of an outcome: the error is dropped, the row stays
\* as it was and the loop goes on.
WriteFails(t) ==
    \E e \in Oldest(1, {f \in Event : ack[t][f] # "NONE"}) :
        /\ ack' = [ack EXCEPT ![t][e] = "NONE"]
        /\ UNCHANGED <<outbox, signedIn, waiting, batch, request, central, budget>>

\* The desktop process ends: what its worker held in memory is gone.
Crash(t) ==
    /\ ~WorkerIdle(t)
    /\ crashes > 0 /\ Comes("crash")
    /\ crashes'  = crashes - 1
    /\ waiting'  = [waiting EXCEPT ![t] = None]
    /\ batch'    = [batch EXCEPT ![t] = {}]
    /\ ack'      = [ack EXCEPT ![t] = NoAcks]
    /\ signedIn' = signedIn \ {t}
    /\ UNCHANGED <<outbox, request, central, refusals, resets>>

-----------------------------------------------------------------------------
(* The push route of the backend.                                          *)

NetworkLoses(r) ==
    /\ rpc[r] = "sent"
    /\ Release({r})
    /\ UNCHANGED <<outbox, worker, central, budget>>

AcceptPush(r) ==
    /\ rpc[r] = "sent"
    /\ rpc' = [rpc EXCEPT ![r] = "next"]
    /\ UNCHANGED <<outbox, worker, todo, rcur, rtx, results, central, budget>>

\* The route answers an event and its loop moves on; a transaction that the
\* request had open has ended, so its terminals row lock is free again.
Answer(r, e, outcome) ==
    /\ rpc'     = [rpc EXCEPT ![r] = "next"]
    /\ todo'    = [todo EXCEPT ![r] = @ \ {e}]
    /\ rcur'    = [rcur EXCEPT ![r] = None]
    /\ rtx'     = [rtx EXCEPT ![r] = "none"]
    /\ results' = [results EXCEPT ![r][e] = outcome]
    /\ termLock' = [t \in Terminal |-> IF termLock[t] = r THEN None ELSE termLock[t]]
    /\ UNCHANGED <<outbox, worker, budget>>

\* The loop takes its next event and looks it up in sync_audit, on a pooled
\* connection and outside any transaction.
CheckAudit(r) ==
    /\ rpc[r] = "next"
    /\ \E e \in Oldest(1, todo[r]) :
          \/ /\ e \in audit
             /\ Answer(r, e, "SYNCED")
             /\ UNCHANGED <<audit, applied, logRows>>
          \/ /\ e \notin audit /\ Kind[e] = "UNSUPPORTED"
             /\ Answer(r, e, "FAILED_PERMANENT")
             /\ UNCHANGED <<audit, applied, logRows>>
          \/ /\ e \notin audit /\ Kind[e] # "UNSUPPORTED"
             /\ rpc'  = [rpc EXCEPT ![r] = "begin"]
             /\ rcur' = [rcur EXCEPT ![r] = e]
             /\ UNCHANGED <<outbox, worker, todo, rtx, results, central, budget>>

\* FAULTY: the terminal is only looked up; its row is not locked.
EnsureTerminalLookup(r) ==
    /\ rpc[r] = "begin"
    /\ rpc' = [rpc EXCEPT ![r] = "handle"]
    /\ UNCHANGED <<outbox, worker, todo, rcur, rtx, results, central, budget>>

\* BEGIN and ensureTerminal: the upsert of the terminals row keeps that row
\* locked until the transaction ends. A concurrent upsert waits for it.
EnsureTerminal(r) ==
    /\ rpc[r] = "begin"
    /\ termLock[TerminalOf[rcur[r]]] = None
    /\ termLock' = [termLock EXCEPT ![TerminalOf[rcur[r]]] = r]
    /\ rpc' = [rpc EXCEPT ![r] = "handle"]
    /\ UNCHANGED <<outbox, worker, todo, rcur, rtx, results,
                   audit, applied, logRows, budget>>

\* The branch of the event is unknown, inactive or of another organization.
RefuseBranch(r) ==
    /\ rpc[r] = "begin"
    /\ Answer(r, rcur[r], "FAILED_PERMANENT")
    /\ UNCHANGED <<audit, applied, logRows>>

\* stock_movements rows carry the client_event_id as reference_id.
AlreadyMoved(e) == Kind[e] = "INVENTORY" /\ applied[e] > 0

\* What the handlers answer when they do not succeed. A product handler ends
\* in SYNCED only for a product that exists; it writes nothing then.
HandlerRefusals(e) ==
    CASE Kind[e] = "INVENTORY" -> {"FAILED_PERMANENT", "DEPENDENCY_NOT_FOUND", "CONFLICT"}
      [] Kind[e] = "PRODUCT"   -> {"FAILED_PERMANENT", "DEPENDENCY_NOT_FOUND"}
      [] OTHER                 -> {}

\* The handler succeeds: its stock writes are part of the open transaction,
\* unless its duplicate check met a committed movement of the same event.
HandlerSucceeds(r) ==
    /\ rpc[r] = "handle"
    /\ rpc' = [rpc EXCEPT ![r] = "commit"]
    /\ rtx' = [rtx EXCEPT ![r] =
                 IF Kind[rcur[r]] = "INVENTORY" /\ ~AlreadyMoved(rcur[r])
                 THEN "stock" ELSE "log"]
    /\ UNCHANGED <<outbox, worker, todo, rcur, results, central, budget>>

\* Any answer but SYNCED rolls the transaction back.
HandlerRefuses(r) ==
    /\ rpc[r] = "handle"
    /\ ~AlreadyMoved(rcur[r])
    /\ \E outcome \in HandlerRefusals(rcur[r]) : Answer(r, rcur[r], outcome)
    /\ UNCHANGED <<audit, applied, logRows>>

\* writeChangeLog, writeSyncAudit (ON CONFLICT DO NOTHING) and COMMIT. When
\* the connection breaks during COMMIT the catch block answers
\* FAILED_PERMANENT although the transaction is durable.
CommitEvent(r) ==
    /\ rpc[r] = "commit"
    /\ audit'   = audit \cup {rcur[r]}
    /\ logRows' = [logRows EXCEPT ![rcur[r]] = @ + 1]
    /\ applied' = [applied EXCEPT ![rcur[r]] = IF rtx[r] = "stock" THEN @ + 1 ELSE @]
    /\ \E outcome \in {"SYNCED", "FAILED_PERMANENT"} : Answer(r, rcur[r], outcome)

\* An exception anywhere in the transaction: rolled back, TRANSACTION_ERROR.
TransactionError(r) ==
    /\ rpc[r] \in {"begin", "handle", "commit"}
    /\ Answer(r, rcur[r], "FAILED_PERMANENT")
    /\ UNCHANGED <<audit, applied, logRows>>

FinishPush(r) ==
    /\ rpc[r] = "next" /\ todo[r] = {}
    /\ rpc' = [rpc EXCEPT ![r] = "done"]
    /\ UNCHANGED <<outbox, worker, todo, rcur, rtx, results, central, budget>>

\* The answer reaches nobody: its terminal gave up or went away.
AnswerUnheard(r) ==
    /\ rpc[r] = "done"
    /\ \A t \in Terminal : waiting[t] # r
    /\ Release({r})
    /\ UNCHANGED <<outbox, worker, central, budget>>

\* The backend process ends; PostgreSQL rolls back its open transactions.
BackendRestart ==
    /\ \E r \in Request : rpc[r] \notin {"free", "sent"}
    /\ Release({r \in Request : rpc[r] # "sent"})
    /\ termLock' = [t \in Terminal |-> None]
    /\ UNCHANGED <<outbox, worker, audit, applied, logRows, budget>>

-----------------------------------------------------------------------------

TerminalNext(t) ==
    \/ SyncOutboxPush(t) \/ ReceiveResults(t) \/ GiveUpWaiting(t)
    \/ AnswerUnread(t) \/ Unauthorized(t) \/ BatchRejected(t)
    \/ WriteAck(t) \/ WriteFails(t) \/ Login(t) \/ Logout(t) \/ Crash(t)

OutboxNext(e) ==
    EnqueueInTx(e) \/ BackoffElapses(e) \/ ResetFailedPermanentForRetry(e)

RouteNext(r) ==
    \/ NetworkLoses(r) \/ AcceptPush(r) \/ CheckAudit(r) \/ EnsureTerminal(r)
    \/ RefuseBranch(r) \/ HandlerSucceeds(r) \/ HandlerRefuses(r)
    \/ CommitEvent(r) \/ TransactionError(r) \/ FinishPush(r) \/ AnswerUnheard(r)

Next ==
    \/ \E t \in Terminal : TerminalNext(t)
    \/ \E e \in Event : OutboxNext(e)
    \/ \E r \in Request : RouteNext(r)
    \/ BackendRestart

Spec == Init /\ [][Next]_vars

\* The daemon's loop keeps ticking, its HTTP client has a timeout, back-offs
\* elapse and the backend keeps running its requests. Nobody has to log in,
\* to retry an item by hand or to keep the processes alive.
Fairness ==
    /\ \A t \in Terminal : /\ WF_vars(SyncOutboxPush(t))
                           /\ WF_vars(ReceiveResults(t) \/ GiveUpWaiting(t) \/ AnswerUnread(t))
                           /\ WF_vars(WriteAck(t) \/ WriteFails(t))
    /\ \A e \in Event : WF_vars(BackoffElapses(e))
    /\ \A r \in Request : WF_vars(RouteNext(r))

FairSpec == Spec /\ Fairness

-----------------------------------------------------------------------------
(* Properties.                                                             *)

\* Every variable stays within its type.
TypeOK ==
    /\ qstatus   \in [Event -> QStatus]
    /\ attempts  \in [Event -> 0..MaxRetries]
    /\ createdAt \in [Event -> Nat]
    /\ cooling   \in SUBSET Event
    /\ signedIn  \in SUBSET Terminal
    /\ waiting   \in [Terminal -> Request \cup {None}]
    /\ batch     \in [Terminal -> SUBSET Event]
    /\ ack       \in [Terminal -> [Event -> Acks]]
    /\ rpc       \in [Request -> Pcs]
    /\ todo      \in [Request -> SUBSET Event]
    /\ rcur      \in [Request -> Event \cup {None}]
    /\ rtx       \in [Request -> {"none", "stock", "log"}]
    /\ results   \in [Request -> [Event -> Acks]]
    /\ termLock  \in [Terminal -> Request \cup {None}]
    /\ audit     \in SUBSET Event
    /\ applied   \in [Event -> Nat]
    /\ logRows   \in [Event -> Nat]
    /\ crashes \in Nat /\ refusals \in Nat /\ resets \in Nat

\* However often an event is pushed, and however many requests carry it at
\* once, the stock writes of its handler are committed at most once. Nothing
\* in the schema forbids a second movement with the same reference_id: what
\* protects the check is the terminals row that ensureTerminal keeps locked.
AtMostOnce == \A e \in Event : applied[e] <= 1

\* The central database holds event e: it is audited, it is in the change log
\* other terminals pull, and its stock writes, if it has any, are committed.
Committed(e) ==
    /\ e \in audit
    /\ logRows[e] > 0
    /\ Kind[e] = "INVENTORY" => applied[e] = 1

\* A row marked SYNCED is never lost: whatever answer, late answer or repeated
\* push led to the mark, the transaction of the event is durable.
SyncedIsCommitted == \A e \in Event : qstatus[e] = "SYNCED" => Committed(e)

\* No pending row is stranded: the query of the outbox skips rows at the cap,
\* so a row must leave PENDING in the write that takes it there.
NoStrandedRow ==
    \A e \in Event : qstatus[e] = "PENDING" => attempts[e] < MaxRetries

\* The worker writes an outcome only over a row that is still pending: no
\* answer, however late, overwrites what an earlier one settled.
AckMeetsPendingRow ==
    \A t \in Terminal, e \in Event :
        ack[t][e] # "NONE" => TerminalOf[e] = t /\ qstatus[e] = "PENDING"

-----------------------------------------------------------------------------
(* The inductive invariant behind the safety properties.                   *)

\* Between a push and the last of its outcomes written, the worker holds on
\* to its events: they stay pending, because only the worker settles pending
\* rows and an administrator can only touch settled ones.
WorkerInv ==
    /\ NoStrandedRow
    /\ AckMeetsPendingRow
    /\ \A t \in Terminal : \A e \in batch[t] :
          TerminalOf[e] = t /\ qstatus[e] = "PENDING"
    /\ \A t \in Terminal : waiting[t] = None => batch[t] = {}
    /\ \A t \in Terminal : waiting[t] # None => ack[t] = NoAcks

\* A request carries recorded events only, an awaited one only those of the
\* batch it was sent for, and a free slot carries nothing.
RequestInv ==
    /\ \A r \in Request : \A e \in todo[r] : qstatus[e] # "ABSENT"
    /\ \A r \in Request : rpc[r] \in {"begin", "handle", "commit"} => rcur[r] \in todo[r]
    /\ \A r \in Request : rpc[r] = "free" => todo[r] = {} /\ results[r] = NoAcks
    /\ \A t \in Terminal, r \in Request, e \in Event :
          waiting[t] = r /\ (e \in todo[r] \/ results[r][e] # "NONE") => e \in batch[t]

\* A transaction past ensureTerminal holds the row lock of its terminal, so
\* what its duplicate check has read stays true until it commits.
TransactionInv ==
    /\ \A r \in Request : rpc[r] \in {"handle", "commit"}
                            => termLock[TerminalOf[rcur[r]]] = r
    /\ \A r \in Request : rpc[r] = "commit" =>
          IF rtx[r] = "stock" THEN Kind[rcur[r]] = "INVENTORY" /\ applied[rcur[r]] = 0
                             ELSE Kind[rcur[r]] = "INVENTORY" => applied[rcur[r]] > 0

\* SYNCED, wherever it stands, rests on a committed event.
CommitInv ==
    /\ AtMostOnce
    /\ \A e \in audit : Committed(e)
    /\ \A r \in Request, e \in Event : results[r][e] = "SYNCED" => e \in audit
    /\ \A t \in Terminal, e \in Event : ack[t][e] = "SYNCED" => e \in audit
    /\ \A e \in Event : qstatus[e] = "SYNCED" => e \in audit

IInv == TypeOK /\ WorkerInv /\ RequestInv /\ TransactionInv /\ CommitInv

-----------------------------------------------------------------------------
(* What the terminals and the documentation are promised.                  *)

Delivery == INSTANCE EventDelivery WITH stage <- qstatus, delivered <- audit

\* The pipeline implements what is promised of a single event.
DeliverySpec == Delivery!Spec

\* The steps that end an exchange and leave no trace of it in the outbox.
AnswerIsDropped == \E t \in Terminal : AnswerUnread(t) \/ WriteFails(t)

\* While its terminal stays signed in, and unless answers are dropped again and
\* again, a pending event does not stay pending for ever: every other exchange
\* counts, and no row in back-off hides the rows behind it for good.
PendingSettles ==
    (\A t \in Terminal : <>[](t \in signedIn)) /\ <>[][~AnswerIsDropped]_vars
        => \A e \in Event : (qstatus[e] = "PENDING") ~> (qstatus[e] # "PENDING")
=============================================================================
