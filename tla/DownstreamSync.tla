--------------------------- MODULE DownstreamSync ---------------------------
(***************************************************************************)
(* The downstream half of the pipeline: transactions of the backend append *)
(* rows to change_log, whose sequence numbers are handed out at the INSERT *)
(* and become visible at COMMIT; every terminal pages through the rows     *)
(* beyond its cursor and applies each of them to its SQLite database in a  *)
(* transaction that also moves the cursor. A row that cannot be applied is *)
(* skipped.                                                                *)
(***************************************************************************)
EXTENDS Integers, FiniteSets, Functions

CONSTANTS
    Terminal,      \* desktop terminals
    Puller,        \* callers of the pull: the 900 s timer, a manual sync
    TerminalOf,    \* the terminal of a puller
    Branch,        \* branches that hold the product under study
    Change,        \* business changes that reach change_log
    Source,        \* the terminal that records a change, or Web
    Class,         \* what the applier makes of a change's payload
    From, To, Qty, \* the stock a STOCK change takes, gives, and how much
    Web, None,
    PageLimit,     \* rows a pull request asks for (100)
    MaxRows,       \* bound: sequence numbers handed out in a behaviour
    MaxCopies,     \* bound: rows that repeated pushes make of one change
    MaxCrashes     \* bound: desktop crashes in a behaviour

Row == 1..MaxRows
Classes == {"STOCK", "PLAIN", "UNREADABLE"}

ASSUME ConstantsAssumption ==
    /\ TerminalOf \in [Puller -> Terminal]
    /\ Source \in [Change -> Terminal \cup {Web}]
    /\ Class \in [Change -> Classes]
    /\ From \in [Change -> Branch \cup {None}]
    /\ To \in [Change -> Branch \cup {None}]
    /\ Qty \in [Change -> Nat \ {0}]
    /\ Web \notin Terminal /\ None \notin Branch /\ None \notin Change
    /\ \A c \in Change : From[c] # None => From[c] # To[c]
    /\ PageLimit \in Nat \ {0}
    /\ MaxRows \in Nat /\ MaxCopies \in Nat /\ MaxCrashes \in Nat

VARIABLES
    recorded,    \* changes that their terminal has recorded locally
    lastSeq,     \* the BIGSERIAL counter of change_log
    rowOf,       \* the change in a row
    rowState,    \* whether the transaction that inserted a row has ended
    stock,       \* SQLite stock.quantity of a terminal, per branch
    marked,      \* changes whose id is reference_id of a movement there
    cursor,      \* sync_cursors.last_applied_sequence
    signedIn,    \* terminals whose session holds a token
    phase,       \* where a pull is: "idle", "fetch", "apply", "skip"
    after,       \* current_after_seq of a pull
    page,        \* rows of the fetched page not handled yet
    hasMore,     \* has_more of the fetched page
    crashes,     \* desktop crashes still allowed
    taken,       \* history: rows a terminal has applied
    skipped,     \* history: rows a terminal has given up
    overtaken    \* history: rows still uncommitted when a fetch passed them

central == <<lastSeq, rowOf, rowState>>
local   == <<recorded, stock, marked>>
pull    == <<phase, after, page, hasMore>>
history == <<taken, skipped, overtaken>>
vars    == <<central, local, cursor, signedIn, pull, crashes, history>>

Init ==
    /\ recorded = {}
    /\ lastSeq = 0
    /\ rowOf = [s \in Row |-> None]
    /\ rowState = [s \in Row |-> "unused"]
    /\ stock = [t \in Terminal |-> [b \in Branch |-> 0]]
    /\ marked = [t \in Terminal |-> {}]
    /\ cursor = [t \in Terminal |-> 0]
    /\ signedIn = {}
    /\ phase = [p \in Puller |-> "idle"]
    /\ after = [p \in Puller |-> 0]
    /\ page = [p \in Puller |-> {}]
    /\ hasMore = [p \in Puller |-> FALSE]
    /\ crashes = MaxCrashes
    /\ taken = [t \in Terminal |-> {}]
    /\ skipped = [t \in Terminal |-> {}]
    /\ overtaken = [t \in Terminal |-> {}]

-----------------------------------------------------------------------------
(* Stock operations.                                                       *)

CanMove(quantity, c) == \A b \in Branch : b = From[c] => quantity[b] >= Qty[c]

Delta(c, b) == (IF b = To[c] THEN Qty[c] ELSE 0) - (IF b = From[c] THEN Qty[c] ELSE 0)

Moved(quantity, c) == [b \in Branch |-> quantity[b] + Delta(c, b)]

\* increase_stock, decrease_stock and transfer_stock on the terminal itself:
\* stock, movement and outbox row in one transaction. The movement's id is
\* the operation id; its reference_id is whatever the caller passed.
RecordLocally(c) ==
    /\ Source[c] \in Terminal
    /\ Class[c] = "STOCK"
    /\ c \notin recorded
    /\ CanMove(stock[Source[c]], c)
    /\ recorded' = recorded \cup {c}
    /\ stock' = [stock EXCEPT ![Source[c]] = Moved(@, c)]
    /\ UNCHANGED <<marked, central, cursor, signedIn, pull, crashes, history>>

-----------------------------------------------------------------------------
(* change_log in the central database.                                     *)

Open == {s \in Row : rowState[s] = "open"}

\* A push of a terminal holds the terminals row lock from its start to its
\* end, so only one transaction per terminal has a row open. The handlers of
\* web requests write their rows in transactions of their own.
MayAppend(c) ==
    IF Source[c] = Web
    THEN \A s \in Row : rowOf[s] # c
    ELSE /\ c \in recorded
         /\ \A s \in Open : Source[rowOf[s]] # Source[c]
         /\ Cardinality({s \in Row : rowOf[s] = c}) < MaxCopies

AppendRow(c) ==
    /\ MayAppend(c)
    /\ lastSeq < MaxRows
    /\ lastSeq' = lastSeq + 1
    /\ rowOf' = [rowOf EXCEPT ![lastSeq + 1] = c]
    /\ rowState' = [rowState EXCEPT ![lastSeq + 1] = "open"]
    /\ UNCHANGED <<local, cursor, signedIn, pull, crashes, history>>

EndTransaction(s, outcome) ==
    /\ s \in Open
    /\ rowState' = [rowState EXCEPT ![s] = outcome]
    /\ UNCHANGED <<lastSeq, rowOf, local, cursor, signedIn, pull, crashes, history>>

CommitRow(s) == EndTransaction(s, "committed")

\* A rolled back transaction does not give its sequence number back.
AbortRow(s) == EndTransaction(s, "aborted")

-----------------------------------------------------------------------------
(* The pull of a terminal.                                                 *)

Login(t) ==
    /\ t \notin signedIn
    /\ signedIn' = signedIn \cup {t}
    /\ UNCHANGED <<central, local, cursor, pull, crashes, history>>

Logout(t) ==
    /\ t \in signedIn
    /\ signedIn' = signedIn \ {t}
    /\ UNCHANGED <<central, local, cursor, pull, crashes, history>>

\* FAULTY: the timer pulls although try_lock has failed.
ExecutionLockIgnored(t) == TRUE

ExecutionLockFree(t) == \A p \in Puller : TerminalOf[p] = t => phase[p] = "idle"

StartPull(p) ==
    /\ TerminalOf[p] \in signedIn
    /\ ExecutionLockFree(TerminalOf[p])
    /\ phase' = [phase EXCEPT ![p] = "fetch"]
    /\ after' = [after EXCEPT ![p] = cursor[TerminalOf[p]]]
    /\ UNCHANGED <<page, hasMore, central, local, cursor, signedIn, crashes, history>>

\* The first n rows of S.
FirstRows(n, S) == {s \in S : Cardinality({r \in S : r < s}) < n}

\* FAULTY: the query answers without ORDER BY sequence.
IsAny(s, S) == s \in S

IsFirst(s, S) == s \in S /\ \A r \in S : s <= r
IsLast(s, S)  == s \in S /\ \A r \in S : r <= s

VisibleAfter(n) == {s \in Row : rowState[s] = "committed" /\ s > n}

PageAfter(n) == FirstRows(PageLimit, VisibleAfter(n))

\* GET /api/v1/sync/pull answers with the first committed rows after the
\* sequence asked for; an empty page ends the pull. The terminal takes up
\* next_sequence, the last row of the page, for the page after this one.
Fetch(p) ==
    /\ phase[p] = "fetch"
    /\ LET t == TerminalOf[p]
           rows == PageAfter(after[p])
       IN  \/ /\ rows = {}
              /\ phase' = [phase EXCEPT ![p] = "idle"]
              /\ UNCHANGED <<after, page, hasMore, overtaken>>
           \/ \E n \in rows :
              /\ IsLast(n, rows)
              /\ phase' = [phase EXCEPT ![p] = "apply"]
              /\ after' = [after EXCEPT ![p] = n]
              /\ page' = [page EXCEPT ![p] = rows]
              /\ hasMore' = [hasMore EXCEPT ![p] = VisibleAfter(after[p]) # rows]
              /\ overtaken' = [overtaken EXCEPT ![t] = @ \cup {s \in Open : s < n}]
    /\ UNCHANGED <<central, local, cursor, signedIn, crashes, taken, skipped>>

\* The request fails or its answer cannot be read: the pull ends.
FetchFails(p) ==
    /\ phase[p] = "fetch"
    /\ phase' = [phase EXCEPT ![p] = "idle"]
    /\ UNCHANGED <<after, page, hasMore, central, local, cursor, signedIn, crashes, history>>

\* The change moves stock unless a movement refers to its operation already.
NeedsMovement(t, c) == Class[c] = "STOCK" /\ c \notin marked[t]

\* apply_single_change_in_tx and the cursor, in one SQLite transaction.
ApplyChange(p) ==
    LET t == TerminalOf[p]
    IN \E s \in page[p] :
        LET c == rowOf[s] IN
        /\ phase[p] = "apply"
        /\ IsFirst(s, page[p])
        /\ Class[c] # "UNREADABLE"
        /\ IF NeedsMovement(t, c)
           THEN /\ CanMove(stock[t], c)
                /\ stock' = [stock EXCEPT ![t] = Moved(@, c)]
                /\ marked' = [marked EXCEPT ![t] = @ \cup {c}]
           ELSE UNCHANGED <<stock, marked>>
        /\ cursor' = [cursor EXCEPT ![t] = s]
        /\ page' = [page EXCEPT ![p] = @ \ {s}]
        /\ taken' = [taken EXCEPT ![t] = @ \cup {s}]
        /\ UNCHANGED <<recorded, central, signedIn, phase, after, hasMore, crashes,
                       skipped, overtaken>>

\* The transaction rolls back: an unreadable payload, too little stock, or
\* any error of SQLite.
ApplyFails(p) ==
    /\ phase[p] = "apply"
    /\ page[p] # {}
    /\ phase' = [phase EXCEPT ![p] = "skip"]
    /\ UNCHANGED <<after, page, hasMore, central, local, cursor, signedIn, crashes, history>>

\* The failed row is given up although its number is not saved: the result of
\* the transaction that should save it is ignored.
SkipChangeUnsaved(p) ==
    /\ phase[p] = "skip"
    /\ phase' = [phase EXCEPT ![p] = "apply"]
    /\ \E s \in page[p] :
          /\ IsFirst(s, page[p])
          /\ page' = [page EXCEPT ![p] = @ \ {s}]
          /\ skipped' = [skipped EXCEPT ![TerminalOf[p]] = @ \cup {s}]
    /\ UNCHANGED <<after, hasMore, central, local, cursor, signedIn, crashes, taken, overtaken>>

\* As a rule that transaction moves the cursor past the failed row.
SkipChange(p) ==
    /\ phase[p] = "skip"
    /\ phase' = [phase EXCEPT ![p] = "apply"]
    /\ \E s \in page[p] :
          /\ IsFirst(s, page[p])
          /\ page' = [page EXCEPT ![p] = @ \ {s}]
          /\ cursor' = [cursor EXCEPT ![TerminalOf[p]] = s]
          /\ skipped' = [skipped EXCEPT ![TerminalOf[p]] = @ \cup {s}]
    /\ UNCHANGED <<after, hasMore, central, local, signedIn, crashes, taken, overtaken>>

FinishPage(p) ==
    /\ phase[p] = "apply"
    /\ page[p] = {}
    /\ phase' = [phase EXCEPT ![p] = IF hasMore[p] THEN "fetch" ELSE "idle"]
    /\ UNCHANGED <<after, page, hasMore, central, local, cursor, signedIn, crashes, history>>

\* The desktop process ends; SQLite keeps what was committed.
Crash(t) ==
    /\ crashes > 0
    /\ ~ExecutionLockFree(t)
    /\ crashes' = crashes - 1
    /\ signedIn' = signedIn \ {t}
    /\ phase' = [p \in Puller |-> IF TerminalOf[p] = t THEN "idle" ELSE phase[p]]
    /\ page' = [p \in Puller |-> IF TerminalOf[p] = t THEN {} ELSE page[p]]
    /\ UNCHANGED <<after, hasMore, central, local, cursor, history>>

-----------------------------------------------------------------------------

PullerNext(p) ==
    \/ StartPull(p) \/ Fetch(p) \/ FetchFails(p) \/ ApplyChange(p) \/ ApplyFails(p)
    \/ SkipChange(p) \/ SkipChangeUnsaved(p) \/ FinishPage(p)

Next ==
    \/ \E c \in Change : RecordLocally(c) \/ AppendRow(c)
    \/ \E s \in Row : CommitRow(s) \/ AbortRow(s)
    \/ \E t \in Terminal : Login(t) \/ Logout(t) \/ Crash(t)
    \/ \E p \in Puller : PullerNext(p)

Spec == Init /\ [][Next]_vars

\* The timer keeps ticking, a pull that runs goes on, and neither the network
\* nor SQLite fails for ever.
Fairness ==
    \A p \in Puller :
        /\ WF_vars(StartPull(p))
        /\ SF_vars(Fetch(p))
        /\ WF_vars(ApplyChange(p) \/ ApplyFails(p))
        /\ SF_vars(SkipChange(p))
        /\ WF_vars(SkipChange(p) \/ SkipChangeUnsaved(p))
        /\ WF_vars(FinishPage(p))

FairSpec == Spec /\ Fairness

-----------------------------------------------------------------------------
(* Properties.                                                             *)

\* Every variable stays within its type; no local stock is negative.
TypeOK ==
    /\ recorded \in SUBSET Change
    /\ lastSeq \in 0..MaxRows
    /\ rowOf \in [Row -> Change \cup {None}]
    /\ rowState \in [Row -> {"unused", "open", "committed", "aborted"}]
    /\ stock \in [Terminal -> [Branch -> Nat]]
    /\ marked \in [Terminal -> SUBSET Change]
    /\ cursor \in [Terminal -> 0..MaxRows]
    /\ signedIn \in SUBSET Terminal
    /\ phase \in [Puller -> {"idle", "fetch", "apply", "skip"}]
    /\ after \in [Puller -> 0..MaxRows]
    /\ page \in [Puller -> SUBSET Row]
    /\ hasMore \in [Puller -> BOOLEAN]
    /\ crashes \in Nat
    /\ taken \in [Terminal -> SUBSET Row]
    /\ skipped \in [Terminal -> SUBSET Row]
    /\ overtaken \in [Terminal -> SUBSET Row]

Committed(s) == rowState[s] = "committed"
Settled(t, s) == s \in taken[t] \cup skipped[t] \cup overtaken[t]

\* Behind its cursor a terminal has applied or given up every committed row,
\* except those whose transaction was still open when a fetch passed their
\* sequence number: pages, failed pages, crashes and skips lose none.
OnlyOvertakenRowsAreMissed ==
    \A t \in Terminal, s \in Row :
        Committed(s) /\ s <= cursor[t] => Settled(t, s)

Follower == INSTANCE LogFollower WITH
    published <- {s \in Row : Committed(s)}, position <- cursor

\* A terminal follows the log: its cursor never moves back and no row is
\* applied twice, whoever pulls and wherever the process stops.
FollowerSpec == Follower!Spec

MovesOf(b) == [c \in Change |-> Delta(c, b)]

\* What a terminal's stock has moved by: its own operations, and every change
\* that it has applied, once each however often change_log repeats it. Its own
\* operations come back from the log and then count a second time.
StockCountsEchoes ==
    \A t \in Terminal, b \in Branch :
        stock[t][b] = SumFunctionOnSet(MovesOf(b), {c \in recorded : Source[c] = t})
                      + SumFunctionOnSet(MovesOf(b), marked[t])

\* The applier recognises an operation by the reference_id of its movement, as
\* the comment at its look-up says: no operation moves a terminal's stock twice,
\* be it the terminal's own or another's.
OperationsCountOnce ==
    \A t \in Terminal, b \in Branch :
        stock[t][b] = SumFunctionOnSet(MovesOf(b),
                                       {c \in recorded : Source[c] = t} \cup marked[t])

\* The change log does not wedge a terminal: while those that pull stay signed
\* in, their cursors reach every committed row.
CursorCatchesUp ==
    (\A t \in Terminal : <>[](t \in signedIn))
        => \A s \in Row :
              Committed(s) ~> \A p \in Puller : cursor[TerminalOf[p]] >= s

-----------------------------------------------------------------------------
(* The inductive invariant behind OnlyOvertakenRowsAreMissed and FollowerSpec. *)

\* Only one pull of a terminal is under way, and what it has fetched lies
\* ahead of the cursor and not beyond next_sequence.
PullInv ==
    /\ \A p, q \in Puller : TerminalOf[p] = TerminalOf[q] /\ phase[p] # "idle"
                              /\ phase[q] # "idle" => p = q
    /\ \A p \in Puller : phase[p] \in {"idle", "fetch"} => page[p] = {}
    /\ \A p \in Puller : phase[p] = "skip" => page[p] # {}
    /\ \A p \in Puller, s \in Row : s \in page[p] =>
          s > cursor[TerminalOf[p]] /\ s <= after[p] /\ Committed(s)
    /\ \A p \in Puller : phase[p] # "idle" => cursor[TerminalOf[p]] <= after[p]

\* The log grows at its end, and what has been applied lies behind the cursor.
LogInv ==
    /\ \A s \in Row : rowState[s] # "unused" <=> s <= lastSeq
    /\ \A s \in Row : rowState[s] # "unused" => rowOf[s] \in Change
    /\ \A t \in Terminal : cursor[t] <= lastSeq
    /\ \A p \in Puller : after[p] <= lastSeq
    /\ \A t \in Terminal : \A s \in taken[t] : s <= cursor[t]

\* A row behind the cursor, or behind the page at hand, is settled; one that
\* is still open there has been overtaken.
SettledInv ==
    /\ OnlyOvertakenRowsAreMissed
    /\ \A p \in Puller, s \in Row :
          phase[p] # "idle" /\ Committed(s) /\ s <= after[p] /\ s \notin page[p]
             => Settled(TerminalOf[p], s)
    /\ \A t \in Terminal, s \in Open : s <= cursor[t] => s \in overtaken[t]
    /\ \A p \in Puller, s \in Open :
          phase[p] # "idle" /\ s <= after[p] => s \in overtaken[TerminalOf[p]]

IInv == TypeOK /\ PullInv /\ LogInv /\ SettledInv
=============================================================================
