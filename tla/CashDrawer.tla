----------------------------- MODULE CashDrawer -----------------------------
(***************************************************************************)
(* The cash drawer of one branch in the central database: sessions that    *)
(* are opened and closed by requests of several autocommitted statements,  *)
(* and the business transactions that look an open session up and post a   *)
(* movement to it. Sales, exchanges and supplier payments look it up       *)
(* without a lock; returns and manual movements go on without a session;   *)
(* expenses and repairs lock the session's row.                            *)
(***************************************************************************)
EXTENDS Integers, FiniteSets, FiniteSetsExt

CONSTANTS
    MaxSessions,   \* bound: sessions of a behaviour
    Opener,        \* requests that open the drawer
    Closer,        \* requests that close a session
    Posting,       \* movements that transactions post
    Kind,          \* how its transaction finds the session: as sales and payments,
                   \* as returns and manual movements, as expenses and repairs
    Amount,        \* what it adds to the drawer, negative when paid out
    PaidInCash,    \* payment_method = 'CASH'
    Null

Session == 1..MaxSessions
Kinds == {"sale", "return", "expense"}

\* What a set of postings adds to the cash in the drawer.
CashTotal(P) == MapThenSumSet(LAMBDA p : Amount[p], P \cap PaidInCash)
Totals == {CashTotal(P) : P \in SUBSET Posting}

ASSUME DrawerAssumption ==
    /\ MaxSessions \in Nat
    /\ Kind \in [Posting -> Kinds]
    /\ Amount \in [Posting -> Int]
    /\ PaidInCash \subseteq Posting
    /\ Null \notin Session /\ Null \notin Posting

VARIABLES
    opened,      \* number of sessions inserted so far
    status,      \* cash_sessions.status
    expected,    \* expected_closing_cash without the opening float, or Null
    opening,     \* openers that have seen no open session
    closePhase,  \* where a close request is: "idle", "read", "summed"
    closing,     \* the session a close request is about
    sum,         \* the total it has read
    postPhase,   \* "new", "found", "posted", "refused"
    session,     \* the session a posting has found; its session_id once posted
    rowLock,     \* FOR UPDATE lock on a session's row
    disturbed    \* history: sessions whose closing overlapped other work

closeVars  == <<closePhase, closing, sum>>
postVars   == <<postPhase, session, rowLock>>
drawerVars == <<opened, status, expected, opening, closeVars, postVars, disturbed>>

DrawerInit ==
    /\ opened = 0
    /\ status = [s \in Session |-> "ABSENT"]
    /\ expected = [s \in Session |-> Null]
    /\ opening = {}
    /\ closePhase = [c \in Closer |-> "idle"]
    /\ closing = [c \in Closer |-> Null]
    /\ sum = [c \in Closer |-> CashTotal({})]
    /\ postPhase = [p \in Posting |-> "new"]
    /\ session = [p \in Posting |-> Null]
    /\ rowLock = [s \in Session |-> Null]
    /\ disturbed = {}

IsOpen(s) == status[s] = "OPEN"
NoneOpen == \A s \in Session : ~IsOpen(s)

-----------------------------------------------------------------------------
(* openCashSession: a query and an insert.                                 *)

GetCurrentCashSession(o) ==
    /\ o \notin opening
    /\ NoneOpen
    /\ opening' = opening \cup {o}
    /\ UNCHANGED <<opened, status, expected, closeVars, postVars, disturbed>>

UniqueIndexAllows == NoneOpen

InsertSession(o) ==
    /\ o \in opening
    /\ opening' = opening \ {o}
    /\ opened < MaxSessions
    /\ UniqueIndexAllows
    /\ opened' = opened + 1
    /\ status' = [status EXCEPT ![opened + 1] = "OPEN"]
    /\ UNCHANGED <<expected, closeVars, postVars, disturbed>>

\* The insert violates the index or fails otherwise.
InsertFails(o) ==
    /\ o \in opening
    /\ opening' = opening \ {o}
    /\ UNCHANGED <<opened, status, expected, closeVars, postVars, disturbed>>

-----------------------------------------------------------------------------
(* Transactions that post movements.                                       *)

BeingClosed(s) == {c \in Closer : closing[c] = s}
InFlight(s) == {p \in Posting : postPhase[p] = "found" /\ session[p] = s}

\* FAULTY: expenses and repairs look the session up without FOR UPDATE.
LockNothing(p, s) == UNCHANGED rowLock

LockSession(p, s) ==
    IF Kind[p] = "expense"
    THEN rowLock[s] = Null /\ rowLock' = [rowLock EXCEPT ![s] = p]
    ELSE UNCHANGED rowLock

FindSession(p, s) ==
    /\ postPhase[p] = "new"
    /\ IsOpen(s)
    /\ LockSession(p, s)
    /\ postPhase' = [postPhase EXCEPT ![p] = "found"]
    /\ session' = [session EXCEPT ![p] = s]
    /\ disturbed' = IF BeingClosed(s) # {} THEN disturbed \cup {s} ELSE disturbed
    /\ UNCHANGED <<opened, status, expected, opening, closeVars>>

\* Without an open session a return goes on with none, the others are refused.
FindNoSession(p) ==
    /\ postPhase[p] = "new"
    /\ NoneOpen
    /\ postPhase' = [postPhase EXCEPT
                       ![p] = IF Kind[p] = "return" THEN "found" ELSE "refused"]
    /\ UNCHANGED <<opened, status, expected, opening, closeVars, session, rowLock, disturbed>>

Unlocked(p) == [s \in Session |-> IF rowLock[s] = p THEN Null ELSE rowLock[s]]

\* The movement is committed. Its foreign key waits for another transaction's
\* FOR UPDATE lock on the session.
PostMovement(p) ==
    /\ postPhase[p] = "found"
    /\ session[p] # Null => rowLock[session[p]] \in {Null, p}
    /\ postPhase' = [postPhase EXCEPT ![p] = "posted"]
    /\ rowLock' = Unlocked(p)
    /\ UNCHANGED <<opened, status, expected, opening, closeVars, session, disturbed>>

RollBackPosting(p) ==
    /\ postPhase[p] = "found"
    /\ postPhase' = [postPhase EXCEPT ![p] = "refused"]
    /\ rowLock' = Unlocked(p)
    /\ UNCHANGED <<opened, status, expected, opening, closeVars, session, disturbed>>

-----------------------------------------------------------------------------
(* closeCashSession: a query, a sum and an update, each on its own.        *)

ReadSession(c, s) ==
    /\ closePhase[c] = "idle"
    /\ IsOpen(s)
    /\ closePhase' = [closePhase EXCEPT ![c] = "read"]
    /\ closing' = [closing EXCEPT ![c] = s]
    /\ disturbed' = IF BeingClosed(s) # {} \/ InFlight(s) # {}
                    THEN disturbed \cup {s} ELSE disturbed
    /\ UNCHANGED <<opened, status, expected, opening, sum, postVars>>

MovementsOf(s) == {p \in Posting : postPhase[p] = "posted" /\ session[p] = s}

DrawerTotal(s) == CashTotal(MovementsOf(s))

\* FAULTY: the sum takes every payment method.
SumOfEverything(s) == MapThenSumSet(LAMBDA p : Amount[p], MovementsOf(s))

SumOf(s) == DrawerTotal(s)

SumMovements(c) ==
    /\ closePhase[c] = "read"
    /\ closePhase' = [closePhase EXCEPT ![c] = "summed"]
    /\ sum' = [sum EXCEPT ![c] = SumOf(closing[c])]
    /\ UNCHANGED <<opened, status, expected, opening, closing, postVars, disturbed>>

\* The update does not look at the status; it waits for a lock on the row.
UpdateSession(c) ==
    LET s == closing[c] IN
    /\ closePhase[c] = "summed"
    /\ rowLock[s] = Null
    /\ status' = [status EXCEPT ![s] = "CLOSED"]
    /\ expected' = [expected EXCEPT ![s] = sum[c]]
    /\ closePhase' = [closePhase EXCEPT ![c] = "idle"]
    /\ closing' = [closing EXCEPT ![c] = Null]
    /\ UNCHANGED <<opened, opening, sum, postVars, disturbed>>

\* A statement fails, or the backend stops: nothing is undone.
CloseFails(c) ==
    /\ closePhase[c] # "idle"
    /\ closePhase' = [closePhase EXCEPT ![c] = "idle"]
    /\ closing' = [closing EXCEPT ![c] = Null]
    /\ UNCHANGED <<opened, status, expected, opening, sum, postVars, disturbed>>

-----------------------------------------------------------------------------

DrawerNext ==
    \/ \E o \in Opener : GetCurrentCashSession(o) \/ InsertSession(o) \/ InsertFails(o)
    \/ \E p \in Posting :
          \/ \E s \in Session : FindSession(p, s)
          \/ FindNoSession(p) \/ PostMovement(p) \/ RollBackPosting(p)
    \/ \E c \in Closer :
          \/ \E s \in Session : ReadSession(c, s)
          \/ SumMovements(c) \/ UpdateSession(c) \/ CloseFails(c)

DrawerSpec == DrawerInit /\ [][DrawerNext]_drawerVars

-----------------------------------------------------------------------------
(* Properties.                                                             *)

\* Every variable stays within its type.
DrawerTypeOK ==
    /\ opened \in 0..MaxSessions
    /\ status \in [Session -> {"ABSENT", "OPEN", "CLOSED"}]
    /\ expected \in [Session -> Totals \cup {Null}]
    /\ opening \in SUBSET Opener
    /\ closePhase \in [Closer -> {"idle", "read", "summed"}]
    /\ closing \in [Closer -> Session \cup {Null}]
    /\ sum \in [Closer -> Totals]
    /\ postPhase \in [Posting -> {"new", "found", "posted", "refused"}]
    /\ session \in [Posting -> Session \cup {Null}]
    /\ rowLock \in [Session -> Posting \cup {Null}]
    /\ disturbed \in SUBSET Session

\* A branch never has two open sessions, although the look-up that refuses a
\* second one and the insert are two statements.
OneOpenSession == \A s, r \in Session : IsOpen(s) /\ IsOpen(r) => s = r

Posts(p) == postPhase[p] # "posted" /\ postPhase'[p] = "posted"

\* An expense or a repair posts its cash while the session is still open,
\* whatever close requests are under way.
ExpensesMeetOpenSession ==
    [][\A p \in Posting : Posts(p) /\ Kind[p] = "expense" => IsOpen(session[p])]_drawerVars

\* A session that was closed while nothing else went on with it keeps, for
\* good, an expected amount that equals its cash movements.
QuietCloseIsExact ==
    \A s \in Session :
        status[s] = "CLOSED" /\ s \notin disturbed => expected[s] = DrawerTotal(s)

-----------------------------------------------------------------------------
(* The inductive invariant.                                                *)

\* Sessions come into being one after another, at most one of them open.
SessionInv ==
    /\ \A s \in Session : status[s] = "ABSENT" <=> s > opened
    /\ OneOpenSession

\* A posting has no session before it looks for one, and an expense under way
\* holds the lock of an open session.
PostInv ==
    \A p \in Posting :
        /\ postPhase[p] = "new" => session[p] = Null
        /\ postPhase[p] = "found" /\ Kind[p] = "expense" =>
              session[p] \in Session /\ IsOpen(session[p]) /\ rowLock[session[p]] = p

\* A close request under way has a session that exists.
CloseInv ==
    \A c \in Closer :
        /\ closePhase[c] = "idle" <=> closing[c] = Null
        /\ closing[c] # Null => status[closing[c]] # "ABSENT"

\* While one request alone works on a session, what it has read stays true,
\* and after it nobody comes back to that session.
QuietInv ==
    \A s \in Session \ disturbed :
        /\ \A c, d \in BeingClosed(s) : c = d
        /\ BeingClosed(s) # {} => IsOpen(s) /\ InFlight(s) = {}
        /\ \A c \in BeingClosed(s) : closePhase[c] = "summed" => sum[c] = DrawerTotal(s)
        /\ status[s] = "CLOSED" => InFlight(s) = {} /\ expected[s] = DrawerTotal(s)

DrawerInv == DrawerTypeOK /\ SessionInv /\ PostInv /\ CloseInv /\ QuietInv
=============================================================================
