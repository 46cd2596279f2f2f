------------------------ MODULE DownstreamSyncProofs ------------------------
(***************************************************************************)
(* Proofs about DownstreamSync, for any terminals, pullers, changes, page  *)
(* size and length of the log: IInv is inductive, a terminal loses only    *)
(* overtaken rows, every step is a step of LogFollower or a stutter, and   *)
(* the stock of a terminal is what it recorded and what it applied.        *)
(***************************************************************************)
EXTENDS DownstreamSync, FiniteSetTheorems, WellFoundedInduction, TLAPS

\* Moving stock that is there leaves no negative quantity.
LEMMA MovedIsNat ==
    ASSUME NEW q \in [Branch -> Nat], NEW c \in Change, CanMove(q, c)
    PROVE  Moved(q, c) \in [Branch -> Nat]
<1>1. ASSUME NEW b \in Branch PROVE q[b] + Delta(c, b) \in Nat
  BY ConstantsAssumption DEF CanMove, Delta
<1> QED  BY <1>1 DEF Moved

\* A page holds visible rows and none between them is left out.
LEMMA PageIsPrefix ==
    ASSUME NEW m \in Int, NEW n \in PageAfter(m)
    PROVE  /\ n \in Row /\ n > m /\ Committed(n)
           /\ \A s \in VisibleAfter(m) : s <= n => s \in PageAfter(m)
<1> DEFINE V == VisibleAfter(m)
<1>1. V \in SUBSET Row /\ IsFiniteSet(V)
  <2>1. IsFiniteSet(Row)
    BY FS_Interval, ConstantsAssumption DEF Row
  <2>2. V \in SUBSET Row
    BY DEF VisibleAfter
  <2> QED  BY <2>1, <2>2, FS_Subset
<1>2. n \in V /\ Cardinality({r \in V : r < n}) < PageLimit
  BY DEF PageAfter, FirstRows
<1>3. ASSUME NEW s \in V, s <= n PROVE s \in PageAfter(m)
  <2>1. IsFiniteSet({r \in V : r < n}) /\ IsFiniteSet({r \in V : r < s})
    BY <1>1, FS_Subset
  <2>2. {r \in V : r < s} \in SUBSET {r \in V : r < n}
    BY <1>1, <1>2, <1>3, ConstantsAssumption DEF Row
  <2>3. Cardinality({r \in V : r < s}) <= Cardinality({r \in V : r < n})
    BY <2>1, <2>2, FS_Subset
  <2> QED
    BY <1>2, <2>1, <2>3, FS_CardinalityType, ConstantsAssumption DEF PageAfter, FirstRows
<1> QED  BY <1>1, <1>2, <1>3 DEF VisibleAfter, Committed

-----------------------------------------------------------------------------
LEMMA InitIInv == Init => IInv
  BY ConstantsAssumption
     DEF Init, IInv, TypeOK, PullInv, LogInv, SettledInv, OnlyOvertakenRowsAreMissed,
         Committed, Settled, Open, Row

\* What an applied or skipped row is: the first of a page, ahead of the cursor.
LEMMA PageRow ==
    ASSUME IInv, NEW p \in Puller, NEW s \in page[p]
    PROVE  /\ s \in Row /\ Committed(s) /\ rowOf[s] \in Change
           /\ TerminalOf[p] \in Terminal
           /\ s > cursor[TerminalOf[p]] /\ s <= after[p] /\ s <= lastSeq
           /\ phase[p] \in {"apply", "skip"}
  BY ConstantsAssumption DEF IInv, TypeOK, PullInv, LogInv, Committed

LEMMA TypeStep == IInv /\ [Next]_vars => TypeOK'
<1> SUFFICES ASSUME IInv, [Next]_vars PROVE TypeOK'
  OBVIOUS
<1> USE ConstantsAssumption
<1>0. TypeOK /\ lastSeq \in Int
  BY DEF IInv, TypeOK
<1>1. ASSUME NEW c \in Change, RecordLocally(c) PROVE TypeOK'
  <2>1. Moved(stock[Source[c]], c) \in [Branch -> Nat]
    BY <1>0, <1>1, MovedIsNat DEF RecordLocally, TypeOK
  <2> QED  BY <1>0, <1>1, <2>1 DEF RecordLocally, TypeOK, central, pull, history
<1>2. ASSUME NEW c \in Change, AppendRow(c) PROVE TypeOK'
  <2>1. lastSeq + 1 \in Row /\ lastSeq + 1 \in 0..MaxRows
    BY <1>0, <1>2 DEF AppendRow, TypeOK, Row
  <2>2. rowOf' \in [Row -> Change \cup {None}]
    BY <1>0, <1>2, <2>1 DEF AppendRow, TypeOK
  <2>3. rowState' \in [Row -> {"unused", "open", "committed", "aborted"}]
    BY <1>0, <1>2, <2>1 DEF AppendRow, TypeOK
  <2> QED
    BY <1>0, <1>2, <2>1, <2>2, <2>3 DEF AppendRow, TypeOK, local, pull, history
<1>3. ASSUME NEW s \in Row, CommitRow(s) PROVE TypeOK'
  BY <1>0, <1>3 DEF CommitRow, EndTransaction, TypeOK, local, pull, history
<1>4. ASSUME NEW s \in Row, AbortRow(s) PROVE TypeOK'
  BY <1>0, <1>4 DEF AbortRow, EndTransaction, TypeOK, local, pull, history
<1>5. ASSUME NEW t \in Terminal, Login(t) PROVE TypeOK'
  BY <1>0, <1>5 DEF Login, TypeOK, central, local, pull, history
<1>6. ASSUME NEW t \in Terminal, Logout(t) PROVE TypeOK'
  BY <1>0, <1>6 DEF Logout, TypeOK, central, local, pull, history
<1>7. ASSUME NEW t \in Terminal, Crash(t) PROVE TypeOK'
  BY <1>0, <1>7 DEF Crash, TypeOK, central, local, pull, history
<1>8. ASSUME NEW p \in Puller, StartPull(p) PROVE TypeOK'
  BY <1>0, <1>8 DEF StartPull, TypeOK, central, local, history
<1>9. ASSUME NEW p \in Puller, Fetch(p) PROVE TypeOK'
  <2>1. CASE PageAfter(after[p]) = {}
    BY <1>0, <1>9, <2>1 DEF Fetch, TypeOK, central, local
  <2>2. CASE PageAfter(after[p]) # {}
    <3>1. \A n \in PageAfter(after[p]) : n \in Row
      BY DEF PageAfter, FirstRows, VisibleAfter
    <3>2. Row \subseteq 0..MaxRows
      BY DEF Row
    <3>3. {s \in Row : Committed(s)} \in SUBSET Row
      OBVIOUS
    <3>4. PICK n \in PageAfter(after[p]) :
             /\ phase' = [phase EXCEPT ![p] = "apply"]
             /\ after' = [after EXCEPT ![p] = n]
             /\ page' = [page EXCEPT ![p] = PageAfter(after[p])]
             /\ hasMore' = [hasMore EXCEPT ![p] = VisibleAfter(after[p]) # PageAfter(after[p])]
             /\ overtaken' = [overtaken EXCEPT ![TerminalOf[p]] = @ \cup {s \in Open : s < n}]
      BY <1>9, <2>2 DEF Fetch
    <3>5. {s \in Open : s < n} \in SUBSET Row
      BY DEF Open
    <3>6. PageAfter(after[p]) \in SUBSET Row /\ n \in 0..MaxRows
      BY <3>1, <3>2
    <3> QED
      BY <1>0, <1>9, <3>4, <3>5, <3>6 DEF Fetch, TypeOK, central, local
  <2> QED  BY <2>1, <2>2
<1>10. ASSUME NEW p \in Puller, FetchFails(p) \/ ApplyFails(p) PROVE TypeOK'
  BY <1>0, <1>10 DEF FetchFails, ApplyFails, TypeOK, central, local, history
<1>11. ASSUME NEW p \in Puller, ApplyChange(p) PROVE TypeOK'
  <2>1. PICK s \in page[p] :
           /\ IF NeedsMovement(TerminalOf[p], rowOf[s])
              THEN /\ CanMove(stock[TerminalOf[p]], rowOf[s])
                   /\ stock' = [stock EXCEPT ![TerminalOf[p]] = Moved(@, rowOf[s])]
                   /\ marked' = [marked EXCEPT ![TerminalOf[p]] = @ \cup {rowOf[s]}]
              ELSE UNCHANGED <<stock, marked>>
           /\ cursor' = [cursor EXCEPT ![TerminalOf[p]] = s]
           /\ page' = [page EXCEPT ![p] = @ \ {s}]
           /\ taken' = [taken EXCEPT ![TerminalOf[p]] = @ \cup {s}]
    BY <1>11 DEF ApplyChange
  <2>2. s \in Row /\ s \in 0..MaxRows /\ rowOf[s] \in Change /\ TerminalOf[p] \in Terminal
    BY PageRow DEF Row
  <2>3. stock' \in [Terminal -> [Branch -> Nat]] /\ marked' \in [Terminal -> SUBSET Change]
    <3>1. CASE NeedsMovement(TerminalOf[p], rowOf[s])
      <4>1. Moved(stock[TerminalOf[p]], rowOf[s]) \in [Branch -> Nat]
        BY <1>0, <2>1, <2>2, <3>1, MovedIsNat DEF TypeOK
      <4>2. /\ stock' = [stock EXCEPT ![TerminalOf[p]] = Moved(@, rowOf[s])]
            /\ marked' = [marked EXCEPT ![TerminalOf[p]] = @ \cup {rowOf[s]}]
        BY <2>1, <3>1
      <4>3. stock' \in [Terminal -> [Branch -> Nat]]
        BY <1>0, <2>2, <4>1, <4>2 DEF TypeOK
      <4>4. marked' \in [Terminal -> SUBSET Change]
        BY <1>0, <2>2, <4>2 DEF TypeOK
      <4> QED  BY <4>3, <4>4
    <3>2. CASE ~NeedsMovement(TerminalOf[p], rowOf[s])
      BY <1>0, <2>1, <3>2 DEF TypeOK
    <3> QED  BY <3>1, <3>2
  <2>4. /\ cursor' \in [Terminal -> 0..MaxRows] /\ page' \in [Puller -> SUBSET Row]
        /\ taken' \in [Terminal -> SUBSET Row]
    BY <1>0, <2>1, <2>2 DEF TypeOK
  <2> QED  BY <1>0, <1>11, <2>3, <2>4 DEF ApplyChange, TypeOK, central
<1>12. ASSUME NEW p \in Puller, SkipChange(p) PROVE TypeOK'
  <2>1. PICK s \in page[p] :
           /\ page' = [page EXCEPT ![p] = @ \ {s}]
           /\ cursor' = [cursor EXCEPT ![TerminalOf[p]] = s]
           /\ skipped' = [skipped EXCEPT ![TerminalOf[p]] = @ \cup {s}]
    BY <1>12 DEF SkipChange
  <2>2. s \in Row /\ s \in 0..MaxRows /\ TerminalOf[p] \in Terminal
    BY PageRow DEF Row
  <2> QED  BY <1>0, <1>12, <2>1, <2>2 DEF SkipChange, TypeOK, central, local
<1>13. ASSUME NEW p \in Puller, SkipChangeUnsaved(p) PROVE TypeOK'
  <2>1. PICK s \in page[p] :
           /\ page' = [page EXCEPT ![p] = @ \ {s}]
           /\ skipped' = [skipped EXCEPT ![TerminalOf[p]] = @ \cup {s}]
    BY <1>13 DEF SkipChangeUnsaved
  <2>2. s \in Row /\ TerminalOf[p] \in Terminal
    BY PageRow
  <2> QED  BY <1>0, <1>13, <2>1, <2>2 DEF SkipChangeUnsaved, TypeOK, central, local
<1>14. ASSUME NEW p \in Puller, FinishPage(p) PROVE TypeOK'
  BY <1>0, <1>14 DEF FinishPage, TypeOK, central, local, history
<1>15. CASE UNCHANGED vars
  BY <1>0, <1>15 DEF TypeOK, vars, central, local, pull, history
<1> QED
  BY <1>1, <1>2, <1>3, <1>4, <1>5, <1>6, <1>7, <1>8, <1>9, <1>10, <1>11, <1>12, <1>13,
     <1>14, <1>15 DEF Next, PullerNext
\* What the steps of a pull do, pointwise, where a row of its page is settled.
LEMMA AppliedRow ==
    ASSUME IInv, NEW p \in Puller, ApplyChange(p)
    PROVE  \E s \in page[p] :
              /\ \A r \in page[p] : s <= r
              /\ cursor' = [cursor EXCEPT ![TerminalOf[p]] = s]
              /\ page' = [page EXCEPT ![p] = @ \ {s}]
              /\ taken' = [taken EXCEPT ![TerminalOf[p]] = @ \cup {s}]
              /\ UNCHANGED <<skipped, overtaken, phase, after, central>>
  BY DEF ApplyChange, IsFirst

LEMMA SkippedRow ==
    ASSUME IInv, NEW p \in Puller, SkipChange(p)
    PROVE  \E s \in page[p] :
              /\ \A r \in page[p] : s <= r
              /\ cursor' = [cursor EXCEPT ![TerminalOf[p]] = s]
              /\ page' = [page EXCEPT ![p] = @ \ {s}]
              /\ skipped' = [skipped EXCEPT ![TerminalOf[p]] = @ \cup {s}]
              /\ phase' = [phase EXCEPT ![p] = "apply"]
              /\ UNCHANGED <<taken, overtaken, after, central>>
  BY DEF SkipChange, IsFirst

LEMMA UnsavedRow ==
    ASSUME IInv, NEW p \in Puller, SkipChangeUnsaved(p)
    PROVE  \E s \in page[p] :
              /\ page' = [page EXCEPT ![p] = @ \ {s}]
              /\ skipped' = [skipped EXCEPT ![TerminalOf[p]] = @ \cup {s}]
              /\ phase' = [phase EXCEPT ![p] = "apply"]
              /\ UNCHANGED <<cursor, taken, overtaken, after, central>>
  BY DEF SkipChangeUnsaved

LEMMA FetchedPage ==
    ASSUME IInv, NEW p \in Puller, Fetch(p), PageAfter(after[p]) # {}
    PROVE  \E n \in PageAfter(after[p]) :
              /\ n \in Row /\ Committed(n) /\ n > after[p]
              /\ \A s \in PageAfter(after[p]) : s <= n /\ s > after[p] /\ Committed(s)
              /\ \A s \in Row : Committed(s) /\ s > after[p] /\ s <= n
                                   => s \in PageAfter(after[p])
              /\ phase' = [phase EXCEPT ![p] = "apply"]
              /\ after' = [after EXCEPT ![p] = n]
              /\ page' = [page EXCEPT ![p] = PageAfter(after[p])]
              /\ overtaken' = [overtaken EXCEPT ![TerminalOf[p]] =
                                                   @ \cup {s \in Open : s < n}]
              /\ UNCHANGED <<taken, skipped, cursor, central>>
<1>1. PICK n \in PageAfter(after[p]) :
          /\ \A s \in PageAfter(after[p]) : s <= n
          /\ phase' = [phase EXCEPT ![p] = "apply"]
          /\ after' = [after EXCEPT ![p] = n]
          /\ page' = [page EXCEPT ![p] = PageAfter(after[p])]
          /\ overtaken' = [overtaken EXCEPT ![TerminalOf[p]] = @ \cup {s \in Open : s < n}]
  BY DEF Fetch, IsLast
<1>2. after[p] \in Int
  BY ConstantsAssumption DEF IInv, TypeOK
<1>3. \A s \in PageAfter(after[p]) : s \in Row /\ s > after[p] /\ Committed(s)
  BY <1>2, PageIsPrefix
<1>4. \A s \in Row : Committed(s) /\ s > after[p] /\ s <= n => s \in PageAfter(after[p])
  BY <1>2, PageIsPrefix DEF VisibleAfter, Committed
<1>5. UNCHANGED <<taken, skipped, cursor, central>>
  BY DEF Fetch
<1> QED  BY <1>1, <1>3, <1>4, <1>5
-----------------------------------------------------------------------------
\* A pull may move on to a phase that fits the page it holds.
LEMMA PhaseMoves ==
    ASSUME TypeOK, PullInv, NEW p \in Puller, NEW x, phase[p] # "idle",
           phase' = [phase EXCEPT ![p] = x], UNCHANGED <<after, page, cursor, rowState>>,
           x \in {"idle", "fetch"} => page[p] = {}, x = "skip" => page[p] # {}
    PROVE  PullInv'
<1>1. \A q \in Puller : phase'[q] = IF q = p THEN x ELSE phase[q]
  BY DEF TypeOK
<1>2. \A q, r \in Puller : TerminalOf[q] = TerminalOf[r] /\ phase'[q] # "idle"
                              /\ phase'[r] # "idle" => q = r
  BY <1>1 DEF PullInv
<1> QED  BY <1>1, <1>2 DEF PullInv, Committed

LEMMA PullInvStep == IInv /\ [Next]_vars => PullInv'
<1> SUFFICES ASSUME IInv, [Next]_vars PROVE PullInv'
  OBVIOUS
<1> USE ConstantsAssumption
<1>0. TypeOK /\ PullInv
  BY DEF IInv
<1>1. CASE UNCHANGED <<pull, cursor, rowState>>
  BY <1>0, <1>1 DEF PullInv, pull, Committed
<1>2. ASSUME NEW c \in Change, AppendRow(c) PROVE PullInv'
  <2>1. \A s \in Row : Committed(s) => rowState'[s] = "committed"
    <3>1. lastSeq + 1 \in Row /\ rowState[lastSeq + 1] = "unused"
      BY <1>2 DEF AppendRow, IInv, TypeOK, LogInv, Row
    <3> QED  BY <1>0, <1>2, <3>1 DEF AppendRow, TypeOK, Committed
  <2> QED  BY <1>0, <1>2, <2>1 DEF AppendRow, PullInv, TypeOK, pull, Committed
<1>3. ASSUME NEW s \in Row, CommitRow(s) \/ AbortRow(s) PROVE PullInv'
  <2>1. \A r \in Row : Committed(r) => rowState'[r] = "committed"
    BY <1>0, <1>3 DEF CommitRow, AbortRow, EndTransaction, TypeOK, Committed, Open
  <2> QED
    BY <1>0, <1>3, <2>1
       DEF CommitRow, AbortRow, EndTransaction, PullInv, TypeOK, pull, Committed
<1>4. ASSUME NEW t \in Terminal, Crash(t) PROVE PullInv'
  BY <1>0, <1>4 DEF Crash, PullInv, TypeOK, Committed, central
<1>5. ASSUME NEW p \in Puller, StartPull(p) PROVE PullInv'
  BY <1>0, <1>5 DEF StartPull, ExecutionLockFree, PullInv, TypeOK, Committed, central
<1>6. ASSUME NEW p \in Puller, Fetch(p) PROVE PullInv'
  <2>1. CASE PageAfter(after[p]) = {}
    <3>1. /\ phase[p] = "fetch" /\ phase' = [phase EXCEPT ![p] = "idle"]
          /\ UNCHANGED <<after, page, cursor, rowState>>
      BY <1>6, <2>1 DEF Fetch, central
    <3> QED  BY <1>0, <3>1, PhaseMoves DEF PullInv
  <2>2. CASE PageAfter(after[p]) # {}
    <3>1. PICK n \in PageAfter(after[p]) :
              /\ n \in Row /\ n > after[p]
              /\ \A s \in PageAfter(after[p]) : s <= n /\ s > after[p] /\ Committed(s)
              /\ phase' = [phase EXCEPT ![p] = "apply"]
              /\ after' = [after EXCEPT ![p] = n]
              /\ page' = [page EXCEPT ![p] = PageAfter(after[p])]
              /\ UNCHANGED <<cursor, central>>
      BY <1>6, <2>2, FetchedPage
    <3>2. phase[p] = "fetch"
      BY <1>6 DEF Fetch
    <3>3. cursor[TerminalOf[p]] \in Int /\ after[p] \in Int /\ cursor[TerminalOf[p]] <= after[p]
      BY <1>0, <3>2 DEF PullInv, TypeOK
    <3> QED  BY <1>0, <3>1, <3>2, <3>3 DEF PullInv, TypeOK, Committed, central, Row
  <2> QED  BY <2>1, <2>2
<1>7. ASSUME NEW p \in Puller, FetchFails(p) \/ ApplyFails(p) \/ FinishPage(p) PROVE PullInv'
  <2>1. CASE FetchFails(p)
    BY <1>0, <2>1, PhaseMoves DEF FetchFails, central, PullInv
  <2>2. CASE ApplyFails(p)
    BY <1>0, <2>2, PhaseMoves DEF ApplyFails, central
  <2>3. CASE FinishPage(p)
    BY <1>0, <2>3, PhaseMoves DEF FinishPage, central
  <2> QED  BY <1>7, <2>1, <2>2, <2>3
<1>8. ASSUME NEW p \in Puller, ApplyChange(p) \/ SkipChange(p) PROVE PullInv'
  <2>1. PICK s \in page[p] :
          /\ \A r \in page[p] : s <= r
          /\ cursor' = [cursor EXCEPT ![TerminalOf[p]] = s]
          /\ page' = [page EXCEPT ![p] = @ \ {s}]
          /\ phase' = phase \/ phase' = [phase EXCEPT ![p] = "apply"]
          /\ UNCHANGED <<after, central>>
    BY <1>8, AppliedRow, SkippedRow
  <2>2. s \in Row /\ s <= after[p] /\ phase[p] \in {"apply", "skip"}
    BY PageRow
  <2>3. phase' = phase => phase[p] = "apply"
    BY <1>0, <1>8 DEF ApplyChange, SkipChange, TypeOK
  <2>4. \A q \in Puller : phase'[q] = phase[q] \/ (q = p /\ phase'[q] = "apply")
    BY <1>0, <2>1 DEF TypeOK
  <2>5. \A q \in Puller : q # p /\ TerminalOf[q] = TerminalOf[p] => phase[q] = "idle"
    BY <1>0, <2>2 DEF PullInv
  <2>6. /\ \A q \in Puller : page'[q] = IF q = p THEN page[q] \ {s} ELSE page[q]
        /\ \A q \in Puller : cursor'[TerminalOf[q]] =
              IF TerminalOf[q] = TerminalOf[p] THEN s ELSE cursor[TerminalOf[q]]
    BY <1>0, <2>1 DEF TypeOK
  <2>7. phase'[p] = "apply"
    BY <1>0, <2>1, <2>2, <2>3 DEF TypeOK
  <2>8. /\ \A q, r \in Puller : TerminalOf[q] = TerminalOf[r] /\ phase'[q] # "idle"
                                 /\ phase'[r] # "idle" => q = r
        /\ \A q \in Puller : phase'[q] \in {"idle", "fetch"} => page'[q] = {}
        /\ \A q \in Puller : phase'[q] = "skip" => page'[q] # {}
    <3>1. \A q \in Puller : phase'[q] # "idle" => phase[q] # "idle"
      BY <2>2, <2>4
    <3>2. \A q \in Puller : q # p => phase'[q] = phase[q] /\ page'[q] = page[q]
      BY <2>4, <2>6
    <3>3. phase'[p] \notin {"idle", "fetch", "skip"}
      BY <2>7
    <3> QED  BY <1>0, <3>1, <3>2, <3>3 DEF PullInv
  <2>9. ASSUME NEW q \in Puller, NEW r \in Row, r \in page'[q]
        PROVE  r > cursor'[TerminalOf[q]] /\ r <= after'[q] /\ Committed(r)'
    <3>1. r \in page[q] /\ after' = after /\ rowState' = rowState
      BY <2>1, <2>6, <2>9 DEF central
    <3>2. r > cursor[TerminalOf[q]] /\ r <= after[q] /\ Committed(r)
      BY <1>0, <3>1 DEF PullInv
    <3>3. CASE q = p
      <4>1. r \in Int /\ s \in Int /\ s <= r /\ r # s /\ cursor'[TerminalOf[q]] = s
        BY <2>1, <2>2, <2>6, <2>9, <3>1, <3>3 DEF Row
      <4> QED  BY <3>1, <3>2, <4>1 DEF Committed
    <3>4. CASE q # p
      <4>1. TerminalOf[q] # TerminalOf[p]
        BY <1>0, <2>5, <3>1, <3>4 DEF PullInv
      <4> QED  BY <2>6, <3>1, <3>2, <4>1 DEF Committed
    <3> QED  BY <3>3, <3>4
  <2>10. \A q \in Puller : phase'[q] # "idle" => cursor'[TerminalOf[q]] <= after'[q]
    BY <1>0, <2>1, <2>2, <2>4, <2>5, <2>6 DEF PullInv
  <2> QED  BY <2>8, <2>9, <2>10 DEF PullInv
<1>9. ASSUME NEW p \in Puller, SkipChangeUnsaved(p) PROVE PullInv'
  <2>1. PICK s \in page[p] :
          /\ page' = [page EXCEPT ![p] = @ \ {s}]
          /\ phase' = [phase EXCEPT ![p] = "apply"]
          /\ UNCHANGED <<cursor, after, central>>
    BY <1>9, UnsavedRow
  <2>2. phase[p] = "skip"
    BY <1>9 DEF SkipChangeUnsaved
  <2> QED  BY <1>0, <2>1, <2>2 DEF PullInv, TypeOK, Committed, central
<1>10. ASSUME NEW c \in Change, RecordLocally(c) PROVE UNCHANGED <<pull, cursor, rowState>>
  BY <1>10 DEF RecordLocally, central
<1>11. ASSUME NEW t \in Terminal, Login(t) \/ Logout(t)
       PROVE UNCHANGED <<pull, cursor, rowState>>
  BY <1>11 DEF Login, Logout, central
<1>12. UNCHANGED vars => UNCHANGED <<pull, cursor, rowState>>
  BY DEF vars, central
<1> QED
  BY <1>1, <1>2, <1>3, <1>4, <1>5, <1>6, <1>7, <1>8, <1>9, <1>10, <1>11, <1>12
     DEF Next, PullerNext
-----------------------------------------------------------------------------
LEMMA LogInvStep == IInv /\ [Next]_vars => LogInv'
<1> SUFFICES ASSUME IInv, [Next]_vars PROVE LogInv'
  OBVIOUS
<1> USE ConstantsAssumption
<1>0. TypeOK /\ LogInv
  BY DEF IInv
<1>1. CASE UNCHANGED <<central, cursor, after, taken>>
  BY <1>0, <1>1 DEF LogInv, central
<1>2. ASSUME NEW c \in Change, AppendRow(c) PROVE LogInv'
  <2>1. lastSeq \in Int /\ lastSeq + 1 \in Row /\ lastSeq' = lastSeq + 1
    BY <1>0, <1>2 DEF AppendRow, TypeOK, Row
  <2>2. /\ \A s \in Row : rowState'[s] = IF s = lastSeq + 1 THEN "open" ELSE rowState[s]
        /\ \A s \in Row : rowOf'[s] = IF s = lastSeq + 1 THEN c ELSE rowOf[s]
        /\ UNCHANGED <<cursor, after, taken>>
    BY <1>0, <1>2 DEF AppendRow, TypeOK, pull, history
  <2>3. \A s \in Row : s <= lastSeq' <=> s <= lastSeq \/ s = lastSeq + 1
    BY <2>1 DEF Row
  <2>4. /\ \A s \in Row : rowState'[s] # "unused" <=> s <= lastSeq'
        /\ \A s \in Row : rowState'[s] # "unused" => rowOf'[s] \in Change
    BY <1>0, <2>2, <2>3 DEF LogInv
  <2>5. /\ \A t \in Terminal : cursor'[t] <= lastSeq'
        /\ \A p \in Puller : after'[p] <= lastSeq'
    BY <1>0, <2>1, <2>2 DEF LogInv, TypeOK
  <2> QED  BY <1>0, <2>2, <2>4, <2>5 DEF LogInv
<1>3. ASSUME NEW s \in Row, NEW x \in {"committed", "aborted"}, EndTransaction(s, x)
      PROVE LogInv'
  <2>1. \A r \in Row : rowState'[r] # "unused" <=> rowState[r] # "unused"
    BY <1>0, <1>3 DEF EndTransaction, Open, TypeOK
  <2> QED  BY <1>0, <1>3, <2>1 DEF EndTransaction, LogInv, pull, history
<1>4. ASSUME NEW p \in Puller, StartPull(p) PROVE LogInv'
  BY <1>0, <1>4 DEF StartPull, LogInv, TypeOK, central, history
<1>5. ASSUME NEW p \in Puller, Fetch(p) PROVE LogInv'
  <2>1. CASE PageAfter(after[p]) = {}
    BY <1>0, <1>5, <2>1 DEF Fetch, LogInv, central
  <2>2. CASE PageAfter(after[p]) # {}
    <3>1. PICK n \in Row : /\ Committed(n) /\ after' = [after EXCEPT ![p] = n]
                           /\ UNCHANGED <<taken, cursor, central>>
      BY <1>5, <2>2, FetchedPage
    <3>2. n <= lastSeq
      BY <1>0, <3>1 DEF LogInv, Committed
    <3> QED  BY <1>0, <3>1, <3>2 DEF LogInv, TypeOK, central
  <2> QED  BY <2>1, <2>2
<1>6. ASSUME NEW p \in Puller, ApplyChange(p) PROVE LogInv'
  <2>1. PICK s \in page[p] : /\ cursor' = [cursor EXCEPT ![TerminalOf[p]] = s]
                             /\ taken' = [taken EXCEPT ![TerminalOf[p]] = @ \cup {s}]
                             /\ UNCHANGED <<after, central>>
    BY <1>6, AppliedRow
  <2>2. s \in Row /\ TerminalOf[p] \in Terminal /\ s <= lastSeq /\ s > cursor[TerminalOf[p]]
    BY PageRow
  <2>3. /\ \A t \in Terminal : cursor'[t] = IF t = TerminalOf[p] THEN s ELSE cursor[t]
        /\ \A t \in Terminal : taken'[t] = IF t = TerminalOf[p] THEN taken[t] \cup {s}
                                                                ELSE taken[t]
    BY <1>0, <2>1 DEF TypeOK
  <2>4. \A t \in Terminal : \A r \in taken'[t] : r <= cursor'[t]
    <3> SUFFICES ASSUME NEW t \in Terminal, NEW r \in taken'[t] PROVE r <= cursor'[t]
      OBVIOUS
    <3>1. CASE r \in taken[t]
      <4>1. r \in Int /\ s \in Int /\ cursor[t] \in Int /\ r <= cursor[t]
        BY <1>0, <2>2, <3>1 DEF LogInv, TypeOK, Row
      <4> QED  BY <2>2, <2>3, <4>1
    <3>2. CASE r \notin taken[t]
      <4>1. taken'[t] # taken[t]
        BY <3>2
      <4>2. t = TerminalOf[p] /\ taken'[t] = taken[t] \cup {s}
        BY <2>3, <4>1
      <4>3. r = s /\ s \in Int /\ cursor'[t] = s
        BY <2>2, <2>3, <3>2, <4>2 DEF Row
      <4> QED  BY <4>3
    <3> QED  BY <3>1, <3>2
  <2> QED  BY <1>0, <2>1, <2>2, <2>3, <2>4 DEF LogInv, central
<1>7. ASSUME NEW p \in Puller, SkipChange(p) PROVE LogInv'
  <2>1. PICK s \in page[p] : /\ cursor' = [cursor EXCEPT ![TerminalOf[p]] = s]
                             /\ UNCHANGED <<taken, after, central>>
    BY <1>7, SkippedRow
  <2>2. s \in Row /\ TerminalOf[p] \in Terminal /\ s <= lastSeq /\ s > cursor[TerminalOf[p]]
    BY PageRow
  <2>3. \A t \in Terminal : cursor'[t] = IF t = TerminalOf[p] THEN s ELSE cursor[t]
    BY <1>0, <2>1 DEF TypeOK
  <2>4. \A t \in Terminal : \A r \in taken[t] : r <= cursor'[t]
    <3> SUFFICES ASSUME NEW t \in Terminal, NEW r \in taken[t] PROVE r <= cursor'[t]
      OBVIOUS
    <3>1. r \in Int /\ s \in Int /\ cursor[t] \in Int /\ r <= cursor[t]
      BY <1>0, <2>2 DEF LogInv, TypeOK, Row
    <3> QED  BY <2>2, <2>3, <3>1
  <2> QED  BY <1>0, <2>1, <2>2, <2>3, <2>4 DEF LogInv, central
<1>8. ASSUME NEW p \in Puller,
             FetchFails(p) \/ ApplyFails(p) \/ FinishPage(p) \/ SkipChangeUnsaved(p)
      PROVE UNCHANGED <<central, cursor, after, taken>>
  BY <1>8 DEF FetchFails, ApplyFails, FinishPage, SkipChangeUnsaved, history
<1>9. ASSUME NEW t \in Terminal, Login(t) \/ Logout(t) \/ Crash(t)
      PROVE UNCHANGED <<central, cursor, after, taken>>
  BY <1>9 DEF Login, Logout, Crash, pull, history
<1>10. ASSUME NEW c \in Change, RecordLocally(c)
       PROVE UNCHANGED <<central, cursor, after, taken>>
  BY <1>10 DEF RecordLocally, pull, history
<1>11. UNCHANGED vars => UNCHANGED <<central, cursor, after, taken>>
  BY DEF vars, pull, history
<1> QED
  BY <1>1, <1>2, <1>3, <1>4, <1>5, <1>6, <1>7, <1>8, <1>9, <1>10, <1>11
     DEF Next, PullerNext, CommitRow, AbortRow
-----------------------------------------------------------------------------
LEMMA SettledInvStep == IInv /\ [Next]_vars => SettledInv'
<1> SUFFICES ASSUME IInv, [Next]_vars PROVE SettledInv'
  OBVIOUS
<1> USE ConstantsAssumption
<1>0. TypeOK /\ PullInv /\ LogInv /\ SettledInv /\ OnlyOvertakenRowsAreMissed
  BY DEF IInv, SettledInv
<1>1. CASE UNCHANGED <<pull, cursor, rowState, history>>
  BY <1>0, <1>1 DEF SettledInv, OnlyOvertakenRowsAreMissed, Settled, Committed, Open,
                    pull, history
<1>2. ASSUME NEW c \in Change, AppendRow(c) PROVE SettledInv'
  <2>1. /\ lastSeq + 1 \in Row /\ lastSeq \in Int
        /\ \A s \in Row : rowState'[s] = IF s = lastSeq + 1 THEN "open" ELSE rowState[s]
        /\ UNCHANGED <<pull, cursor, history>>
    BY <1>0, <1>2 DEF AppendRow, TypeOK, Row
  <2>2. /\ \A t \in Terminal : ~(lastSeq + 1 <= cursor[t])
        /\ \A p \in Puller : ~(lastSeq + 1 <= after[p])
    BY <1>0, <2>1 DEF LogInv, TypeOK
  <2> QED
    BY <1>0, <2>1, <2>2
       DEF SettledInv, OnlyOvertakenRowsAreMissed, Settled, Committed, Open, pull, history
<1>3. ASSUME NEW s \in Row, NEW x \in {"committed", "aborted"}, EndTransaction(s, x)
      PROVE SettledInv'
  <2>1. /\ s \in Open
        /\ \A r \in Row : rowState'[r] = IF r = s THEN x ELSE rowState[r]
        /\ UNCHANGED <<pull, cursor, history>>
    BY <1>0, <1>3 DEF EndTransaction, TypeOK
  <2>2. /\ \A r \in Row : Committed(r)' => Committed(r) \/ r = s
        /\ Open' \subseteq Open
    BY <2>1 DEF Committed, Open
  <2> QED
    BY <1>0, <2>1, <2>2
       DEF SettledInv, OnlyOvertakenRowsAreMissed, Settled, pull, history
<1>4. ASSUME NEW p \in Puller, StartPull(p) PROVE SettledInv'
  <2>1. /\ \A q \in Puller : phase'[q] = IF q = p THEN "fetch" ELSE phase[q]
        /\ \A q \in Puller : after'[q] = IF q = p THEN cursor[TerminalOf[p]] ELSE after[q]
        /\ UNCHANGED <<page, central, cursor, history>>
    BY <1>0, <1>4 DEF StartPull, TypeOK
  <2> QED
    BY <1>0, <2>1
       DEF SettledInv, OnlyOvertakenRowsAreMissed, Settled, Committed, Open, central, history
<1>5. ASSUME NEW p \in Puller, Fetch(p) PROVE SettledInv'
  <2>1. CASE PageAfter(after[p]) = {}
    <3>1. /\ \A q \in Puller : phase'[q] = IF q = p THEN "idle" ELSE phase[q]
          /\ UNCHANGED <<after, page, central, cursor, history>>
      BY <1>0, <1>5, <2>1 DEF Fetch, TypeOK, history
    <3> QED
      BY <1>0, <3>1
         DEF SettledInv, OnlyOvertakenRowsAreMissed, Settled, Committed, Open, central, history
  <2>2. CASE PageAfter(after[p]) # {}
    <3>1. PICK n \in PageAfter(after[p]) :
              /\ n \in Row /\ Committed(n)
              /\ \A s \in Row : Committed(s) /\ s > after[p] /\ s <= n
                                   => s \in PageAfter(after[p])
              /\ phase' = [phase EXCEPT ![p] = "apply"]
              /\ after' = [after EXCEPT ![p] = n]
              /\ page' = [page EXCEPT ![p] = PageAfter(after[p])]
              /\ overtaken' = [overtaken EXCEPT ![TerminalOf[p]] =
                                                   @ \cup {s \in Open : s < n}]
              /\ UNCHANGED <<taken, skipped, cursor, central>>
      BY <1>5, <2>2, FetchedPage
    <3>2. phase[p] = "fetch" /\ page[p] = {} /\ TerminalOf[p] \in Terminal
      BY <1>0, <1>5 DEF Fetch, PullInv
    <3>3. /\ \A q \in Puller : q # p => phase'[q] = phase[q] /\ after'[q] = after[q]
                                         /\ page'[q] = page[q]
          /\ after'[p] = n /\ page'[p] = PageAfter(after[p])
          /\ \A t \in Terminal : overtaken[t] \subseteq overtaken'[t]
          /\ \A s \in Open : s < n => s \in overtaken'[TerminalOf[p]]
      BY <1>0, <3>1, <3>2 DEF TypeOK
    <3>4. \A t \in Terminal, s \in Row : Settled(t, s) => Settled(t, s)'
      BY <3>1, <3>3 DEF Settled
    <3>5. ASSUME NEW s \in Row, Committed(s), s <= n, s \notin page'[p]
          PROVE  Settled(TerminalOf[p], s)
      <4>1. s <= after[p]
        BY <1>0, <3>1, <3>3, <3>5 DEF TypeOK, Row
      <4> QED  BY <1>0, <3>2, <3>5, <4>1 DEF SettledInv
    <3>6. ASSUME NEW s \in Open, s <= n PROVE s \in overtaken'[TerminalOf[p]]
      <4>1. s # n /\ s \in Int /\ n \in Int
        BY <3>1 DEF Open, Committed, Row
      <4> QED  BY <3>3, <3>6, <4>1
    <3>7. (\A s \in Row : Committed(s)' <=> Committed(s)) /\ Open' = Open
      BY <3>1 DEF central, Committed, Open
    <3>8. OnlyOvertakenRowsAreMissed'
      BY <1>0, <3>1, <3>4, <3>7 DEF OnlyOvertakenRowsAreMissed
    <3>9. ASSUME NEW q \in Puller, NEW s \in Row,
                 phase'[q] # "idle", Committed(s), s <= after'[q], s \notin page'[q]
          PROVE  Settled(TerminalOf[q], s)'
      <4>1. Settled(TerminalOf[q], s)
        BY <1>0, <3>3, <3>5, <3>9 DEF SettledInv
      <4> QED  BY <3>4, <4>1
    <3>10. ASSUME NEW q \in Puller, NEW s \in Open, phase'[q] # "idle", s <= after'[q]
           PROVE  s \in overtaken'[TerminalOf[q]]
      <4>1. CASE q = p
        BY <3>3, <3>6, <3>10, <4>1
      <4>2. CASE q # p
        BY <1>0, <3>3, <3>10, <4>2 DEF SettledInv
      <4> QED  BY <4>1, <4>2
    <3>11. \A t \in Terminal, s \in Open : s <= cursor'[t] => s \in overtaken'[t]
      BY <1>0, <3>1, <3>3 DEF SettledInv
    <3> QED  BY <3>7, <3>8, <3>9, <3>10, <3>11 DEF SettledInv
  <2> QED  BY <2>1, <2>2
<1>6. ASSUME NEW p \in Puller, ApplyChange(p) \/ SkipChange(p) PROVE SettledInv'
  <2>1. PICK s \in page[p] :
          /\ \A r \in page[p] : s <= r
          /\ cursor' = [cursor EXCEPT ![TerminalOf[p]] = s]
          /\ page' = [page EXCEPT ![p] = @ \ {s}]
          /\ \/ taken' = [taken EXCEPT ![TerminalOf[p]] = @ \cup {s}] /\ skipped' = skipped
             \/ skipped' = [skipped EXCEPT ![TerminalOf[p]] = @ \cup {s}] /\ taken' = taken
          /\ phase' = phase \/ phase' = [phase EXCEPT ![p] = "apply"]
          /\ UNCHANGED <<overtaken, after, central>>
    BY <1>6, AppliedRow, SkippedRow
  <2>2. /\ s \in Row /\ s <= after[p] /\ phase[p] # "idle" /\ TerminalOf[p] \in Terminal
    BY PageRow
  <2>3. \A q \in Puller : phase'[q] # "idle" => phase[q] # "idle"
    BY <1>0, <2>1, <2>2 DEF TypeOK
  <2>4. /\ \A t \in Terminal, r \in Row : Settled(t, r) => Settled(t, r)'
        /\ Settled(TerminalOf[p], s)'
    <3>1. CASE taken' = [taken EXCEPT ![TerminalOf[p]] = @ \cup {s}] /\ skipped' = skipped
      BY <1>0, <2>1, <2>2, <3>1 DEF Settled, TypeOK
    <3>2. CASE skipped' = [skipped EXCEPT ![TerminalOf[p]] = @ \cup {s}] /\ taken' = taken
      BY <1>0, <2>1, <2>2, <3>2 DEF Settled, TypeOK
    <3> QED  BY <2>1, <3>1, <3>2
  <2>5. ASSUME NEW r \in Row, Committed(r), r <= s PROVE Settled(TerminalOf[p], r)'
    <3>1. CASE r = s
      BY <2>4, <3>1
    <3>2. CASE r # s
      <4>1. r \in Int /\ s \in Int /\ after[p] \in Int
        BY <1>0, <2>2 DEF TypeOK, Row
      <4>2. r \notin page[p] /\ r <= after[p]
        BY <2>1, <2>2, <2>5, <3>2, <4>1
      <4> QED  BY <1>0, <2>2, <2>4, <2>5, <4>2 DEF SettledInv
    <3> QED  BY <3>1, <3>2
  <2>6. ASSUME NEW r \in Open, r <= s PROVE r \in overtaken[TerminalOf[p]]
    <3>1. r <= after[p]
      BY <1>0, <2>2, <2>6 DEF TypeOK, Open, Row
    <3> QED  BY <1>0, <2>2, <3>1 DEF SettledInv
  <2>7. (\A r \in Row : Committed(r)' <=> Committed(r)) /\ Open' = Open
    BY <2>1 DEF central, Committed, Open
  <2>8. /\ \A t \in Terminal : cursor'[t] = IF t = TerminalOf[p] THEN s ELSE cursor[t]
        /\ \A q \in Puller : page'[q] = IF q = p THEN page[q] \ {s} ELSE page[q]
    BY <1>0, <2>1 DEF TypeOK
  <2>9. OnlyOvertakenRowsAreMissed'
    BY <1>0, <2>4, <2>5, <2>7, <2>8 DEF OnlyOvertakenRowsAreMissed
  <2>10. ASSUME NEW q \in Puller, NEW r \in Row,
                phase'[q] # "idle", Committed(r), r <= after'[q], r \notin page'[q]
         PROVE  Settled(TerminalOf[q], r)'
    <3>1. CASE q = p /\ r = s
      BY <2>4, <3>1
    <3>2. CASE ~(q = p /\ r = s)
      <4>1. phase[q] # "idle" /\ r <= after[q] /\ r \notin page[q]
        BY <2>1, <2>3, <2>8, <2>10, <3>2
      <4> QED  BY <1>0, <2>4, <2>10, <4>1 DEF SettledInv
    <3> QED  BY <3>1, <3>2
  <2>11. \A t \in Terminal, r \in Open : r <= cursor'[t] => r \in overtaken'[t]
    BY <1>0, <2>1, <2>6, <2>8 DEF SettledInv
  <2>12. \A q \in Puller, r \in Open :
            phase'[q] # "idle" /\ r <= after'[q] => r \in overtaken'[TerminalOf[q]]
    BY <1>0, <2>1, <2>3 DEF SettledInv
  <2> QED  BY <2>7, <2>9, <2>10, <2>11, <2>12 DEF SettledInv
<1>7. ASSUME NEW p \in Puller, SkipChangeUnsaved(p) PROVE SettledInv'
  <2>1. PICK s \in page[p] :
          /\ page' = [page EXCEPT ![p] = @ \ {s}]
          /\ skipped' = [skipped EXCEPT ![TerminalOf[p]] = @ \cup {s}]
          /\ phase' = [phase EXCEPT ![p] = "apply"]
          /\ UNCHANGED <<cursor, taken, overtaken, after, central>>
    BY <1>7, UnsavedRow
  <2>2. s \in Row /\ phase[p] # "idle" /\ TerminalOf[p] \in Terminal
    BY PageRow
  <2>3. \A q \in Puller : phase'[q] # "idle" => phase[q] # "idle"
    BY <1>0, <2>1, <2>2 DEF TypeOK
  <2>4. /\ \A t \in Terminal, r \in Row : Settled(t, r) => Settled(t, r)'
        /\ Settled(TerminalOf[p], s)'
    BY <1>0, <2>1, <2>2 DEF Settled, TypeOK
  <2>5. (\A r \in Row : Committed(r)' <=> Committed(r)) /\ Open' = Open
    BY <2>1 DEF central, Committed, Open
  <2>6. \A q \in Puller : page'[q] = IF q = p THEN page[q] \ {s} ELSE page[q]
    BY <1>0, <2>1 DEF TypeOK
  <2>7. OnlyOvertakenRowsAreMissed'
    BY <1>0, <2>1, <2>4, <2>5 DEF OnlyOvertakenRowsAreMissed
  <2>8. ASSUME NEW q \in Puller, NEW r \in Row,
               phase'[q] # "idle", Committed(r), r <= after'[q], r \notin page'[q]
        PROVE  Settled(TerminalOf[q], r)'
    <3>1. CASE q = p /\ r = s
      BY <2>4, <3>1
    <3>2. CASE ~(q = p /\ r = s)
      <4>1. phase[q] # "idle" /\ r <= after[q] /\ r \notin page[q]
        BY <2>1, <2>3, <2>6, <2>8, <3>2
      <4> QED  BY <1>0, <2>4, <2>8, <4>1 DEF SettledInv
    <3> QED  BY <3>1, <3>2
  <2> QED  BY <1>0, <2>1, <2>3, <2>5, <2>7, <2>8 DEF SettledInv
<1>8. ASSUME NEW p \in Puller, FetchFails(p) \/ ApplyFails(p) \/ FinishPage(p)
      PROVE SettledInv'
  <2>1. /\ UNCHANGED <<after, page, central, cursor, history>>
        /\ phase[p] # "idle"
        /\ \E x : phase' = [phase EXCEPT ![p] = x]
    BY <1>8 DEF FetchFails, ApplyFails, FinishPage
  <2>2. \A q \in Puller : phase'[q] # "idle" => phase[q] # "idle"
    BY <1>0, <2>1 DEF TypeOK
  <2> QED
    BY <1>0, <2>1, <2>2
       DEF SettledInv, OnlyOvertakenRowsAreMissed, Settled, Committed, Open, central, history
<1>9. ASSUME NEW t \in Terminal, Crash(t) PROVE SettledInv'
  <2>1. /\ UNCHANGED <<after, central, cursor, history>>
        /\ \A q \in Puller : phase'[q] # "idle" => phase[q] # "idle" /\ page'[q] = page[q]
    BY <1>0, <1>9 DEF Crash, TypeOK
  <2> QED
    BY <1>0, <2>1
       DEF SettledInv, OnlyOvertakenRowsAreMissed, Settled, Committed, Open, central, history
<1>10. ASSUME NEW c \in Change, RecordLocally(c)
       PROVE UNCHANGED <<pull, cursor, rowState, history>>
  BY <1>10 DEF RecordLocally, central
<1>11. ASSUME NEW t \in Terminal, Login(t) \/ Logout(t)
       PROVE UNCHANGED <<pull, cursor, rowState, history>>
  BY <1>11 DEF Login, Logout, central
<1>12. UNCHANGED vars => UNCHANGED <<pull, cursor, rowState, history>>
  BY DEF vars, central
<1> QED
  BY <1>1, <1>2, <1>3, <1>4, <1>5, <1>6, <1>7, <1>8, <1>9, <1>10, <1>11, <1>12
     DEF Next, PullerNext, CommitRow, AbortRow
-----------------------------------------------------------------------------
\* IInv holds of every reachable state.
THEOREM InductiveInvariant == Spec => []IInv
<1>1. IInv /\ [Next]_vars => IInv'
  BY TypeStep, PullInvStep, LogInvStep, SettledInvStep DEF IInv
<1> QED  BY InitIInv, <1>1, PTL DEF Spec

\* Every variable keeps its type; no local stock becomes negative, whatever a
\* terminal records and pulls.
THEOREM TypeCorrectness == Spec => []TypeOK
<1>1. IInv => TypeOK
  BY DEF IInv
<1> QED  BY InductiveInvariant, <1>1, PTL

\* Behind its cursor a terminal misses only rows whose transactions were still
\* open when a fetch passed them, for any page size and any interleaving of
\* transactions, pulls, failures and crashes.
THEOREM OnlyOvertakenRowsMissed == Spec => []OnlyOvertakenRowsAreMissed
<1>1. IInv => OnlyOvertakenRowsAreMissed
  BY DEF IInv, SettledInv
<1> QED  BY InductiveInvariant, <1>1, PTL
-----------------------------------------------------------------------------
LEMMA FollowerInit == Init => Follower!Init
<1>1. Init => {s \in Row : Committed(s)} = {}
  BY DEF Init, Committed
<1> QED  BY <1>1 DEF Init, Follower!Init

LEMMA FollowerStep ==
    IInv /\ [Next]_vars
      => [Follower!Next]_<<{s \in Row : Committed(s)}, cursor, taken>>
<1> DEFINE F == <<{s \in Row : Committed(s)}, cursor, taken>>
<1> SUFFICES ASSUME IInv, [Next]_vars PROVE Follower!Next \/ UNCHANGED F
  BY DEF Follower!Next
<1> USE ConstantsAssumption
<1>0. TypeOK /\ LogInv
  BY DEF IInv
<1>1. UNCHANGED <<rowState, cursor, taken>> => UNCHANGED F
  BY DEF Committed
<1>2. ASSUME NEW c \in Change, AppendRow(c) PROVE UNCHANGED F
  <2>1. /\ lastSeq + 1 \in Row /\ rowState[lastSeq + 1] = "unused"
        /\ UNCHANGED <<cursor, taken>>
    BY <1>0, <1>2 DEF AppendRow, TypeOK, LogInv, Row, history
  <2>2. \A s \in Row : Committed(s)' <=> Committed(s)
    BY <1>0, <1>2, <2>1 DEF AppendRow, TypeOK, Committed
  <2> QED  BY <2>1, <2>2
<1>3. ASSUME NEW s \in Row, CommitRow(s) PROVE Follower!Next
  <2>1. s \in Open /\ UNCHANGED <<cursor, taken>>
    BY <1>3 DEF CommitRow, EndTransaction, history
  <2>2. \A r \in Row : Committed(r)' <=> Committed(r) \/ r = s
    BY <1>0, <1>3 DEF CommitRow, EndTransaction, TypeOK, Committed
  <2>3. ~Committed(s)
    BY <2>1 DEF Open, Committed
  <2>4. Follower!Publish(s)
    BY <2>1, <2>2, <2>3 DEF Follower!Publish
  <2> QED  BY <2>4 DEF Follower!Next
<1>4. ASSUME NEW s \in Row, AbortRow(s) PROVE UNCHANGED F
  <2>1. s \in Open /\ UNCHANGED <<cursor, taken>>
    BY <1>4 DEF AbortRow, EndTransaction, history
  <2>2. \A r \in Row : Committed(r)' <=> Committed(r)
    BY <1>0, <1>4, <2>1 DEF AbortRow, EndTransaction, TypeOK, Committed, Open
  <2> QED  BY <2>1, <2>2
<1>5. ASSUME NEW p \in Puller, ApplyChange(p) PROVE Follower!Next
  <2>1. PICK s \in page[p] :
          /\ cursor' = [cursor EXCEPT ![TerminalOf[p]] = s]
          /\ taken' = [taken EXCEPT ![TerminalOf[p]] = @ \cup {s}]
          /\ UNCHANGED central
    BY <1>5, AppliedRow
  <2>2. s \in Row /\ Committed(s) /\ TerminalOf[p] \in Terminal /\ s > cursor[TerminalOf[p]]
    BY PageRow
  <2>3. s \notin taken[TerminalOf[p]]
    BY <1>0, <2>2 DEF LogInv, TypeOK, Row
  <2>4. UNCHANGED {r \in Row : Committed(r)}
    BY <2>1 DEF central, Committed
  <2>5. Follower!Take(TerminalOf[p], s)
    BY <2>1, <2>2, <2>3, <2>4 DEF Follower!Take, Follower!Advance
  <2> QED  BY <2>2, <2>5 DEF Follower!Next
<1>6. ASSUME NEW p \in Puller, SkipChange(p) PROVE Follower!Next
  <2>1. PICK s \in page[p] :
          /\ cursor' = [cursor EXCEPT ![TerminalOf[p]] = s]
          /\ UNCHANGED <<taken, central>>
    BY <1>6, SkippedRow
  <2>2. s \in Row /\ Committed(s) /\ TerminalOf[p] \in Terminal /\ s > cursor[TerminalOf[p]]
    BY PageRow
  <2>3. UNCHANGED {r \in Row : Committed(r)}
    BY <2>1 DEF central, Committed
  <2>4. Follower!Skip(TerminalOf[p], s)
    BY <2>1, <2>2, <2>3 DEF Follower!Skip, Follower!Advance
  <2> QED  BY <2>2, <2>4 DEF Follower!Next
<1>7. ASSUME NEW p \in Puller,
             \/ StartPull(p) \/ Fetch(p) \/ FetchFails(p) \/ ApplyFails(p)
             \/ SkipChangeUnsaved(p) \/ FinishPage(p)
      PROVE UNCHANGED <<rowState, cursor, taken>>
  BY <1>7 DEF StartPull, Fetch, FetchFails, ApplyFails, SkipChangeUnsaved, FinishPage,
              central, history
<1>8. ASSUME NEW t \in Terminal, Login(t) \/ Logout(t) \/ Crash(t)
      PROVE UNCHANGED <<rowState, cursor, taken>>
  BY <1>8 DEF Login, Logout, Crash, central, history
<1>9. ASSUME NEW c \in Change, RecordLocally(c) PROVE UNCHANGED <<rowState, cursor, taken>>
  BY <1>9 DEF RecordLocally, central, history
<1>10. UNCHANGED vars => UNCHANGED <<rowState, cursor, taken>>
  BY DEF vars, central, history
<1> QED
  BY <1>1, <1>2, <1>3, <1>4, <1>5, <1>6, <1>7, <1>8, <1>9, <1>10 DEF Next, PullerNext

\* The pull of every terminal follows the published rows in their order and
\* takes none of them twice, whoever pulls and wherever the process stops.
THEOREM ImplementsLogFollower == Spec => FollowerSpec
  BY FollowerInit, FollowerStep, InductiveInvariant, PTL DEF Spec, FollowerSpec, Follower!Spec
-----------------------------------------------------------------------------
(* Sums. SumFunctionOnSet is a recursion over the subsets of a set, for    *)
(* which the library has no theorem: that there is a function that obeys   *)
(* it, and only one, follows by induction on the size of the subsets, and  *)
(* so does that the order of the elements does not matter.                 *)

\* Induction over the natural numbers, for a set.
LEMMA SetInduction ==
    ASSUME NEW M, 0 \in M, \A n \in M \cap Nat : n + 1 \in M
    PROVE  Nat \subseteq M
<1>1. SUFFICES ASSUME Nat \ M # {}
               PROVE  FALSE
  OBVIOUS
<1>2. PICK n \in Nat \ M : \A m \in Nat \ M : <<m, n>> \notin OpToRel(<, Nat)
  BY <1>1, NatLessThanWellFounded, WFMin
<1>3. \A m \in Nat \ M : ~(m < n)
  BY <1>2 DEF OpToRel
<1>4. n \in Nat /\ n # 0 /\ n - 1 \in Nat /\ n - 1 \in M
  BY <1>3
<1>5. (n - 1) + 1 \in M
  BY <1>4
<1>6. QED
  BY <1>4, <1>5

Pick(s) == CHOOSE x \in s : TRUE

\* The recursion behind a sum: g adds up f over the subsets of S.
Adds(g, f, S) ==
    g = [s \in SUBSET S |-> IF s = {} THEN 0 ELSE f[Pick(s)] + g[s \ {Pick(s)}]]

\* In whatever order the elements are taken.
AddsUp(g, f, D) ==
    /\ g \in [D -> Int]
    /\ \A s \in D : s = {} => g[s] = 0
    /\ \A s \in D : \A x \in s : g[s] = f[x] + g[s \ {x}]

\* SumFunctionOnSet takes its elements in the order of a CHOOSE.
LEMMA SumIsChosen ==
    ASSUME NEW f, NEW S
    PROVE  SumFunctionOnSet(f, S) = (CHOOSE g : Adds(g, f, S))[S]
  BY DEF SumFunctionOnSet, FoldFunctionOnSet, MapThenFoldSet, Adds, Pick

\* The subsets of S with at most n elements.
Small(S, n) == {s \in SUBSET S : Cardinality(s) <= n}

LEMMA SmallSets ==
    ASSUME NEW S, IsFiniteSet(S), NEW n \in Nat
    PROVE  /\ Small(S, 0) = {{}}
           /\ \A s \in Small(S, n + 1) : \A x \in s : s \ {x} \in Small(S, n)
           /\ Small(S, n) \subseteq Small(S, n + 1)
           /\ Small(S, Cardinality(S)) = SUBSET S
<1>1. \A s \in SUBSET S : IsFiniteSet(s) /\ Cardinality(s) \in Nat /\ Cardinality(s) <= Cardinality(S)
  BY FS_Subset, FS_CardinalityType
<1>2. Small(S, 0) = {{}}
  BY <1>1, FS_EmptySet DEF Small
<1>3. \A s \in Small(S, n + 1) : \A x \in s : s \ {x} \in Small(S, n)
  <2>1. SUFFICES ASSUME NEW s \in Small(S, n + 1), NEW x \in s
                 PROVE  s \ {x} \in Small(S, n)
    OBVIOUS
  <2>2. s \in SUBSET S /\ IsFiniteSet(s) /\ Cardinality(s) \in Nat /\ Cardinality(s) <= n + 1
    BY <1>1 DEF Small
  <2>3. Cardinality(s \ {x}) = Cardinality(s) - 1
    BY <2>2, FS_RemoveElement
  <2>4. QED
    BY <2>2, <2>3 DEF Small
<1>4. Small(S, n) \subseteq Small(S, n + 1)
  BY <1>1 DEF Small
<1>5. Small(S, Cardinality(S)) = SUBSET S
  BY <1>1 DEF Small
<1>6. QED
  BY <1>2, <1>3, <1>4, <1>5

LEMMA AdderExists ==
    ASSUME NEW S, IsFiniteSet(S), NEW f, \A x \in S : f[x] \in Int
    PROVE  \E g : AddsUp(g, f, SUBSET S)
<1> DEFINE M == {n \in Nat : \E g : AddsUp(g, f, Small(S, n))}
<1>1. 0 \in M
  <2>1. AddsUp([s \in {{}} |-> 0], f, {{}})
    BY DEF AddsUp
  <2>2. QED
    BY <2>1, SmallSets
<1>2. ASSUME NEW n \in M
      PROVE  n + 1 \in M
  <2>1. PICK g : AddsUp(g, f, Small(S, n))
    OBVIOUS
  <2> DEFINE h == [s \in Small(S, n + 1) |-> IF s = {} THEN 0 ELSE f[Pick(s)] + g[s \ {Pick(s)}]]
  <2>2. \A s \in Small(S, n + 1) : s # {} => Pick(s) \in s
    BY DEF Pick
  <2>3. \A s \in Small(S, n + 1) : \A x \in s : s \ {x} \in Small(S, n) /\ x \in S
    BY SmallSets DEF Small
  <2>4. h \in [Small(S, n + 1) -> Int]
    BY <2>1, <2>2, <2>3 DEF AddsUp
  <2>5. \A s \in Small(S, n) : h[s] = g[s]
    BY <2>1, <2>2, SmallSets DEF AddsUp
  <2>6. ASSUME NEW s \in Small(S, n + 1), NEW x \in s
        PROVE  h[s] = f[x] + h[s \ {x}]
    <3> DEFINE y == Pick(s)
    <3>1. y \in s /\ h[s] = f[y] + g[s \ {y}] /\ h[s \ {x}] = g[s \ {x}]
      BY <2>2, <2>3, <2>5
    <3>2. CASE x = y
      BY <3>1, <3>2
    <3>3. CASE x # y
      <4>1. g[s \ {y}] = f[x] + g[(s \ {y}) \ {x}] /\ g[s \ {x}] = f[y] + g[(s \ {x}) \ {y}]
        BY <2>1, <2>3, <3>1, <3>3 DEF AddsUp
      <4>2. (s \ {x}) \ {y} = (s \ {y}) \ {x}
        OBVIOUS
      <4>3. (s \ {y}) \ {x} \in Small(S, n)
        BY <2>3, <3>1, <3>3, SmallSets
      <4>4. PICK rest \in Int : rest = g[(s \ {y}) \ {x}]
        BY <2>1, <4>3 DEF AddsUp
      <4>5. f[x] \in Int /\ f[y] \in Int
        BY <2>3, <3>1
      <4>6. h[s] = f[y] + (f[x] + rest)
        BY <3>1, <4>1, <4>4
      <4>7. h[s \ {x}] = f[y] + rest
        BY <3>1, <4>1, <4>2, <4>4
      <4>8. QED
        BY <4>4, <4>5, <4>6, <4>7
    <3>4. QED
      BY <3>2, <3>3
  <2>7. AddsUp(h, f, Small(S, n + 1))
    BY <2>4, <2>6 DEF AddsUp
  <2>8. QED
    BY <2>7
<1>3. Cardinality(S) \in Nat /\ Small(S, Cardinality(S)) = SUBSET S
  BY FS_CardinalityType, SmallSets
<1>4. Cardinality(S) \in M
  <2> HIDE DEF M
  <2>1. QED
    BY <1>1, <1>2, <1>3, SetInduction
<1>5. QED
  BY <1>3, <1>4

\* Whatever satisfies the recursion on the subsets of T is a part of it.
LEMMA AdderUnique ==
    ASSUME NEW S, IsFiniteSet(S), NEW f, NEW g, AddsUp(g, f, SUBSET S),
           NEW T \in SUBSET S, NEW h, Adds(h, f, T)
    PROVE  h[T] = g[T]
<1> DEFINE M == {n \in Nat : \A s \in Small(T, n) : h[s] = g[s]}
<1>0. IsFiniteSet(T)
  BY FS_Subset
<1>1. 0 \in M
  BY <1>0, SmallSets DEF Adds, AddsUp
<1>2. ASSUME NEW n \in M
      PROVE  n + 1 \in M
  <2>1. SUFFICES ASSUME NEW s \in Small(T, n + 1)
                 PROVE  h[s] = g[s]
    OBVIOUS
  <2>2. s \in SUBSET T /\ s \in SUBSET S
    BY DEF Small
  <2>3. CASE s = {}
    BY <2>2, <2>3 DEF Adds, AddsUp
  <2>4. CASE s # {}
    <3>1. Pick(s) \in s
      BY <2>4 DEF Pick
    <3>2. h[s] = f[Pick(s)] + h[s \ {Pick(s)}]
      BY <2>2, <2>4 DEF Adds
    <3>3. h[s \ {Pick(s)}] = g[s \ {Pick(s)}]
      BY <1>0, <3>1, SmallSets
    <3>4. QED
      BY <2>2, <3>1, <3>2, <3>3 DEF AddsUp
  <2>5. QED
    BY <2>3, <2>4
<1>3. Cardinality(T) \in Nat /\ T \in Small(T, Cardinality(T))
  BY <1>0, FS_CardinalityType, SmallSets
<1>4. Cardinality(T) \in M
  <2> HIDE DEF M
  <2>1. QED
    BY <1>1, <1>2, <1>3, SetInduction
<1>5. QED
  BY <1>3, <1>4

LEMMA SumIsAdder ==
    ASSUME NEW S, IsFiniteSet(S), NEW f, NEW g, AddsUp(g, f, SUBSET S), NEW T \in SUBSET S
    PROVE  SumFunctionOnSet(f, T) = g[T]
<1> DEFINE h == [s \in SUBSET T |-> g[s]]
<1>1. Adds(h, f, T)
  <2>1. ASSUME NEW s \in SUBSET T
        PROVE  h[s] = IF s = {} THEN 0 ELSE f[Pick(s)] + h[s \ {Pick(s)}]
    <3>1. CASE s = {}
      BY <3>1 DEF AddsUp
    <3>2. CASE s # {}
      <4>1. Pick(s) \in s
        BY <3>2 DEF Pick
      <4>2. QED
        BY <3>2, <4>1 DEF AddsUp
    <3>3. QED
      BY <3>1, <3>2
  <2>2. QED
    BY <2>1 DEF Adds
<1>2. Adds(CHOOSE k : Adds(k, f, T), f, T)
  BY <1>1
<1>3. QED
  BY <1>2, AdderUnique, SumIsChosen

\* What a sum is: zero of nothing, and one more with every element.
LEMMA SumFacts ==
    ASSUME NEW S, IsFiniteSet(S), NEW f, \A x \in S : f[x] \in Int
    PROVE  /\ SumFunctionOnSet(f, {}) = 0
           /\ SumFunctionOnSet(f, S) \in Int
           /\ \A x \in S : SumFunctionOnSet(f, S) = f[x] + SumFunctionOnSet(f, S \ {x})
<1>1. PICK g : AddsUp(g, f, SUBSET S)
  BY AdderExists
<1>2. \A T \in SUBSET S : SumFunctionOnSet(f, T) = g[T]
  BY <1>1, SumIsAdder
<1>3. QED
  BY <1>1, <1>2 DEF AddsUp

\* One element more.
LEMMA SumAdd ==
    ASSUME NEW S, IsFiniteSet(S), NEW f, NEW x, x \notin S, f[x] \in Int, \A y \in S : f[y] \in Int
    PROVE  /\ IsFiniteSet(S \cup {x})
           /\ SumFunctionOnSet(f, S) \in Int
           /\ SumFunctionOnSet(f, S \cup {x}) = f[x] + SumFunctionOnSet(f, S)
<1>1. IsFiniteSet(S \cup {x}) /\ (S \cup {x}) \ {x} = S
  BY FS_AddElement
<1>2. \A y \in S \cup {x} : f[y] \in Int
  OBVIOUS
<1>3. QED
  BY <1>1, <1>2, SumFacts

-----------------------------------------------------------------------------
(* The stock of a terminal.                                                *)

\* A terminal records and applies finitely many changes, and its stock is their sum.
StockInv ==
    /\ IsFiniteSet(recorded) /\ \A t \in Terminal : IsFiniteSet(marked[t])
    /\ StockCountsEchoes

Own(t) == {c \in recorded : Source[c] = t}

LEMMA DeltaIsInt ==
    ASSUME NEW b \in Branch
    PROVE  \A c \in Change : MovesOf(b)[c] = Delta(c, b) /\ Delta(c, b) \in Int
  BY ConstantsAssumption DEF MovesOf, Delta

\* One change more in a set moves the sum as Moved moves the stock.
LEMMA MovedSum ==
    ASSUME NEW q \in [Branch -> Nat], NEW c \in Change, NEW b \in Branch,
           NEW S \in SUBSET Change, IsFiniteSet(S), c \notin S
    PROVE  /\ Moved(q, c)[b] = q[b] + Delta(c, b)
           /\ SumFunctionOnSet(MovesOf(b), S) \in Int
           /\ SumFunctionOnSet(MovesOf(b), S \cup {c})
                = SumFunctionOnSet(MovesOf(b), S) + Delta(c, b)
<1>1. \A e \in S \cup {c} : MovesOf(b)[e] \in Int
  BY DeltaIsInt
<1>2. SumFunctionOnSet(MovesOf(b), S) \in Int
  BY <1>1, SumFacts
<1>3. SumFunctionOnSet(MovesOf(b), S \cup {c}) = MovesOf(b)[c] + SumFunctionOnSet(MovesOf(b), S)
  BY <1>1, SumAdd
<1>4. MovesOf(b)[c] = Delta(c, b) /\ Delta(c, b) \in Int
  BY DeltaIsInt
<1>5. SumFunctionOnSet(MovesOf(b), S \cup {c}) = SumFunctionOnSet(MovesOf(b), S) + Delta(c, b)
  BY <1>2, <1>3, <1>4
<1>6. QED
  BY <1>2, <1>5 DEF Moved

LEMMA InitStock == Init => StockInv
<1> SUFFICES ASSUME Init PROVE StockInv
  OBVIOUS
<1>1. IsFiniteSet({})
  BY FS_EmptySet
<1>2. ASSUME NEW b \in Branch
      PROVE  SumFunctionOnSet(MovesOf(b), {}) = 0
  BY <1>1, SumFacts
<1>3. \A t \in Terminal : Own(t) = {} /\ marked[t] = {}
  BY DEF Init, Own
<1>4. QED
  BY <1>1, <1>2, <1>3 DEF Init, StockInv, StockCountsEchoes, Own

LEMMA RecordKeepsSum ==
    ASSUME IInv, StockInv, NEW c \in Change, RecordLocally(c)
    PROVE  StockInv'
<1>1. /\ c \notin recorded /\ Source[c] \in Terminal /\ recorded' = recorded \cup {c} /\ marked' = marked
      /\ stock' = [stock EXCEPT ![Source[c]] = Moved(@, c)]
  BY DEF RecordLocally
<1>2. stock \in [Terminal -> [Branch -> Nat]] /\ recorded \in SUBSET Change /\ IsFiniteSet(recorded)
  BY DEF IInv, TypeOK, StockInv
<1>3. IsFiniteSet(recorded')
  BY <1>1, <1>2, FS_AddElement
<1>4. ASSUME NEW t \in Terminal, NEW b \in Branch
      PROVE  stock'[t][b] = SumFunctionOnSet(MovesOf(b), Own(t)') + SumFunctionOnSet(MovesOf(b), marked'[t])
  <2>1. stock[t][b] = SumFunctionOnSet(MovesOf(b), Own(t)) + SumFunctionOnSet(MovesOf(b), marked[t])
    BY DEF StockInv, StockCountsEchoes, Own
  <2>2. CASE t # Source[c]
    <3>1. Own(t)' = Own(t) /\ stock'[t] = stock[t]
      BY <1>1, <1>2, <2>2 DEF Own
    <3>2. QED
      BY <1>1, <2>1, <3>1
  <2>3. CASE t = Source[c]
    <3>1. Own(t)' = Own(t) \cup {c} /\ stock'[t] = Moved(stock[t], c)
      BY <1>1, <1>2, <2>3 DEF Own
    <3>2. Own(t) \in SUBSET Change /\ IsFiniteSet(Own(t)) /\ c \notin Own(t)
      BY <1>1, <1>2, FS_Subset DEF Own
    <3>3. marked[t] \in SUBSET Change /\ IsFiniteSet(marked[t])
      BY DEF IInv, TypeOK, StockInv
    <3>4. PICK m \in Int : m = SumFunctionOnSet(MovesOf(b), marked[t])
      <4>1. \A e \in marked[t] : MovesOf(b)[e] \in Int
        BY <3>3, DeltaIsInt
      <4>2. QED
        BY <3>3, <4>1, SumFacts
    <3>5. PICK o \in Int : /\ o = SumFunctionOnSet(MovesOf(b), Own(t))
                           /\ SumFunctionOnSet(MovesOf(b), Own(t) \cup {c}) = o + Delta(c, b)
      BY <1>2, <3>2, MovedSum
    <3>6. stock'[t][b] = stock[t][b] + Delta(c, b)
      BY <1>2, <3>1 DEF Moved
    <3>7. PICK d \in Int : d = Delta(c, b)
      BY DeltaIsInt
    <3>8. QED
      BY <1>1, <2>1, <3>1, <3>4, <3>5, <3>6, <3>7
  <2>4. QED
    BY <2>2, <2>3
<1>5. StockCountsEchoes'
  BY <1>4 DEF StockCountsEchoes, Own
<1>6. QED
  BY <1>1, <1>3, <1>5 DEF StockInv

LEMMA ApplyKeepsSum ==
    ASSUME IInv, StockInv, NEW p \in Puller, ApplyChange(p)
    PROVE  StockInv'
<1> DEFINE t0 == TerminalOf[p]
<1>1. PICK s \in page[p] :
         /\ IF NeedsMovement(t0, rowOf[s])
            THEN /\ stock' = [stock EXCEPT ![t0] = Moved(@, rowOf[s])]
                 /\ marked' = [marked EXCEPT ![t0] = @ \cup {rowOf[s]}]
            ELSE UNCHANGED <<stock, marked>>
         /\ recorded' = recorded
  BY DEF ApplyChange
<1>2. rowOf[s] \in Change /\ t0 \in Terminal
  BY PageRow
<1>3. PICK c \in Change : c = rowOf[s]
  BY <1>2
<1>4. stock \in [Terminal -> [Branch -> Nat]] /\ marked \in [Terminal -> SUBSET Change]
  BY DEF IInv, TypeOK
<1>5. CASE ~NeedsMovement(t0, c)
  BY <1>1, <1>3, <1>5 DEF StockInv, StockCountsEchoes
<1>6. CASE NeedsMovement(t0, c)
  <2>1. /\ stock' = [stock EXCEPT ![t0] = Moved(@, c)]
        /\ marked' = [marked EXCEPT ![t0] = @ \cup {c}]
        /\ c \notin marked[t0]
    BY <1>1, <1>3, <1>6 DEF NeedsMovement
  <2> HIDE DEF t0
  <2>2. \A t \in Terminal : IsFiniteSet(marked'[t])
    <3>1. ASSUME NEW t \in Terminal
          PROVE  IsFiniteSet(marked'[t])
      <4>1. IsFiniteSet(marked[t])
        BY DEF StockInv
      <4>2. marked'[t] = marked[t] \/ marked'[t] = marked[t] \cup {c}
        BY <1>4, <2>1
      <4>3. QED
        BY <4>1, <4>2, FS_AddElement
    <3>2. QED
      BY <3>1
  <2>3. ASSUME NEW t \in Terminal, NEW b \in Branch
        PROVE  stock'[t][b] = SumFunctionOnSet(MovesOf(b), Own(t)) + SumFunctionOnSet(MovesOf(b), marked'[t])
    <3>1. stock[t][b] = SumFunctionOnSet(MovesOf(b), Own(t)) + SumFunctionOnSet(MovesOf(b), marked[t])
      BY DEF StockInv, StockCountsEchoes, Own
    <3>2. CASE t # t0
      <4>1. stock'[t] = stock[t] /\ marked'[t] = marked[t]
        BY <1>4, <2>1, <3>2
      <4>2. QED
        BY <3>1, <4>1
    <3>3. CASE t = t0
      <4>1. stock'[t] = Moved(stock[t], c) /\ marked'[t] = marked[t] \cup {c}
        BY <1>2, <1>4, <2>1, <3>3
      <4>2. marked[t] \in SUBSET Change /\ IsFiniteSet(marked[t]) /\ c \notin marked[t]
        BY <1>4, <2>1, <3>3 DEF StockInv
      <4>3. Own(t) \in SUBSET Change /\ IsFiniteSet(Own(t))
        BY FS_Subset DEF IInv, TypeOK, StockInv, Own
      <4>4. PICK o \in Int : o = SumFunctionOnSet(MovesOf(b), Own(t))
        <5>1. \A e \in Own(t) : MovesOf(b)[e] \in Int
          BY <4>3, DeltaIsInt
        <5>2. QED
          BY <4>3, <5>1, SumFacts
      <4>5. PICK m \in Int : /\ m = SumFunctionOnSet(MovesOf(b), marked[t])
                             /\ SumFunctionOnSet(MovesOf(b), marked[t] \cup {c}) = m + Delta(c, b)
        BY <1>4, <4>2, MovedSum
      <4>6. stock'[t][b] = stock[t][b] + Delta(c, b)
        BY <1>4, <4>1 DEF Moved
      <4>7. PICK d \in Int : d = Delta(c, b)
        BY DeltaIsInt
      <4>8. QED
        BY <3>1, <4>1, <4>4, <4>5, <4>6, <4>7
    <3>4. QED
      BY <3>2, <3>3
  <2>4. Own(t0)' = Own(t0) /\ \A t \in Terminal : Own(t)' = Own(t)
    BY <1>1 DEF Own
  <2>5. StockCountsEchoes'
    BY <2>3, <2>4 DEF StockCountsEchoes, Own
  <2>6. QED
    BY <1>1, <2>2, <2>5 DEF StockInv
<1>7. QED
  BY <1>5, <1>6

LEMMA StockStep == IInv /\ StockInv /\ [Next]_vars => StockInv'
<1> SUFFICES ASSUME IInv, StockInv, [Next]_vars PROVE StockInv'
  OBVIOUS
<1>1. CASE UNCHANGED local
  BY <1>1 DEF local, StockInv, StockCountsEchoes
<1>2. ASSUME NEW c \in Change, AppendRow(c) PROVE StockInv'
  BY <1>1, <1>2 DEF AppendRow
<1>3. ASSUME NEW s \in Row, CommitRow(s) \/ AbortRow(s) PROVE StockInv'
  BY <1>1, <1>3 DEF CommitRow, AbortRow, EndTransaction
<1>4. ASSUME NEW t \in Terminal, Login(t) \/ Logout(t) \/ Crash(t) PROVE StockInv'
  BY <1>1, <1>4 DEF Login, Logout, Crash
<1>5. ASSUME NEW p \in Puller,
             \/ StartPull(p) \/ Fetch(p) \/ FetchFails(p) \/ ApplyFails(p)
             \/ SkipChange(p) \/ SkipChangeUnsaved(p) \/ FinishPage(p)
      PROVE  StockInv'
  BY <1>1, <1>5 DEF StartPull, Fetch, FetchFails, ApplyFails, SkipChange, SkipChangeUnsaved, FinishPage
<1>6. CASE UNCHANGED vars
  BY <1>1, <1>6 DEF vars
<1> QED
  BY RecordKeepsSum, ApplyKeepsSum, <1>2, <1>3, <1>4, <1>5, <1>6 DEF Next, PullerNext

\* What a terminal has in stock is what it recorded itself and what it applied once each,
\* whatever rows are repeated, pages are fetched again and processes end.
THEOREM StockIsWhatMoved == Spec => []StockCountsEchoes
<1>1. IInv /\ StockInv /\ [Next]_vars => StockInv'
  BY StockStep
<1>2. StockInv => StockCountsEchoes
  BY DEF StockInv
<1> QED  BY InitStock, InductiveInvariant, <1>1, <1>2, PTL DEF Spec
=============================================================================
