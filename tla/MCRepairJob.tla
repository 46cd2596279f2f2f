---------------------------- MODULE MCRepairJob ----------------------------
(* An instance of RepairJob for TLC: a walk-in's job (tv) and a customer's  *)
(* job (radio) at one branch, which take their parts from the same stock,   *)
(* and a job that is booked at another branch (phone).                      *)
EXTENDS RepairJob, TLC

CONSTANTS book, fix, fit, take, untake, pay, finish, refinish, hand, reopen, tv, radio, phone,
          b1, b2, s1, byId, byNumber

Kinds1 == [r \in Request |->
    CASE r = book -> "book" [] r \in {fit, fix} -> "part" [] r \in {take, untake} -> "unpart"
      [] r = pay -> "pay" [] r = reopen -> "status" [] OTHER -> "finish"]
Jobs == [r \in Request |-> CASE r = fix -> radio [] r \in {book, hand} -> phone [] OTHER -> tv]
Branches == tv :> b1 @@ radio :> b1 @@ phone :> b2
Labours == [j \in Job |-> 1]
Names == [r \in Request |->
    CASE r = finish -> byId [] r = refinish -> byNumber [] r \in {book, hand} -> JobOf[r] [] OTHER -> None]
PartsOf == [r \in Request |-> IF r \in {take, untake} THEN fit ELSE None]
Rows == [r \in Request |-> IF r \in {fix, fit, take, untake} THEN s1 ELSE None]
One == [r \in Request |-> 1]
Amounts == [r \in Request |-> CASE r = pay -> 2 [] r = refinish -> 1 [] OTHER -> 0]
InCash == [r \in Request |-> r = refinish]
Extras == [r \in Request |-> None]
StockOf == [s \in StockRow |-> 1]

\* Parts of one stock row; a delivery by two names among payments and changes of
\* status; two branches.
Mixes == {{fix, fit, take, untake}, {fit, take, pay, finish, refinish, reopen},
          {book, hand, fix, fit, finish, reopen}}
Pair == {{book, hand, pay, finish}}
=============================================================================
