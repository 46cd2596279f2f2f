---------------------------- MODULE MCCashDrawer ----------------------------
(* Instances of CashDrawer for TLC.                                        *)
EXTENDS CashDrawer, TLC

CONSTANTS o1, o2, c1, c2, sale, manual, rent

AllKinds == sale :> "sale" @@ manual :> "return" @@ rent :> "expense"
AllAmounts == sale :> 5 @@ manual :> 3 @@ rent :> -1

PostingKinds == [p \in Posting |-> AllKinds[p]]
PostingAmounts == [p \in Posting |-> AllAmounts[p]]
=============================================================================
