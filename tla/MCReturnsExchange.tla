------------------------- MODULE MCReturnsExchange -------------------------
(* An instance of ReturnsExchange for TLC: returns of a sale to a customer  *)
(* with an account (first), who also pays, an exchange of a walk-in's sale  *)
(* (second) that comes twice, and once more with another cart under its     *)
(* key, and a new sale to another customer.                                 *)
EXTENDS ReturnsExchange, TLC

CONSTANTS give, again, swap, retry, reswap, buy, pay, first, second, l1, l2, l3, c1, c2, k1

KindsHere == [r \in Request |->
    CASE r \in {give, again} -> "return" [] r \in {swap, retry, reswap} -> "exchange"
      [] r = buy -> "sale" [] r = pay -> "payment"]
SalesHere == [r \in Request |->
    CASE r \in {give, again} -> first [] r \in {swap, retry, reswap} -> second [] OTHER -> None]

LineSales == l1 :> first @@ l2 :> first @@ l3 :> second
LineProducts == l1 :> 1 @@ l2 :> 2 @@ l3 :> 2
LineQtys == l1 :> 1 @@ l2 :> 1 @@ l3 :> 2

Back(l, n) == [line |-> l, qty |-> n]
Out(p, n) == [product |-> p, qty |-> n]
LinesHere == [r \in Request |->
    CASE r = give -> <<Back(l1, 1), Back(l2, 1)>> [] r = again -> <<Back(l1, 1)>>
      [] r \in {swap, retry, reswap} -> <<Back(l3, 1)>> [] OTHER -> <<>>]
WantedHere == [r \in Request |->
    CASE r \in {swap, retry, reswap} -> <<Out(1, 1)>> [] r = buy -> <<Out(2, 1), Out(1, 1)>>
      [] OTHER -> <<>>]
CustomersHere == [r \in Request |-> 
    CASE r \in {give, again, pay} -> c1 [] r = buy -> c2 [] OTHER -> None]
Entries == [r \in Request |->
    CASE r = give -> -5 [] r = buy -> 7 [] r = pay -> -3 [] OTHER -> 0]
CashHere == [r \in Request |-> r \in {again, swap, reswap}]
Keys == [r \in Request |-> IF r \in {swap, retry, reswap} THEN k1 ELSE None]
Different == [r \in Request |-> IF r = reswap THEN 1 ELSE 0]
OneEach == [p \in Product |-> 1]
=============================================================================
