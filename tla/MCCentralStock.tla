--------------------------- MODULE MCCentralStock ---------------------------
(* An instance of CentralStock for TLC: the requests that a day at two     *)
(* branches brings, in mixes that may meet each other.                     *)
EXTENDS CentralStock, TLC

CONSTANTS send, resend, other, single, ship, more, bring, mend,
          restock, top, open, fix, less, x1

AllKinds == send :> "transfer" @@ resend :> "transfer" @@ other :> "transfer" @@
            single :> "transfer" @@ ship :> "push" @@ more :> "increase" @@ bring :> "set" @@
            mend :> "correct" @@ restock :> "receive" @@ top :> "receive" @@
            open :> "opening" @@ fix :> "adjust" @@ less :> "remove"
AllSenders == send :> 1 @@ resend :> 1 @@ other :> 2 @@ single :> 1 @@ ship :> 1 @@ less :> 1
AllReceivers == send :> 2 @@ resend :> 2 @@ other :> 1 @@ single :> 2 @@ ship :> 2 @@
                more :> 1 @@ bring :> 1 @@ mend :> 1 @@ restock :> 1 @@ top :> 2 @@
                open :> 2 @@ fix :> 1
AllAmounts == send :> <<1, 1>> @@ resend :> <<1, 1>> @@ other :> <<1, 0>> @@
              single :> <<0, 1>> @@ ship :> <<0, 1>> @@ more :> <<0, 2>> @@ bring :> <<0, 2>> @@
              mend :> <<0, 3>> @@ restock :> <<0, 1>> @@ top :> <<0, 2>> @@
              open :> <<1, 1>> @@ fix :> <<0, 0>> @@ less :> <<0, 2>>

KindsHere == [r \in Request |-> AllKinds[r]]
Senders == [r \in Request |-> IF r \in DOMAIN AllSenders THEN AllSenders[r] ELSE None]
Receivers == [r \in Request |-> IF r \in DOMAIN AllReceivers THEN AllReceivers[r] ELSE None]
Amounts == [r \in Request |-> AllAmounts[r]]
\* The adjustment is one to nothing.
About == [r \in Request |-> IF r = fix THEN {2} ELSE {p \in Product : Amounts[r][p] > 0}]
Costs == [r \in Request |-> IF r = restock THEN 7 ELSE IF r = top THEN 4 ELSE 0]
Routes == [r \in Request |-> IF r = single THEN "stock_transfers" ELSE "stock_transfer_batches"]
\* One id is used for everything, on both routes.
TransferIds == [r \in Request |-> IF AllKinds[r] = "transfer" THEN x1 ELSE None]

\* Copies of a transfer, an id used twice; receipts and what moves their stock; an
\* import that inserts what others insert; relative and absolute quantities.
Mixes == {{send, resend, other, fix}, {send, resend, single, open},
          {top, restock, ship, send}, {top, restock, open, more},
          {less, more, bring, ship}, {fix, mend, open, ship}}

\* The second product has never been delivered to the second branch.
NotToSecond == {<<1, 1>>, <<2, 1>>, <<1, 2>>}
OneOfEach == [row \in Row |-> IF row \in InitialRows THEN 1 ELSE 0]
TenEach == [p \in Product |-> 10]
=============================================================================
