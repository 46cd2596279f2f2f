--------------------------- MODULE MCSaleCheckout ---------------------------
(* Instances of SaleCheckout for TLC.                                      *)
EXTENDS SaleCheckout, TLC

CONSTANTS first, retry, again, edited, other, walkin, cart1, ali,
          cashier, manager, clerk, main, back

\* first, retry and again are one checkout; edited reuses its key for another
\* cart, on credit; other and walkin have no key, other is on credit.
AllKeys == first :> cart1 @@ retry :> cart1 @@ again :> cart1 @@
           edited :> cart1 @@ other :> None @@ walkin :> None
AllPayloads == first :> "a" @@ retry :> "a" @@ again :> "a" @@
               edited :> "b" @@ other :> "c" @@ walkin :> "d"
AllQuantities == first :> <<1, 1>> @@ retry :> <<1, 1>> @@ again :> <<1, 1>> @@
                 edited :> <<0, 2>> @@ other :> <<1, 0>> @@ walkin :> <<1, 1>>
AllCredits == first :> 0 @@ retry :> 0 @@ again :> 0 @@
              edited :> 3 @@ other :> 3 @@ walkin :> 0
AllCustomers == first :> None @@ retry :> None @@ again :> None @@
                edited :> ali @@ other :> ali @@ walkin :> None
AllCounters == first :> cashier @@ retry :> cashier @@ again :> cashier @@
               edited :> manager @@ other :> cashier @@ walkin :> clerk

Keys == [r \in Request |-> AllKeys[r]]
Payloads == [r \in Request |-> AllPayloads[r]]
Quantities == [r \in Request |-> AllQuantities[r]]
Credits == [r \in Request |-> AllCredits[r]]
Customers == [r \in Request |-> AllCustomers[r]]
Counters == [r \in Request |-> AllCounters[r]]
TwoOfEach == [p \in Product |-> 2]
LimitOfFive == [c \in Customer |-> 5]

\* The ids of cashier and clerk end in the same byte.
Prefixes == [c \in Counter |-> IF c = manager THEN back ELSE main]
=============================================================================
