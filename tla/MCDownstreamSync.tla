-------------------------- MODULE MCDownstreamSync --------------------------
(* Instances of DownstreamSync for TLC.                                    *)
EXTENDS DownstreamSync, TLC

CONSTANTS t1, t2, timer, manual, shop, store, in, xfer, edit

\* A delivery of two, a transfer, and an operation of the web whose payload
\* the applier cannot read.
AllClasses == in :> "STOCK" @@ xfer :> "STOCK" @@ edit :> "UNREADABLE"
AllSenders == in :> None @@ xfer :> shop @@ edit :> None
AllReceivers == in :> shop @@ xfer :> store @@ edit :> None
AllAmounts == in :> 2 @@ xfer :> 1 @@ edit :> 1

Classifies == [c \in Change |-> AllClasses[c]]
Sends == [c \in Change |-> AllSenders[c]]
Receives == [c \in Change |-> AllReceivers[c]]
Amounts == [c \in Change |-> AllAmounts[c]]

\* One terminal records deliveries; a timer and its user pull for it.
FollowPullers == timer :> t1 @@ manual :> t1
FollowSource == [c \in Change |-> IF c = edit THEN Web ELSE t1]

\* Two terminals that record operations; one of them pulls.
OnePuller == timer :> t1
PeerSource == [c \in Change |-> IF c = edit THEN Web ELSE IF c = xfer THEN t1 ELSE t2]
=============================================================================
