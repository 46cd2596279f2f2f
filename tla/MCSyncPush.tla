----------------------------- MODULE MCSyncPush -----------------------------
(* An instance of SyncPush for TLC: one terminal with either a stock        *)
(* operation (op) that two requests may carry at once, among crashes, 401   *)
(* answers and a manual retry, or events of other kinds that share batches  *)
(* of two, of which one has to wait behind the window of the outbox query.  *)
EXTENDS SyncPush, TLC

CONSTANTS t1, op, product, odd, odd2, r1, r2

OneOwner == [e \in Event |-> t1]
KindsHere == [e \in Event |->
    CASE e = op -> "INVENTORY" [] e = product -> "PRODUCT" [] OTHER -> "UNSUPPORTED"]

Mixes == {{op, r1, r2} \cup Disturbances, {product, odd, odd2, r1}}
=============================================================================
