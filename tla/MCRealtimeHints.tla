-------------------------- MODULE MCRealtimeHints --------------------------
(* An instance of RealtimeHints for TLC: a sale, which hints in its        *)
(* transaction and which the catch-up of a tab covers, and a brand, which  *)
(* hints afterwards and which it does not cover.                           *)
EXTENDS RealtimeHints, TLC

CONSTANTS sale, brand

Hints  == sale :> "inside" @@ brand :> "after"
Topics == sale :> "products" @@ brand :> "brands"
=============================================================================
