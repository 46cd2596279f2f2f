-------------------------- MODULE MCMobileDevice --------------------------
(* The instance of MobileDevice for TLC: at one branch, whose only voucher *)
(* has letters, two used phones whose vouchers the backend numbers and one *)
(* that brings a number they may get; at another branch a new phone with   *)
(* the IMEIs of another device.                                            *)
EXTENDS MobileDevice, TLC

CONSTANTS old, first, second, own, fresh, check, stock, retire, enrol,
          b1, b2, x, y, z, w, legacy, dealer, ali

KindsHere == [r \in Request |->
    CASE r \in {first, second} -> "auto" [] r \in {old, own} -> "explicit" [] r = fresh -> "new"
      [] r = retire -> "update" [] r = enrol -> "create" [] OTHER -> "patch"]
BranchesHere == [r \in Request |-> IF r = fresh THEN b2 ELSE b1]
Imeis == [r \in Device |->
    CASE r = old -> <<w>> [] r = first -> <<x>> [] r = second -> <<z>>
      [] r = own -> <<x, y>> [] r = fresh -> <<y, x>>]
Brought == [r \in Request |-> CASE r = old -> legacy [] r = own -> 1 [] OTHER -> None]
Sellers == [r \in Request |->
    CASE r \in {first, retire} -> dealer [] r = enrol -> ali [] OTHER -> None]
Cnics == [s \in Seller |-> None]
Retired == [r \in Request |-> FALSE]
Devices == [r \in Request |-> IF Kind[r] = "patch" THEN old ELSE None]
Wanted == [r \in Request |-> "INSPECTION"]
=============================================================================
