-------------------------- MODULE MCAlertDelivery --------------------------
(* Values for the constants of AlertDelivery: runs that cannot be told      *)
(* apart may be permuted; every alert has a kind of its own.                *)
EXTENDS AlertDelivery, TLC

RunSymmetry == Permutations(Runs)
=============================================================================
