------------------------------ MODULE MCWallets ------------------------------
(* Calls for one account. *)
EXTENDS WalletProvisioning

CONSTANT e1

MCAccountOf == [v \in Provisions |-> e1]
=============================================================================
