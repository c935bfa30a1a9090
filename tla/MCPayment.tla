----------------------------- MODULE MCPayment -----------------------------
(* Small instances of Payment for TLC. *)
EXTENDS Payment, TLC

CONSTANTS h1, h2

TwoHandlers == {h1, h2}

GatewayOrWallet == {"gateway", "wallet"}

Symmetric == Permutations(TwoHandlers)
============================================================================
