------------------------- MODULE PlacementContract -------------------------
(***************************************************************************)
(* Checkouts placed one at a time: there is no key to lock, no transaction *)
(* and nothing is looked at before it is used.  A checkout is placed in    *)
(* one step if the items, the stock and the wallet money are there at that *)
(* moment and no checkout with its key exists.                             *)
(*                                                                         *)
(* Placement, where requests overlap, work on snapshots, retry and lose    *)
(* their locks, is shown to implement it.                                  *)
(***************************************************************************)
EXTENDS Integers

CONSTANTS
    Stock,          \* of the product
    Balance         \* of the customer's wallet

VARIABLES
    keyed,          \* the customer asks with an idempotency key
    source,         \* "CART" or "DIRECT_ITEMS"
    walletAmount,   \* to be paid from the wallet
    groups,         \* checkouts there are
    placed,         \* checkouts placed so far
    rival,          \* pieces bought by other customers
    stock,
    walletBalance,
    cart            \* the cart holds the items

client == <<keyed, source, walletAmount>>

serialVars == <<client, groups, placed, rival, stock, walletBalance, cart>>

SerialInit ==
    /\ keyed \in BOOLEAN
    /\ source \in {"CART", "DIRECT_ITEMS"}
    /\ walletAmount \in {0, 1}
    /\ groups = 0 /\ placed = 0 /\ rival = 0
    /\ stock = Stock
    /\ walletBalance = Balance
    /\ cart = TRUE

PlaceCheckout ==
    /\ keyed => groups = 0
    /\ source = "CART" => cart
    /\ stock > 0
    /\ walletBalance >= walletAmount
    /\ groups' = groups + 1
    /\ placed' = placed + 1
    /\ stock' = stock - 1
    /\ walletBalance' = walletBalance - walletAmount
    /\ cart' = FALSE
    /\ UNCHANGED <<client, rival>>

SellToRival ==
    /\ stock > 0
    /\ stock' = stock - 1
    /\ rival' = rival + 1
    /\ UNCHANGED <<client, groups, placed, walletBalance, cart>>

(* A key is remembered for a day, and its checkout with it. *)
ForgetKey ==
    /\ keyed
    /\ groups' = 0
    /\ UNCHANGED <<client, placed, rival, stock, walletBalance, cart>>

SerialNext == PlaceCheckout \/ SellToRival \/ ForgetKey

SerialSpec == SerialInit /\ [][SerialNext]_serialVars
============================================================================
