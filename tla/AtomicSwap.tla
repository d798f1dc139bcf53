------------------------------ MODULE AtomicSwap ------------------------------
(***************************************************************************)
(* What one TEST-DEPIX -> Lightning swap promises, without processes,      *)
(* files, transactions or databases: an asset is locked once, a payment is *)
(* held against it, and either the preimage is revealed, the maker's       *)
(* inventory booked and the asset claimed, or the hold is dropped and the  *)
(* asset returned.  SwapRunner implements it.                              *)
(***************************************************************************)

VARIABLES
    asset,      \* FREE, LOCKED, then CLAIMED or RETURNED
    hold,       \* NONE, HELD, then REVEALED, or DROPPED
    inventory   \* HELD, then CONSUMED or RELEASED

vars == <<asset, hold, inventory>>

Init == asset = "FREE" /\ hold = "NONE" /\ inventory = "HELD"

LockAsset ==
    /\ asset = "FREE" /\ asset' = "LOCKED"
    /\ UNCHANGED <<hold, inventory>>

HoldPayment ==
    /\ asset = "LOCKED" /\ hold = "NONE" /\ hold' = "HELD"
    /\ UNCHANGED <<asset, inventory>>

RevealPreimage ==
    /\ asset = "LOCKED" /\ hold = "HELD" /\ hold' = "REVEALED"
    /\ UNCHANGED <<asset, inventory>>

DropHold ==
    /\ hold \in {"NONE", "HELD"} /\ hold' = "DROPPED"
    /\ UNCHANGED <<asset, inventory>>

ConsumeInventory ==
    /\ hold = "REVEALED" /\ inventory = "HELD" /\ inventory' = "CONSUMED"
    /\ UNCHANGED <<asset, hold>>

ReleaseInventory ==
    /\ inventory = "HELD" /\ inventory' = "RELEASED"
    /\ UNCHANGED <<asset, hold>>

ClaimAsset ==
    /\ asset = "LOCKED" /\ hold = "REVEALED" /\ inventory = "CONSUMED"
    /\ asset' = "CLAIMED"
    /\ UNCHANGED <<hold, inventory>>

ReturnAsset ==
    /\ asset = "LOCKED" /\ hold = "DROPPED" /\ inventory # "CONSUMED"
    /\ asset' = "RETURNED"
    /\ UNCHANGED <<hold, inventory>>

Next ==
    \/ LockAsset \/ HoldPayment \/ RevealPreimage \/ DropHold
    \/ ConsumeInventory \/ ReleaseInventory \/ ClaimAsset \/ ReturnAsset

Spec == Init /\ [][Next]_vars
===============================================================================
