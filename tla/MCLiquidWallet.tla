---------------------------- MODULE MCLiquidWallet ----------------------------
(* A small instance of LiquidWallet: two sessions, of which one uses up its *)
(* payment coin and the other leaves change.                                *)
EXTENDS LiquidWallet

CONSTANTS sa, sb

MCAmount == [s \in Sessions |-> IF s = sa THEN 2 ELSE 1]
MCFee == [s \in Sessions |-> 1]
MCLock == [s \in Sessions |-> IF s = sa THEN 5 ELSE 6]
===============================================================================
