------------------------------- MODULE MCPrepare -------------------------------
(* A small instance of Prepare: two commands at a time, with arguments that *)
(* are good, of another amount with a chain fee above the limit of the      *)
(* intent, without a margin between the deadlines, or of nothing to swap.   *)
EXTENDS Prepare

CONSTANTS p1, p2, h1, h2, h3, k1, k2

Args(amount, delta, fee) ==
    [amount_in |-> amount, amount_out |-> amount, fee_sats |-> fee, fee_limit_lbtc |-> 1,
     source_refund_delta |-> delta, lightning_max_cltv |-> 2, margin_seconds |-> 2]

MCArguments == {Args(2, 7, 1), Args(3, 7, 2), Args(2, 6, 1), Args(0, 7, 1)}

MCBolt11 ==
    [t \in {PaymentRequest(h, n) : h \in Hashes, n \in {2, 3}} |->
        [network |-> "Regtest", amount_msat |-> t[3] * 1000, hash |-> t[2]]]
===============================================================================
