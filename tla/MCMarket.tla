------------------------------- MODULE MCMarket -------------------------------
(* A small instance of Market: two makers and one session.                  *)
EXTENDS Market, FiniteSetsExt

CONSTANTS ma, mb, sf, Fixture, H

Rate(numerator, denominator) == [numerator |-> numerator, denominator |-> denominator]

Config(fee, rate, assetId, amount) ==
    [fee |-> fee, rate |-> rate, asset |-> assetId, amount |-> amount]

\* The second maker may come back with a higher fee and other inventory.
MCConfigs ==
    [m \in Makers |-> IF m = ma THEN {Config(2, Rate(1, 1), "BTC", 3)}
                      ELSE {Config(1, Rate(1, 1), "BTC", 2),
                            Config(3, Rate(1, 1), "BTC", 5)}]

MCPeers == <<ma, mb>>

Depix == Endpoint("TEST-DEPIX", "LiquidRegtest", Fixture)
Lightning == Endpoint("BTC", "LightningRegtest", None)

Context ==
    [source_height |-> 1, destination_height |-> 1, source_refund_height |-> 9,
     destination_refund_height |-> 3, lightning_expiry_height |-> 3,
     source_refund_at |-> 9, destination_refund_at |-> 6, lightning_expiry_at |-> 6,
     margin_seconds |-> 2]

ForwardIntent(session, hash, text, expires) ==
    [version |-> 1, intent_id |-> session, source |-> Depix, destination |-> Lightning,
     amount_in |-> 2, min_amount_out |-> 2, fee_limit_lbtc |-> 3, hash_commitment |-> hash,
     client_claim_pubkey |-> session, client_refund_pubkey |-> session,
     source_destination |-> session, destination_destination |-> text,
     refund_destination |-> session, deadline_context |-> Context, created_at |-> 0,
     expires_at |-> expires, nonce |-> session]

MCIntent == [s \in Sessions |-> ForwardIntent(s, H, "lnbcrt", 2)]

MCBolt11 ==
    [text \in {"lnbcrt"} |-> [network |-> "Regtest", amount_msat |-> 2000, hash |-> H]]

MCSum == [S \in SUBSET Requests |-> MapThenSumSet(LAMBDA r : r.amount, S)]
===============================================================================
