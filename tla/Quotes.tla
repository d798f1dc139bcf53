-------------------------------- MODULE Quotes --------------------------------
(***************************************************************************)
(* Intents, signed quotes and the routes they may name: core/rfq.rs,       *)
(* core/routes.rs and core/endpoint.rs, with the two validations of the    *)
(* invoice, the maker's (cli/solver.rs) and the client's                   *)
(* (cli/commands.rs).                                                      *)
(*                                                                         *)
(* Texts (identities, keys, addresses, nonces) are opaque values.  A       *)
(* signature is the signed digest together with the key that made it.      *)
(***************************************************************************)
EXTENDS Naturals

CONSTANTS
    MaxU64,     \* largest value of the u64 amounts and times
    Bolt11,     \* [text -> [network, amount_msat, hash]] for the texts that parse
    None        \* an absent optional field

Networks == {"LiquidRegtest", "LightningRegtest", "BitcoinRegtest", "ArkRegtest"}

\* The networks on which each asset of the catalog may live.
AssetNetworks ==
    [assetId \in {"TEST-DEPIX", "LBTC", "BTC"} |->
        IF assetId = "BTC" THEN Networks \ {"LiquidRegtest"} ELSE {"LiquidRegtest"}]

\* EndpointId::validate; an asset outside the catalog may live anywhere.
ValidEndpoint(endpoint) ==
    /\ endpoint.network \in Networks
    /\ endpoint.asset_id \in DOMAIN AssetNetworks =>
            endpoint.network \in AssetNetworks[endpoint.asset_id]

\* The asset whose hash a settlement cannot do without.
NeedsHash(endpoint) == endpoint.asset_id = "TEST-DEPIX"

Endpoint(assetId, network, hash) ==
    [asset_id |-> assetId, network |-> network, asset_hash |-> hash]

\* The catalog that RouteRegistry::qualified builds for one asset hash.
RouteEndpoints(assetHash) ==
    {Endpoint("TEST-DEPIX", "LiquidRegtest", assetHash),
     Endpoint("LBTC", "LiquidRegtest", None)}
    \cup {Endpoint("BTC", n, None) : n \in AssetNetworks["BTC"]}

InitialRoute(source, destination) ==
    /\ {source.network, destination.network} = {"LiquidRegtest", "LightningRegtest"}
    /\ {source.asset_id, destination.asset_id} = {"TEST-DEPIX", "BTC"}
    /\ \A e \in {source, destination} : NeedsHash(e) => e.asset_hash # None

IsEnabled(assetHash, source, destination) ==
    /\ source # destination
    /\ {source, destination} \subseteq RouteEndpoints(assetHash)
    /\ InitialRoute(source, destination)

AdapterId(source, destination) ==
    LET networks == {source.network, destination.network}
    IN  IF "ArkRegtest" \in networks THEN "unqualified-ark"
        ELSE IF "LightningRegtest" \in networks THEN "lightning-hold"
        ELSE "chain-htlc"

-------------------------------------------------------------------------------
ContextFields ==
    {"source_height", "destination_height", "source_refund_height",
     "destination_refund_height", "lightning_expiry_height", "source_refund_at",
     "destination_refund_at", "lightning_expiry_at", "margin_seconds"}

\* The heights that a quote repeats outside its deadline context.
QuotedHeights ==
    {"source_refund_height", "destination_refund_height", "lightning_expiry_height"}

\* What a quote must repeat of its intent, word for word.
BoundFields ==
    {"intent_id", "source", "destination", "amount_in", "min_amount_out",
     "fee_limit_lbtc", "hash_commitment", "client_claim_pubkey",
     "client_refund_pubkey", "source_destination", "destination_destination",
     "refund_destination", "deadline_context", "nonce"}

IntentFields == BoundFields \cup {"version", "created_at", "expires_at"}

QuoteFields ==
    BoundFields \cup QuotedHeights \cup
    {"version", "quote_id", "amount_out", "fee_lbtc", "expires_at",
     "solver_key_id", "adapter_id", "payment_request"}

(* The signed text: every field, length-prefixed, so that no two lists of   *)
(* fields share a text.  The context's copies of the quoted heights are not *)
(* in it, and an absent payment request reads as an empty one.              *)
QuoteDigest(quote) ==
    [terms |-> [f \in QuoteFields \ {"deadline_context"} |->
                    IF f = "payment_request" /\ quote[f] = None THEN "" ELSE quote[f]],
     context |-> [f \in ContextFields \ QuotedHeights |-> quote.deadline_context[f]]]

SignQuote(quote, key) ==
    [quote |-> quote, signature |-> [digest |-> QuoteDigest(quote), key |-> key]]

Later(a, b) == IF a + b > MaxU64 THEN MaxU64 ELSE a + b

\* The party that pays first must be able to take its payment back last.
ValidDeadlines(quote, context, now) ==
    LET fromLightning == quote.source.network = "LightningRegtest"
        sourceDeadline == IF fromLightning THEN context.lightning_expiry_at
                                           ELSE context.source_refund_at
        destinationDeadline == IF fromLightning THEN context.destination_refund_at
                                                ELSE context.lightning_expiry_at
    IN  /\ context.source_refund_at > now
        /\ context.destination_refund_at > now
        /\ context.lightning_expiry_at # None =>
                sourceDeadline > Later(destinationDeadline, context.margin_seconds)
        /\ \A f \in QuotedHeights : quote[f] = context[f]

ValidTerms(intent, quote, assetHash, context, now) ==
    /\ intent.version = 1 /\ quote.version = 1
    /\ \A e \in {intent.source, intent.destination, quote.source, quote.destination} :
            ValidEndpoint(e)
    /\ \A e \in {intent.source, intent.destination} : NeedsHash(e) => e.asset_hash # None
    /\ \A f \in BoundFields : quote[f] = intent[f]
    /\ IsEnabled(assetHash, intent.source, intent.destination)
    /\ quote.adapter_id = AdapterId(intent.source, intent.destination)
    /\ quote.amount_out >= intent.min_amount_out
    /\ quote.fee_lbtc <= intent.fee_limit_lbtc
    /\ quote.expires_at <= intent.expires_at
    /\ quote.expires_at > now
    /\ quote.deadline_context = context
    /\ ValidDeadlines(quote, context, now)

\* keys is the function from the pinned key identities to public keys.
VerifyQuote(intent, signed, keys, assetHash, context, now) ==
    /\ ValidTerms(intent, signed.quote, assetHash, context, now)
    /\ signed.quote.solver_key_id \in DOMAIN keys
    /\ signed.signature.key = keys[signed.quote.solver_key_id]
    /\ signed.signature.digest = QuoteDigest(signed.quote)

-------------------------------------------------------------------------------
ToLightning(intent) == intent.destination.network = "LightningRegtest"

\* The invoice is for exactly this amount, in whole satoshis, and this hash.
InvoicePays(text, sats, hash) ==
    /\ text \in DOMAIN Bolt11
    /\ Bolt11[text].network = "Regtest"
    /\ Bolt11[text].amount_msat # None
    /\ Bolt11[text].amount_msat = sats * 1000
    /\ Bolt11[text].hash = hash

\* What the maker asks of the intent before it quotes.
ValidDestinationInvoice(intent, amountOut) ==
    ToLightning(intent) =>
        InvoicePays(intent.destination_destination, amountOut, intent.hash_commitment)

\* What the client asks of the quote before it selects or funds.
ValidPaymentRequest(intent, quote) ==
    IF ToLightning(intent)
    THEN /\ quote.payment_request # None
         /\ quote.payment_request = intent.destination_destination
         /\ quote.amount_out * 1000 <= MaxU64
         /\ InvoicePays(quote.payment_request, quote.amount_out, intent.hash_commitment)
    ELSE quote.payment_request = None

\* amount_in at the maker's rate, in whole units; None where u64 overflows.
RatedAmount(amountIn, rate) ==
    IF amountIn * rate.numerator > MaxU64 THEN None
    ELSE (amountIn * rate.numerator) \div rate.denominator

\* The intents that a maker with this inventory and rate quotes.
Quotable(intent, assetHash, inventoryAsset, rate) ==
    /\ IsEnabled(assetHash, intent.source, intent.destination)
    /\ intent.destination.asset_id = inventoryAsset
    /\ RatedAmount(intent.amount_in, rate) # None
    /\ ValidDestinationInvoice(intent, RatedAmount(intent.amount_in, rate))

\* The quote of the maker, of its identity, key, fee and rate, at a time.
MakerQuote(intent, solver, validity, now) ==
    [f \in QuoteFields |->
        CASE f \in BoundFields -> intent[f]
          [] f \in QuotedHeights -> intent.deadline_context[f]
          [] f = "version" -> 1
          [] f = "quote_id" -> <<solver.id, intent.intent_id>>
          [] f = "amount_out" -> RatedAmount(intent.amount_in, solver.rate)
          [] f = "fee_lbtc" -> solver.fee
          [] f = "expires_at" -> IF intent.expires_at < now + validity
                                 THEN intent.expires_at ELSE now + validity
          [] f = "solver_key_id" -> solver.key_id
          [] f = "adapter_id" -> AdapterId(intent.source, intent.destination)
          [] f = "payment_request" -> IF ToLightning(intent)
                                      THEN intent.destination_destination ELSE None]
===============================================================================
