----------------------------- MODULE QuotesProofs -----------------------------
(***************************************************************************)
(* What a maker's quote says, and which route the catalog enables.         *)
(***************************************************************************)
EXTENDS Quotes, TLAPS

\* The catalog's route from TEST-DEPIX on Liquid to Lightning.
LEMMA ForwardRoute ==
    ASSUME NEW assetHash, assetHash # None
    PROVE  LET source == Endpoint("TEST-DEPIX", "LiquidRegtest", assetHash)
               destination == Endpoint("BTC", "LightningRegtest", None)
           IN  /\ IsEnabled(assetHash, source, destination)
               /\ \A e \in {source, destination} :
                    ValidEndpoint(e) /\ (NeedsHash(e) => e.asset_hash # None)
<1> DEFINE source == Endpoint("TEST-DEPIX", "LiquidRegtest", assetHash)
           destination == Endpoint("BTC", "LightningRegtest", None)
<1>1. /\ source.network = "LiquidRegtest" /\ destination.network = "LightningRegtest"
      /\ source.asset_id = "TEST-DEPIX" /\ destination.asset_id = "BTC"
      /\ source.asset_hash = assetHash /\ destination.asset_hash = None
  BY DEF Endpoint
<1>2. /\ AssetNetworks["TEST-DEPIX"] = {"LiquidRegtest"}
      /\ "LightningRegtest" \in AssetNetworks["BTC"]
  BY DEF AssetNetworks, Networks
<1>3. \A e \in {source, destination} :
        ValidEndpoint(e) /\ (NeedsHash(e) => e.asset_hash # None)
  BY <1>1, <1>2 DEF ValidEndpoint, Networks, NeedsHash
<1>4. {source, destination} \subseteq RouteEndpoints(assetHash)
  BY <1>2 DEF RouteEndpoints
<1>5. InitialRoute(source, destination)
  BY <1>1, <1>3 DEF InitialRoute
<1>6. source # destination
  BY <1>1
<1> QED
  BY <1>3, <1>4, <1>5, <1>6 DEF IsEnabled

\* The fields of a maker's quote: what it copies, and what it adds.
LEMMA QuotedFields ==
    ASSUME NEW intent, NEW solver, NEW validity, NEW now
    PROVE  LET quote == MakerQuote(intent, solver, validity, now)
           IN  /\ \A f \in BoundFields : quote[f] = intent[f]
               /\ \A f \in QuotedHeights : quote[f] = intent.deadline_context[f]
               /\ quote.version = 1
               /\ quote.quote_id = <<solver.id, intent.intent_id>>
               /\ quote.amount_out = RatedAmount(intent.amount_in, solver.rate)
               /\ quote.fee_lbtc = solver.fee
               /\ quote.expires_at = IF intent.expires_at < now + validity
                                     THEN intent.expires_at ELSE now + validity
               /\ quote.solver_key_id = solver.key_id
               /\ quote.adapter_id = AdapterId(intent.source, intent.destination)
               /\ quote.payment_request = IF ToLightning(intent)
                                          THEN intent.destination_destination ELSE None
<1> DEFINE quote == MakerQuote(intent, solver, validity, now)
<1>1. ASSUME NEW f \in BoundFields
      PROVE  quote[f] = intent[f]
  BY Zenon DEF MakerQuote, QuoteFields, BoundFields, QuotedHeights
<1>2. ASSUME NEW f \in QuotedHeights
      PROVE  quote[f] = intent.deadline_context[f]
  BY Zenon DEF MakerQuote, QuoteFields, BoundFields, QuotedHeights
<1>3. quote.version = 1
  BY Zenon DEF MakerQuote, QuoteFields, BoundFields, QuotedHeights
<1>4. quote.amount_out = RatedAmount(intent.amount_in, solver.rate)
  BY Zenon DEF MakerQuote, QuoteFields, BoundFields, QuotedHeights
<1>5. quote.fee_lbtc = solver.fee
  BY Zenon DEF MakerQuote, QuoteFields, BoundFields, QuotedHeights
<1>6. quote.expires_at = IF intent.expires_at < now + validity
                         THEN intent.expires_at ELSE now + validity
  BY Zenon DEF MakerQuote, QuoteFields, BoundFields, QuotedHeights
<1>7. quote.solver_key_id = solver.key_id
  BY Zenon DEF MakerQuote, QuoteFields, BoundFields, QuotedHeights
<1>8. quote.adapter_id = AdapterId(intent.source, intent.destination)
  BY Zenon DEF MakerQuote, QuoteFields, BoundFields, QuotedHeights
<1>9. quote.payment_request = IF ToLightning(intent)
                              THEN intent.destination_destination ELSE None
  BY Zenon DEF MakerQuote, QuoteFields, BoundFields, QuotedHeights
<1>10. quote.quote_id = <<solver.id, intent.intent_id>>
  BY Zenon DEF MakerQuote, QuoteFields, BoundFields, QuotedHeights
<1> QED
  BY <1>1, <1>2, <1>3, <1>4, <1>5, <1>6, <1>7, <1>8, <1>9, <1>10

-------------------------------------------------------------------------------
\* Every endpoint of the catalog is valid, and an enabled route has its hash.
LEMMA EnabledEndpoints ==
    ASSUME NEW assetHash, NEW source, NEW destination,
           IsEnabled(assetHash, source, destination)
    PROVE  \A e \in {source, destination} :
                ValidEndpoint(e) /\ (NeedsHash(e) => e.asset_hash # None)
<1>1. {source, destination} \subseteq RouteEndpoints(assetHash)
  BY DEF IsEnabled
<1>2. ASSUME NEW e \in RouteEndpoints(assetHash) PROVE ValidEndpoint(e)
  <2>1. /\ AssetNetworks["TEST-DEPIX"] = {"LiquidRegtest"}
        /\ AssetNetworks["LBTC"] = {"LiquidRegtest"}
        /\ AssetNetworks["BTC"] = Networks \ {"LiquidRegtest"}
    BY DEF AssetNetworks
  <2>2. \/ e.network = "LiquidRegtest" /\ e.asset_id \in {"TEST-DEPIX", "LBTC"}
        \/ e.network \in AssetNetworks["BTC"] /\ e.asset_id = "BTC"
    BY <1>2 DEF RouteEndpoints, Endpoint
  <2> QED
    BY <2>1, <2>2 DEF ValidEndpoint, Networks
<1>3. \A e \in {source, destination} : NeedsHash(e) => e.asset_hash # None
  BY DEF IsEnabled, InitialRoute
<1> QED
  BY <1>1, <1>2, <1>3

(* What a maker quotes and signs, a client that pinned its key accepts, for *)
(* every route, amount, rate and time.  The hypotheses beside Quotable are  *)
(* what the maker does not check before it signs: the intent's version,     *)
(* minimum output and fee limit, and the deadlines (solver.rs quote against *)
(* rfq.rs verify_quote and validate_terms); and nothing has expired.        *)
THEOREM QuotedIsVerified ==
    ASSUME NEW intent, NEW solver, NEW assetHash, NEW inventoryAsset, NEW keys,
           NEW validity \in Nat, NEW made \in Nat, NEW now \in Nat,
           intent.version = 1,
           intent.expires_at \in Nat, intent.expires_at > now, made + validity > now,
           Quotable(intent, assetHash, inventoryAsset, solver.rate),
           RatedAmount(intent.amount_in, solver.rate) >= intent.min_amount_out,
           solver.fee <= intent.fee_limit_lbtc,
           solver.key_id \in DOMAIN keys,
           LET quote == MakerQuote(intent, solver, validity, made)
           IN  ValidDeadlines(quote, intent.deadline_context, now)
    PROVE  LET quote == MakerQuote(intent, solver, validity, made)
           IN  VerifyQuote(intent, SignQuote(quote, keys[solver.key_id]), keys, assetHash,
                           intent.deadline_context, now)
<1> DEFINE quote == MakerQuote(intent, solver, validity, made)
           signed == SignQuote(quote, keys[solver.key_id])
<1>1. /\ \A f \in BoundFields : quote[f] = intent[f]
      /\ quote.version = 1
      /\ quote.amount_out = RatedAmount(intent.amount_in, solver.rate)
      /\ quote.fee_lbtc = solver.fee
      /\ quote.expires_at = IF intent.expires_at < made + validity
                            THEN intent.expires_at ELSE made + validity
      /\ quote.solver_key_id = solver.key_id
      /\ quote.adapter_id = AdapterId(intent.source, intent.destination)
  BY QuotedFields
<1>2. ValidDeadlines(quote, intent.deadline_context, now)
  OBVIOUS
<1>3. /\ signed.quote = quote
      /\ signed.signature.key = keys[solver.key_id]
      /\ signed.signature.digest = QuoteDigest(quote)
  BY DEF SignQuote
<1> HIDE DEF quote, signed
<1>4. /\ IsEnabled(assetHash, intent.source, intent.destination)
      /\ \A e \in {intent.source, intent.destination} :
            ValidEndpoint(e) /\ (NeedsHash(e) => e.asset_hash # None)
  BY EnabledEndpoints DEF Quotable
<1>5. /\ quote.source = intent.source /\ quote.destination = intent.destination
      /\ quote.deadline_context = intent.deadline_context
  BY <1>1 DEF BoundFields
<1>6. quote.expires_at <= intent.expires_at /\ quote.expires_at > now
  BY <1>1
<1>7. \A e \in {intent.source, intent.destination, quote.source, quote.destination} :
            ValidEndpoint(e)
  BY <1>4, <1>5
<1>8. ValidTerms(intent, quote, assetHash, intent.deadline_context, now)
  BY <1>1, <1>2, <1>4, <1>5, <1>6, <1>7 DEF ValidTerms
<1> QED
  BY <1>1, <1>3, <1>8 DEF VerifyQuote, quote, signed

\* The type of a quote: a record of its fields, with all the deadlines.
IsQuote(quote) ==
    /\ quote = [f \in QuoteFields |-> quote[f]]
    /\ quote.deadline_context = [f \in ContextFields |-> quote.deadline_context[f]]

(* A signature stands for one quote: two quotes that verify, for whichever  *)
(* intents and at whichever times, and share a digest are the same quote.   *)
(* The digest leaves out the context's copies of three heights, which is    *)
(* harmless as verifying compares them with the quote's own, and it reads   *)
(* an absent payment request as an empty one, which no invoice is (rfq.rs   *)
(* quote_digest, validate_deadlines).                                       *)
THEOREM DigestBinds ==
    ASSUME NEW intent, NEW other, NEW quote, NEW forged, NEW assetHash, NEW context,
           NEW otherContext, NEW now, NEW later,
           IsQuote(quote), IsQuote(forged),
           ValidTerms(intent, quote, assetHash, context, now),
           ValidTerms(other, forged, assetHash, otherContext, later),
           "" \notin {quote.payment_request, forged.payment_request},
           QuoteDigest(quote) = QuoteDigest(forged)
    PROVE  quote = forged
<1> DEFINE Said(q) == [f \in QuoteFields \ {"deadline_context"} |->
                           IF f = "payment_request" /\ q[f] = None THEN "" ELSE q[f]]
           Dated(q) == [f \in ContextFields \ QuotedHeights |-> q.deadline_context[f]]
<1>1. Said(quote) = Said(forged) /\ Dated(quote) = Dated(forged)
  BY DEF QuoteDigest
<1>2. ASSUME NEW f \in QuoteFields \ {"deadline_context"} PROVE quote[f] = forged[f]
  <2>1. Said(quote)[f] = Said(forged)[f]
    BY <1>1
  <2>2. (IF f = "payment_request" /\ quote[f] = None THEN "" ELSE quote[f])
        = (IF f = "payment_request" /\ forged[f] = None THEN "" ELSE forged[f])
    BY <2>1
  <2>3. CASE f = "payment_request"
    BY <2>2, <2>3
  <2>4. CASE f # "payment_request"
    BY <2>2, <2>4
  <2> QED
    BY <2>3, <2>4
<1>3. ASSUME NEW f \in ContextFields
      PROVE  quote.deadline_context[f] = forged.deadline_context[f]
  <2>1. CASE f \in QuotedHeights
    <3>1. quote.deadline_context[f] = quote[f] /\ forged.deadline_context[f] = forged[f]
      BY <2>1 DEF ValidTerms, ValidDeadlines
    <3>2. f \in QuoteFields \ {"deadline_context"}
      BY <2>1 DEF QuotedHeights, QuoteFields
    <3> QED
      BY <1>2, <3>1, <3>2
  <2>2. CASE f \notin QuotedHeights
    <3>1. Dated(quote)[f] = Dated(forged)[f]
      BY <1>1
    <3> QED
      BY <2>2, <3>1
  <2> QED
    BY <2>1, <2>2
<1>4. quote.deadline_context = forged.deadline_context
  <2> DEFINE a == quote.deadline_context  b == forged.deadline_context
  <2>1. a = [f \in ContextFields |-> a[f]] /\ b = [f \in ContextFields |-> b[f]]
    BY DEF IsQuote
  <2>2. \A f \in ContextFields : a[f] = b[f]
    BY <1>3
  <2> HIDE DEF a, b
  <2>3. a = b
    BY <2>1, <2>2
  <2> QED
    BY <2>3 DEF a, b
<1>5. \A f \in QuoteFields : quote[f] = forged[f]
  BY <1>2, <1>4
<1>6. quote = [f \in QuoteFields |-> quote[f]] /\ forged = [f \in QuoteFields |-> forged[f]]
  BY DEF IsQuote
<1> QED
  BY <1>5, <1>6

===============================================================================
