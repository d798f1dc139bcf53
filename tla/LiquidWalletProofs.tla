--------------------------- MODULE LiquidWalletProofs ---------------------------
(***************************************************************************)
(* What a signed transaction is worth and where the locked asset can go,   *)
(* for any number of sessions and coins.                                   *)
(***************************************************************************)
EXTENDS LiquidWallet, SequenceTheorems, TLAPS

USE WalletAssumption

\* Concatenation to a list of a given length.
LEMMA Joined ==
    ASSUME NEW S, NEW s \in Seq(S), NEW t \in Seq(S), NEW whole \in Seq(S),
           Len(whole) = Len(s) + Len(t),
           \A i \in 1..Len(whole) : whole[i] = IF i <= Len(s) THEN s[i] ELSE t[i - Len(s)]
    PROVE  s \o t = whole
<1>1. s \o t \in Seq(S) /\ Len(s \o t) = Len(whole)
  BY ConcatProperties
<1>2. \A i \in 1..Len(s \o t) : (s \o t)[i] = whole[i]
  BY <1>1, ConcatProperties
<1> QED
  BY <1>1, <1>2, SeqEqual

\* One more at the end of one, two or three.
LEMMA Two == ASSUME NEW a, NEW b PROVE <<a>> \o <<b>> = <<a, b>>
<1> DEFINE S == {a, b}
           s == <<a>>
           t == <<b>>
           whole == <<a, b>>
<1>1. Len(whole) = Len(s) + Len(t)
  OBVIOUS
<1>2. \A i \in 1..Len(whole) : whole[i] = IF i <= Len(s) THEN s[i] ELSE t[i - Len(s)]
  OBVIOUS
<1>3. s \in Seq(S) /\ t \in Seq(S) /\ whole \in Seq(S)
  OBVIOUS
<1> HIDE DEF s, t, whole, S
<1>4. s \o t = whole
  BY <1>1, <1>2, <1>3, Joined
<1> QED
  BY <1>4 DEF s, t, whole

LEMMA Three == ASSUME NEW a, NEW b, NEW c PROVE <<a, b>> \o <<c>> = <<a, b, c>>
<1> DEFINE S == {a, b, c}
           s == <<a, b>>
           t == <<c>>
           whole == <<a, b, c>>
<1>1. Len(whole) = Len(s) + Len(t)
  OBVIOUS
<1>2. \A i \in 1..Len(whole) : whole[i] = IF i <= Len(s) THEN s[i] ELSE t[i - Len(s)]
  OBVIOUS
<1>3. s \in Seq(S) /\ t \in Seq(S) /\ whole \in Seq(S)
  OBVIOUS
<1> HIDE DEF s, t, whole, S
<1>4. s \o t = whole
  BY <1>1, <1>2, <1>3, Joined
<1> QED
  BY <1>4 DEF s, t, whole

LEMMA Four == ASSUME NEW a, NEW b, NEW c, NEW d PROVE <<a, b, c>> \o <<d>> = <<a, b, c, d>>
<1> DEFINE S == {a, b, c, d}
           s == <<a, b, c>>
           t == <<d>>
           whole == <<a, b, c, d>>
<1>1. Len(whole) = Len(s) + Len(t)
  OBVIOUS
<1>2. \A i \in 1..Len(whole) : whole[i] = IF i <= Len(s) THEN s[i] ELSE t[i - Len(s)]
  OBVIOUS
<1>3. s \in Seq(S) /\ t \in Seq(S) /\ whole \in Seq(S)
  OBVIOUS
<1> HIDE DEF s, t, whole, S
<1>4. s \o t = whole
  BY <1>1, <1>2, <1>3, Joined
<1> QED
  BY <1>4 DEF s, t, whole

\* Nothing more at the end.
LEMMA Nothing == ASSUME NEW a, NEW b PROVE <<a>> \o <<>> = <<a>> /\ <<a, b>> \o <<>> = <<a, b>>
<1> DEFINE S == {a, b}
<1>1. <<a>> \in Seq(S) /\ <<a, b>> \in Seq(S)
  OBVIOUS
<1> HIDE DEF S
<1> QED
  BY <1>1, ConcatEmptySeq

\* What the outputs of an asset hold together, in a list of two, three or four.
LEMMA SatsOfTwo ==
    ASSUME NEW a, NEW b, NEW asset
    PROVE  LET Of(out) == IF out.asset = asset THEN out.sats ELSE 0
           IN  Sats(<<a, b>>, asset) = Of(a) + Of(b) + 0 + 0
  BY DEF Sats

LEMMA SatsOfThree ==
    ASSUME NEW a, NEW b, NEW c, NEW asset
    PROVE  LET Of(out) == IF out.asset = asset THEN out.sats ELSE 0
           IN  Sats(<<a, b, c>>, asset) = Of(a) + Of(b) + Of(c) + 0
  BY DEF Sats

LEMMA SatsOfFour ==
    ASSUME NEW a, NEW b, NEW c, NEW d, NEW asset
    PROVE  LET Of(out) == IF out.asset = asset THEN out.sats ELSE 0
           IN  Sats(<<a, b, c, d>>, asset) = Of(a) + Of(b) + Of(c) + Of(d)
  BY DEF Sats

(* A funding locks the amount for the session and moves exactly what its   *)
(* two coins hold.                                                          *)
LEMMA FundingOuts ==
    ASSUME NEW s \in Sessions, NEW payment, NEW fee,
           Output(payment).sats \in Nat, Output(payment).sats >= Amount[s],
           Output(fee).sats \in Nat, Output(fee).sats >= Fee[s]
    PROVE  LET outs == FundingTx(s, payment, fee).outs
           IN  /\ 1 \in DOMAIN outs
               /\ outs[1] = Out(PaymentAsset, Amount[s], Htlc(s))
               /\ \A n \in DOMAIN outs : outs[n].sats \in Nat
               /\ Sats(outs, PaymentAsset) = Output(payment).sats
               /\ Sats(outs, FeeAsset) = Output(fee).sats
<1> DEFINE p == Output(payment).sats - Amount[s]
           f == Output(fee).sats - Fee[s]
           first == Out(PaymentAsset, Amount[s], Htlc(s))
           pc == Out(PaymentAsset, p, Wallet)
           fc == Out(FeeAsset, f, Wallet)
           last == Out(FeeAsset, Fee[s], FeeScript)
           outs == <<first>> \o Change(PaymentAsset, p) \o Change(FeeAsset, f) \o <<last>>
<1>1. /\ p \in Nat /\ f \in Nat /\ Amount[s] \in Nat /\ Fee[s] \in Nat
      /\ Output(fee).sats = f + Fee[s] /\ Output(payment).sats = p + Amount[s]
  OBVIOUS
<1>2. FundingTx(s, payment, fee).outs = outs
  BY DEF FundingTx
<1>3. /\ first.asset = PaymentAsset /\ first.sats = Amount[s]
      /\ pc.asset = PaymentAsset /\ pc.sats = p /\ pc.script = Wallet
      /\ fc.asset = FeeAsset /\ fc.sats = f /\ fc.script = Wallet
      /\ last.asset = FeeAsset /\ last.sats = Fee[s] /\ last.script = FeeScript
      /\ PaymentAsset # FeeAsset
  BY DEF Out
<1>4. /\ Change(PaymentAsset, p) = IF p > 0 THEN <<pc>> ELSE <<>>
      /\ Change(FeeAsset, f) = IF f > 0 THEN <<fc>> ELSE <<>>
  BY DEF Change
<1> HIDE DEF p, f, first, last, pc, fc, outs
<1>5. CASE p = 0 /\ f = 0
  <2>1. outs = <<first>> \o <<>> \o <<>> \o <<last>>
    BY <1>1, <1>4, <1>5 DEF outs
  <2>2. /\ <<first>> \o <<>> = <<first>>
        /\ <<first>> \o <<>> = <<first>>
        /\ <<first>> \o <<last>> = <<first, last>>
    BY Nothing, Two
  <2>3. outs = <<first, last>>
    BY <2>1, <2>2
  <2>4. /\ Sats(<<first, last>>, PaymentAsset) = p + Amount[s]
        /\ Sats(<<first, last>>, FeeAsset) = f + Fee[s]
    BY <1>1, <1>3, <1>5, SatsOfTwo
  <2> QED
    BY <1>1, <1>2, <1>3, <2>3, <2>4 DEF first
<1>6. CASE p = 0 /\ f > 0
  <2>1. outs = <<first>> \o <<>> \o <<fc>> \o <<last>>
    BY <1>1, <1>4, <1>6 DEF outs
  <2>2. /\ <<first>> \o <<>> = <<first>>
        /\ <<first>> \o <<fc>> = <<first, fc>>
        /\ <<first, fc>> \o <<last>> = <<first, fc, last>>
    BY Nothing, Three, Two
  <2>3. outs = <<first, fc, last>>
    BY <2>1, <2>2
  <2>4. /\ Sats(<<first, fc, last>>, PaymentAsset) = p + Amount[s]
        /\ Sats(<<first, fc, last>>, FeeAsset) = f + Fee[s]
    BY <1>1, <1>3, <1>6, SatsOfThree
  <2> QED
    BY <1>1, <1>2, <1>3, <2>3, <2>4 DEF first
<1>7. CASE p > 0 /\ f = 0
  <2>1. outs = <<first>> \o <<pc>> \o <<>> \o <<last>>
    BY <1>1, <1>4, <1>7 DEF outs
  <2>2. /\ <<first>> \o <<pc>> = <<first, pc>>
        /\ <<first, pc>> \o <<>> = <<first, pc>>
        /\ <<first, pc>> \o <<last>> = <<first, pc, last>>
    BY Nothing, Three, Two
  <2>3. outs = <<first, pc, last>>
    BY <2>1, <2>2
  <2>4. /\ Sats(<<first, pc, last>>, PaymentAsset) = p + Amount[s]
        /\ Sats(<<first, pc, last>>, FeeAsset) = f + Fee[s]
    BY <1>1, <1>3, <1>7, SatsOfThree
  <2> QED
    BY <1>1, <1>2, <1>3, <2>3, <2>4 DEF first
<1>8. CASE p > 0 /\ f > 0
  <2>1. outs = <<first>> \o <<pc>> \o <<fc>> \o <<last>>
    BY <1>1, <1>4, <1>8 DEF outs
  <2>2. /\ <<first>> \o <<pc>> = <<first, pc>>
        /\ <<first, pc>> \o <<fc>> = <<first, pc, fc>>
        /\ <<first, pc, fc>> \o <<last>> = <<first, pc, fc, last>>
    BY Four, Three, Two
  <2>3. outs = <<first, pc, fc, last>>
    BY <2>1, <2>2
  <2>4. /\ Sats(<<first, pc, fc, last>>, PaymentAsset) = p + Amount[s]
        /\ Sats(<<first, pc, fc, last>>, FeeAsset) = f + Fee[s]
    BY <1>1, <1>3, <1>8, SatsOfFour
  <2> QED
    BY <1>1, <1>2, <1>3, <2>3, <2>4 DEF first
<1> QED
  BY <1>1, <1>5, <1>6, <1>7, <1>8

\* A claim or refund moves the locked amount and exactly what its fee coin holds.
LEMMA SpendOuts ==
    ASSUME NEW s \in Sessions, NEW kind, NEW fee,
           Output(fee).sats \in Nat, Output(fee).sats >= Fee[s]
    PROVE  LET outs == SpendTx(s, kind, fee).outs
           IN  /\ 1 \in DOMAIN outs
               /\ outs[1] = Out(PaymentAsset, Amount[s], Destination(s))
               /\ \A n \in DOMAIN outs : outs[n].sats \in Nat
               /\ Sats(outs, PaymentAsset) = Amount[s]
               /\ Sats(outs, FeeAsset) = Output(fee).sats
<1> DEFINE f == Output(fee).sats - Fee[s]
           first == Out(PaymentAsset, Amount[s], Destination(s))
           fc == Out(FeeAsset, f, Wallet)
           last == Out(FeeAsset, Fee[s], FeeScript)
           outs == <<first>> \o Change(FeeAsset, f) \o <<last>>
<1>1. /\ f \in Nat /\ Amount[s] \in Nat /\ Fee[s] \in Nat
      /\ Output(fee).sats = f + Fee[s]
  OBVIOUS
<1>2. SpendTx(s, kind, fee).outs = outs
  BY DEF SpendTx
<1>3. /\ first.asset = PaymentAsset /\ first.sats = Amount[s]
      /\ fc.asset = FeeAsset /\ fc.sats = f /\ fc.script = Wallet
      /\ last.asset = FeeAsset /\ last.sats = Fee[s] /\ last.script = FeeScript
      /\ PaymentAsset # FeeAsset
  BY DEF Out
<1>4. Change(FeeAsset, f) = IF f > 0 THEN <<fc>> ELSE <<>>
  BY DEF Change
<1> HIDE DEF f, first, last, fc, outs
<1>5. CASE f = 0
  <2>1. outs = <<first>> \o <<>> \o <<last>>
    BY <1>1, <1>4, <1>5 DEF outs
  <2>2. /\ <<first>> \o <<>> = <<first>>
        /\ <<first>> \o <<last>> = <<first, last>>
    BY Nothing, Two
  <2>3. outs = <<first, last>>
    BY <2>1, <2>2
  <2>4. /\ Sats(<<first, last>>, PaymentAsset) = Amount[s]
        /\ Sats(<<first, last>>, FeeAsset) = f + Fee[s]
    BY <1>1, <1>3, <1>5, SatsOfTwo
  <2> QED
    BY <1>1, <1>2, <1>3, <2>3, <2>4 DEF first
<1>6. CASE f > 0
  <2>1. outs = <<first>> \o <<fc>> \o <<last>>
    BY <1>1, <1>4, <1>6 DEF outs
  <2>2. /\ <<first>> \o <<fc>> = <<first, fc>>
        /\ <<first, fc>> \o <<last>> = <<first, fc, last>>
    BY Three, Two
  <2>3. outs = <<first, fc, last>>
    BY <2>1, <2>2
  <2>4. /\ Sats(<<first, fc, last>>, PaymentAsset) = Amount[s]
        /\ Sats(<<first, fc, last>>, FeeAsset) = f + Fee[s]
    BY <1>1, <1>3, <1>6, SatsOfThree
  <2> QED
    BY <1>1, <1>2, <1>3, <2>3, <2>4 DEF first
<1> QED
  BY <1>1, <1>5, <1>6

-------------------------------------------------------------------------------
\* The transactions that exist: nothing else is ever an input's or in the chain.
Written ==
    {LiquidityId} \cup {id \in Sessions \X Kinds : outbox[id[1]][id[2]] # None}

\* The wallet's own outputs, spent or not.
WalletCoins(asset, least) ==
    {coin \in CoinsOf(Written) : /\ Output(coin).script = Wallet
                                 /\ Output(coin).asset = asset
                                 /\ Output(coin).sats >= least}

Shapes ==
    /\ outbox = [s \in Sessions |-> [k \in Kinds |-> outbox[s][k]]]
    /\ fate \in [Sessions -> {"open", "paid", "failed"}]
    /\ height \in Nat

NatOutputs == \A coin \in CoinsOf(Written) : Output(coin).sats \in Nat

SignedFunding(s) ==
    \E payment \in WalletCoins(PaymentAsset, Amount[s]), fee \in WalletCoins(FeeAsset, Fee[s]) :
        payment # fee /\ outbox[s]["funding"] = FundingTx(s, payment, fee)

\* The asset is spent only where there is a funding that locked it.
SignedSpend(s, kind) ==
    /\ outbox[s]["funding"] # None
    /\ \E fee \in WalletCoins(FeeAsset, Fee[s]) :
            fee # FundingCoin(s) /\ outbox[s][kind] = SpendTx(s, kind, fee)

Signed ==
    \A s \in Sessions :
        /\ outbox[s]["funding"] # None => SignedFunding(s)
        /\ \A kind \in {"claim", "refund"} : outbox[s][kind] # None => SignedSpend(s, kind)

\* What Lightning decided is final, and so is a lock height that was reached.
Decided ==
    \A s \in Sessions :
        /\ outbox[s]["claim"] # None => fate[s] = "paid"
        /\ outbox[s]["refund"] # None => fate[s] = "failed" /\ height >= Lock[s]

Sent ==
    /\ chain \cup mempool \subseteq Written
    /\ \A s \in observed : <<s, "funding">> \in chain

IInv == Shapes /\ NatOutputs /\ Signed /\ Decided /\ Sent

-------------------------------------------------------------------------------
\* Identities and scripts that cannot be confused.
LEMMA Names ==
    /\ \A s \in Sessions, kind \in Kinds : <<s, kind>> # LiquidityId
    /\ \A s : Htlc(s) # Wallet
    /\ \A s, t : Htlc(s) = Htlc(t) => s = t
    /\ \A s, t : FundingCoin(s) = FundingCoin(t) => s = t
  BY DEF Kinds, LiquidityId, Htlc, Wallet, FundingCoin

LEMMA Looked ==
    /\ \A ids, coin : coin \in CoinsOf(ids) <=>
            \E id \in ids : \E n \in DOMAIN Transaction(id).outs : coin = <<id, n>>
    /\ \A id, n : Output(<<id, n>>) = Transaction(id).outs[n]
    /\ \A s \in Sessions, kind \in Kinds : Transaction(<<s, kind>>) = outbox[s][kind]
    /\ \A s \in Sessions, kind \in Kinds : <<s, kind>> \in Written <=> outbox[s][kind] # None
<1>1. ASSUME NEW ids, NEW coin
      PROVE  coin \in CoinsOf(ids) <=>
                \E id \in ids : \E n \in DOMAIN Transaction(id).outs : coin = <<id, n>>
  <2> DEFINE Of(id) == {<<id, n>> : n \in DOMAIN Transaction(id).outs}
  <2>1. coin \in CoinsOf(ids) <=> \E id \in ids : coin \in Of(id)
    BY DEF CoinsOf
  <2>2. \A id : coin \in Of(id) <=> \E n \in DOMAIN Transaction(id).outs : coin = <<id, n>>
    OBVIOUS
  <2> HIDE DEF Of
  <2> QED
    BY <2>1, <2>2
<1>2. \A id, n : Output(<<id, n>>) = Transaction(id).outs[n]
  BY DEF Output
<1>3. \A s \in Sessions, kind \in Kinds : Transaction(<<s, kind>>) = outbox[s][kind]
  BY Names DEF Transaction
<1>4. \A s \in Sessions, kind \in Kinds : <<s, kind>> \in Written <=> outbox[s][kind] # None
  BY Names DEF Written
<1> QED
  BY <1>1, <1>2, <1>3, <1>4

\* A funding's first output is the HTLC of its session.
LEMMA FundingOutput ==
    ASSUME IInv, NEW s \in Sessions, outbox[s]["funding"] # None
    PROVE  /\ FundingCoin(s) \in CoinsOf(Written)
           /\ Output(FundingCoin(s)) = Out(PaymentAsset, Amount[s], Htlc(s))
<1>1. PICK payment \in WalletCoins(PaymentAsset, Amount[s]), fee \in WalletCoins(FeeAsset, Fee[s]) :
            outbox[s]["funding"] = FundingTx(s, payment, fee)
  BY DEF IInv, Signed, SignedFunding
<1>2. /\ Output(payment).sats \in Nat /\ Output(payment).sats >= Amount[s]
      /\ Output(fee).sats \in Nat /\ Output(fee).sats >= Fee[s]
  BY DEF IInv, NatOutputs, WalletCoins
<1>3. /\ 1 \in DOMAIN outbox[s]["funding"].outs
      /\ outbox[s]["funding"].outs[1] = Out(PaymentAsset, Amount[s], Htlc(s))
  BY <1>1, <1>2, FundingOuts
<1>4. Transaction(<<s, "funding">>) = outbox[s]["funding"] /\ <<s, "funding">> \in Written
  BY Looked DEF Kinds
<1> QED
  BY <1>3, <1>4, Looked DEF FundingCoin

\* No coin of the wallet is an HTLC.
LEMMA WalletCoin ==
    ASSUME IInv, NEW asset, NEW least, NEW coin \in WalletCoins(asset, least), NEW s \in Sessions
    PROVE  coin # FundingCoin(s)
<1>1. coin \in CoinsOf(Written) /\ Output(coin).script = Wallet
  BY DEF WalletCoins
<1>2. ASSUME coin = FundingCoin(s) PROVE outbox[s]["funding"] # None
  <2>1. PICK id \in Written : \E n \in DOMAIN Transaction(id).outs : coin = <<id, n>>
    BY <1>1, Looked
  <2>2. id = <<s, "funding">>
    BY <1>2, <2>1 DEF FundingCoin
  <2> QED
    BY <2>1, <2>2, Looked DEF Kinds
<1> QED
  BY <1>1, <1>2, FundingOutput, Names DEF Out

-------------------------------------------------------------------------------
\* A transaction of two inputs balances as its coins do.
LEMMA ValidOfTwo ==
    ASSUME NEW tx, NEW a, NEW b, NEW wa, NEW wb,
           tx.ins = <<In(a, wa), In(b, wb)>>, a # b,
           Unlocks(tx, In(a, wa)), Unlocks(tx, In(b, wb)),
           \A asset \in {PaymentAsset, FeeAsset} :
                Sats(tx.outs, asset) = Sats(<<Output(a), Output(b)>>, asset)
    PROVE  Valid(tx)
<1> DEFINE ins == tx.ins
<1>1. DOMAIN ins = {1, 2} /\ ins[1] = In(a, wa) /\ ins[2] = In(b, wb)
  OBVIOUS
<1>2. ins[1].coin = a /\ ins[2].coin = b
  BY <1>1 DEF In
<1> HIDE DEF ins
<1>3. [i \in DOMAIN ins |-> Output(ins[i].coin)] = <<Output(a), Output(b)>>
  <2>1. [i \in {1, 2} |-> Output(ins[i].coin)] = <<Output(a), Output(b)>>
    BY <1>2
  <2> QED
    BY <1>1, <2>1
<1>4. \A i, j \in DOMAIN ins : ins[i].coin = ins[j].coin => i = j
  BY <1>1, <1>2
<1>5. \A i \in DOMAIN ins : Unlocks(tx, ins[i])
  BY <1>1
<1> QED
  BY <1>3, <1>4, <1>5 DEF Valid, ins

\* What the outbox files name: who is an input of what.
LEMMA InputsOf ==
    ASSUME IInv
    PROVE  /\ Inputs(Liquidity) = {}
           /\ \A s \in Sessions : outbox[s]["funding"] # None =>
                \A t \in Sessions : FundingCoin(t) \notin Inputs(outbox[s]["funding"])
           /\ \A s \in Sessions, kind \in {"claim", "refund"} : outbox[s][kind] # None =>
                \A t \in Sessions : FundingCoin(t) \in Inputs(outbox[s][kind]) => t = s
<1>1. Inputs(Liquidity) = {}
  BY DEF Inputs, Liquidity
<1>2. ASSUME NEW s \in Sessions, outbox[s]["funding"] # None, NEW t \in Sessions
      PROVE  FundingCoin(t) \notin Inputs(outbox[s]["funding"])
  <2>1. PICK payment \in WalletCoins(PaymentAsset, Amount[s]), fee \in WalletCoins(FeeAsset, Fee[s]) :
            outbox[s]["funding"] = FundingTx(s, payment, fee)
    BY <1>2 DEF IInv, Signed, SignedFunding
  <2>2. outbox[s]["funding"].ins = <<In(payment, Wallet), In(fee, Wallet)>>
    BY <2>1 DEF FundingTx
  <2>3. Inputs(outbox[s]["funding"]) = {payment, fee}
    <3> DEFINE ins == outbox[s]["funding"].ins
    <3>1. DOMAIN ins = {1, 2} /\ ins[1].coin = payment /\ ins[2].coin = fee
      BY <2>2 DEF In
    <3> QED
      BY <3>1 DEF Inputs
  <2>4. payment # FundingCoin(t) /\ fee # FundingCoin(t)
    BY <1>2, WalletCoin
  <2> QED
    BY <2>3, <2>4
<1>3. ASSUME NEW s \in Sessions, NEW kind \in {"claim", "refund"}, outbox[s][kind] # None,
             NEW t \in Sessions, FundingCoin(t) \in Inputs(outbox[s][kind])
      PROVE  t = s
  <2>1. PICK fee \in WalletCoins(FeeAsset, Fee[s]) : outbox[s][kind] = SpendTx(s, kind, fee)
    BY <1>3 DEF IInv, Signed, SignedSpend
  <2>2. outbox[s][kind].ins = <<In(FundingCoin(s), BranchWitness(s, kind)), In(fee, Wallet)>>
    BY <2>1 DEF SpendTx
  <2>3. Inputs(outbox[s][kind]) = {FundingCoin(s), fee}
    <3> DEFINE ins == outbox[s][kind].ins
    <3>1. DOMAIN ins = {1, 2} /\ ins[1].coin = FundingCoin(s) /\ ins[2].coin = fee
      BY <2>2 DEF In
    <3> QED
      BY <3>1 DEF Inputs
  <2>4. fee # FundingCoin(t)
    BY <1>3, WalletCoin
  <2> QED
    BY <1>3, <2>3, <2>4, Names
<1> QED
  BY <1>1, <1>2, <1>3

\* Every outbox balances and satisfies the scripts of its inputs.
LEMMA OutboxValid ==
    ASSUME IInv, NEW s \in Sessions, NEW kind \in Kinds, outbox[s][kind] # None
    PROVE  /\ Valid(outbox[s][kind])
           /\ outbox[s][kind].lock_time <= IF kind = "refund" THEN height ELSE 0
<1> DEFINE tx == outbox[s][kind]
<1>0. /\ Amount[s] \in Nat /\ Lock[s] \in Nat /\ height \in Nat /\ PaymentAsset # FeeAsset
      /\ kind \in {"funding", "claim", "refund"}
  BY DEF IInv, Shapes, Kinds
<1>1. ASSUME NEW asset, NEW least, NEW coin \in WalletCoins(asset, least)
      PROVE  /\ Output(coin).script = Wallet /\ Output(coin).asset = asset
             /\ Output(coin).sats \in Nat /\ Output(coin).sats >= least
             /\ \A t : Unlocks(t, In(coin, Wallet))
  BY DEF IInv, NatOutputs, WalletCoins, Unlocks, In
<1>2. CASE kind = "funding"
  <2>1. PICK payment \in WalletCoins(PaymentAsset, Amount[s]), fee \in WalletCoins(FeeAsset, Fee[s]) :
            payment # fee /\ outbox[s]["funding"] = FundingTx(s, payment, fee)
    BY <1>2 DEF IInv, Signed, SignedFunding
  <2>2. tx.ins = <<In(payment, Wallet), In(fee, Wallet)>> /\ tx.lock_time = 0
    BY <1>2, <2>1 DEF FundingTx
  <2>3. /\ Sats(tx.outs, PaymentAsset) = Output(payment).sats
        /\ Sats(tx.outs, FeeAsset) = Output(fee).sats
    BY <1>1, <1>2, <2>1, FundingOuts
  <2>4. /\ Sats(<<Output(payment), Output(fee)>>, PaymentAsset) = Output(payment).sats
        /\ Sats(<<Output(payment), Output(fee)>>, FeeAsset) = Output(fee).sats
    BY <1>0, <1>1, SatsOfTwo
  <2> HIDE DEF tx
  <2>5. Unlocks(tx, In(payment, Wallet)) /\ Unlocks(tx, In(fee, Wallet))
    BY <1>1
  <2>6. Valid(tx)
    BY <2>1, <2>2, <2>3, <2>4, <2>5, ValidOfTwo
  <2> QED
    BY <1>0, <1>2, <2>2, <2>6 DEF tx
<1>3. CASE kind \in {"claim", "refund"}
  <2>1. PICK fee \in WalletCoins(FeeAsset, Fee[s]) :
            fee # FundingCoin(s) /\ tx = SpendTx(s, kind, fee)
    BY <1>3 DEF IInv, Signed, SignedSpend
  <2>2. Output(FundingCoin(s)) = Out(PaymentAsset, Amount[s], Htlc(s))
    BY <1>3, FundingOutput DEF IInv, Signed, SignedSpend
  <2>3. /\ tx.ins = <<In(FundingCoin(s), <<kind, s>>), In(fee, Wallet)>>
        /\ tx.lock_time = IF kind = "refund" THEN Lock[s] ELSE 0
    BY <2>1 DEF SpendTx, BranchWitness, SpendLockTime
  <2>4. Sats(tx.outs, PaymentAsset) = Amount[s] /\ Sats(tx.outs, FeeAsset) = Output(fee).sats
    BY <1>1, <2>1, SpendOuts
  <2>5. /\ Sats(<<Output(FundingCoin(s)), Output(fee)>>, PaymentAsset) = Amount[s]
        /\ Sats(<<Output(FundingCoin(s)), Output(fee)>>, FeeAsset) = Output(fee).sats
    BY <1>0, <1>1, <2>2, SatsOfTwo DEF Out
  <2>6. kind = "refund" => height >= Lock[s]
    BY DEF IInv, Decided
  <2> HIDE DEF tx
  <2>7. Unlocks(tx, In(FundingCoin(s), <<kind, s>>)) /\ Unlocks(tx, In(fee, Wallet))
    <3>1. Unlocks(tx, In(fee, Wallet))
      BY <1>1
    <3>2. /\ Output(FundingCoin(s)).script = Htlc(s)
          /\ In(FundingCoin(s), <<kind, s>>).coin = FundingCoin(s)
          /\ In(FundingCoin(s), <<kind, s>>).witness = <<kind, s>>
      BY <2>2 DEF Out, In
    <3>3. kind = "refund" => tx.lock_time >= Lock[s]
      BY <1>0, <2>3
    <3> QED
      BY <1>3, <3>1, <3>2, <3>3 DEF Unlocks
  <2>8. Valid(tx)
    BY <2>1, <2>3, <2>4, <2>5, <2>7, ValidOfTwo
  <2> QED
    BY <1>0, <1>3, <2>3, <2>6, <2>8 DEF tx
<1> QED
  BY <1>0, <1>2, <1>3

LEMMA InvPersisted == IInv => PersistedIsValid
  BY OutboxValid DEF PersistedIsValid

LEMMA InvOneSide == IInv => HtlcPaysOneSide
<1> SUFFICES ASSUME IInv, NEW s \in Sessions
             PROVE  /\ ~(Known(<<s, "claim">>) /\ Known(<<s, "refund">>))
                    /\ \A id \in chain \cup mempool : FundingCoin(s) \in Inputs(Transaction(id)) =>
                        /\ id \in {<<s, "claim">>, <<s, "refund">>}
                        /\ Transaction(id).outs[1] = Out(PaymentAsset, Amount[s], Destination(s))
                        /\ id[2] = "refund" => fate[s] = "failed" /\ height >= Lock[s]
  BY DEF HtlcPaysOneSide
<1>1. \A id \in chain \cup mempool : id \in Written
  BY DEF IInv, Sent
<1>2. ~(Known(<<s, "claim">>) /\ Known(<<s, "refund">>))
  <2>1. Known(<<s, "claim">>) => fate[s] = "paid"
    BY <1>1, Looked DEF Known, Kinds, IInv, Decided
  <2>2. Known(<<s, "refund">>) => fate[s] = "failed"
    BY <1>1, Looked DEF Known, Kinds, IInv, Decided
  <2> QED
    BY <2>1, <2>2
<1>3. ASSUME NEW id \in chain \cup mempool, FundingCoin(s) \in Inputs(Transaction(id))
      PROVE  /\ id \in {<<s, "claim">>, <<s, "refund">>}
             /\ Transaction(id).outs[1] = Out(PaymentAsset, Amount[s], Destination(s))
             /\ id[2] = "refund" => fate[s] = "failed" /\ height >= Lock[s]
  <2>1. id # LiquidityId
    BY <1>3, InputsOf DEF Transaction
  <2>2. PICK t \in Sessions, kind \in Kinds : id = <<t, kind>> /\ outbox[t][kind] # None
    BY <1>1, <2>1 DEF Written
  <2>3. Transaction(id) = outbox[t][kind]
    BY <2>2, Looked
  <2>4. kind \in {"claim", "refund"} /\ t = s
    BY <1>3, <2>2, <2>3, InputsOf DEF Kinds
  <2>5. PICK fee \in WalletCoins(FeeAsset, Fee[s]) : outbox[s][kind] = SpendTx(s, kind, fee)
    BY <2>2, <2>4 DEF IInv, Signed, SignedSpend
  <2>6. Output(fee).sats \in Nat /\ Output(fee).sats >= Fee[s]
    BY DEF IInv, NatOutputs, WalletCoins
  <2>7. Transaction(id).outs[1] = Out(PaymentAsset, Amount[s], Destination(s))
    BY <2>3, <2>4, <2>5, <2>6, SpendOuts
  <2>8. kind = "refund" => fate[s] = "failed" /\ height >= Lock[s]
    BY <2>2, <2>4 DEF IInv, Decided
  <2> QED
    BY <2>2, <2>4, <2>7, <2>8
<1> QED
  BY <1>2, <1>3

-------------------------------------------------------------------------------
LEMMA InvInit == Init => IInv
<1> SUFFICES ASSUME Init PROVE IInv
  OBVIOUS
<1>1. Written = {LiquidityId}
  BY DEF Init, Written
<1>2. NatOutputs
  <2>1. ASSUME NEW coin \in CoinsOf(Written)
        PROVE  Output(coin).sats \in Nat
    <3>1. PICK n \in DOMAIN Liquidity.outs : coin = <<LiquidityId, n>>
      BY <1>1, Looked DEF Transaction
    <3>2. Output(coin) = Liquidity.outs[n]
      BY <3>1, Looked DEF Transaction
    <3> QED
      BY <3>1, <3>2 DEF Liquidity, Out
  <2> QED
    BY <2>1 DEF NatOutputs
<1> QED
  BY <1>1, <1>2 DEF Init, IInv, Shapes, Signed, Decided, Sent, Kinds

\* The coins after a step.
LEMMA LookedNext ==
    \A coin : coin \in CoinsOf(Written)' <=>
        \E id \in Written' : \E n \in DOMAIN Transaction(id)'.outs : coin = <<id, n>>
<1> DEFINE Of(id) == {<<id, n>> : n \in DOMAIN Transaction(id)'.outs}
<1>1. \A coin : coin \in CoinsOf(Written)' <=> \E id \in Written' : coin \in Of(id)
  BY DEF CoinsOf
<1>2. \A coin, id : coin \in Of(id) <=> \E n \in DOMAIN Transaction(id)'.outs : coin = <<id, n>>
  OBVIOUS
<1> HIDE DEF Of
<1> QED
  BY <1>1, <1>2

\* What is written stays what it is, and so does every coin of it.
LEMMA Kept ==
    ASSUME IInv, Shapes',
           \A s \in Sessions, kind \in Kinds :
                outbox[s][kind] # None => outbox'[s][kind] = outbox[s][kind]
    PROVE  /\ Written \subseteq Written'
           /\ \A id \in Written : Transaction(id)' = Transaction(id)
           /\ \A coin \in CoinsOf(Written) : coin \in CoinsOf(Written)' /\ Output(coin)' = Output(coin)
           /\ \A asset, least : WalletCoins(asset, least) \subseteq WalletCoins(asset, least)'
<1>1. Written \subseteq Written'
  BY DEF Written
<1>2. \A id \in Written : Transaction(id)' = Transaction(id)
  BY DEF Written, Transaction
<1>3. ASSUME NEW coin \in CoinsOf(Written)
      PROVE  coin \in CoinsOf(Written)' /\ Output(coin)' = Output(coin)
  <2>1. PICK id \in Written : \E n \in DOMAIN Transaction(id).outs : coin = <<id, n>>
    BY <1>3, Looked
  <2>2. id \in Written' /\ Transaction(id)' = Transaction(id)
    BY <1>1, <1>2
  <2>3. PICK n \in DOMAIN Transaction(id).outs : coin = <<id, n>>
    BY <2>1
  <2>4. Output(coin)' = Output(coin)
    BY <2>2, <2>3 DEF Output
  <2>5. coin \in CoinsOf(Written)'
    BY <2>2, <2>3, LookedNext
  <2> QED
    BY <2>4, <2>5
<1> QED
  BY <1>1, <1>2, <1>3 DEF WalletCoins

\* A new outbox that is signed with the wallet's coins keeps the invariant.
LEMMA PersistStep ==
    ASSUME IInv, NEW s \in Sessions, NEW kind \in Kinds, NEW tx, Persist(s, kind, tx),
           \A n \in DOMAIN tx.outs : tx.outs[n].sats \in Nat,
           kind = "funding" =>
                \E payment \in WalletCoins(PaymentAsset, Amount[s]), fee \in WalletCoins(FeeAsset, Fee[s]) :
                    payment # fee /\ tx = FundingTx(s, payment, fee),
           kind # "funding" =>
                /\ outbox[s]["funding"] # None
                /\ \E fee \in WalletCoins(FeeAsset, Fee[s]) :
                        fee # FundingCoin(s) /\ tx = SpendTx(s, kind, fee),
           kind = "claim" => fate[s] = "paid",
           kind = "refund" => fate[s] = "failed" /\ height >= Lock[s]
    PROVE  IInv'
<1>1. /\ outbox[s][kind] = None
      /\ outbox'[s][kind] = tx
      /\ \A t \in Sessions, k \in Kinds : <<t, k>> # <<s, kind>> => outbox'[t][k] = outbox[t][k]
      /\ UNCHANGED <<mempool, chain, height, observed, fate>>
  <2>1. DOMAIN outbox = Sessions /\ \A t \in Sessions : DOMAIN outbox[t] = Kinds
    BY Zenon DEF IInv, Shapes
  <2>2. /\ outbox[s][kind] = None
        /\ outbox' = [outbox EXCEPT ![s] = [outbox[s] EXCEPT ![kind] = tx]]
        /\ UNCHANGED <<mempool, chain, height, observed, fate>>
    BY DEF Persist
  <2> QED
    BY <2>1, <2>2
<1>2. Shapes'
  <2>1. outbox' = [outbox EXCEPT ![s] = [outbox[s] EXCEPT ![kind] = tx]]
    BY DEF Persist
  <2>2. outbox = [t \in Sessions |-> [k \in Kinds |-> outbox[t][k]]]
    BY DEF IInv, Shapes
  <2>3. outbox' = [t \in Sessions |-> [k \in Kinds |-> outbox'[t][k]]]
    <3>1. DOMAIN outbox = Sessions /\ \A t \in Sessions : DOMAIN outbox[t] = Kinds
      BY <2>2, Zenon
    <3>2. DOMAIN outbox' = Sessions /\ \A t \in Sessions : DOMAIN outbox'[t] = Kinds
      BY <2>1, <3>1
    <3>3. \A t \in Sessions : outbox'[t] = [k \in Kinds |-> outbox'[t][k]]
      <4>1. ASSUME NEW t \in Sessions, t # s PROVE outbox'[t] = [k \in Kinds |-> outbox'[t][k]]
        <5>1. outbox'[t] = outbox[t] /\ outbox[t] = [k \in Kinds |-> outbox[t][k]]
          BY <2>1, <2>2, <3>1, <4>1
        <5> QED
          BY <5>1
      <4>2. outbox'[s] = [k \in Kinds |-> outbox'[s][k]]
        <5>1. outbox'[s] = [outbox[s] EXCEPT ![kind] = tx]
          BY <2>1, <3>1
        <5>2. outbox'[s] = [k \in DOMAIN outbox[s] |-> IF k = kind THEN tx ELSE outbox[s][k]]
          BY <5>1
        <5> QED
          BY <3>1, <5>2
      <4> QED
        BY <4>1, <4>2
    <3>4. outbox' = [t \in Sessions |-> outbox'[t]]
      BY <2>1, <3>1
    <3> QED
      BY <3>3, <3>4
  <2> QED
    BY <1>1, <2>3 DEF IInv, Shapes
<1>3. \A t \in Sessions, k \in Kinds : outbox[t][k] # None => outbox'[t][k] = outbox[t][k]
  BY <1>1
<1>4. /\ Written \subseteq Written'
      /\ \A id \in Written : Transaction(id)' = Transaction(id)
      /\ \A coin \in CoinsOf(Written) : coin \in CoinsOf(Written)' /\ Output(coin)' = Output(coin)
      /\ \A asset, least : WalletCoins(asset, least) \subseteq WalletCoins(asset, least)'
      /\ \A asset, least : WalletCoins(asset, least) \subseteq CoinsOf(Written)
  <2>1. \A asset, least : WalletCoins(asset, least) \subseteq CoinsOf(Written)
    BY DEF WalletCoins
  <2> QED
    BY <1>2, <1>3, <2>1, Kept
<1>5. ASSUME NEW coin \in CoinsOf(Written)'
      PROVE  Output(coin)'.sats \in Nat
  <2>1. PICK id \in Written' : \E n \in DOMAIN Transaction(id)'.outs : coin = <<id, n>>
    BY <1>5, LookedNext
  <2>2. PICK n \in DOMAIN Transaction(id)'.outs : coin = <<id, n>>
    BY <2>1
  <2>3. CASE id \in Written
    <3>1. coin \in CoinsOf(Written)
      BY <1>4, <2>2, <2>3, Looked
    <3> QED
      BY <1>4, <3>1 DEF IInv, NatOutputs
  <2>4. CASE id \notin Written
    <3>1. id = <<s, kind>>
      BY <1>1, <2>4 DEF Written
    <3>2. Transaction(id)' = tx
      BY <1>1, <3>1, Names DEF Transaction
    <3> QED
      BY <2>2, <3>2 DEF Output
  <2> QED
    BY <2>3, <2>4
<1>6. Signed'
  <2>1. ASSUME NEW t \in Sessions, outbox'[t]["funding"] # None
        PROVE  SignedFunding(t)'
    <3>1. PICK payment \in WalletCoins(PaymentAsset, Amount[t]), fee \in WalletCoins(FeeAsset, Fee[t]) :
            payment # fee /\ outbox'[t]["funding"] = FundingTx(t, payment, fee)
      <4>1. CASE outbox[t]["funding"] # None
        BY <1>3, <4>1 DEF IInv, Signed, SignedFunding, Kinds
      <4>2. CASE outbox[t]["funding"] = None
        <5>1. t = s /\ kind = "funding"
          BY <1>1, <2>1, <4>2 DEF Kinds
        <5> QED
          BY <1>1, <5>1
      <4> QED
        BY <4>1, <4>2
    <3>2. Output(payment)' = Output(payment) /\ Output(fee)' = Output(fee)
      BY <1>4, <3>1
    <3>3. FundingTx(t, payment, fee)' = FundingTx(t, payment, fee)
      BY <3>2 DEF FundingTx
    <3> QED
      BY <1>4, <3>1, <3>3 DEF SignedFunding
  <2>2. ASSUME NEW t \in Sessions, NEW k \in {"claim", "refund"}, outbox'[t][k] # None
        PROVE  SignedSpend(t, k)'
    <3>1. /\ outbox[t]["funding"] # None
          /\ \E fee \in WalletCoins(FeeAsset, Fee[t]) :
                fee # FundingCoin(t) /\ outbox'[t][k] = SpendTx(t, k, fee)
      <4>1. CASE outbox[t][k] # None
        BY <1>3, <4>1 DEF IInv, Signed, SignedSpend, Kinds
      <4>2. CASE outbox[t][k] = None
        <5>1. t = s /\ kind = k
          BY <1>1, <2>2, <4>2 DEF Kinds
        <5> QED
          BY <1>1, <5>1
      <4> QED
        BY <4>1, <4>2
    <3>2. PICK fee \in WalletCoins(FeeAsset, Fee[t]) :
            fee # FundingCoin(t) /\ outbox'[t][k] = SpendTx(t, k, fee)
      BY <3>1
    <3>3. SpendTx(t, k, fee)' = SpendTx(t, k, fee)
      BY <1>4, <3>2 DEF SpendTx
    <3> QED
      BY <1>3, <1>4, <3>1, <3>2, <3>3 DEF SignedSpend, FundingCoin, Kinds
  <2> QED
    BY <2>1, <2>2 DEF Signed
<1>7. Decided' /\ Sent'
  BY <1>1, <1>4 DEF IInv, Decided, Sent, Kinds
<1> QED
  BY <1>2, <1>5, <1>6, <1>7 DEF IInv, NatOutputs

\* A coin that may be selected is one of the wallet's.
LEMMA SelectableCoin ==
    ASSUME IInv, NEW asset, NEW least
    PROVE  Selectable(asset, least) \subseteq WalletCoins(asset, least)
<1>1. CoinsOf(chain) \subseteq CoinsOf(Written)
  <2>1. \A id \in chain : id \in Written
    BY DEF IInv, Sent
  <2> QED
    BY <2>1, Looked
<1> QED
  BY <1>1 DEF Selectable, WalletCoins

LEMMA FundingStep == ASSUME IInv, NEW s \in Sessions, PrepareFunding(s) PROVE IInv'
<1>1. PICK payment \in WalletCoins(PaymentAsset, Amount[s]), fee \in WalletCoins(FeeAsset, Fee[s]) :
        payment # fee /\ Persist(s, "funding", FundingTx(s, payment, fee))
  BY SelectableCoin DEF PrepareFunding
<1>2. /\ Output(payment).sats \in Nat /\ Output(payment).sats >= Amount[s]
      /\ Output(fee).sats \in Nat /\ Output(fee).sats >= Fee[s]
  BY DEF IInv, NatOutputs, WalletCoins
<1> DEFINE tx == FundingTx(s, payment, fee)
<1>3. \A n \in DOMAIN tx.outs : tx.outs[n].sats \in Nat
  BY <1>2, FundingOuts
<1>4. \E p \in WalletCoins(PaymentAsset, Amount[s]), f \in WalletCoins(FeeAsset, Fee[s]) :
        p # f /\ tx = FundingTx(s, p, f)
  BY <1>1
<1>5. Persist(s, "funding", tx)
  BY <1>1
<1> HIDE DEF tx
<1> QED
  BY <1>3, <1>4, <1>5, PersistStep DEF Kinds

LEMMA SpendStep ==
    ASSUME IInv, NEW s \in Sessions, NEW kind \in {"claim", "refund"}, Spend(s, kind),
           outbox[s]["funding"] # None,
           kind = "claim" => fate[s] = "paid",
           kind = "refund" => fate[s] = "failed" /\ height >= Lock[s]
    PROVE  IInv'
<1>1. PICK fee \in WalletCoins(FeeAsset, Fee[s]) :
        fee # FundingCoin(s) /\ Persist(s, kind, SpendTx(s, kind, fee))
  BY SelectableCoin DEF Spend
<1>2. Output(fee).sats \in Nat /\ Output(fee).sats >= Fee[s]
  BY DEF IInv, NatOutputs, WalletCoins
<1> DEFINE tx == SpendTx(s, kind, fee)
<1>3. \A n \in DOMAIN tx.outs : tx.outs[n].sats \in Nat
  BY <1>2, SpendOuts
<1>4. \E f \in WalletCoins(FeeAsset, Fee[s]) : f # FundingCoin(s) /\ tx = SpendTx(s, kind, f)
  BY <1>1
<1>5. Persist(s, kind, tx)
  BY <1>1
<1> HIDE DEF tx
<1> QED
  BY <1>3, <1>4, <1>5, PersistStep DEF Kinds

\* Where no outbox is written, the coins stay the same.
LEMMA SameOutboxes ==
    ASSUME IInv, UNCHANGED outbox, Shapes', Decided', Sent'
    PROVE  IInv'
<1>1. NatOutputs'
  <2>1. Written' = Written /\ \A id : Transaction(id)' = Transaction(id)
    BY DEF Written, Transaction
  <2>2. \A coin : Output(coin)' = Output(coin)
    BY <2>1 DEF Output
  <2>3. \A coin \in CoinsOf(Written)' : coin \in CoinsOf(Written)
    BY <2>1, Looked, LookedNext
  <2> QED
    BY <2>2, <2>3 DEF IInv, NatOutputs
<1>2. \A asset, least : WalletCoins(asset, least) \subseteq WalletCoins(asset, least)'
  BY Kept
<1>3. /\ \A s, payment, fee : FundingTx(s, payment, fee)' = FundingTx(s, payment, fee)
      /\ \A s, kind, fee : SpendTx(s, kind, fee)' = SpendTx(s, kind, fee)
  BY DEF FundingTx, SpendTx, Output, Transaction
<1>4. Signed'
  <2>1. ASSUME NEW s \in Sessions, SignedFunding(s)
        PROVE  SignedFunding(s)'
    BY <1>2, <1>3, <2>1 DEF SignedFunding
  <2>2. ASSUME NEW s \in Sessions, NEW kind \in {"claim", "refund"}, SignedSpend(s, kind)
        PROVE  SignedSpend(s, kind)'
    BY <1>2, <1>3, <2>2 DEF SignedSpend, FundingCoin
  <2> QED
    BY <2>1, <2>2 DEF IInv, Signed
<1> QED
  BY <1>1, <1>4 DEF IInv

LEMMA InvStep == IInv /\ [Next]_vars => IInv'
<1> SUFFICES ASSUME IInv, [Next]_vars PROVE IInv'
  OBVIOUS
<1> USE DEF IInv, Shapes, Decided, Sent
<1>1. CASE Mine
  <2>1. height' \in Nat /\ height' >= height
    BY <1>1 DEF Mine
  <2>2. chain' \cup mempool' = chain \cup mempool /\ chain \subseteq chain'
    BY <1>1 DEF Mine
  <2> QED
    <3>1. Shapes' /\ UNCHANGED outbox
      BY <1>1, <2>1 DEF Mine
    <3>2. Decided'
      <4>1. \A s \in Sessions : height >= Lock[s] => height' >= Lock[s]
        BY <2>1
      <4> QED
        BY <1>1, <4>1 DEF Mine
    <3>3. Sent'
      BY <1>1, <2>2 DEF Mine, Written
    <3> QED
      BY <3>1, <3>2, <3>3, SameOutboxes
<1>2. ASSUME NEW s \in Sessions, PrepareFunding(s)
      PROVE  IInv'
  BY <1>2, FundingStep
<1>3. ASSUME NEW s \in Sessions, PrepareClaim(s)
      PROVE  IInv'
  <2>1. outbox[s]["funding"] # None
    BY <1>3, Looked DEF PrepareClaim, Kinds
  <2> QED
    BY <1>3, <2>1, SpendStep DEF PrepareClaim
<1>4. ASSUME NEW s \in Sessions, PrepareRefund(s)
      PROVE  IInv'
  BY <1>4, SpendStep DEF PrepareRefund
<1>5. ASSUME NEW s \in Sessions, NEW kind \in Kinds, Broadcast(s, kind)
      PROVE  IInv'
  <2>1. <<s, kind>> \in Written
    BY <1>5, Looked DEF Broadcast
  <2> QED
    BY <1>5, <2>1, SameOutboxes DEF Broadcast, Written
<1>6. ASSUME NEW s \in Sessions, ObserveFunding(s)
      PROVE  IInv'
  <2>1. Shapes' /\ Decided' /\ UNCHANGED outbox
    BY <1>6 DEF ObserveFunding
  <2>2. Sent'
    BY <1>6 DEF ObserveFunding, FundingVisible, Written
  <2> QED
    BY <2>1, <2>2, SameOutboxes
<1>7. ASSUME NEW s \in Sessions, Lightning(s)
      PROVE  IInv'
  BY <1>7, SameOutboxes DEF Lightning, Written
<1>8. ASSUME NEW s \in Sessions, Restart(s)
      PROVE  IInv'
  BY <1>8, SameOutboxes DEF Restart, Written
<1>9. CASE UNCHANGED vars
  BY <1>9, SameOutboxes DEF vars, Written
<1> QED
  BY <1>1, <1>2, <1>3, <1>4, <1>5, <1>6, <1>7, <1>8, <1>9 DEF Next

LEMMA Invariance == Spec => []IInv
  BY InvInit, InvStep, PTL DEF Spec

(* Whatever coins the wallet offers to however many sessions, every durable *)
(* transaction balances asset by asset and satisfies the scripts of its     *)
(* inputs, and no refund waits for its lock height (liquid.rs make_funding  *)
(* and make_spend).                                                         *)
THEOREM PersistedIsValidAlways == Spec => []PersistedIsValid
  BY Invariance, InvPersisted, PTL

(* The asset of a session leaves its HTLC at most once, whole and for this  *)
(* session's destination, never by both branches, for any number of         *)
(* sessions that spend from one wallet (swaps/liquid.rs, the witness script *)
(* of chain/htlc_script.rs).                                                *)
THEOREM HtlcPaysOneSideAlways == Spec => []HtlcPaysOneSide
  BY Invariance, InvOneSide, PTL
================================================================================
