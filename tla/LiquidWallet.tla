----------------------------- MODULE LiquidWallet -----------------------------
(***************************************************************************)
(* The Elements wallet that several sessions share (--elements-wallet,     *)
(* cli/commands.rs): coin selection and the signed transactions of         *)
(* swaps/liquid.rs and chain/liquid.rs over the HTLC of                    *)
(* chain/htlc_script.rs, from the outbox files to the chain.               *)
(*                                                                         *)
(* What SwapRunner decides about one session (when it funds, pays, claims  *)
(* or refunds) is reduced to the conditions under which a transaction is   *)
(* signed; keys and hashes are those of their session.                     *)
(***************************************************************************)
EXTENDS Naturals, Sequences

CONSTANTS
    Sessions,
    PaymentAsset, FeeAsset,
    LiquidityAmount,    \* sats of each output that the wallet starts with
    Amount,             \* [session -> sats that its HTLC locks]
    Fee,                \* [session -> sats of each of its transactions' fee]
    Lock,               \* [session -> refund_lock_height]
    MaxHeight,          \* bound: block heights above it are not told apart
    MaxRestarts,        \* bound on the runs that die
    None

ASSUME WalletAssumption ==
    /\ PaymentAsset # FeeAsset
    /\ Amount \in [Sessions -> Nat \ {0}]
    /\ Fee \in [Sessions -> Nat \ {0}]
    /\ Lock \in [Sessions -> Nat \ {0}]
    /\ LiquidityAmount \in Nat /\ MaxHeight \in Nat /\ MaxRestarts \in Nat

VARIABLES
    outbox,     \* [session -> [kind -> signed transaction, or None]], written once
    mempool,    \* identities of unconfirmed transactions
    chain,      \* identities of confirmed transactions
    height,
    observed,   \* sessions whose run holds the evidence of the locked asset
    fate,       \* what Lightning decided: open, paid, failed
    restarts

vars == <<outbox, mempool, chain, height, observed, fate, restarts>>

Kinds == {"funding", "claim", "refund"}

-------------------------------------------------------------------------------
\* Scripts, by the session whose keys, hash and lock height they commit to.
Wallet == <<"wallet">>
Htlc(s) == <<"htlc", s>>
Destination(s) == <<"destination", s>>
FeeScript == <<>>

Out(asset, sats, script) == [asset |-> asset, sats |-> sats, script |-> script]
In(coin, witness) == [coin |-> coin, witness |-> witness]

\* An output of nothing is left out.
Change(asset, sats) == IF sats > 0 THEN <<Out(asset, sats, Wallet)>> ELSE <<>>

\* prepare_explicit_liquidity, confirmed: two coins of each asset.
Liquidity ==
    LET Coin(asset) == Out(asset, LiquidityAmount, Wallet)
    IN  [ins |-> <<>>, lock_time |-> 0,
         outs |-> <<Coin(PaymentAsset), Coin(PaymentAsset), Coin(FeeAsset), Coin(FeeAsset)>>]

\* An outbox is written once, so a session and a kind name one transaction.
LiquidityId == <<"wallet", "liquidity">>
Transaction(id) == IF id = LiquidityId THEN Liquidity ELSE outbox[id[1]][id[2]]

\* A coin is named by its transaction and its place in it, counted from 1.
FundingCoin(s) == <<<<s, "funding">>, 1>>

CoinsOf(ids) == UNION {{<<id, n>> : n \in DOMAIN Transaction(id).outs} : id \in ids}
Inputs(tx) == {tx.ins[i].coin : i \in DOMAIN tx.ins}
Spent(ids) == UNION {Inputs(Transaction(id)) : id \in ids}
Output(coin) == Transaction(coin[1]).outs[coin[2]]

\* listunspent with one confirmation; what select_utxo may find first in it.
Selectable(asset, minimum) ==
    {coin \in CoinsOf(chain) \ Spent(chain \cup mempool) :
        /\ Output(coin).script = Wallet
        /\ Output(coin).asset = asset
        /\ Output(coin).sats >= minimum}

FundingTx(s, payment, fee) ==
    [ins |-> <<In(payment, Wallet), In(fee, Wallet)>>,
     lock_time |-> 0,
     outs |-> <<Out(PaymentAsset, Amount[s], Htlc(s))>>
                \o Change(PaymentAsset, Output(payment).sats - Amount[s])
                \o Change(FeeAsset, Output(fee).sats - Fee[s])
                \o <<Out(FeeAsset, Fee[s], FeeScript)>>]

\* Mutant: both branches may be mined at once.
SpendLockTimeZero(s, kind) == 0

SpendLockTime(s, kind) == IF kind = "refund" THEN Lock[s] ELSE 0

\* The preimage goes with the claim key, and only with it.
BranchWitness(s, kind) == <<kind, s>>

SpendTx(s, kind, fee) ==
    [ins |-> <<In(FundingCoin(s), BranchWitness(s, kind)), In(fee, Wallet)>>,
     lock_time |-> SpendLockTime(s, kind),
     outs |-> <<Out(PaymentAsset, Amount[s], Destination(s))>>
                \o Change(FeeAsset, Output(fee).sats - Fee[s])
                \o <<Out(FeeAsset, Fee[s], FeeScript)>>]

-------------------------------------------------------------------------------
\* The witness script of htlc_script.rs, and a key's own script.
Unlocks(tx, in) ==
    LET script == Output(in.coin).script
    IN  \/ script = Wallet /\ in.witness = Wallet
        \/ \E s \in Sessions :
            /\ script = Htlc(s)
            /\ \/ in.witness = <<"claim", s>>
               \/ in.witness = <<"refund", s>> /\ tx.lock_time >= Lock[s]

\* Sats of an asset in a list of outputs; no transaction here has more than four.
Sats(outs, asset) ==
    LET At(n) == IF n \in DOMAIN outs /\ outs[n].asset = asset THEN outs[n].sats ELSE 0
    IN  At(1) + At(2) + At(3) + At(4)

\* What the node asks of a transaction whatever the chain is, given its coins.
Valid(tx) ==
    LET spent == [i \in DOMAIN tx.ins |-> Output(tx.ins[i].coin)]
    IN  /\ \A i, j \in DOMAIN tx.ins : tx.ins[i].coin = tx.ins[j].coin => i = j
        /\ \A i \in DOMAIN tx.ins : Unlocks(tx, tx.ins[i])
        /\ \A asset \in {PaymentAsset, FeeAsset} : Sats(tx.outs, asset) = Sats(spent, asset)

\* The node takes a transaction whose coins are there, and mature at the next block.
Accepts(tx) ==
    /\ Inputs(tx) \subseteq CoinsOf(chain \cup mempool) \ Spent(chain \cup mempool)
    /\ tx.lock_time <= height
    /\ Valid(tx)

Init ==
    /\ outbox = [s \in Sessions |-> [k \in Kinds |-> None]]
    /\ chain = {LiquidityId}
    /\ mempool = {}
    /\ height = 1
    /\ observed = {}
    /\ fate = [s \in Sessions |-> "open"]
    /\ restarts = 0

Persist(s, kind, tx) ==
    /\ outbox[s][kind] = None
    /\ outbox' = [outbox EXCEPT ![s][kind] = tx]
    /\ UNCHANGED <<mempool, chain, height, observed, fate, restarts>>

\* Signing reads the wallet once; nothing that happens before the file is
\* written makes a difference to it.
PrepareFunding(s) ==
    /\ fate[s] = "open"
    /\ \E payment \in Selectable(PaymentAsset, Amount[s]), fee \in Selectable(FeeAsset, Fee[s]) :
            /\ payment # fee
            /\ Persist(s, "funding", FundingTx(s, payment, fee))

Spend(s, kind) ==
    \E fee \in Selectable(FeeAsset, Fee[s]) :
        /\ fee # FundingCoin(s)
        /\ Persist(s, kind, SpendTx(s, kind, fee))

PrepareClaim(s) ==
    /\ s \in observed
    /\ fate[s] = "paid"
    /\ Spend(s, "claim")

\* Mutant: the claim outbox is not looked at.
PrepareRefundAnyway(s) ==
    /\ fate[s] # "open"
    /\ outbox[s]["funding"] # None
    /\ height >= Lock[s]
    /\ Spend(s, "refund")

\* The refund trusts the funding outbox, whether it ever was broadcast or not.
PrepareRefund(s) ==
    /\ fate[s] = "failed"
    /\ outbox[s]["claim"] = None
    /\ outbox[s]["funding"] # None
    /\ height >= Lock[s]
    /\ Spend(s, "refund")

Known(id) == id \in chain \cup mempool

\* Mutant: only the run that wrote the outbox broadcasts it.
BroadcastOnce(s, kind) ==
    LET id == <<s, kind>>
    IN  /\ outbox[s][kind] # None
        /\ ~Known(id)
        /\ kind = "claim" => s \in observed
        /\ Accepts(outbox[s][kind])
        /\ mempool' = mempool \cup {id}
        /\ UNCHANGED <<outbox, chain, height, observed, fate, restarts>>

(* Any run of the session sends the outbox again.  One that the node knows  *)
(* is fine and changes nothing; one that it refuses is an error.            *)
Broadcast(s, kind) ==
    LET id == <<s, kind>>
    IN  /\ outbox[s][kind] # None
        /\ ~Known(id)
        /\ Accepts(outbox[s][kind])
        /\ mempool' = mempool \cup {id}
        /\ UNCHANGED <<outbox, chain, height, observed, fate, restarts>>

\* inspect_liquid_htlc_output: confirmed, unspent, and room before the lock.
FundingVisible(s) ==
    /\ <<s, "funding">> \in chain
    /\ FundingCoin(s) \notin Spent(chain \cup mempool)
    /\ Output(FundingCoin(s)) = Out(PaymentAsset, Amount[s], Htlc(s))
    /\ height + 1 < Lock[s]

ObserveFunding(s) ==
    /\ FundingVisible(s)
    /\ observed' = observed \cup {s}
    /\ UNCHANGED <<outbox, mempool, chain, height, fate, restarts>>

\* The run that saw the asset locked pays, or Lightning ends without a payment.
Lightning(s) ==
    /\ fate[s] = "open"
    /\ \/ s \in observed /\ fate' = [fate EXCEPT ![s] = "paid"]
       \/ fate' = [fate EXCEPT ![s] = "failed"]
    /\ UNCHANGED <<outbox, mempool, chain, height, observed, restarts>>

\* By the adapter's confirm_* or by somebody else; a block takes the whole mempool.
Mine ==
    /\ height < MaxHeight \/ mempool # {}
    /\ height' = IF height < MaxHeight THEN height + 1 ELSE height
    /\ chain' = chain \cup mempool
    /\ mempool' = {}
    /\ UNCHANGED <<outbox, observed, fate, restarts>>

\* A session's run dies, and with it what it had observed.
Restart(s) ==
    /\ s \in observed
    /\ restarts < MaxRestarts
    /\ restarts' = restarts + 1
    /\ observed' = observed \ {s}
    /\ UNCHANGED <<outbox, mempool, chain, height, fate>>

Next ==
    \/ Mine
    \/ \E s \in Sessions :
        \/ PrepareFunding(s) \/ PrepareClaim(s) \/ PrepareRefund(s)
        \/ \E kind \in Kinds : Broadcast(s, kind)
        \/ ObserveFunding(s) \/ Lightning(s) \/ Restart(s)

(* A resumed run broadcasts, observes and claims again; blocks are mined by *)
(* the run itself where it waits for one.                                   *)
Fairness ==
    /\ WF_vars(Mine)
    /\ \A s \in Sessions : /\ WF_vars(ObserveFunding(s))
                           /\ WF_vars(PrepareClaim(s))
                           /\ \A kind \in Kinds : WF_vars(Broadcast(s, kind))

Spec == Init /\ [][Next]_vars /\ Fairness
-------------------------------------------------------------------------------
(* Whatever coins the wallet offered in whatever order: a transaction that  *)
(* was made durable, and so can never be replaced, satisfies the scripts of *)
(* all its inputs and moves exactly what they hold, asset by asset; a       *)
(* refund needs no further wait, and a claim none at all (liquid.rs         *)
(* make_funding and make_spend, chain/liquid.rs).                           *)
PersistedIsValid ==
    \A s \in Sessions, kind \in Kinds : outbox[s][kind] # None =>
        /\ Valid(outbox[s][kind])
        /\ outbox[s][kind].lock_time <= IF kind = "refund" THEN height ELSE 0

(* The asset locked for a session leaves its HTLC at most once, whole, for  *)
(* this session's destination: not before the lock height by a refund, not  *)
(* by both branches, and never as another session's coin, though all of     *)
(* them spend from one wallet.                                              *)
HtlcPaysOneSide ==
    \A s \in Sessions :
        /\ ~(Known(<<s, "claim">>) /\ Known(<<s, "refund">>))
        /\ \A id \in chain \cup mempool : FundingCoin(s) \in Inputs(Transaction(id)) =>
            /\ id \in {<<s, "claim">>, <<s, "refund">>}
            /\ Transaction(id).outs[1] = Out(PaymentAsset, Amount[s], Destination(s))
            /\ id[2] = "refund" => fate[s] = "failed" /\ height >= Lock[s]

\* observe_claim: confirmed, spending the HTLC, with the preimage in its witness.
ClaimObserved(s) ==
    /\ <<s, "claim">> \in chain
    /\ \E i \in DOMAIN outbox[s]["claim"].ins :
            outbox[s]["claim"].ins[i] = In(FundingCoin(s), <<"claim", s>>)

\* A resume without a claim outbox is refused near the lock height (SwapRunner).
Late(s) == outbox[s]["claim"] = None /\ height + 1 >= Lock[s]

\* The fee coin of the session's claim went into a transaction of another.
Raced(s) ==
    /\ outbox[s]["claim"] # None
    /\ \E id \in chain : /\ id[1] # s
                         /\ Inputs(Transaction(id)) \cap Inputs(outbox[s]["claim"]) # {}

(* A paid session's claim finds a fee coin, which its own funding never set *)
(* aside, and gets into the chain, through deaths of the run and whatever   *)
(* the other sessions do with the wallet but take that very coin.           *)
PaidIsClaimedUnlessRaced ==
    \A s \in Sessions : fate[s] = "paid" ~> ClaimObserved(s) \/ Late(s) \/ Raced(s)

(* Once a payment is verified, recovery completes the claim                 *)
(* (src/api-contract.md:64), also beside other sessions.                    *)
PaidIsClaimedUnlessLate ==
    \A s \in Sessions : fate[s] = "paid" ~> ClaimObserved(s) \/ Late(s)
===============================================================================
