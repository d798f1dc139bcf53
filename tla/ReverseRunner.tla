----------------------------- MODULE ReverseRunner -----------------------------
(***************************************************************************)
(* One Lightning -> TEST-DEPIX swap: runs of the library's                 *)
(* run_reverse_swap (swaps/orchestrator.rs), which has the payer's node    *)
(* pay the hold invoice first, then funds the Liquid contract, claims it,  *)
(* and only then settles the hold.  It shares with the forward direction   *)
(* the invoice, the outboxes, the calls to the nodes and the refund, whose *)
(* actions are those of SwapRunner.  Its callers pass NoopSwapObserver:    *)
(* there are no swap rows and there is no reservation.                     *)
(***************************************************************************)
EXTENDS SwapRunner, Integers

CONSTANTS
    BlockRatio,     \* BITCOIN_BLOCK_SECONDS in units of LIQUID_BLOCK_SECONDS
    ClaimMargin,    \* claim_margin_seconds in units of LIQUID_BLOCK_SECONDS
    Paced           \* whether blocks keep to the pace that BlockRatio assumes

ASSUME ReverseAssumption ==
    {BlockRatio, ClaimMargin} \subseteq Nat /\ Paced \in BOOLEAN

VARIABLES
    left,       \* each run's HTLC expiry less tip, from its observe_accepted
    lastBlock   \* Liquid height at which the last Lightning block came

reverseVars == <<vars, left, lastBlock>>

ReverseTypeOK ==
    TypeOK /\ left \in [Runners -> Int] /\ lastBlock \in 0..height

ReverseInit == Init /\ left = [p \in Runners |-> 0] /\ lastBlock = 0

Ours(A) == A /\ UNCHANGED <<left, lastBlock>>

ReverseStart(p) ==
    /\ pc[p] = "idle"
    /\ Goto(p, "invoice") /\ Forget(p)
    /\ UNCHANGED <<disk, maker, lightning, chain, refunder, faults>>

\* Mutant: the order of the forward direction, the hold before the claim.
AfterPhaseForward == [ph_pending |-> "pay", ph_funding |-> "bc_funding",
                      ph_locked |-> "settle", ph_claim |-> "bc_claim"]

\* NoopSwapObserver: what follows each phase of the reverse order.
AfterPhase == [ph_pending |-> "pay", ph_funding |-> "bc_funding", ph_locked |-> "claim",
               ph_claim |-> "bc_claim"]

NoopPhase(p) ==
    /\ \/ pc[p] \in DOMAIN AfterPhase /\ Goto(p, AfterPhase[pc[p]]) /\ UNCHANGED loc
       \/ pc[p] = "ph_output" /\ Stop(p)
    /\ UNCHANGED <<disk, maker, lightning, chain, refunder, faults>>

\* The expiry and the tip of this moment are what the timing check will use.
ObserveHold(p) ==
    /\ ObserveAccepted(p, IF loc[p].replay THEN "settle" ELSE "timing")
    /\ left' = [left EXCEPT ![p] = expiry - tip]
    /\ UNCHANGED lastBlock

\* Mutant: the time left of the HTLC is not compared with that of the refund.
CheckReverseTimingLock(p) ==
    /\ pc[p] = "timing"
    /\ IF height < Lock THEN Goto(p, "funding") /\ UNCHANGED loc ELSE Abort(p)
    /\ UNCHANGED <<disk, maker, lightning, chain, refunder, faults>>

\* validate_reverse_timing: the payer's HTLC must outlast the refund lock.
ReverseTiming(p) ==
    /\ left[p] > 0 /\ height < Lock
    /\ left[p] * BlockRatio > (Lock - height) + ClaimMargin

CheckReverseTiming(p) ==
    /\ pc[p] = "timing"
    /\ IF ReverseTiming(p) THEN Goto(p, "funding") /\ UNCHANGED loc ELSE Abort(p)
    /\ UNCHANGED <<disk, maker, lightning, chain, refunder, faults>>

\* Mutant: a replay is content with the claim.
AfterReverseClaimOnly(p) == IF loc[p].replay THEN "ph_output" ELSE "settle"

\* A replay goes on to look at the invoice, a run has done so before.
AfterReverseClaim(p) == IF loc[p].replay THEN "accept" ELSE "settle"

ReverseStep(p) ==
    \/ ObserveHold(p)
    \/ Ours(\/ EnsureInvoice(p) \/ ReadClaimOutbox(p, "ph_pending")
            \/ Pay(p) \/ PayReturns(p) \/ CheckReverseTiming(p)
            \/ ReadFundingOutbox(p) \/ PersistFunding(p)
            \/ BroadcastFunding(p) \/ ObserveFunding(p) \/ ObserveFundingAgain(p)
            \/ PersistClaim(p) \/ BroadcastClaim(p)
            \/ ObserveClaim(p, AfterReverseClaim(p))
            \/ ObserveClaimAgain(p, AfterReverseClaim(p))
            \/ SettleInvoice(p) \/ TrackSuccess(p)
            \/ NoopPhase(p) \/ CancelIfAccepted(p))

-------------------------------------------------------------------------------
(* "Conservative" block times: a Lightning block takes at least BlockRatio  *)
(* Liquid blocks, and none is found between the calls that read the tip and *)
(* the Liquid height.  At the end of the bounded Liquid chain, Lightning    *)
(* blocks still come.                                                       *)
Prompt == \A p \in Runners : pc[p] # "timing"

ReverseLightningBlock ==
    /\ LightningBlock
    /\ Paced => Prompt /\ (height - lastBlock >= BlockRatio \/ height >= MaxMined)
    /\ lastBlock' = height
    /\ UNCHANGED left

Nodes ==
    \/ Ours(HtlcArrives \/ PaymentFails \/ PaymentSucceeds \/ InvoiceCancels \/ LiquidBlock)
    \/ ReverseLightningBlock

ReverseNext ==
    \/ \E p \in Runners : \/ Ours(\/ ReverseStart(p) \/ Fail(p) \/ Crash(p)
                                  \/ FailWriting(p) \/ CrashWriting(p))
                          \/ ReverseStep(p)
    \/ Ours(RefundStep \/ RefundFails)
    \/ Nodes

ReverseSpec == ReverseInit /\ [][ReverseNext]_reverseVars

(* As for the forward direction: runs go on and are resumed, the refund is  *)
(* called, blocks come; the nodes cancel a hold at its expiry, and a payer  *)
(* learns what became of its payment.                                       *)
ReverseFairness ==
    /\ \A p \in Runners : WF_reverseVars(ReverseStep(p)) /\ WF_reverseVars(Ours(ReverseStart(p)))
    /\ WF_reverseVars(Ours(RefundStep))
    /\ WF_reverseVars(Ours(PaymentSucceeds)) /\ WF_reverseVars(Ours(PaymentFails))
    /\ WF_reverseVars(Ours(InvoiceCancels))
    /\ SF_reverseVars(ReverseLightningBlock) /\ WF_reverseVars(Ours(LiquidBlock))

ReverseFairSpec == ReverseSpec /\ ReverseFairness

-------------------------------------------------------------------------------
(* With one run at a time: whoever broadcasts the funding has the payer's   *)
(* money held, from before until the HTLC expires, as no error, crash or    *)
(* resume cancels the hold in between.  A funding that was only recorded,   *)
(* as write_outbox erred after its file was complete and the hold was       *)
(* canceled for that, is never broadcast (run_reverse_swap's                *)
(* funding_exposed, run_reverse_after_invoice's order, ensure_invoice).     *)
HoldCoversFunding ==
    (\E t \in FundingTxs : fundingTx[t] # "NONE") =>
        accepted /\ (invoice \in {"ACCEPTED", "SETTLED"} \/ expiry <= tip)

(* The held money is taken only after the asset arrived: no hold is settled *)
(* before the claim is in a block (run_reverse_after_invoice, claim before  *)
(* settle_invoice; replay_completed, observe_claim before it).              *)
SettleNeedsClaim == invoice = "SETTLED" => claimTx = "CONFIRMED"

(* The asset goes back only when the held money went back too, although the *)
(* refund reads the payment and the invoice one after the other while runs  *)
(* may pay again (refund_funded_swap against pay_if_open).                  *)
RefundNeedsDrop ==
    refundTx # "NONE" => invoice = "CANCELED" /\ payment # "SUCCEEDED"

(* With blocks that keep to their pace, an HTLC that passed the timing      *)
(* check is good for a settlement, headroom included, for as long as the    *)
(* asset cannot be refunded: validate_reverse_timing, with a margin of at   *)
(* least MIN_ACCEPTED_HEADROOM_BLOCKS + 1 Lightning blocks.                 *)
HoldOutlivesLock ==
    fundingOutbox # NoTx /\ height <= Lock => expiry > tip + MinHeadroom

(* A claim that was prepared is paid for, through crashes and resumes,      *)
(* unless the HTLC came too close to its expiry meanwhile; one that expires *)
(* after MaxTip + MinHeadroom never does here (replay_completed).           *)
ClaimIsPaid ==
    claimOutbox ~> \/ invoice = "SETTLED" /\ payment = "SUCCEEDED"
                   \/ expiry <= tip + MinHeadroom

(* A locked asset is on its way out in the end: its claim is prepared, or   *)
(* it is returned after the hold expired (run_reverse_swap resumed against  *)
(* refund_funded_swap).  An HTLC that expires after MaxTip never does here. *)
FundedIsDecided ==
    (\E t \in FundingTxs : fundingTx[t] = "CONFIRMED") ~>
        claimOutbox \/ refundTx # "NONE" \/ expiry > MaxTip
===============================================================================
