-------------------------- MODULE ReverseRunnerProofs --------------------------
(***************************************************************************)
(* The safety of ReverseRunner, for any number of concurrent runs and any  *)
(* heights, delays and bounds: its types, that the hold is settled only    *)
(* after the claim, that a refund means a dropped hold, and that with      *)
(* paced blocks the margin of the timing check does what it is for.        *)
(***************************************************************************)
EXTENDS ReverseRunner, SwapRunnerProofs

USE BoundsAssumption, ReverseAssumption

\* The steps of a run that the forward direction has as well.
Common(p) ==
    \/ EnsureInvoice(p) \/ Pay(p) \/ PayReturns(p)
    \/ ReadFundingOutbox(p) \/ PersistFunding(p)
    \/ BroadcastFunding(p) \/ ObserveFunding(p) \/ ObserveFundingAgain(p)
    \/ PersistClaim(p) \/ BroadcastClaim(p) \/ SettleInvoice(p) \/ TrackSuccess(p)
    \/ CancelIfAccepted(p)

\* Those whose order, or whose check, is its own.
Own(p) ==
    \/ ReverseStart(p) \/ ReadClaimOutbox(p, "ph_pending")
    \/ CheckReverseTiming(p) \/ NoopPhase(p)
    \/ ObserveClaim(p, AfterReverseClaim(p)) \/ ObserveClaimAgain(p, AfterReverseClaim(p))

Dies(p) == Fail(p) \/ Crash(p) \/ FailWriting(p) \/ CrashWriting(p)

RunMove(p) == Ours(Common(p) \/ Own(p) \/ Dies(p)) \/ ObserveHold(p)

\* The steps of the nodes, and the blocks of the Liquid chain.
NodeMove ==
    HtlcArrives \/ PaymentFails \/ PaymentSucceeds \/ InvoiceCancels \/ LiquidBlock

LEMMA Cases ==
    ASSUME ReverseNext
    PROVE  \/ \E p \in Runners : RunMove(p)
           \/ Ours(RefundStep \/ RefundFails \/ NodeMove)
           \/ ReverseLightningBlock
  BY DEF ReverseNext, ReverseStep, Ours, Common, Own, Dies, RunMove, Nodes, NodeMove

-------------------------------------------------------------------------------
LEMMA CommonIsForward ==
    ASSUME NEW p \in Runners, Common(p) \/ Dies(p)
    PROVE  Next
  BY DEF Common, Dies, RunnerStep, Next

LEMMA OwnType ==
    ASSUME TypeOK, NEW p \in Runners, Own(p)
    PROVE  TypeOK'
<1> USE DEF disk, maker, lightning, chain, local
<1>1. CASE ReverseStart(p)
  <2>1. LocalTypeOK'
    BY <1>1, FreshType DEF ReverseStart, TypeOK, LocalTypeOK, Goto, Forget, Steps, WithTx
  <2> QED
    BY <1>1, <2>1 DEF ReverseStart, TypeOK, LocalTypeOK
<1>2. CASE ReadClaimOutbox(p, "ph_pending")
  BY <1>2, ReadClaimOutboxType DEF Steps, WithTx
<1>3. CASE CheckReverseTiming(p)
  BY <1>3, AbortType, GotoType DEF CheckReverseTiming, TypeOK, LocalTypeOK, Steps, WithTx
<1>4. CASE NoopPhase(p)
  <2>1. CASE pc[p] \in DOMAIN AfterPhase /\ Goto(p, AfterPhase[pc[p]]) /\ UNCHANGED loc
    <3>1. /\ AfterPhase[pc[p]] \in Steps
          /\ AfterPhase[pc[p]] \in WithTx => pc[p] \in WithTx
      BY <2>1 DEF AfterPhase, Steps, WithTx
    <3>2. LocalTypeOK'
      BY <2>1, <3>1, GotoType
    <3> QED
      BY <1>4, <3>2 DEF NoopPhase, TypeOK, LocalTypeOK
  <2>2. CASE Stop(p)
    BY <1>4, <2>2, StopType DEF NoopPhase, TypeOK, LocalTypeOK
  <2> QED
    BY <1>4, <2>1, <2>2 DEF NoopPhase
<1>5. CASE ObserveClaim(p, AfterReverseClaim(p))
  <2>1. LocalTypeOK'
    BY <1>5, StopType, GotoType
    DEF ObserveClaim, Confirm, TypeOK, AfterReverseClaim, Steps, WithTx
  <2> QED
    BY <1>5, <2>1, MineType DEF ObserveClaim, Confirm, TypeOK, LocalTypeOK
<1>6. CASE ObserveClaimAgain(p, AfterReverseClaim(p))
  BY <1>6, StopType, GotoType
  DEF ObserveClaimAgain, AfterReverseClaim, TypeOK, Steps, WithTx, LocalTypeOK
<1> QED
  BY <1>1, <1>2, <1>3, <1>4, <1>5, <1>6 DEF Own

LEMMA HoldType ==
    ASSUME TypeOK, NEW p \in Runners, NEW then \in {"settle", "timing"},
           ObserveAccepted(p, then)
    PROVE  TypeOK'
<1> USE DEF disk, maker, lightning, chain, local
<1>1. CASE Abort(p)
  BY <1>1, AbortType DEF ObserveAccepted, TypeOK, LocalTypeOK
<1>2. CASE loc' = [loc EXCEPT ![p].inv = invoice] /\ Goto(p, then)
  <2>1. LocalTypeOK'
    BY <1>2 DEF TypeOK, LocalTypeOK, Goto, Locals, Steps, WithTx
  <2> QED
    BY <2>1 DEF ObserveAccepted, TypeOK, LocalTypeOK
<1> QED
  BY <1>1, <1>2 DEF ObserveAccepted

LEMMA ObserveHoldType ==
    ASSUME ReverseTypeOK, NEW p \in Runners, ObserveHold(p)
    PROVE  TypeOK' /\ left' \in [Runners -> Int]
<1>1. (IF loc[p].replay THEN "settle" ELSE "timing") \in {"settle", "timing"}
  OBVIOUS
<1>2. TypeOK'
  BY <1>1, HoldType DEF ReverseTypeOK, ObserveHold
<1>3. left' \in [Runners -> Int]
  BY DEF ReverseTypeOK, ObserveHold, TypeOK
<1> QED
  BY <1>2, <1>3

\* The Liquid chain only grows.
LEMMA HeightGrows ==
    ASSUME TypeOK,
           \/ \E p \in Runners : RunMove(p)
           \/ RefundStep \/ RefundFails \/ NodeMove
    PROVE  height' = height \/ MineBlock
<1> USE DEF disk, maker, lightning, chain, local
<1>1. ASSUME NEW p \in Runners, RunMove(p) PROVE height' = height \/ MineBlock
  <2>1. CASE Common(p)
    BY <2>1 DEF Common, EnsureInvoice, Pay, PayReturns, ReadFundingOutbox, PersistFunding,
       BroadcastFunding, ObserveFunding, ObserveFundingAgain, PersistClaim, BroadcastClaim,
       SettleInvoice, TrackSuccess, CancelIfAccepted, Confirm
  <2>2. CASE Own(p)
    BY <2>2 DEF Own, ReverseStart, ReadClaimOutbox, CheckReverseTiming, NoopPhase,
       ObserveClaim, ObserveClaimAgain, Confirm
  <2>3. CASE Dies(p) \/ ObserveHold(p)
    BY <2>3 DEF Dies, Fail, Crash, FailWriting, CrashWriting, ObserveHold, ObserveAccepted
  <2> QED
    BY <1>1, <2>1, <2>2, <2>3 DEF RunMove, Ours
<1>2. CASE RefundStep \/ RefundFails
  BY <1>2 DEF RefundStep, RefundFails, RefundTrackPayment, RefundLookupInvoice, RefundPersist,
     RefundBroadcast, RefundObserve, RefundObserveAgain, RefundGoto
<1>3. CASE NodeMove
  BY <1>3 DEF NodeMove, HtlcArrives, PaymentFails, PaymentSucceeds, InvoiceCancels, LiquidBlock
<1> QED
  BY <1>1, <1>2, <1>3

LEMMA ReverseTypeStep == ReverseTypeOK /\ [ReverseNext]_reverseVars => ReverseTypeOK'
<1> SUFFICES ASSUME ReverseTypeOK, [ReverseNext]_reverseVars PROVE ReverseTypeOK'
  OBVIOUS
<1>0. TypeOK /\ left \in [Runners -> Int] /\ lastBlock \in 0..height
  BY DEF ReverseTypeOK
<1>1. CASE UNCHANGED reverseVars
  <2>1. UNCHANGED vars
    BY <1>1 DEF reverseVars
  <2>2. TypeOK' /\ height' = height
    BY <1>0, <2>1, TypeStep DEF vars, chain
  <2> QED
    BY <1>0, <1>1, <2>2 DEF ReverseTypeOK, reverseVars
<1>2. CASE \E p \in Runners : RunMove(p)
  <2>1. PICK p \in Runners : RunMove(p)
    BY <1>2
  <2>2. TypeOK' /\ left' \in [Runners -> Int] /\ lastBlock' = lastBlock
    BY <1>0, <2>1, CommonIsForward, TypeStep, OwnType, ObserveHoldType
    DEF RunMove, Ours, ObserveHold
  <2>3. height' = height \/ height' = height + 1
    BY <1>0, <2>1, HeightGrows DEF MineBlock
  <2> QED
    BY <1>0, <2>2, <2>3 DEF ReverseTypeOK, TypeOK
<1>3. CASE Ours(RefundStep \/ RefundFails \/ NodeMove)
  <2>1. Next
    BY <1>3 DEF Ours, NodeMove, Next, Environment
  <2>2. TypeOK'
    BY <1>0, <2>1, TypeStep
  <2>3. height' = height \/ height' = height + 1
    BY <1>0, <1>3, HeightGrows DEF Ours, MineBlock
  <2> QED
    BY <1>0, <1>3, <2>2, <2>3 DEF Ours, ReverseTypeOK, TypeOK
<1>4. CASE ReverseLightningBlock
  <2>1. Next
    BY <1>4 DEF ReverseLightningBlock, Next, Environment
  <2>2. TypeOK'
    BY <1>0, <2>1, TypeStep
  <2> QED
    BY <1>0, <1>4, <2>2 DEF ReverseLightningBlock, LightningBlock, chain, ReverseTypeOK, TypeOK
<1> QED
  BY <1>1, <1>2, <1>3, <1>4, Cases

(* For any runs and bounds the types are kept in the reverse direction too,  *)
(* among them that no Lightning block is dated above the Liquid chain.       *)
THEOREM ReverseTypeCorrect == ReverseSpec => []ReverseTypeOK
<1>1. ReverseInit => ReverseTypeOK
  BY TypeInit DEF ReverseInit, ReverseTypeOK, Init
<1> QED
  BY <1>1, ReverseTypeStep, PTL DEF ReverseSpec

-------------------------------------------------------------------------------
(* What a step of one run may do, as far as the invariants are concerned.   *)
Claiming == {"bc_claim", "obs_claim", "obs_claim2"}

Calls(p) ==
    /\ UNCHANGED <<accepted, expiry, tip, refunder, refundOutbox>>
    /\ height' \in {height, height + 1}
    /\ claimTx = "CONFIRMED" => claimTx' = "CONFIRMED"
    /\ refundTx' = "NONE" <=> refundTx = "NONE"
    /\ payment' = payment \/ (payment # "SUCCEEDED" /\ payment' = "INFLIGHT")
    /\ \/ invoice' = invoice
       \/ invoice = "NONE" /\ invoice' = "OPEN"
       \/ invoice = "ACCEPTED" /\ invoice' = "SETTLED" /\ pc[p] = "settle"
       \/ invoice = "ACCEPTED" /\ invoice' = "CANCELED" /\ pc[p] = "cancel"
    /\ \/ fundingOutbox' = fundingOutbox
       \/ fundingOutbox = NoTx /\ pc[p] = "persist" /\ pc'[p] \notin AfterInvoice

Held == accepted /\ (invoice \in {"ACCEPTED", "SETTLED"} \/ expiry <= tip)

Unexposed(p) == ~loc[p].exposed /\ ~loc[p].replay

Locally(p) ==
    /\ \A q \in Runners \ {p} : pc'[q] = pc[q] /\ loc'[q] = loc[q]
    /\ pc'[p] = "timing" => pc[p] = "accept" /\ Held /\ UNCHANGED invoice
    /\ pc'[p] = "funding" => pc[p] = "timing" /\ ReverseTiming(p) /\ UNCHANGED height
    /\ pc'[p] = "persist" => pc[p] = "funding"
    /\ pc'[p] = "settle" => claimTx = "CONFIRMED" \/ (pc[p] = "accept" /\ loc[p].replay)
    /\ pc'[p] = "cancel" => MayCancel(p) /\ UNCHANGED invoice
    /\ loc'[p].replay => \/ pc'[p] \in Claiming \/ claimTx = "CONFIRMED"
                         \/ loc[p].replay /\ pc[p] \notin Claiming
    /\ pc'[p] \in AfterInvoice /\ ~loc'[p].exposed /\ ~loc'[p].replay =>
            UNCHANGED fundingOutbox /\ (MayCancel(p) \/ fundingOutbox = NoTx)

Moves(p) == Calls(p) /\ Locally(p)

LEMMA StopMoves ==
    ASSUME TypeOK, NEW p \in Runners, Stop(p)
    PROVE  Locally(p)
  BY DEF TypeOK, Stop, Goto, Forget, Fresh, Locally, AfterInvoice

LEMMA AbortMoves ==
    ASSUME TypeOK, NEW p \in Runners, Abort(p), UNCHANGED invoice
    PROVE  Locally(p)
<1>1. CASE MayCancel(p) /\ Goto(p, "cancel") /\ UNCHANGED loc
  BY <1>1 DEF TypeOK, Goto, Locally, AfterInvoice, MayCancel, Claiming
<1>2. CASE Stop(p)
  BY <1>2, StopMoves
<1> QED
  BY <1>1, <1>2 DEF Abort

LEMMA CommonMoves ==
    ASSUME TypeOK, NEW p \in Runners, Common(p)
    PROVE  Moves(p)
<1> USE DEF disk, maker, lightning, chain, local, Moves
<1>1. CASE EnsureInvoice(p)
  BY <1>1, StopMoves
  DEF EnsureInvoice, Calls, Locally, TypeOK, Locals, Goto, AfterInvoice, Claiming
<1>2. CASE Pay(p)
  BY <1>2, AbortMoves
  DEF Pay, Payable, Calls, Locally, TypeOK, Goto, AfterInvoice, MayCancel, Claiming
<1>3. CASE PayReturns(p)
  BY <1>3, AbortMoves
  DEF PayReturns, Calls, Locally, TypeOK, Goto, AfterInvoice, MayCancel, Claiming
<1>4. CASE ReadFundingOutbox(p)
  <2>1. CASE Abort(p)
    BY <1>4, <2>1, AbortMoves DEF ReadFundingOutbox, Calls
  <2>2. CASE ~Abort(p)
    BY <1>4, <2>2
    DEF ReadFundingOutbox, Calls, Locally, TypeOK, Locals, Goto, AfterInvoice, MayCancel,
        Claiming
  <2> QED
    BY <2>1, <2>2
<1>5. CASE PersistFunding(p)
  <2>1. CASE Abort(p) /\ UNCHANGED fundingOutbox
    BY <1>5, <2>1, AbortMoves DEF PersistFunding, Calls
  <2>2. CASE ~(Abort(p) /\ UNCHANGED fundingOutbox)
    BY <1>5, <2>2
    DEF PersistFunding, Calls, Locally, TypeOK, Locals, Goto, AfterInvoice, Claiming
  <2> QED
    BY <2>1, <2>2
<1>6. CASE BroadcastFunding(p)
  BY <1>6 DEF BroadcastFunding, Calls, Locally, TypeOK, Goto, AfterInvoice, Claiming
<1>7. CASE ObserveFunding(p)
  <2>1. Calls(p)
    BY <1>7 DEF ObserveFunding, Confirm, MineBlock, Calls, TypeOK, Places
  <2>2. Locally(p)
    BY <1>7, StopMoves
    DEF ObserveFunding, Confirm, Locally, TypeOK, Goto, AfterInvoice, Claiming
  <2> QED
    BY <2>1, <2>2
<1>8. CASE ObserveFundingAgain(p)
  BY <1>8, StopMoves
  DEF ObserveFundingAgain, Calls, Locally, TypeOK, Goto, AfterInvoice, Claiming
<1>9. CASE PersistClaim(p)
  BY <1>9, StopMoves DEF PersistClaim, Calls, Locally, TypeOK, Goto, AfterInvoice, Claiming
<1>10. CASE BroadcastClaim(p)
  BY <1>10, StopMoves DEF BroadcastClaim, Calls, Locally, TypeOK, Goto, AfterInvoice, Claiming
<1>11. CASE SettleInvoice(p)
  BY <1>11, StopMoves DEF SettleInvoice, Calls, Locally, TypeOK, Goto, AfterInvoice, Claiming
<1>12. CASE TrackSuccess(p)
  BY <1>12, StopMoves DEF TrackSuccess, Calls, Locally, TypeOK, Goto, AfterInvoice, Claiming
<1>13. CASE CancelIfAccepted(p)
  BY <1>13, StopMoves DEF CancelIfAccepted, Calls
<1> QED
  BY <1>1, <1>2, <1>3, <1>4, <1>5, <1>6, <1>7, <1>8, <1>9, <1>10, <1>11, <1>12, <1>13 DEF Common

LEMMA OwnMoves ==
    ASSUME TypeOK, NEW p \in Runners, Own(p)
    PROVE  Moves(p)
<1> USE DEF disk, maker, lightning, chain, local, Moves
<1>1. CASE ReverseStart(p)
  BY <1>1 DEF ReverseStart, Calls, Locally, TypeOK, Goto, Forget, Fresh, AfterInvoice, Claiming
<1>2. CASE ReadClaimOutbox(p, "ph_pending")
  <2>1. CASE Stop(p)
    BY <1>2, <2>1, StopMoves DEF ReadClaimOutbox, Calls
  <2>2. CASE ~Stop(p)
    BY <1>2, <2>2
    DEF ReadClaimOutbox, Calls, Locally, TypeOK, Locals, Goto, AfterInvoice, Claiming
  <2> QED
    BY <2>1, <2>2
<1>3. CASE CheckReverseTiming(p)
  BY <1>3, AbortMoves
  DEF CheckReverseTiming, Calls, Locally, TypeOK, Goto, AfterInvoice, MayCancel, Claiming
<1>4. CASE NoopPhase(p)
  BY <1>4, StopMoves
  DEF NoopPhase, AfterPhase, Calls, Locally, TypeOK, Goto, AfterInvoice, MayCancel, Claiming
<1>5. CASE ObserveClaim(p, AfterReverseClaim(p))
  <2>1. Calls(p)
    BY <1>5 DEF ObserveClaim, Confirm, MineBlock, Calls, TypeOK, Places
  <2>2. Locally(p)
    BY <1>5, StopMoves
    DEF ObserveClaim, Confirm, AfterReverseClaim, Locally, TypeOK, Goto, AfterInvoice, Claiming
  <2> QED
    BY <2>1, <2>2
<1>6. CASE ObserveClaimAgain(p, AfterReverseClaim(p))
  BY <1>6, StopMoves
  DEF ObserveClaimAgain, AfterReverseClaim, Calls, Locally, TypeOK, Goto, AfterInvoice, Claiming
<1> QED
  BY <1>1, <1>2, <1>3, <1>4, <1>5, <1>6 DEF Own

LEMMA OtherMoves ==
    ASSUME ReverseTypeOK, NEW p \in Runners, Dies(p) \/ ObserveHold(p)
    PROVE  Moves(p)
<1> USE DEF disk, maker, lightning, chain, local, Moves, ReverseTypeOK
<1>1. CASE Fail(p)
  BY <1>1, AbortMoves DEF Fail, Calls
<1>2. CASE Crash(p)
  BY <1>2, StopMoves DEF Crash, Calls
<1>3. CASE FailWriting(p) \/ CrashWriting(p)
  <2>1. CASE FailWriting(p)
    <3>1. pc'[p] \notin AfterInvoice
      BY <2>1 DEF FailWriting, Abort, Stop, Goto, TypeOK, AfterInvoice
    <3> QED
      BY <2>1, <3>1, AbortMoves DEF FailWriting, Calls
  <2>2. CASE CrashWriting(p)
    BY <2>2, StopMoves DEF CrashWriting, Calls
  <2> QED
    BY <1>3, <2>1, <2>2
<1>4. CASE ObserveHold(p)
  <2>1. CASE Abort(p)
    BY <1>4, <2>1, AbortMoves DEF ObserveHold, ObserveAccepted, Calls
  <2>2. CASE ~Abort(p)
    BY <1>4, <2>2 DEF ObserveHold, ObserveAccepted, Calls, Locally, TypeOK, Locals, Goto, Held,
       AfterInvoice, MayCancel, Claiming
  <2> QED
    BY <2>1, <2>2
<1> QED
  BY <1>1, <1>2, <1>3, <1>4 DEF Dies

LEMMA RunMoves ==
    ASSUME ReverseTypeOK, NEW p \in Runners, RunMove(p)
    PROVE  /\ Moves(p) /\ lastBlock' = lastBlock
           /\ \/ left' = left /\ pc'[p] # "timing"
              \/ left' = [left EXCEPT ![p] = expiry - tip]
<1>1. Moves(p)
  BY CommonMoves, OwnMoves, OtherMoves DEF RunMove, Ours, ReverseTypeOK
<1>2. CASE ObserveHold(p)
  BY <1>1, <1>2 DEF ObserveHold
<1>3. CASE Ours(Common(p) \/ Own(p) \/ Dies(p))
  <2>1. left' = left /\ lastBlock' = lastBlock
    BY <1>3 DEF Ours
  <2>2. ASSUME pc[p] = "accept" PROVE pc'[p] # "timing"
    <3>1. Dies(p)
      BY <1>3, <2>2 DEF Ours, Common, Own, EnsureInvoice, Pay, PayReturns, ReadFundingOutbox,
         PersistFunding, BroadcastFunding, ObserveFunding, ObserveFundingAgain, PersistClaim,
         BroadcastClaim, SettleInvoice, TrackSuccess, CancelIfAccepted, ReverseStart,
         ReadClaimOutbox, CheckReverseTiming, NoopPhase, AfterPhase, ObserveClaim,
         ObserveClaimAgain
    <3> QED
      BY <3>1 DEF ReverseTypeOK, TypeOK, Dies, Fail, Crash, FailWriting, CrashWriting, Abort, Stop,
         Goto
  <2>3. pc'[p] # "timing"
    BY <1>1, <2>2 DEF Moves, Locally
  <2> QED
    BY <1>1, <2>1, <2>3
<1> QED
  BY <1>2, <1>3 DEF RunMove

(* What a step of a run may do about the funding transaction.  It is signed *)
(* once "persist" is behind the run, and sent by "bc_funding".              *)
Signed == WithTx \ {"persist"}

Funds(p) ==
    /\ \A t \in FundingTxs : \/ fundingTx'[t] = "NONE" <=> fundingTx[t] = "NONE"
                             \/ pc[p] = "bc_funding" /\ t = loc[p].tx
    /\ pc'[p] \in Signed =>
            \/ fundingOutbox' # NoTx /\ loc'[p].tx = fundingOutbox'
            \/ pc[p] \in Signed /\ loc'[p].tx = loc[p].tx /\ UNCHANGED fundingOutbox
    /\ pc'[p] \in {"ph_funding", "bc_funding"} =>
            pc[p] \in {"funding", "persist", "ph_funding"} /\ UNCHANGED invoice

LEMMA MineFunds ==
    ASSUME TypeOK, MineBlock
    PROVE  \A t \in FundingTxs : fundingTx'[t] = "NONE" <=> fundingTx[t] = "NONE"
  BY DEF MineBlock

LEMMA EndFunds ==
    ASSUME TypeOK, NEW p \in Runners, UNCHANGED fundingTx, Stop(p) \/ Abort(p)
    PROVE  Funds(p)
<1>1. pc'[p] \in {"idle", "cancel"}
  BY Ended DEF Stop, Abort, Goto, TypeOK
<1> QED
  BY <1>1 DEF Funds, Signed, WithTx

LEMMA StepFunds ==
    ASSUME TypeOK, NEW p \in Runners, NEW step \in Steps \ Signed, Goto(p, step),
           UNCHANGED fundingTx \/ MineBlock
    PROVE  Funds(p)
<1>1. pc'[p] = step
  BY DEF Goto, TypeOK
<1> QED
  BY <1>1, MineFunds DEF Funds, Signed, WithTx

LEMMA RunFunds ==
    ASSUME TypeOK, NEW p \in Runners, RunMove(p)
    PROVE  Funds(p)
<1> USE DEF disk, maker, lightning, chain, local
<1> DEFINE Ends == UNCHANGED fundingTx /\ (Stop(p) \/ Abort(p))
           Goes == /\ UNCHANGED fundingTx \/ MineBlock
                   /\ \E step \in Steps \ Signed : Goto(p, step)
<1>e. CASE Ends
  BY <1>e, EndFunds
<1>g. CASE Goes
  BY <1>g, StepFunds
<1>1. CASE \/ EnsureInvoice(p) \/ Pay(p) \/ PayReturns(p) \/ PersistClaim(p)
           \/ BroadcastClaim(p) \/ SettleInvoice(p) \/ TrackSuccess(p) \/ CancelIfAccepted(p)
  <2>1. Ends \/ Goes
    BY <1>1
    DEF EnsureInvoice, Pay, PayReturns, PersistClaim, BroadcastClaim, SettleInvoice,
        TrackSuccess, CancelIfAccepted, Steps, Signed, WithTx
  <2> QED
    BY <2>1, <1>e, <1>g
<1>2. CASE ReadFundingOutbox(p)
  <2>1. CASE Abort(p)
    BY <1>2, <2>1, <1>e DEF ReadFundingOutbox
  <2>2. CASE Goto(p, "persist")
    BY <1>2, <2>2, <1>g DEF ReadFundingOutbox, Steps, Signed, WithTx
  <2>3. CASE /\ fundingOutbox # NoTx /\ Goto(p, "ph_funding")
             /\ loc' = [loc EXCEPT ![p].tx = fundingOutbox, ![p].exposed = TRUE]
    BY <1>2, <2>3 DEF ReadFundingOutbox, Funds, TypeOK, Goto, Locals
  <2> QED
    BY <1>2, <2>1, <2>2, <2>3 DEF ReadFundingOutbox
<1>3. CASE PersistFunding(p)
  <2>1. CASE Abort(p)
    BY <1>3, <2>1, <1>e DEF PersistFunding
  <2>2. CASE /\ fundingOutbox' = loc[p].tx /\ Goto(p, "ph_funding")
             /\ loc' = [loc EXCEPT ![p].exposed = TRUE]
    <3>1. loc[p].tx \in FundingTxs /\ pc[p] = "persist" /\ UNCHANGED <<invoice, fundingTx>>
      BY <1>3 DEF PersistFunding, TypeOK, WithTx
    <3>2. pc'[p] = "ph_funding" /\ loc'[p].tx = loc[p].tx
      BY <2>2 DEF TypeOK, Goto, Locals
    <3> QED
      BY <2>2, <3>1, <3>2 DEF Funds
  <2> QED
    BY <1>3, <2>1, <2>2 DEF PersistFunding
<1>4. CASE BroadcastFunding(p)
  BY <1>4 DEF BroadcastFunding, Funds, TypeOK, Goto, Signed, WithTx
<1>5. CASE ObserveFunding(p)
  <2>1. CASE Goto(p, "obs_funding2") /\ UNCHANGED loc /\ MineBlock
    BY <1>5, <2>1, MineFunds DEF ObserveFunding, Funds, TypeOK, Goto, Signed, WithTx
  <2>2. CASE Ends \/ Goes
    BY <2>2, <1>e, <1>g
  <2> QED
    BY <1>5, <2>1, <2>2 DEF ObserveFunding, Confirm, Steps, Signed, WithTx
<1>6. CASE ObserveFundingAgain(p)
  BY <1>6, <1>e, <1>g DEF ObserveFundingAgain, Steps, Signed, WithTx
<1>7. CASE NoopPhase(p)
  <2>1. CASE pc[p] = "ph_funding" /\ Goto(p, "bc_funding") /\ UNCHANGED loc
    BY <1>7, <2>1 DEF NoopPhase, Funds, TypeOK, Goto, Signed, WithTx
  <2>2. CASE pc[p] # "ph_funding" \/ Stop(p)
    BY <1>7, <2>2, <1>e, <1>g DEF NoopPhase, AfterPhase, Steps, Signed, WithTx
  <2> QED
    BY <1>7, <2>1, <2>2 DEF NoopPhase, AfterPhase
<1>8. CASE \/ ReverseStart(p) \/ ReadClaimOutbox(p, "ph_pending") \/ CheckReverseTiming(p)
           \/ ObserveClaim(p, AfterReverseClaim(p)) \/ ObserveClaimAgain(p, AfterReverseClaim(p))
  <2>1. Ends \/ Goes
    BY <1>8
    DEF ReverseStart, ReadClaimOutbox, CheckReverseTiming, ObserveClaim, ObserveClaimAgain,
        Confirm, AfterReverseClaim, Steps, Signed, WithTx
  <2> QED
    BY <2>1, <1>e, <1>g
<1>9. CASE Dies(p)
  BY <1>9, <1>e DEF Dies, Fail, Crash, FailWriting, CrashWriting
<1>10. CASE ObserveHold(p)
  BY <1>10, <1>e, <1>g DEF ObserveHold, ObserveAccepted, Steps, Signed, WithTx
<1> QED
  BY <1>1, <1>2, <1>3, <1>4, <1>5, <1>6, <1>7, <1>8, <1>9, <1>10 DEF RunMove, Ours, Common, Own

(* What a step of anybody else may do: of the nodes, or of the refund.      *)
Elsewhere ==
    /\ UNCHANGED <<pc, loc, fundingOutbox>>
    /\ \A t \in FundingTxs : fundingTx'[t] = "NONE" <=> fundingTx[t] = "NONE"
    /\ height' \in {height, height + 1}
    /\ claimTx = "CONFIRMED" => claimTx' = "CONFIRMED"
    /\ payment' = "SUCCEEDED" => payment = "SUCCEEDED" \/ invoice = "SETTLED"
    /\ \/ UNCHANGED <<invoice, accepted, expiry>>
       \/ invoice = "OPEN" /\ invoice' = "ACCEPTED" /\ accepted' = TRUE
       \/ /\ UNCHANGED <<accepted, expiry>>
          /\ invoice = "OPEN" \/ expiry <= tip
          /\ invoice \notin {"SETTLED", "CANCELED"} /\ invoice' = "CANCELED"

Refunds ==
    /\ refunder' = "files" => refunder = "files" \/ invoice = "CANCELED"
    /\ refundOutbox' =>  refundOutbox \/ refunder = "files"
    /\ refundOutbox => refundOutbox'
    /\ refunder' \in {"broadcast", "observe", "observe2"} => refundOutbox'
    /\ refundTx' # "NONE" => refundTx # "NONE" \/ refunder = "broadcast"

LEMMA OthersMove ==
    ASSUME TypeOK, NodeMove \/ RefundStep \/ RefundFails \/ LightningBlock
    PROVE  Elsewhere /\ tip' \in {tip, tip + 1}
<1> USE DEF disk, maker, lightning, chain, local
<1>1. CASE NodeMove
  BY <1>1 DEF NodeMove, HtlcArrives, PaymentFails, PaymentSucceeds, InvoiceCancels, LiquidBlock,
     MineBlock, Elsewhere, TypeOK, InvoiceStates
<1>2. CASE RefundFails
  BY <1>2 DEF RefundFails, Elsewhere
<1>3. CASE LightningBlock
  BY <1>3 DEF LightningBlock, Elsewhere
<1>4. CASE RefundStep
  BY <1>4 DEF RefundStep, RefundTrackPayment, RefundLookupInvoice, RefundPersist,
     RefundBroadcast, RefundObserve, RefundObserveAgain, RefundGoto, MineBlock, Elsewhere
<1> QED
  BY <1>1, <1>2, <1>3, <1>4

LEMMA TipStays ==
    ASSUME TypeOK, NodeMove \/ RefundStep \/ RefundFails
    PROVE  tip' = tip
  BY DEF NodeMove, HtlcArrives, PaymentFails, PaymentSucceeds, InvoiceCancels, LiquidBlock,
     RefundStep, RefundTrackPayment, RefundLookupInvoice, RefundPersist, RefundBroadcast,
     RefundObserve, RefundObserveAgain, RefundGoto, RefundFails, lightning

LEMMA RefundMoves ==
    ASSUME TypeOK, NodeMove \/ RefundStep \/ RefundFails \/ LightningBlock,
           refunder \in {"broadcast", "observe", "observe2"} => refundOutbox
    PROVE  Refunds
<1> USE DEF disk, maker, lightning, chain, local
<1>1. CASE NodeMove
  BY <1>1 DEF NodeMove, HtlcArrives, PaymentFails, PaymentSucceeds, InvoiceCancels, LiquidBlock,
     MineBlock, Refunds
<1>2. CASE RefundFails
  BY <1>2 DEF RefundFails, Refunds
<1>3. CASE LightningBlock
  BY <1>3 DEF LightningBlock, Refunds
<1>4. CASE RefundStep
  BY <1>4 DEF RefundStep, RefundTrackPayment, RefundLookupInvoice, RefundPersist,
     RefundBroadcast, RefundObserve, RefundObserveAgain, RefundGoto, MineBlock, Refunds
<1> QED
  BY <1>1, <1>2, <1>3, <1>4

-------------------------------------------------------------------------------
(* The inductive invariant.  The first part says what each outcome rests    *)
(* on, the second what a run may rely on at its next step.                  *)
Outcomes ==
    /\ SettleNeedsClaim
    /\ payment = "SUCCEEDED" => invoice = "SETTLED"
    /\ refunder = "files" => invoice = "CANCELED"
    /\ refunder \in {"broadcast", "observe", "observe2"} => refundOutbox
    /\ refundTx # "NONE" => refundOutbox
    /\ refundOutbox => invoice = "CANCELED"
    /\ accepted => invoice \notin {"NONE", "OPEN"}
    /\ fundingOutbox # NoTx => accepted
    /\ FundedOnce

RAt(p) ==
    /\ loc[p].replay => pc[p] \in Claiming \/ claimTx = "CONFIRMED"
    /\ pc[p] = "settle" => claimTx = "CONFIRMED"
    /\ pc[p] \in {"timing", "funding", "persist"} => accepted
    /\ pc[p] \in Signed => fundingOutbox # NoTx /\ loc[p].tx = fundingOutbox

RInv == ReverseTypeOK /\ Outcomes /\ \A p \in Runners : RAt(p)

LEMMA RInvInit == ReverseInit => RInv
  BY TypeInit
  DEF ReverseInit, Init, RInv, ReverseTypeOK, Outcomes, SettleNeedsClaim, RAt, Fresh,
      FundedOnce, Signed, WithTx

LEMMA RInvStep == RInv /\ [ReverseNext]_reverseVars => RInv'
<1> SUFFICES ASSUME RInv, [ReverseNext]_reverseVars PROVE RInv'
  OBVIOUS
<1>0. ReverseTypeOK' /\ TypeOK
  BY ReverseTypeStep DEF RInv, ReverseTypeOK
<1>1. CASE UNCHANGED reverseVars
  BY <1>0, <1>1
  DEF reverseVars, vars, disk, maker, lightning, chain, local, RInv, Outcomes,
      SettleNeedsClaim, FundedOnce, RAt
<1>2. CASE \E p \in Runners : RunMove(p)
  <2>1. PICK p \in Runners : RunMove(p)
    BY <1>2
  <2>2. Calls(p) /\ Locally(p) /\ Funds(p)
    BY <1>0, <2>1, RunMoves, RunFunds DEF RInv, Moves
  <2>6. FundedOnce'
    <3> SUFFICES ASSUME NEW t \in FundingTxs, fundingTx'[t] # "NONE" PROVE fundingOutbox' = t
      BY DEF FundedOnce
    <3>1. CASE fundingTx[t] # "NONE"
      BY <2>2, <3>1 DEF RInv, Outcomes, FundedOnce, Calls
    <3>2. CASE pc[p] = "bc_funding" /\ t = loc[p].tx
      BY <2>2, <3>2 DEF RInv, RAt, Calls, Signed, WithTx
    <3> QED
      BY <2>2, <3>1, <3>2 DEF Funds
  <2>3. Outcomes'
    BY <2>2, <2>6 DEF RInv, Outcomes, RAt, SettleNeedsClaim, Calls
  <2>7. pc'[p] \in Signed => fundingOutbox' # NoTx /\ loc'[p].tx = fundingOutbox'
    BY <2>2 DEF RInv, RAt, Funds
  <2>4. RAt(p)'
    BY <2>2, <2>7 DEF RInv, RAt, Calls, Locally, Held, Claiming, Signed
  <2>5. \A q \in Runners \ {p} : RAt(q)'
    BY <2>2 DEF RInv, RAt, Calls, Locally, Signed
  <2> QED
    BY <1>0, <2>3, <2>4, <2>5 DEF RInv
<1>3. CASE Ours(RefundStep \/ RefundFails \/ NodeMove) \/ ReverseLightningBlock
  <2>1. NodeMove \/ RefundStep \/ RefundFails \/ LightningBlock
    BY <1>3 DEF Ours, ReverseLightningBlock
  <2>2. Elsewhere /\ Refunds
    BY <1>0, <2>1, OthersMove, RefundMoves DEF RInv, Outcomes
  <2>3. Outcomes'
    BY <2>2 DEF RInv, Outcomes, SettleNeedsClaim, FundedOnce, Elsewhere, Refunds
  <2>4. \A q \in Runners : RAt(q)'
    BY <2>2 DEF RInv, RAt, Elsewhere, Signed
  <2> QED
    BY <1>0, <2>3, <2>4 DEF RInv
<1> QED
  BY <1>1, <1>2, <1>3, Cases

LEMMA RInvAlways == ReverseSpec => []RInv
  BY RInvInit, RInvStep, PTL DEF ReverseSpec

(* However many runs, crashes and resumes: no hold is settled before the    *)
(* claim is in a block.                                                     *)
THEOREM SettleNeedsClaimAlways == ReverseSpec => []SettleNeedsClaim
<1>1. RInv => SettleNeedsClaim
  BY DEF RInv, Outcomes
<1> QED
  BY <1>1, RInvAlways, PTL

(* However many runs of the reverse direction sign a funding transaction:   *)
(* only the one of the outbox is ever broadcast (prepare_or_replay_funding, *)
(* write_outbox).                                                           *)
THEOREM FundedOnceInReverse == ReverseSpec => []FundedOnce
<1>1. RInv => FundedOnce
  BY DEF RInv, Outcomes
<1> QED
  BY <1>1, RInvAlways, PTL

(* However many runs race with it: where there is a refund, the hold was    *)
(* dropped, and the payment has not succeeded.                              *)
THEOREM RefundNeedsDropAlways == ReverseSpec => []RefundNeedsDrop
<1>1. RInv => RefundNeedsDrop
  BY DEF RInv, Outcomes, RefundNeedsDrop
<1> QED
  BY <1>1, RInvAlways, PTL

(* What no step takes back, beside what Calls and Elsewhere say of it.      *)
Kept ==
    /\ \A t \in FundingTxs : fundingTx[t] = "CONFIRMED" => fundingTx'[t] = "CONFIRMED"
    /\ claimOutbox => claimOutbox'
    /\ refundOutbox => refundOutbox'
    /\ refundTx = "CONFIRMED" => refundTx' = "CONFIRMED"
    /\ payment # "NONE" => payment' # "NONE"
    /\ payment = "SUCCEEDED" => payment' = "SUCCEEDED"

ReverseGrows ==
    /\ Kept
    /\ fundingOutbox # NoTx => UNCHANGED fundingOutbox
    /\ claimTx = "CONFIRMED" => UNCHANGED claimTx
    /\ invoice \in {"SETTLED", "CANCELED"} => UNCHANGED invoice
    /\ accepted => UNCHANGED <<accepted, expiry>>

LEMMA MineKeeps ==
    ASSUME TypeOK, MineBlock, UNCHANGED <<claimOutbox, refundOutbox, payment>>
    PROVE  Kept
  BY DEF MineBlock, Kept

LEMMA RunKeeps ==
    ASSUME TypeOK, NEW p \in Runners, RunMove(p)
    PROVE  Kept
<1> USE DEF disk, maker, lightning, chain, local
<1>1. CASE EnsureInvoice(p) \/ ReadFundingOutbox(p) \/ PersistFunding(p) \/ SettleInvoice(p)
  BY <1>1 DEF EnsureInvoice, ReadFundingOutbox, PersistFunding, SettleInvoice, Kept
<1>2. CASE Pay(p) \/ PayReturns(p) \/ TrackSuccess(p) \/ CancelIfAccepted(p)
  BY <1>2 DEF Pay, Payable, PayReturns, TrackSuccess, CancelIfAccepted, Kept
<1>3. CASE BroadcastFunding(p) \/ PersistClaim(p) \/ BroadcastClaim(p)
  BY <1>3 DEF BroadcastFunding, PersistClaim, BroadcastClaim, Kept, TypeOK
<1>4. CASE ObserveFunding(p) \/ ObserveFundingAgain(p)
  BY <1>4, MineKeeps DEF ObserveFunding, ObserveFundingAgain, Confirm, Kept
<1>5. CASE ObserveClaim(p, AfterReverseClaim(p)) \/ ObserveClaimAgain(p, AfterReverseClaim(p))
  BY <1>5, MineKeeps DEF ObserveClaim, ObserveClaimAgain, Confirm, Kept
<1>6. CASE ReverseStart(p) \/ ReadClaimOutbox(p, "ph_pending") \/ CheckReverseTiming(p)
           \/ NoopPhase(p)
  BY <1>6 DEF ReverseStart, ReadClaimOutbox, CheckReverseTiming, NoopPhase, Kept
<1>7. CASE Dies(p) \/ ObserveHold(p)
  BY <1>7 DEF Dies, Fail, Crash, FailWriting, CrashWriting, ObserveHold, ObserveAccepted, Kept
<1> QED
  BY <1>1, <1>2, <1>3, <1>4, <1>5, <1>6, <1>7 DEF RunMove, Ours, Common, Own

LEMMA OthersKeep ==
    ASSUME TypeOK, NodeMove \/ RefundStep \/ RefundFails \/ LightningBlock
    PROVE  Kept
<1> USE DEF disk, maker, lightning, chain, local
<1>1. CASE NodeMove
  BY <1>1, MineKeeps DEF NodeMove, HtlcArrives, PaymentFails, PaymentSucceeds, InvoiceCancels,
     LiquidBlock, Kept
<1>2. CASE RefundFails \/ LightningBlock
  BY <1>2 DEF RefundFails, LightningBlock, Kept
<1>3. CASE RefundStep
  BY <1>3, MineKeeps DEF RefundStep, RefundTrackPayment, RefundLookupInvoice, RefundPersist,
     RefundBroadcast, RefundObserve, RefundObserveAgain, RefundGoto, Kept
<1> QED
  BY <1>1, <1>2, <1>3

(* Nor does a step of the reverse direction, of however many runs, undo     *)
(* what has happened: an outbox keeps its transaction, what is in a block   *)
(* stays in it, a hold that was settled or dropped stays so, an HTLC that   *)
(* arrived keeps its expiry, and a payment that succeeded is not started    *)
(* again (write_outbox, pay_if_open, settle_invoice, cancel_if_accepted).   *)
THEOREM NothingUndoneInReverse == ReverseSpec => [][ReverseGrows]_reverseVars
<1>1. RInv /\ [ReverseNext]_reverseVars => [ReverseGrows]_reverseVars
  <2> SUFFICES ASSUME RInv, ReverseNext PROVE ReverseGrows
    OBVIOUS
  <2>0. TypeOK /\ Outcomes
    BY DEF RInv, ReverseTypeOK
  <2>1. CASE \E p \in Runners : RunMove(p)
    <3>1. PICK p \in Runners : RunMove(p)
      BY <2>1
    <3>2. Calls(p) /\ Kept
      BY <2>0, <3>1, RunMoves, RunKeeps DEF RInv, Moves
    <3> QED
      BY <3>2 DEF Calls, ReverseGrows
  <2>2. CASE Ours(RefundStep \/ RefundFails \/ NodeMove) \/ ReverseLightningBlock
    <3>1. NodeMove \/ RefundStep \/ RefundFails \/ LightningBlock
      BY <2>2 DEF Ours, ReverseLightningBlock
    <3>2. Elsewhere /\ Kept
      BY <2>0, <3>1, OthersMove, OthersKeep
    <3> QED
      BY <2>0, <3>2 DEF Elsewhere, Outcomes, ReverseGrows
  <2> QED
    BY <2>1, <2>2, Cases
<1> QED
  BY <1>1, RInvAlways, PTL DEF ReverseSpec

-------------------------------------------------------------------------------
(* With one run at a time, the hold of a swap whose funding is on its way   *)
(* is never canceled by a run: one that may cancel has seen no funding on   *)
(* record, there is no other, and if its own write_outbox erred it does not *)
(* broadcast what it wrote.  A run that does broadcast has seen the hold.   *)
Unsent == \A t \in FundingTxs : fundingTx[t] = "NONE"

CoverAt(p) ==
    /\ MayCancel(p) => fundingOutbox = NoTx
    /\ pc[p] = "cancel" => Unsent
    /\ ~Unsent \/ pc[p] \in {"timing", "funding", "persist", "ph_funding", "bc_funding"} => Held

Covered == \A p \in Runners : CoverAt(p)

LEMMA CoveredStep ==
    ASSUME \A p, q \in Runners : p = q,
           RInv, Covered, [ReverseNext]_reverseVars
    PROVE  Covered'
<1>0. ReverseTypeOK /\ TypeOK
  BY DEF RInv, ReverseTypeOK
<1>1. CASE UNCHANGED reverseVars
  BY <1>1
  DEF reverseVars, vars, disk, maker, lightning, chain, local, Covered, CoverAt, MayCancel, Held,
      Unsent
<1>2. CASE \E p \in Runners : RunMove(p)
  <2>1. PICK p \in Runners : RunMove(p)
    BY <1>2
  <2>2. Calls(p) /\ Locally(p) /\ Funds(p) /\ CoverAt(p)
    BY <1>0, <2>1, RunMoves, RunFunds DEF Moves, Covered
  <2>3. MayCancel(p)' => fundingOutbox' = NoTx
    BY <2>2 DEF Calls, Locally, CoverAt, MayCancel, AfterInvoice
  <2>4. pc[p] # "bc_funding" => (Unsent' <=> Unsent)
    BY <2>2 DEF Funds, Unsent
  <2>5. pc'[p] = "cancel" => Unsent'
    <3> SUFFICES ASSUME pc'[p] = "cancel" PROVE Unsent'
      OBVIOUS
    <3>1. fundingOutbox = NoTx /\ pc[p] # "bc_funding"
      BY <2>2 DEF Locally, MayCancel, AfterInvoice, CoverAt
    <3>2. Unsent
      BY <3>1 DEF RInv, Outcomes, FundedOnce, Unsent
    <3> QED
      BY <2>4, <3>1, <3>2
  <2>6. ASSUME ~Unsent' \/ pc'[p] \in {"timing", "funding", "persist", "ph_funding", "bc_funding"}
        PROVE  Held'
    <3>1. Held
      BY <2>2, <2>4, <2>6 DEF Locally, Funds, CoverAt
    <3>2. CASE pc[p] # "cancel"
      BY <2>2, <3>1, <3>2 DEF Calls, Held
    <3>3. CASE pc[p] = "cancel"
      BY <2>2, <2>4, <2>6, <3>3 DEF CoverAt, Locally, Funds
    <3> QED
      BY <3>2, <3>3
  <2> QED
    BY <2>3, <2>5, <2>6 DEF Covered, CoverAt
<1>3. CASE Ours(RefundStep \/ RefundFails \/ NodeMove) \/ ReverseLightningBlock
  <2>1. NodeMove \/ RefundStep \/ RefundFails \/ LightningBlock
    BY <1>3 DEF Ours, ReverseLightningBlock
  <2>2. Elsewhere /\ tip' \in {tip, tip + 1} /\ tip \in Nat /\ expiry \in Nat
    BY <1>0, <2>1, OthersMove DEF TypeOK
  <2>3. Unsent' <=> Unsent
    BY <2>2 DEF Elsewhere, Unsent
  <2>4. ASSUME Held PROVE Held'
    <3>1. invoice # "OPEN" /\ UNCHANGED <<accepted, expiry>>
      BY <2>2, <2>4 DEF RInv, Outcomes, Elsewhere, Held
    <3>2. invoice' = invoice \/ expiry <= tip
      BY <2>2, <3>1 DEF Elsewhere
    <3>3. expiry <= tip => expiry' <= tip'
      BY <2>2, <3>1
    <3> QED
      BY <2>4, <3>1, <3>2, <3>3 DEF Held
  <2>5. ASSUME NEW p \in Runners PROVE CoverAt(p)'
    <3>1. CoverAt(p) /\ UNCHANGED <<pc, loc, fundingOutbox>>
      BY <2>2 DEF Covered, Elsewhere
    <3>2. MayCancel(p)' => fundingOutbox' = NoTx
      BY <3>1 DEF CoverAt, MayCancel
    <3> QED
      BY <2>3, <2>4, <3>1, <3>2 DEF CoverAt
  <2> QED
    BY <2>5 DEF Covered
<1> QED
  BY <1>1, <1>2, <1>3, Cases

(* With one run at a time, whatever fails, dies and is resumed, the money   *)
(* is held from before the funding is broadcast until the HTLC expires; a   *)
(* funding that is on record but whose hold was canceled, as write_outbox   *)
(* erred after its file was complete, stays unsent.                         *)
THEOREM HoldCoversFundingAlways ==
    ASSUME \A p, q \in Runners : p = q, Runners # {}
    PROVE  ReverseSpec => []HoldCoversFunding
<1>1. ReverseInit => RInv /\ Covered
  BY RInvInit DEF ReverseInit, Init, Covered, CoverAt, MayCancel, AfterInvoice, Unsent
<1>2. RInv /\ Covered /\ [ReverseNext]_reverseVars => RInv' /\ Covered'
  BY CoveredStep, RInvStep
<1>3. Covered => HoldCoversFunding
  BY DEF Covered, CoverAt, Unsent, Held, HoldCoversFunding
<1> QED
  BY <1>1, <1>2, <1>3, PTL DEF ReverseSpec

-------------------------------------------------------------------------------
(* The pace of the blocks.  In Liquid blocks, the time that the HTLC has    *)
(* left exceeds what is left of the lock and the margin, or did so when the *)
(* last Lightning block came, of which one block may be used up since.      *)
Remaining == (expiry - tip) * BlockRatio

Outlasts ==
    \/ Remaining > (Lock - height) + ClaimMargin
    \/ Remaining > (Lock - lastBlock) + ClaimMargin - BlockRatio

Pace ==
    /\ \A p \in Runners : pc[p] = "timing" => left[p] = expiry - tip
    /\ (\/ fundingOutbox # NoTx
        \/ \E p \in Runners : pc[p] \in {"funding", "persist"}) =>
            height > Lock \/ Outlasts

LEMMA OneBlock == \A a, r \in Int : (a - 1) * r = a * r - r
  OBVIOUS

LEMMA Enough ==
    ASSUME NEW a \in Int, NEW r \in Nat, NEW h \in Nat, a * r > h * r
    PROVE  a > h
<1>1. CASE a <= h
  <2>1. (h - a) * r >= 0
    BY <1>1
  <2>2. (h - a) * r = h * r - a * r
    OBVIOUS
  <2> QED
    BY <2>1, <2>2
<1> QED
  BY <1>1

LEMMA PaceStep ==
    ASSUME Paced, Lock < MaxMined, RInv, Pace, [ReverseNext]_reverseVars
    PROVE  Pace'
<1>0. /\ ReverseTypeOK /\ TypeOK /\ Outcomes /\ \A p \in Runners : RAt(p)
      /\ expiry \in Int /\ tip \in Int /\ height \in Int /\ lastBlock \in Int
      /\ Lock \in Int /\ ClaimMargin \in Int /\ BlockRatio \in Int /\ Remaining \in Int
      /\ lastBlock <= height
  BY DEF RInv, ReverseTypeOK, TypeOK, Remaining
<1>1. CASE UNCHANGED reverseVars
  BY <1>1
  DEF reverseVars, vars, disk, maker, lightning, chain, local, Pace, Outlasts, Remaining
<1>2. CASE \E p \in Runners : RunMove(p)
  <2>1. PICK p \in Runners : RunMove(p)
    BY <1>2
  <2>2. /\ Calls(p) /\ Locally(p) /\ lastBlock' = lastBlock
        /\ \/ left' = left /\ pc'[p] # "timing"
           \/ left' = [left EXCEPT ![p] = expiry - tip]
    BY <1>0, <2>1, RunMoves DEF Moves
  <2>3. \A q \in Runners : pc'[q] = "timing" => left'[q] = expiry - tip
    BY <1>0, <2>2 DEF Locally, Pace, ReverseTypeOK
  <2>4. Remaining' = Remaining
    BY <2>2 DEF Calls, Remaining
  <2>5. height > Lock \/ Outlasts => height' > Lock \/ Outlasts'
    BY <1>0, <2>2, <2>4 DEF Calls, Outlasts
  <2>6. CASE pc'[p] = "funding"
    <3>1. Remaining > (Lock - height) + ClaimMargin
      BY <2>2, <2>6 DEF Locally, ReverseTiming, Pace, Remaining
    <3> QED
      BY <2>2, <2>3, <2>5, <3>1 DEF Pace, Outlasts, Calls
  <2>7. CASE pc'[p] # "funding"
    <3>1. \/ fundingOutbox' # NoTx
          \/ \E q \in Runners : pc'[q] \in {"funding", "persist"}
          => \/ fundingOutbox # NoTx
             \/ \E q \in Runners : pc[q] \in {"funding", "persist"}
      BY <2>2, <2>7 DEF Calls, Locally
    <3> QED
      BY <2>2, <2>3, <2>5, <3>1 DEF Pace, Calls
  <2> QED
    BY <2>6, <2>7
<1>3. CASE Ours(RefundStep \/ RefundFails \/ NodeMove) \/ ReverseLightningBlock
  <2>1. NodeMove \/ RefundStep \/ RefundFails \/ LightningBlock
    BY <1>3 DEF Ours, ReverseLightningBlock
  <2>2. /\ Elsewhere /\ left' = left
        /\ ~ReverseLightningBlock => tip' = tip /\ lastBlock' = lastBlock
    BY <1>0, <1>3, <2>1, OthersMove, TipStays DEF Ours, ReverseLightningBlock
  <2>3. SUFFICES ASSUME accepted PROVE Pace'
    BY <1>0, <2>2 DEF Elsewhere, Pace, Outcomes, RAt
  <2>4. expiry' = expiry
    BY <1>0, <2>2, <2>3 DEF Elsewhere, Outcomes
  <2>5. CASE ReverseLightningBlock
    <3>1. /\ tip' = tip + 1 /\ height' = height /\ lastBlock' = height
          /\ height - lastBlock >= BlockRatio \/ height >= MaxMined
          /\ \A p \in Runners : pc[p] # "timing"
      BY <2>5 DEF ReverseLightningBlock, LightningBlock, Prompt, chain
    <3>2. Remaining' = Remaining - BlockRatio
      <4>1. expiry - (tip + 1) = (expiry - tip) - 1
        BY <1>0
      <4> QED
        BY <1>0, <2>4, <3>1, <4>1, OneBlock DEF Remaining
    <3>3. height > Lock \/ Outlasts => height' > Lock \/ Outlasts'
      BY <1>0, <3>1, <3>2 DEF Outlasts
    <3> QED
      BY <2>2, <3>1, <3>3 DEF Pace, Elsewhere
  <2>6. CASE ~ReverseLightningBlock
    <3>1. Remaining' = Remaining
      BY <2>2, <2>4, <2>6 DEF Remaining
    <3>2. height' \in {height, height + 1} /\ lastBlock' = lastBlock
      BY <2>2, <2>6 DEF Elsewhere
    <3>3. height > Lock \/ Outlasts => height' > Lock \/ Outlasts'
      <4>1. CASE height' = height
        BY <1>0, <3>1, <3>2, <4>1 DEF Outlasts
      <4>2. CASE height' = height + 1
        BY <1>0, <3>1, <3>2, <4>2 DEF Outlasts
      <4> QED
        BY <3>2, <4>1, <4>2
    <3> QED
      BY <2>2, <2>4, <2>6, <3>3 DEF Pace, Elsewhere
  <2> QED
    BY <2>5, <2>6
<1> QED
  BY <1>1, <1>2, <1>3, Cases

(* For any heights and delays: with blocks that keep to their pace and a    *)
(* margin of MinHeadroom + 1 Lightning blocks, an HTLC that passed the      *)
(* timing check can still be settled as long as the asset cannot be         *)
(* refunded, headroom included.                                             *)
THEOREM HoldOutlivesLockAlways ==
    ASSUME Paced, Lock < MaxMined, ClaimMargin >= (MinHeadroom + 1) * BlockRatio
    PROVE  ReverseSpec => []HoldOutlivesLock
<1>1. ReverseInit => RInv /\ Pace
  BY RInvInit DEF ReverseInit, Init, Pace
<1>2. RInv /\ Pace /\ [ReverseNext]_reverseVars => RInv' /\ Pace'
  BY PaceStep, RInvStep
<1>3. RInv /\ Pace => HoldOutlivesLock
  <2> SUFFICES ASSUME RInv, Pace, fundingOutbox # NoTx, height <= Lock
               PROVE  expiry > tip + MinHeadroom
    BY DEF HoldOutlivesLock
  <2>1. /\ expiry \in Int /\ tip \in Int /\ height \in Int /\ lastBlock \in Int
        /\ Lock \in Int /\ ClaimMargin \in Int /\ BlockRatio \in Nat /\ MinHeadroom \in Nat
        /\ lastBlock <= height /\ Remaining \in Int
    BY DEF RInv, ReverseTypeOK, TypeOK, Remaining
  <2>2. (MinHeadroom + 1) * BlockRatio = MinHeadroom * BlockRatio + BlockRatio
    BY <2>1
  <2>3. Remaining > MinHeadroom * BlockRatio
    BY <2>1, <2>2 DEF Pace, Outlasts
  <2>4. expiry - tip > MinHeadroom
    BY <2>1, <2>3, Enough DEF Remaining
  <2> QED
    BY <2>1, <2>4
<1> QED
  BY <1>1, <1>2, <1>3, PTL DEF ReverseSpec
===============================================================================
