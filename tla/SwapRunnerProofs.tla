--------------------------- MODULE SwapRunnerProofs ---------------------------
(***************************************************************************)
(* The safety of SwapRunner, for any number of concurrent runs, any set of *)
(* funding transactions, any heights, delays and bounds, with or without   *)
(* a releasing maker and torn files: the invariants below, and that every  *)
(* behavior is one of AtomicSwap.                                          *)
(***************************************************************************)
EXTENDS SwapRunner, TLAPS

USE BoundsAssumption

\* The states a row can be in, from the one that a phase enters on.
Paying == {"OUTPUT_PENDING"} \cup PaidStates
Exposed == {"INPUT_FUNDING", "INPUT_LOCKED"} \cup Paying
Forward == {"ABSENT", "CREATED"} \cup Exposed

\* The funding transaction on record is in a block.
Locked == fundingOutbox # NoTx /\ fundingTx[fundingOutbox] = "CONFIRMED"

\* What is true whatever the runs are doing.
Announced ==
    /\ client \in Forward
    /\ \A t \in FundingTxs : fundingTx[t] # "NONE" => client \in Exposed
    /\ payment # "NONE" => Locked /\ client \in Paying
    /\ invoice \in {"ACCEPTED", "SETTLED"} => payment # "NONE"

Booked ==
    /\ payment = "SUCCEEDED" => invoice = "SETTLED"
    /\ reservation = "CONSUMED" => payment = "SUCCEEDED" /\ client \in PaidStates
    /\ claimOutbox => reservation = "CONSUMED"
    /\ claimTx # "NONE" => claimOutbox
    /\ client = "SETTLED" => claimTx = "CONFIRMED"
    /\ evidence # 0 => client = "SETTLED"

Refunding ==
    /\ refunder # "idle" => payment # "NONE"
    /\ refunder = "files" => invoice = "CANCELED"
    /\ refunder \in {"broadcast", "observe", "observe2"} => refundOutbox
    /\ refundTx # "NONE" => refundOutbox
    /\ refundOutbox => invoice = "CANCELED" /\ payment # "NONE"

Shared == FundedOnce /\ Announced /\ Booked /\ Refunding

\* What a run may rely on at its next step.
At(p) ==
    \* the transaction in hand is the one on record, and the row announces it
    /\ pc[p] \in WithTx \ {"persist"} => fundingOutbox # NoTx /\ loc[p].tx = fundingOutbox
    /\ pc[p] \in WithTx \ {"persist", "ph_funding"} => client \in Exposed
    /\ pc[p] \in {"ph_locked", "ph_pending", "pay"} => Locked
    /\ pc[p] = "pay" => client \in Paying
    \* the payment succeeded, the row says so, the reservation is booked
    /\ pc[p] \in {"ph_output", "consume"} => payment = "SUCCEEDED"
    /\ pc[p] = "consume" => client \in PaidStates
    /\ pc[p] = "claim" => reservation = "CONSUMED"
    /\ pc[p] \in {"ph_claim", "bc_claim", "obs_claim", "obs_claim2"} => claimOutbox
    \* a claim was observed, by a replay before it goes on to the invoice
    /\ pc[p] = "ph_settled" => claimTx = "CONFIRMED"
    /\ pc[p] = "evidence" => client = "SETTLED"
    /\ loc[p].replay /\ pc[p] \notin {"idle", "cancel", "bc_claim", "obs_claim", "obs_claim2"}
            => claimTx = "CONFIRMED"

IInv == TypeOK /\ Shared /\ \A p \in Runners : At(p)

\* What has happened is never undone.
Grows ==
    /\ fundingOutbox # NoTx => UNCHANGED fundingOutbox
    /\ Locked => Locked'
    /\ client \in Exposed => client' \in Exposed
    /\ client \in Paying => client' \in Paying
    /\ client \in PaidStates => client' \in PaidStates
    /\ client = "SETTLED" => UNCHANGED client
    /\ payment # "NONE" => payment' # "NONE"
    /\ payment = "SUCCEEDED" => UNCHANGED payment
    /\ invoice \in {"SETTLED", "CANCELED"} => UNCHANGED invoice
    /\ reservation = "CONSUMED" => UNCHANGED reservation
    /\ claimOutbox => claimOutbox'
    /\ claimTx = "CONFIRMED" => UNCHANGED claimTx

-------------------------------------------------------------------------------
\* The part of TypeOK that is about the runs themselves.
LocalTypeOK ==
    /\ pc \in [Runners -> Steps] /\ loc \in [Runners -> Locals]
    /\ \A p \in Runners : pc[p] \in WithTx => loc[p].tx \in FundingTxs

LEMMA FreshType == Fresh \in Locals /\ "idle" \in Steps /\ "idle" \notin WithTx
  BY DEF Fresh, Locals, Steps, InvoiceStates, WithTx

LEMMA TypeInit == Init => TypeOK
<1> SUFFICES ASSUME Init PROVE TypeOK
  OBVIOUS
<1>1. LocalTypeOK
  BY FreshType DEF Init, LocalTypeOK
<1>2. /\ client \in SwapState \cup {"ABSENT"} /\ torn \subseteq {"funding", "claim", "refund"}
      /\ fundingTx \in [FundingTxs -> Places] /\ claimTx \in Places /\ refundTx \in Places
  BY DEF Init, Places
<1>3. /\ evidence \in Nat /\ expiry \in Nat /\ tip \in Nat /\ faults \in Nat
      /\ height \in Nat /\ claimHeight \in 0..height
  BY DEF Init
<1>4. /\ claimOutbox \in BOOLEAN /\ refundOutbox \in BOOLEAN /\ attached \in BOOLEAN
      /\ expired \in BOOLEAN /\ accepted \in BOOLEAN
  BY DEF Init
<1>5. /\ fundingOutbox \in FundingTxs \cup {NoTx}
      /\ reservation \in {"HELD", "CONSUMED", "RELEASED"}
      /\ invoice \in InvoiceStates /\ payment \in PaymentStates /\ refunder \in RefundSteps
  BY DEF Init, InvoiceStates, PaymentStates, RefundSteps
<1> QED
  BY <1>1, <1>2, <1>3, <1>4, <1>5 DEF TypeOK, LocalTypeOK

\* What a run's own step does to pc and loc.
LEMMA StopType ==
    ASSUME TypeOK, NEW p \in Runners, Stop(p)
    PROVE  LocalTypeOK'
  BY FreshType DEF TypeOK, LocalTypeOK, Stop, Goto, Forget

LEMMA AbortType ==
    ASSUME TypeOK, NEW p \in Runners, Abort(p)
    PROVE  LocalTypeOK'
<1>1. CASE Stop(p)
  BY <1>1, StopType
<1>2. CASE Goto(p, "cancel") /\ UNCHANGED loc
  BY <1>2 DEF TypeOK, LocalTypeOK, Goto, Steps, WithTx
<1> QED
  BY <1>1, <1>2 DEF Abort

LEMMA GotoType ==
    ASSUME TypeOK, NEW p \in Runners, NEW step \in Steps, Goto(p, step), UNCHANGED loc,
           step \in WithTx => pc[p] \in WithTx
    PROVE  LocalTypeOK'
  BY DEF TypeOK, LocalTypeOK, Goto

LEMMA MineType ==
    ASSUME TypeOK, MineBlock
    PROVE  /\ height' \in Nat /\ claimHeight' \in 0..height'
           /\ fundingTx' \in [FundingTxs -> Places]
           /\ claimTx' \in Places /\ refundTx' \in Places
  BY DEF TypeOK, MineBlock, Places

LEMMA RecordType ==
    ASSUME NEW l \in Locals, NEW a \in BOOLEAN, NEW b \in BOOLEAN
    PROVE  [l EXCEPT !.replay = a, !.exposed = b] \in Locals
<1>1. [l EXCEPT !.replay = a] \in Locals
  BY DEF Locals
<1>2. \A k \in Locals : [k EXCEPT !.exposed = b] \in Locals
  BY DEF Locals
<1>3. [l EXCEPT !.replay = a, !.exposed = b] = [[l EXCEPT !.replay = a] EXCEPT !.exposed = b]
  BY DEF Locals
<1> QED
  BY <1>1, <1>2, <1>3

LEMMA ReadClaimOutboxType ==
    ASSUME TypeOK, NEW p \in Runners, NEW otherwise \in Steps \ WithTx,
           ReadClaimOutbox(p, otherwise)
    PROVE  TypeOK'
<1>1. LocalTypeOK'
  <2>1. CASE Stop(p)
    BY <2>1, StopType
  <2>2. CASE ~Stop(p)
    <3>1. /\ loc' = [loc EXCEPT ![p].replay = claimOutbox,
                                ![p].exposed = ~claimOutbox /\ fundingOutbox # NoTx]
          /\ Goto(p, IF claimOutbox THEN "bc_claim" ELSE otherwise)
      BY <2>2 DEF ReadClaimOutbox
    <3>2. ASSUME NEW x \in BOOLEAN
          PROVE  [loc EXCEPT ![p].replay = claimOutbox, ![p].exposed = x]
                    \in [Runners -> Locals]
      <4> DEFINE l == [loc[p] EXCEPT !.replay = claimOutbox, !.exposed = x]
      <4>1. l \in Locals
        <5>1. loc[p] \in Locals /\ claimOutbox \in BOOLEAN
          BY DEF TypeOK
        <5> QED
          BY <5>1, RecordType
      <4>2. [loc EXCEPT ![p].replay = claimOutbox, ![p].exposed = x] = [loc EXCEPT ![p] = l]
        BY DEF TypeOK
      <4> QED
        BY <4>1, <4>2 DEF TypeOK
    <3>4. (~claimOutbox /\ fundingOutbox # NoTx) \in BOOLEAN
      OBVIOUS
    <3>5. loc' \in [Runners -> Locals]
      BY <3>1, <3>2, <3>4, Zenon
    <3>3. pc' \in [Runners -> Steps] /\ pc'[p] \notin WithTx
          /\ \A q \in Runners \ {p} : pc'[q] = pc[q] /\ loc'[q] = loc[q]
      BY <3>1 DEF TypeOK, Goto, Steps, WithTx
    <3> QED
      BY <3>3, <3>5 DEF TypeOK, LocalTypeOK
  <2> QED
    BY <2>1, <2>2
<1> QED
  BY <1>1 DEF ReadClaimOutbox, TypeOK, LocalTypeOK, disk, maker, lightning, chain

LEMMA RefundGotoType ==
    ASSUME TypeOK, NEW step \in RefundSteps, RefundGoto(step),
           refundOutbox' \in BOOLEAN, refundTx' \in Places
    PROVE  TypeOK'
  BY DEF TypeOK, RefundGoto, maker, lightning, local

LEMMA OnPhaseType ==
    ASSUME TypeOK, NEW p \in Runners, NEW next \in SwapState, NEW then \in Steps,
           OnPhase(p, next, then), then \in WithTx => pc[p] \in WithTx
    PROVE  TypeOK'
<1>1. client' \in SwapState \cup {"ABSENT"}
  BY DEF TypeOK, OnPhase
<1>2. (Goto(p, then) /\ UNCHANGED loc) \/ Stop(p)
  BY DEF OnPhase
<1>3. LocalTypeOK'
  BY <1>2, GotoType, StopType
<1> QED
  BY <1>1, <1>3 DEF TypeOK, LocalTypeOK, OnPhase, maker, lightning, chain


LEMMA TypeStep == TypeOK /\ [Next]_vars => TypeOK'
<1> SUFFICES ASSUME TypeOK, [Next]_vars PROVE TypeOK'
  OBVIOUS
<1> USE DEF disk, maker, lightning, chain, local
<1>1. ASSUME NEW p \in Runners, RunnerStep(p) PROVE TypeOK'
  <2>1. CASE EnsureSwapRecord(p)
    <3>1. LocalTypeOK'
      BY <2>1, StopType, AbortType, GotoType, <1>1
      DEF EnsureSwapRecord, TypeOK, Steps, WithTx
    <3> QED
      BY <2>1, <3>1 DEF EnsureSwapRecord, TypeOK, LocalTypeOK, SwapState
  <2>2. CASE CheckReservation(p)
    BY <2>2, FreshType, StopType, AbortType, <1>1
    DEF CheckReservation, TypeOK, LocalTypeOK, Goto, Forget, Steps, WithTx
  <2>3. CASE AttachReservation(p)
    <3>1. LocalTypeOK'
      BY <2>3, StopType, AbortType, GotoType, <1>1
      DEF AttachReservation, TypeOK, Steps, WithTx
    <3> QED
      BY <2>3, <3>1 DEF AttachReservation, TypeOK, LocalTypeOK
  <2>4. CASE EnsureInvoice(p)
    <3>1. LocalTypeOK'
      BY <2>4, FreshType, StopType, AbortType, <1>1
      DEF EnsureInvoice, TypeOK, LocalTypeOK, Goto, InvoiceStates, Locals, Steps, WithTx
    <3> QED
      BY <2>4, <3>1 DEF EnsureInvoice, TypeOK, LocalTypeOK, InvoiceStates
  <2>5. CASE ReadClaimOutbox(p, "timing")
    BY <2>5, ReadClaimOutboxType DEF Steps, WithTx
  <2>6. CASE CheckTiming(p)
    BY <2>6, StopType, AbortType, GotoType, <1>1
    DEF CheckTiming, TypeOK, Steps, WithTx, LocalTypeOK
  <2>7. CASE ReadFundingOutbox(p)
    <3>1. CASE Abort(p)
      BY <2>7, <3>1, AbortType DEF ReadFundingOutbox, TypeOK, LocalTypeOK
    <3>2. CASE ~Abort(p)
      <4>1. PICK t \in FundingTxs : \/ loc' = [loc EXCEPT ![p].tx = t, ![p].exposed = TRUE]
                                    \/ loc' = [loc EXCEPT ![p].tx = t]
        BY <2>7, <3>2, <1>1 DEF ReadFundingOutbox, TypeOK
      <4>2. /\ loc' \in [Runners -> Locals] /\ loc'[p].tx = t
            /\ \A q \in Runners \ {p} : loc'[q] = loc[q]
        BY <4>1, <1>1 DEF TypeOK, Locals
      <4>3. pc' \in [Runners -> Steps] /\ \A q \in Runners \ {p} : pc'[q] = pc[q]
        BY <2>7, <3>2, <1>1 DEF ReadFundingOutbox, TypeOK, Goto, Steps
      <4> QED
        BY <2>7, <4>1, <4>2, <4>3, <1>1 DEF ReadFundingOutbox, TypeOK
    <3> QED
      BY <3>1, <3>2
  <2>8. CASE PersistFunding(p)
    <3>1. loc[p].tx \in FundingTxs
      BY <2>8, <1>1 DEF PersistFunding, TypeOK, WithTx
    <3>2. CASE Abort(p)
      BY <3>1, <3>2, <2>8, AbortType, <1>1 DEF PersistFunding, TypeOK, LocalTypeOK
    <3>3. CASE Goto(p, "ph_funding") /\ loc' = [loc EXCEPT ![p].exposed = TRUE]
      <4>1. loc' \in [Runners -> Locals] /\ \A q \in Runners : loc'[q].tx = loc[q].tx
        <5>1. loc[p] \in Locals
          BY <1>1 DEF TypeOK
        <5>2. loc' = [loc EXCEPT ![p] = [loc[p] EXCEPT !.exposed = TRUE]]
          BY <3>3
        <5>3. /\ [loc[p] EXCEPT !.exposed = TRUE] \in Locals
              /\ [loc[p] EXCEPT !.exposed = TRUE].tx = loc[p].tx
          BY <5>1 DEF Locals
        <5> QED
          BY <5>2, <5>3, <1>1 DEF TypeOK
      <4>2. LocalTypeOK'
        BY <3>1, <3>3, <4>1 DEF TypeOK, LocalTypeOK, Goto, Steps, WithTx
      <4> QED
        BY <3>1, <4>2, <2>8 DEF PersistFunding, TypeOK, LocalTypeOK
    <3> QED
      BY <2>8, <3>2, <3>3 DEF PersistFunding
  <2>9. CASE PhaseInputFunding(p)
    BY <2>9, <1>1, OnPhaseType DEF PhaseInputFunding, SwapState, Steps, WithTx
  <2>10. CASE BroadcastFunding(p)
    <3>1. LocalTypeOK'
      BY <2>10, StopType, AbortType, GotoType, <1>1
      DEF BroadcastFunding, TypeOK, Steps, WithTx
    <3>2. fundingTx' \in [FundingTxs -> Places]
      BY <2>10 DEF BroadcastFunding, TypeOK, Places
    <3> QED
      BY <2>10, <3>1, <3>2 DEF BroadcastFunding, TypeOK, LocalTypeOK
  <2>11. CASE ObserveFunding(p)
    <3>1. LocalTypeOK'
      BY <2>11, StopType, GotoType, <1>1
      DEF ObserveFunding, Confirm, TypeOK, Steps, WithTx
    <3> QED
      BY <2>11, <3>1, MineType DEF ObserveFunding, Confirm, TypeOK, LocalTypeOK
  <2>12. CASE ObserveFundingAgain(p)
    BY <2>12, StopType, AbortType, GotoType, <1>1
    DEF ObserveFundingAgain, TypeOK, Steps, WithTx, LocalTypeOK
  <2>13. CASE PhaseInputLocked(p)
    BY <2>13, <1>1, OnPhaseType DEF PhaseInputLocked, SwapState, Steps, WithTx
  <2>14. CASE PhaseOutputPending(p)
    BY <2>14, <1>1, OnPhaseType DEF PhaseOutputPending, SwapState, Steps, WithTx
  <2>15. CASE Pay(p)
    <3>1. LocalTypeOK'
      BY <2>15, StopType, AbortType, GotoType, <1>1
      DEF Pay, TypeOK, Steps, WithTx
    <3> QED
      BY <2>15, <3>1 DEF Pay, TypeOK, LocalTypeOK, PaymentStates
  <2>16. CASE PayReturns(p)
    BY <2>16, StopType, AbortType, GotoType, <1>1
    DEF PayReturns, TypeOK, Steps, WithTx, LocalTypeOK
  <2>17. CASE ObserveAccepted(p, "settle")
    <3>1. CASE Abort(p)
      BY <3>1, <2>17, AbortType, <1>1 DEF ObserveAccepted, TypeOK, LocalTypeOK
    <3>2. CASE loc' = [loc EXCEPT ![p].inv = invoice] /\ Goto(p, "settle")
      <4>1. LocalTypeOK'
        BY <3>2, <1>1 DEF TypeOK, LocalTypeOK, Goto, Locals, Steps, WithTx
      <4> QED
        BY <2>17, <4>1 DEF ObserveAccepted, TypeOK, LocalTypeOK
    <3> QED
      BY <2>17, <3>1, <3>2 DEF ObserveAccepted
  <2>18. CASE SettleInvoice(p)
    <3>1. LocalTypeOK'
      BY <2>18, StopType, AbortType, GotoType, <1>1
      DEF SettleInvoice, TypeOK, Steps, WithTx
    <3> QED
      BY <2>18, <3>1 DEF SettleInvoice, TypeOK, LocalTypeOK, InvoiceStates
  <2>19. CASE TrackSuccess(p)
    BY <2>19, StopType, AbortType, GotoType, <1>1
    DEF TrackSuccess, TypeOK, Steps, WithTx, LocalTypeOK
  <2>20. CASE PhaseOutputSettled(p)
    BY <2>20, <1>1, OnPhaseType DEF PhaseOutputSettled, SwapState, Steps, WithTx
  <2>21. CASE ConsumeReservation(p)
    <3>1. LocalTypeOK'
      BY <2>21, StopType, AbortType, GotoType, <1>1
      DEF ConsumeReservation, TypeOK, Steps, WithTx
    <3> QED
      BY <2>21, <3>1 DEF ConsumeReservation, TypeOK, LocalTypeOK
  <2>22. CASE PersistClaim(p)
    <3>1. LocalTypeOK'
      BY <2>22, StopType, AbortType, GotoType, <1>1
      DEF PersistClaim, AfterClaim, TypeOK, Steps, WithTx
    <3> QED
      BY <2>22, <3>1 DEF PersistClaim, TypeOK, LocalTypeOK
  <2>23. CASE PhaseClaimPending(p)
    BY <2>23, <1>1, OnPhaseType DEF PhaseClaimPending, SwapState, Steps, WithTx
  <2>24. CASE BroadcastClaim(p)
    <3>1. LocalTypeOK'
      BY <2>24, StopType, AbortType, GotoType, <1>1
      DEF BroadcastClaim, AfterClaim, TypeOK, Steps, WithTx
    <3> QED
      BY <2>24, <3>1 DEF BroadcastClaim, TypeOK, LocalTypeOK, Places
  <2>25. CASE ObserveClaim(p, AfterClaim(p))
    <3>1. LocalTypeOK'
      BY <2>25, StopType, GotoType, <1>1
      DEF ObserveClaim, Confirm, TypeOK, AfterClaim, Steps, WithTx
    <3> QED
      BY <2>25, <3>1, MineType DEF ObserveClaim, Confirm, TypeOK, LocalTypeOK
  <2>26. CASE ObserveClaimAgain(p, AfterClaim(p))
    BY <2>26, StopType, AbortType, GotoType, <1>1
    DEF ObserveClaimAgain, AfterClaim, TypeOK, Steps, WithTx, LocalTypeOK
  <2>27. CASE PhaseSettled(p)
    BY <2>27, <1>1, OnPhaseType DEF PhaseSettled, SwapState, Steps, WithTx
  <2>28. CASE RecordEvidence(p)
    <3>1. LocalTypeOK'
      BY <2>28, StopType, AbortType, GotoType, <1>1
      DEF RecordEvidence, TypeOK, Steps, WithTx
    <3> QED
      BY <2>28, <3>1 DEF RecordEvidence, TypeOK, LocalTypeOK, Confirmations
  <2>29. CASE Report(p)
    BY <2>29, StopType, AbortType, GotoType, <1>1
    DEF Report, TypeOK, Steps, WithTx, LocalTypeOK
  <2>30. CASE CancelIfAccepted(p)
    <3>1. LocalTypeOK'
      BY <2>30, StopType, AbortType, GotoType, <1>1
      DEF CancelIfAccepted, TypeOK, Steps, WithTx
    <3> QED
      BY <2>30, <3>1 DEF CancelIfAccepted, TypeOK, LocalTypeOK, InvoiceStates
  <2> QED
    BY <1>1, <2>1, <2>2, <2>3, <2>4, <2>5, <2>6, <2>7, <2>8, <2>9, <2>10,
       <2>11, <2>12, <2>13, <2>14, <2>15, <2>16, <2>17, <2>18, <2>19, <2>20,
       <2>21, <2>22, <2>23, <2>24, <2>25, <2>26, <2>27, <2>28, <2>29, <2>30
    DEF RunnerStep
<1>2. ASSUME NEW p \in Runners, NEW resume \in BOOLEAN, Start(p, resume) PROVE TypeOK'
  <2>1. loc' \in [Runners -> Locals]
    BY <1>2 DEF Start, Fresh, Locals, TypeOK, InvoiceStates
  <2>2. LocalTypeOK'
    BY <1>2, <2>1 DEF Start, Goto, TypeOK, LocalTypeOK, Steps, WithTx
  <2> QED
    BY <1>2, <2>2 DEF Start, TypeOK, LocalTypeOK
<1>3. ASSUME NEW p \in Runners, Fail(p) \/ Crash(p) \/ FailWriting(p) \/ CrashWriting(p)
      PROVE  TypeOK'
  <2>1. LocalTypeOK'
    BY <1>3, StopType, AbortType DEF Fail, Crash, FailWriting, CrashWriting
  <2>2. faults' \in Nat
    BY <1>3 DEF Fail, Crash, FailWriting, CrashWriting, TypeOK
  <2>3. torn' \subseteq {"funding", "claim", "refund"}
    BY <1>3 DEF Fail, Crash, FailWriting, CrashWriting, TypeOK
  <2>4. fundingOutbox' \in FundingTxs \cup {NoTx}
    BY <1>3 DEF Fail, Crash, FailWriting, CrashWriting, TypeOK, WithTx
  <2> QED
    BY <1>3, <2>1, <2>2, <2>3, <2>4 DEF Fail, Crash, FailWriting, CrashWriting, TypeOK, LocalTypeOK
<1>4. CASE RefundStep
  <2>1. CASE RefundObserve
    <3>1. CASE MineBlock
      BY <2>1, <3>1, MineType DEF RefundObserve, RefundGoto, TypeOK, RefundSteps
    <3>2. CASE RefundGoto("idle") /\ UNCHANGED <<refundOutbox, refundTx>>
      BY <3>2, RefundGotoType DEF TypeOK, RefundSteps
    <3> QED
      BY <2>1, <3>1, <3>2 DEF RefundObserve
  <2>2. CASE RefundTrackPayment \/ RefundLookupInvoice \/ RefundObserveAgain
    <3>1. /\ RefundGoto("invoice") \/ RefundGoto("files") \/ RefundGoto("idle")
          /\ UNCHANGED <<refundOutbox, refundTx>>
      BY <2>2 DEF RefundTrackPayment, RefundLookupInvoice, RefundObserveAgain
    <3> QED
      BY <3>1, RefundGotoType DEF TypeOK, RefundSteps
  <2>3. CASE RefundPersist
    <3>1. /\ RefundGoto("broadcast") \/ RefundGoto("idle")
          /\ refundOutbox' \in BOOLEAN /\ UNCHANGED refundTx
      BY <2>3 DEF RefundPersist, TypeOK
    <3> QED
      BY <3>1, RefundGotoType DEF TypeOK, RefundSteps
  <2>4. CASE RefundBroadcast
    <3>1. /\ RefundGoto("observe") \/ RefundGoto("idle")
          /\ refundTx' \in Places /\ UNCHANGED refundOutbox
      BY <2>4 DEF RefundBroadcast, TypeOK, Places
    <3> QED
      BY <3>1, RefundGotoType DEF TypeOK, RefundSteps
  <2> QED
    BY <1>4, <2>1, <2>2, <2>3, <2>4 DEF RefundStep
<1>5. CASE RefundFails
  <2>1. torn' = torn \/ torn' = torn \cup {"refund"}
    BY <1>5 DEF RefundFails
  <2>2. torn' \subseteq {"funding", "claim", "refund"}
    BY <2>1 DEF TypeOK
  <2>3. faults' \in Nat /\ refunder' \in RefundSteps
    BY <1>5 DEF RefundFails, TypeOK, RefundSteps
  <2>4. UNCHANGED <<client, evidence, fundingOutbox, claimOutbox, refundOutbox, maker,
                    lightning, chain, local>>
    BY <1>5 DEF RefundFails
  <2> QED
    BY <2>2, <2>3, <2>4 DEF TypeOK
<1>6. CASE Environment
  <2>1. CASE LiquidBlock
    BY <2>1, MineType DEF LiquidBlock, TypeOK
  <2>2. CASE QuoteExpires \/ MakerReleasesReservation
    BY <2>2 DEF QuoteExpires, MakerReleasesReservation, TypeOK
  <2>3. CASE HtlcArrives
    BY <2>3 DEF HtlcArrives, TypeOK, InvoiceStates
  <2>4. CASE PaymentFails \/ PaymentSucceeds
    <3>1. payment' \in PaymentStates
      BY <2>4 DEF PaymentFails, PaymentSucceeds, PaymentStates
    <3> QED
      BY <2>4, <3>1 DEF PaymentFails, PaymentSucceeds, TypeOK
  <2>5. CASE InvoiceCancels
    BY <2>5 DEF InvoiceCancels, TypeOK, InvoiceStates
  <2>6. CASE LightningBlock
    BY <2>6 DEF LightningBlock, TypeOK
  <2> QED
    BY <1>6, <2>1, <2>2, <2>3, <2>4, <2>5, <2>6 DEF Environment
<1>7. CASE UNCHANGED vars
  BY <1>7 DEF vars, TypeOK
<1> QED
  BY <1>1, <1>2, <1>3, <1>4, <1>5, <1>6, <1>7 DEF Next

(* For any runs and bounds the types of TypeOK are kept, among them that the *)
(* claim is never in a block above the tip (evidence counts from it).        *)
THEOREM TypeCorrect == Spec => []TypeOK
  BY TypeInit, TypeStep, PTL DEF Spec

-------------------------------------------------------------------------------
\* The variables that the invariant speaks of, but for a run's own.
shared == <<client, evidence, fundingOutbox, claimOutbox, refundOutbox, reservation, invoice,
            payment, fundingTx, claimTx, refundTx, refunder>>

Others(p) == \A q \in Runners \ {p} : pc'[q] = pc[q] /\ loc'[q] = loc[q]

LEMMA SharedStays ==
    ASSUME Shared, UNCHANGED shared
    PROVE  Shared' /\ Grows
  BY DEF shared, Shared, FundedOnce, Announced, Booked, Refunding, Grows, Locked

\* A run that does nothing keeps what it relies on.
LEMMA AtStays ==
    ASSUME NEW p \in Runners, At(p), Grows, pc'[p] = pc[p], loc'[p] = loc[p]
    PROVE  At(p)'
<1>1. Locked => Locked'
  BY DEF Grows
<1>2. fundingOutbox # NoTx => fundingOutbox' = fundingOutbox
  BY DEF Grows
<1>3. /\ client \in Exposed => client' \in Exposed
      /\ client \in Paying => client' \in Paying
      /\ client \in PaidStates => client' \in PaidStates
      /\ client = "SETTLED" => client' = "SETTLED"
  BY DEF Grows
<1>4. /\ payment = "SUCCEEDED" => payment' = "SUCCEEDED"
      /\ reservation = "CONSUMED" => reservation' = "CONSUMED"
      /\ claimOutbox => claimOutbox'
      /\ claimTx = "CONFIRMED" => claimTx' = "CONFIRMED"
  BY DEF Grows
<1> QED
  BY <1>1, <1>2, <1>3, <1>4 DEF At

LEMMA Ended ==
    ASSUME TypeOK, NEW p \in Runners, Stop(p) \/ Abort(p)
    PROVE  Others(p) /\ At(p)'
<1>1. pc'[p] \in {"idle", "cancel"} /\ Others(p)
  BY DEF TypeOK, Stop, Abort, Goto, Forget, Others
<1> QED
  BY <1>1 DEF At, WithTx

\* A failed write may leave its file behind, and nothing else.
LEMMA FailWritingEffect ==
    ASSUME TypeOK, Shared, NEW p \in Runners, FailWriting(p)
    PROVE  Shared' /\ Grows /\ Others(p) /\ At(p)'
<1>1. /\ UNCHANGED <<client, evidence, claimOutbox, refundOutbox, reservation, invoice, payment,
                     fundingTx, claimTx, refundTx, refunder>>
      /\ fundingOutbox = NoTx
  BY DEF FailWriting, maker, lightning, chain
<1>2. FundedOnce'
  <2> SUFFICES ASSUME NEW t \in FundingTxs PROVE fundingTx'[t] = "NONE"
    BY DEF FundedOnce
  <2> QED
    BY <1>1 DEF Shared, FundedOnce
<1>3. Shared' /\ Grows
  BY <1>1, <1>2 DEF Shared, Announced, Booked, Refunding, Grows, Locked
<1> QED
  BY <1>3, Ended DEF FailWriting

LEMMA Moved ==
    ASSUME TypeOK, NEW p \in Runners, NEW step, Goto(p, step), UNCHANGED loc
    PROVE  Others(p) /\ pc'[p] = step /\ loc'[p] = loc[p]
  BY DEF TypeOK, Goto, Others

\* on_phase: the row moves on by one phase at most, and never back.
From == [INPUT_FUNDING |-> Exposed, INPUT_LOCKED |-> Exposed \ {"INPUT_FUNDING"},
         OUTPUT_PENDING |-> Paying, OUTPUT_SETTLED |-> PaidStates,
         CLAIM_PENDING |-> {"CLAIM_PENDING", "SETTLED"}, SETTLED |-> {"SETTLED"}]

LEMMA OnPhaseEffect ==
    ASSUME IInv, NEW p \in Runners, NEW next \in DOMAIN From, NEW then, OnPhase(p, next, then),
           next = "SETTLED" => claimTx = "CONFIRMED"
    PROVE  /\ Shared' /\ Grows /\ Others(p)
           /\ At(p)' \/ (pc'[p] = then /\ loc'[p] = loc[p] /\ client' \in From[next])
<1>1. client \in Forward
  BY DEF IInv, Shared, Announced
<1>2. CASE /\ client # "ABSENT" /\ Rank(client) >= Rank(next)
           /\ Goto(p, then) /\ UNCHANGED <<client, loc>>
  <2>1. client \in From[next]
    BY <1>1, <1>2 DEF From, Forward, Exposed, Paying, PaidStates, Rank
  <2>2. UNCHANGED shared
    BY <1>2 DEF OnPhase, shared, maker, lightning, chain
  <2> QED
    BY <1>2, <2>1, <2>2, SharedStays, Moved DEF IInv
<1>3. CASE Stop(p) /\ UNCHANGED client
  <2>1. UNCHANGED shared
    BY <1>3 DEF OnPhase, shared, maker, lightning, chain
  <2> QED
    BY <1>3, <2>1, SharedStays, Ended DEF IInv
<1>4. CASE client = Before(next) /\ client' = next /\ Goto(p, then) /\ UNCHANGED loc
  <2>1. /\ client' \in From[next]
        /\ client' \in Forward
        /\ client \in Exposed => client' \in Exposed
        /\ client \in Paying => client' \in Paying
        /\ client \in PaidStates => client' \in PaidStates
        /\ client # "SETTLED"
    BY <1>1, <1>4 DEF Before, ExpectedBefore, From, Forward, Exposed, Paying, PaidStates
  <2>2. UNCHANGED <<evidence, fundingOutbox, claimOutbox, refundOutbox, reservation, invoice,
                    payment, fundingTx, claimTx, refundTx, refunder>>
    BY DEF OnPhase, maker, lightning, chain
  <2>3. Shared'
    BY <1>4, <2>1, <2>2 DEF IInv, Shared, FundedOnce, Announced, Booked, Refunding, Locked
  <2>4. Grows
    BY <1>4, <2>1, <2>2 DEF Grows, Locked
  <2> QED
    BY <1>4, <2>1, <2>3, <2>4, Moved DEF IInv
<1> QED
  BY <1>2, <1>3, <1>4 DEF OnPhase

\* A block confirms transactions, and makes none.
LEMMA Mined ==
    ASSUME IInv, MineBlock,
           UNCHANGED <<client, evidence, fundingOutbox, claimOutbox, refundOutbox, reservation,
                       invoice, payment>>,
           refunder' = refunder \/ (refunder = "observe" /\ refunder' = "observe2")
    PROVE  Shared' /\ Grows
<1>1. /\ \A t \in FundingTxs : /\ fundingTx'[t] = "NONE" <=> fundingTx[t] = "NONE"
                               /\ fundingTx[t] = "CONFIRMED" => fundingTx'[t] = "CONFIRMED"
      /\ claimTx' = "NONE" <=> claimTx = "NONE"
      /\ claimTx = "CONFIRMED" => claimTx' = "CONFIRMED"
      /\ refundTx' = "NONE" <=> refundTx = "NONE"
  BY DEF MineBlock
<1>2. Locked => Locked'
  BY <1>1 DEF IInv, TypeOK, Locked
<1>3. Shared'
  BY <1>1, <1>2 DEF IInv, Shared, FundedOnce, Announced, Booked, Refunding
<1> QED
  BY <1>1, <1>2, <1>3 DEF Grows

\* The steps of a run that read, but for its own locals change nothing.
LEMMA ReadingStep ==
    ASSUME IInv, NEW p \in Runners,
           \/ CheckReservation(p) \/ AttachReservation(p) \/ ReadClaimOutbox(p, "timing")
           \/ CheckTiming(p) \/ ReadFundingOutbox(p) \/ ObserveFundingAgain(p)
           \/ PayReturns(p) \/ ObserveAccepted(p, "settle") \/ TrackSuccess(p)
           \/ ObserveClaimAgain(p, AfterClaim(p)) \/ Report(p)
    PROVE  Shared' /\ Grows /\ Others(p) /\ At(p)'
<1> USE DEF disk, maker, lightning, chain, shared
<1>0. TypeOK /\ Shared /\ At(p) /\ loc[p] \in Locals
  BY DEF IInv, TypeOK
<1>1. CASE CheckReservation(p)
  <2>1. UNCHANGED shared
    BY <1>1 DEF CheckReservation
  <2>2. CASE Stop(p)
    BY <1>0, <2>1, <2>2, SharedStays, Ended
  <2>3. CASE Forget(p) /\ (Goto(p, "invoice") \/ Goto(p, "attach"))
    <3>1. Others(p) /\ pc'[p] \in {"invoice", "attach"} /\ ~loc'[p].replay
      BY <1>0, <2>3 DEF TypeOK, Forget, Goto, Others, Fresh
    <3> QED
      BY <1>0, <2>1, <3>1, SharedStays DEF At, WithTx
  <2> QED
    BY <1>1, <2>2, <2>3 DEF CheckReservation
<1>2. CASE AttachReservation(p)
  <2>1. UNCHANGED shared /\ Others(p) /\ pc'[p] = "invoice" /\ loc'[p] = loc[p]
    BY <1>0, <1>2, Moved DEF AttachReservation
  <2> QED
    BY <1>0, <1>2, <2>1, SharedStays DEF At, WithTx, AttachReservation
<1>3. CASE ReadClaimOutbox(p, "timing")
  <2>1. UNCHANGED shared
    BY <1>3 DEF ReadClaimOutbox
  <2>2. CASE Stop(p)
    BY <1>0, <2>1, <2>2, SharedStays, Ended
  <2>3. CASE ~Stop(p)
    <3>1. /\ Others(p) /\ pc'[p] = IF claimOutbox THEN "bc_claim" ELSE "timing"
          /\ loc'[p].replay = claimOutbox
      BY <1>0, <1>3, <2>3 DEF ReadClaimOutbox, TypeOK, Goto, Others, Locals
    <3> QED
      BY <1>0, <2>1, <3>1, SharedStays DEF At, WithTx
  <2> QED
    BY <2>2, <2>3
<1>4. CASE CheckTiming(p)
  <2>1. UNCHANGED shared /\ pc[p] = "timing"
    BY <1>4 DEF CheckTiming
  <2>2. CASE Abort(p)
    BY <1>0, <2>1, <2>2, SharedStays, Ended
  <2>3. CASE Goto(p, "funding") /\ UNCHANGED loc
    <3>1. Others(p) /\ pc'[p] = "funding" /\ loc'[p] = loc[p]
      BY <1>0, <2>3, Moved
    <3> QED
      BY <1>0, <2>1, <3>1, SharedStays DEF At, WithTx
  <2> QED
    BY <1>4, <2>2, <2>3 DEF CheckTiming
<1>5. CASE ReadFundingOutbox(p)
  <2>1. UNCHANGED shared /\ pc[p] = "funding"
    BY <1>5 DEF ReadFundingOutbox
  <2>2. CASE Abort(p)
    BY <1>0, <2>1, <2>2, SharedStays, Ended
  <2>3. CASE /\ fundingOutbox # NoTx /\ Goto(p, "ph_funding")
             /\ loc' = [loc EXCEPT ![p].tx = fundingOutbox, ![p].exposed = TRUE]
    <3>1. /\ Others(p) /\ pc'[p] = "ph_funding"
          /\ loc'[p].tx = fundingOutbox /\ loc'[p].replay = loc[p].replay
      BY <1>0, <2>3 DEF TypeOK, Goto, Others, Locals
    <3> QED
      BY <1>0, <2>1, <2>3, <3>1, SharedStays DEF At, WithTx
  <2>4. CASE (\E t \in FundingTxs : loc' = [loc EXCEPT ![p].tx = t]) /\ Goto(p, "persist")
    <3>1. Others(p) /\ pc'[p] = "persist" /\ loc'[p].replay = loc[p].replay
      BY <1>0, <2>4 DEF TypeOK, Goto, Others, Locals
    <3> QED
      BY <1>0, <2>1, <3>1, SharedStays DEF At, WithTx
  <2> QED
    BY <1>5, <2>2, <2>3, <2>4 DEF ReadFundingOutbox
<1>6. CASE ObserveFundingAgain(p)
  <2>1. UNCHANGED shared /\ pc[p] = "obs_funding2"
    BY <1>6 DEF ObserveFundingAgain
  <2>2. CASE Stop(p)
    BY <1>0, <2>1, <2>2, SharedStays, Ended
  <2>3. CASE FundingVisible(loc[p].tx) /\ Goto(p, "ph_locked") /\ UNCHANGED loc
    <3>1. Others(p) /\ pc'[p] = "ph_locked" /\ loc'[p] = loc[p]
      BY <1>0, <2>3, Moved
    <3>2. Locked
      BY <1>0, <2>1, <2>3 DEF At, WithTx, FundingVisible, Locked
    <3> QED
      BY <1>0, <2>1, <3>1, <3>2, SharedStays DEF At, WithTx, Locked
  <2> QED
    BY <1>6, <2>2, <2>3 DEF ObserveFundingAgain
<1>7. CASE PayReturns(p)
  <2>1. UNCHANGED shared /\ pc[p] = "paying"
    BY <1>7 DEF PayReturns
  <2>2. CASE Abort(p)
    BY <1>0, <2>1, <2>2, SharedStays, Ended
  <2>3. CASE Goto(p, "accept") /\ UNCHANGED loc
    <3>1. Others(p) /\ pc'[p] = "accept" /\ loc'[p] = loc[p]
      BY <1>0, <2>3, Moved
    <3> QED
      BY <1>0, <2>1, <3>1, SharedStays DEF At, WithTx
  <2> QED
    BY <1>7, <2>2, <2>3 DEF PayReturns
<1>8. CASE ObserveAccepted(p, "settle")
  <2>1. UNCHANGED shared /\ pc[p] = "accept"
    BY <1>8 DEF ObserveAccepted
  <2>2. CASE Abort(p)
    BY <1>0, <2>1, <2>2, SharedStays, Ended
  <2>3. CASE loc' = [loc EXCEPT ![p].inv = invoice] /\ Goto(p, "settle")
    <3>1. Others(p) /\ pc'[p] = "settle" /\ loc'[p].replay = loc[p].replay
      BY <1>0, <2>3 DEF TypeOK, Goto, Others, Locals
    <3> QED
      BY <1>0, <2>1, <3>1, SharedStays DEF At, WithTx
  <2> QED
    BY <1>8, <2>2, <2>3 DEF ObserveAccepted
<1>9. CASE TrackSuccess(p)
  <2>1. UNCHANGED shared /\ pc[p] = "track"
    BY <1>9 DEF TrackSuccess
  <2>2. CASE Stop(p)
    BY <1>0, <2>1, <2>2, SharedStays, Ended
  <2>3. CASE payment = "SUCCEEDED" /\ Goto(p, "ph_output") /\ UNCHANGED loc
    <3>1. Others(p) /\ pc'[p] = "ph_output" /\ loc'[p] = loc[p]
      BY <1>0, <2>3, Moved
    <3> QED
      BY <1>0, <2>1, <2>3, <3>1, SharedStays DEF At, WithTx
  <2> QED
    BY <1>9, <2>2, <2>3 DEF TrackSuccess
<1>10. CASE ObserveClaimAgain(p, AfterClaim(p))
  <2>1. UNCHANGED shared /\ pc[p] = "obs_claim2"
    BY <1>10 DEF ObserveClaimAgain
  <2>2. CASE Stop(p)
    BY <1>0, <2>1, <2>2, SharedStays, Ended
  <2>3. CASE claimTx = "CONFIRMED" /\ Goto(p, AfterClaim(p)) /\ UNCHANGED loc
    <3>1. Others(p) /\ pc'[p] \in {"accept", "ph_settled"} /\ loc'[p] = loc[p]
      BY <1>0, <2>3, Moved DEF AfterClaim
    <3> QED
      BY <1>0, <2>1, <2>3, <3>1, SharedStays DEF At, WithTx
  <2> QED
    BY <1>10, <2>2, <2>3 DEF ObserveClaimAgain
<1>11. CASE Report(p)
  <2>1. UNCHANGED shared /\ Stop(p)
    BY <1>11 DEF Report
  <2> QED
    BY <1>0, <2>1, SharedStays, Ended
<1> QED
  BY <1>1, <1>2, <1>3, <1>4, <1>5, <1>6, <1>7, <1>8, <1>9, <1>10, <1>11

\* The steps of a run that write a file or a row, or act on a node.
LEMMA WritingStep ==
    ASSUME IInv, NEW p \in Runners,
           \/ EnsureSwapRecord(p) \/ EnsureInvoice(p) \/ PersistFunding(p) \/ BroadcastFunding(p)
           \/ ObserveFunding(p) \/ Pay(p) \/ SettleInvoice(p) \/ ConsumeReservation(p)
           \/ PersistClaim(p) \/ BroadcastClaim(p) \/ ObserveClaim(p, AfterClaim(p))
           \/ RecordEvidence(p) \/ CancelIfAccepted(p)
    PROVE  Shared' /\ Grows /\ Others(p) /\ At(p)'
<1> USE DEF disk, maker, lightning, chain, shared
<1>0. TypeOK /\ Shared /\ At(p) /\ loc[p] \in Locals
  BY DEF IInv, TypeOK
<1> DEFINE Quiet == UNCHANGED shared /\ (Stop(p) \/ Abort(p))
<1>q. CASE Quiet
  BY <1>0, <1>q, SharedStays, Ended
<1>1. CASE EnsureSwapRecord(p)
  <2>1. CASE /\ Goto(p, "reserve") /\ UNCHANGED loc
             /\ client' = client \/ (client = "ABSENT" /\ client' = "CREATED")
    <3>1. Others(p) /\ pc'[p] = "reserve" /\ loc'[p] = loc[p] /\ pc[p] = "record"
      BY <1>0, <1>1, <2>1, Moved DEF EnsureSwapRecord
    <3>2. Shared' /\ Grows
      BY <1>0, <1>1, <2>1 DEF EnsureSwapRecord, Shared, FundedOnce, Announced, Booked, Refunding,
         Grows, Locked, Forward, Exposed, Paying, PaidStates
    <3>3. claimTx' = claimTx
      BY <1>1 DEF EnsureSwapRecord
    <3> QED
      BY <1>0, <3>1, <3>2, <3>3 DEF At, WithTx
  <2> QED
    BY <1>1, <2>1, <1>q DEF EnsureSwapRecord
<1>2. CASE EnsureInvoice(p)
  <2>1. CASE ~Quiet
    <3>1. /\ Others(p) /\ pc'[p] = "replay" /\ loc'[p].replay = loc[p].replay
          /\ pc[p] = "invoice" /\ UNCHANGED claimTx
      BY <1>0, <1>2, <2>1 DEF EnsureInvoice, TypeOK, Goto, Others, Locals
    <3>2. Shared' /\ Grows
      BY <1>0, <1>2, <2>1 DEF EnsureInvoice, Shared, FundedOnce, Announced, Booked, Refunding,
         Grows, Locked
    <3> QED
      BY <1>0, <3>1, <3>2 DEF At, WithTx
  <2> QED
    BY <1>q, <2>1
<1>3. CASE PersistFunding(p)
  <2>1. CASE /\ fundingOutbox \in {NoTx, loc[p].tx} /\ fundingOutbox' = loc[p].tx
             /\ loc' = [loc EXCEPT ![p].exposed = TRUE] /\ Goto(p, "ph_funding")
    <3>1. /\ Others(p) /\ pc'[p] = "ph_funding" /\ pc[p] = "persist" /\ loc[p].tx \in FundingTxs
          /\ loc'[p].replay = loc[p].replay /\ loc'[p].tx = loc[p].tx /\ UNCHANGED claimTx
      BY <1>0, <1>3, <2>1 DEF PersistFunding, TypeOK, Goto, Others, Locals, WithTx
    <3>2. fundingOutbox' # NoTx /\ (fundingOutbox # NoTx => UNCHANGED fundingOutbox)
      BY <2>1, <3>1
    <3>3. Locked => Locked'
      BY <1>3, <3>2 DEF PersistFunding, Locked
    <3>4. FundedOnce'
      BY <1>0, <1>3, <3>2 DEF PersistFunding, FundedOnce, Shared
    <3>5. Shared' /\ Grows
      BY <1>0, <1>3, <3>2, <3>3, <3>4
      DEF PersistFunding, Shared, Announced, Booked, Refunding, Grows
    <3> QED
      BY <1>0, <2>1, <3>1, <3>2, <3>5 DEF At, WithTx
  <2> QED
    BY <1>3, <2>1, <1>q DEF PersistFunding
<1>4. CASE BroadcastFunding(p)
  <2>1. /\ Others(p) /\ pc'[p] = "obs_funding" /\ pc[p] = "bc_funding" /\ loc'[p] = loc[p]
        /\ loc[p].tx = fundingOutbox /\ client \in Exposed /\ loc[p].tx \in FundingTxs
    BY <1>0, <1>4, Moved DEF BroadcastFunding, At, WithTx, TypeOK
  <2>2. \A t \in FundingTxs :
            /\ fundingTx'[t] # "NONE" => fundingTx[t] # "NONE" \/ t = fundingOutbox
            /\ fundingTx[t] = "CONFIRMED" => fundingTx'[t] = "CONFIRMED"
    BY <1>0, <1>4, <2>1 DEF BroadcastFunding, TypeOK
  <2>3. Locked => Locked'
    BY <1>0, <1>4, <2>2 DEF BroadcastFunding, Locked, TypeOK
  <2>4. Shared' /\ Grows
    BY <1>0, <1>4, <2>1, <2>2, <2>3 DEF BroadcastFunding, Shared, FundedOnce, Announced, Booked,
       Refunding, Grows
  <2> QED
    BY <1>0, <1>4, <2>1, <2>4 DEF At, WithTx, BroadcastFunding
<1>5. CASE ObserveFunding(p)
  <2>1. CASE FundingVisible(loc[p].tx) /\ Goto(p, "ph_locked") /\ UNCHANGED <<chain, loc>>
    <3>1. UNCHANGED shared /\ pc[p] = "obs_funding"
      BY <1>5, <2>1 DEF ObserveFunding
    <3>2. Others(p) /\ pc'[p] = "ph_locked" /\ loc'[p] = loc[p]
      BY <1>0, <2>1, Moved
    <3>3. Locked
      BY <1>0, <2>1, <3>1 DEF At, WithTx, FundingVisible, Locked
    <3> QED
      BY <1>0, <3>1, <3>2, <3>3, SharedStays DEF At, WithTx, Locked
  <2>2. CASE MineBlock /\ Goto(p, "obs_funding2") /\ UNCHANGED loc
    <3>1. Others(p) /\ pc'[p] = "obs_funding2" /\ loc'[p] = loc[p] /\ pc[p] = "obs_funding"
      BY <1>0, <1>5, <2>2, Moved DEF ObserveFunding
    <3>2. Shared' /\ Grows
      BY <1>5, <2>2, Mined DEF ObserveFunding
    <3> QED
      BY <1>0, <1>5, <3>1, <3>2 DEF At, WithTx, ObserveFunding, Grows
  <2> QED
    BY <1>5, <2>1, <2>2, <1>q DEF ObserveFunding, Confirm
<1>6. CASE Pay(p)
  <2>0. pc[p] = "pay" /\ Locked /\ client \in Paying /\ UNCHANGED <<client, claimTx>>
    BY <1>0, <1>6 DEF Pay, At
  <2>1. CASE Goto(p, "accept") /\ UNCHANGED <<payment, loc>>
    <3>1. UNCHANGED shared /\ Others(p) /\ pc'[p] = "accept" /\ loc'[p] = loc[p]
      BY <1>0, <1>6, <2>1, Moved DEF Pay
    <3> QED
      BY <1>0, <2>0, <3>1, SharedStays DEF At, WithTx
  <2>2. CASE Payable /\ payment' = "INFLIGHT" /\ Goto(p, "paying") /\ UNCHANGED loc
    <3>1. Others(p) /\ pc'[p] = "paying" /\ loc'[p] = loc[p]
      BY <1>0, <2>2, Moved
    <3>2. Shared' /\ Grows
      BY <1>0, <1>6, <2>0, <2>2 DEF Pay, Payable, Shared, FundedOnce, Announced, Booked, Refunding,
         Grows, Locked
    <3> QED
      BY <1>0, <2>0, <3>1, <3>2 DEF At, WithTx
  <2> QED
    BY <1>6, <2>1, <2>2, <1>q DEF Pay
<1>7. CASE SettleInvoice(p)
  <2>1. CASE /\ Goto(p, "track") /\ UNCHANGED loc
             /\ invoice' = IF invoice = "ACCEPTED" THEN "SETTLED" ELSE invoice
    <3>1. /\ Others(p) /\ pc'[p] = "track" /\ loc'[p] = loc[p] /\ pc[p] = "settle"
          /\ UNCHANGED claimTx
      BY <1>0, <1>7, <2>1, Moved DEF SettleInvoice
    <3>2. Shared' /\ Grows
      BY <1>0, <1>7, <2>1 DEF SettleInvoice, Shared, FundedOnce, Announced, Booked, Refunding,
         Grows, Locked
    <3> QED
      BY <1>0, <3>1, <3>2 DEF At, WithTx
  <2> QED
    BY <1>7, <2>1, <1>q DEF SettleInvoice
<1>8. CASE ConsumeReservation(p)
  <2>1. CASE /\ reservation' = "CONSUMED" /\ UNCHANGED loc
             /\ Goto(p, IF loc[p].replay THEN "ph_settled" ELSE "claim")
    <3>1. /\ Others(p) /\ loc'[p] = loc[p] /\ pc[p] = "consume" /\ UNCHANGED claimTx
          /\ pc'[p] = IF loc[p].replay THEN "ph_settled" ELSE "claim"
      BY <1>0, <1>8, <2>1, Moved DEF ConsumeReservation
    <3>2. payment = "SUCCEEDED" /\ client \in PaidStates
      BY <1>0, <3>1 DEF At
    <3>3. Shared' /\ Grows
      BY <1>0, <1>8, <2>1, <3>2 DEF ConsumeReservation, Shared, FundedOnce, Announced, Booked,
         Refunding, Grows, Locked
    <3> QED
      BY <1>0, <2>1, <3>1, <3>3 DEF At, WithTx
  <2> QED
    BY <1>8, <2>1, <1>q DEF ConsumeReservation
<1>9. CASE PersistClaim(p)
  <2>1. CASE claimOutbox' = TRUE /\ Goto(p, "ph_claim") /\ UNCHANGED loc
    <3>1. /\ Others(p) /\ pc'[p] = "ph_claim" /\ loc'[p] = loc[p] /\ pc[p] = "claim"
          /\ UNCHANGED claimTx
      BY <1>0, <1>9, <2>1, Moved DEF PersistClaim
    <3>2. reservation = "CONSUMED"
      BY <1>0, <3>1 DEF At
    <3>3. Shared' /\ Grows
      BY <1>0, <1>9, <2>1, <3>2 DEF PersistClaim, Shared, FundedOnce, Announced, Booked,
         Refunding, Grows, Locked
    <3> QED
      BY <1>0, <2>1, <3>1, <3>3 DEF At, WithTx
  <2> QED
    BY <1>9, <2>1, <1>q DEF PersistClaim
<1>10. CASE BroadcastClaim(p)
  <2>1. CASE /\ claimTx' = IF claimTx = "NONE" THEN "MEMPOOL" ELSE claimTx
             /\ Goto(p, "obs_claim") /\ UNCHANGED loc
    <3>1. Others(p) /\ pc'[p] = "obs_claim" /\ loc'[p] = loc[p] /\ pc[p] = "bc_claim"
      BY <1>0, <1>10, <2>1, Moved DEF BroadcastClaim
    <3>2. claimOutbox /\ UNCHANGED claimOutbox
      BY <1>0, <1>10, <3>1 DEF At, BroadcastClaim
    <3>3. Shared' /\ Grows
      BY <1>0, <1>10, <2>1, <3>2 DEF BroadcastClaim, Shared, FundedOnce, Announced, Booked,
         Refunding, Grows, Locked
    <3> QED
      BY <1>0, <3>1, <3>2, <3>3 DEF At, WithTx
  <2> QED
    BY <1>10, <2>1, <1>q DEF BroadcastClaim
<1>11. CASE ObserveClaim(p, AfterClaim(p))
  <2>1. CASE claimTx = "CONFIRMED" /\ Goto(p, AfterClaim(p)) /\ UNCHANGED <<chain, loc>>
    <3>1. UNCHANGED shared /\ Others(p) /\ pc'[p] \in {"accept", "ph_settled"} /\ loc'[p] = loc[p]
      BY <1>0, <1>11, <2>1, Moved DEF ObserveClaim, AfterClaim
    <3> QED
      BY <1>0, <2>1, <3>1, SharedStays DEF At, WithTx
  <2>2. CASE MineBlock /\ Goto(p, "obs_claim2") /\ UNCHANGED loc
    <3>1. /\ Others(p) /\ pc'[p] = "obs_claim2" /\ loc'[p] = loc[p] /\ pc[p] = "obs_claim"
          /\ UNCHANGED claimOutbox
      BY <1>0, <1>11, <2>2, Moved DEF ObserveClaim
    <3>2. Shared' /\ Grows
      BY <1>11, <2>2, Mined DEF ObserveClaim
    <3> QED
      BY <1>0, <3>1, <3>2 DEF At, WithTx
  <2> QED
    BY <1>11, <2>1, <2>2, <1>q DEF ObserveClaim, Confirm
<1>12. CASE RecordEvidence(p)
  <2>0. pc[p] = "evidence" /\ client = "SETTLED"
    BY <1>0, <1>12 DEF RecordEvidence, At
  <2>1. CASE Goto(p, "check") /\ UNCHANGED loc
    <3>1. Others(p) /\ pc'[p] = "check" /\ loc'[p] = loc[p] /\ UNCHANGED claimTx
      BY <1>0, <1>12, <2>1, Moved DEF RecordEvidence
    <3>2. Shared' /\ Grows
      BY <1>0, <1>12, <2>0 DEF RecordEvidence, Shared, FundedOnce, Announced, Booked, Refunding,
         Grows, Locked
    <3> QED
      BY <1>0, <2>0, <3>1, <3>2 DEF At, WithTx
  <2> QED
    BY <1>12, <2>1, <1>q DEF RecordEvidence
<1>13. CASE CancelIfAccepted(p)
  <2>1. Shared' /\ Grows
    BY <1>0, <1>13 DEF CancelIfAccepted, Shared, FundedOnce, Announced, Booked, Refunding, Grows,
       Locked
  <2> QED
    BY <1>0, <1>13, <2>1, Ended DEF CancelIfAccepted
<1> QED
  BY <1>1, <1>2, <1>3, <1>4, <1>5, <1>6, <1>7, <1>8, <1>9, <1>10, <1>11, <1>12, <1>13

\* The refund, the maker, the nodes and the chain.
LEMMA RefundEffect ==
    ASSUME IInv, RefundStep \/ RefundFails
    PROVE  Shared' /\ Grows /\ UNCHANGED local
<1> USE DEF disk, maker, lightning, chain, local
<1>0. TypeOK /\ Shared
  BY DEF IInv
<1>1. CASE RefundTrackPayment \/ RefundLookupInvoice \/ RefundObserveAgain \/ RefundFails
  <2>1. /\ UNCHANGED <<client, evidence, fundingOutbox, claimOutbox, refundOutbox, reservation,
                       invoice, payment, fundingTx, claimTx, refundTx, local>>
        /\ \/ refunder' = "idle"
           \/ refunder = "idle" /\ payment # "NONE" /\ refunder' = "invoice"
           \/ refunder = "invoice" /\ invoice = "CANCELED" /\ refunder' = "files"
    BY <1>1 DEF RefundTrackPayment, RefundLookupInvoice, RefundObserveAgain, RefundFails, RefundGoto
  <2> QED
    BY <1>0, <2>1 DEF Shared, FundedOnce, Announced, Booked, Refunding, Grows, Locked
<1>2. CASE RefundPersist
  BY <1>0, <1>2 DEF RefundPersist, RefundGoto, Shared, FundedOnce, Announced, Booked, Refunding,
     Grows, Locked
<1>3. CASE RefundBroadcast
  BY <1>0, <1>3 DEF RefundBroadcast, RefundGoto, Shared, FundedOnce, Announced, Booked, Refunding,
     Grows, Locked
<1>4. CASE RefundObserve
  <2>1. CASE /\ MineBlock /\ refunder' = "observe2"
             /\ UNCHANGED <<disk, maker, lightning, local, faults>>
    BY <1>4, <2>1, Mined DEF RefundObserve
  <2>2. CASE RefundGoto("idle") /\ UNCHANGED <<refundOutbox, refundTx>>
    BY <1>0, <2>2 DEF RefundGoto, Shared, FundedOnce, Announced, Booked, Refunding, Grows, Locked
  <2> QED
    BY <1>4, <2>1, <2>2 DEF RefundObserve
<1> QED
  BY <1>1, <1>2, <1>3, <1>4 DEF RefundStep

LEMMA EnvironmentEffect ==
    ASSUME IInv, Environment
    PROVE  Shared' /\ Grows /\ UNCHANGED local
<1> USE DEF disk, maker, lightning, chain, local
<1>0. TypeOK /\ Shared
  BY DEF IInv
<1>1. CASE QuoteExpires \/ LightningBlock
  BY <1>0, <1>1, SharedStays DEF QuoteExpires, LightningBlock, shared
<1>2. CASE LiquidBlock
  BY <1>2, Mined DEF LiquidBlock
<1>3. CASE MakerReleasesReservation
  BY <1>0, <1>3 DEF MakerReleasesReservation, Shared, FundedOnce, Announced, Booked, Refunding,
     Grows, Locked
<1>4. CASE HtlcArrives
  BY <1>0, <1>4 DEF HtlcArrives, Shared, FundedOnce, Announced, Booked, Refunding, Grows, Locked
<1>5. CASE PaymentFails \/ PaymentSucceeds
  BY <1>0, <1>5 DEF PaymentFails, PaymentSucceeds, Shared, FundedOnce, Announced, Booked, Refunding,
     Grows, Locked
<1>6. CASE InvoiceCancels
  BY <1>0, <1>6 DEF InvoiceCancels, Shared, FundedOnce, Announced, Booked, Refunding, Grows, Locked
<1> QED
  BY <1>1, <1>2, <1>3, <1>4, <1>5, <1>6 DEF Environment

\* Every step of a run, with its phases, ends and deaths.
LEMMA RunEffect ==
    ASSUME IInv, NEW p \in Runners,
           \/ \E resume \in BOOLEAN : Start(p, resume)
           \/ RunnerStep(p) \/ Fail(p) \/ Crash(p) \/ FailWriting(p) \/ CrashWriting(p)
    PROVE  Shared' /\ Grows /\ Others(p) /\ At(p)'
<1>0. TypeOK /\ Shared /\ At(p)
  BY DEF IInv
<1>1. CASE \E resume \in BOOLEAN : Start(p, resume)
  <2>1. UNCHANGED shared
    BY <1>1 DEF Start, shared, disk, maker, lightning, chain
  <2>2. PICK resume \in BOOLEAN : Start(p, resume)
    BY <1>1
  <2>3. PICK existing : loc' = [loc EXCEPT ![p] = [Fresh EXCEPT !.resume = resume,
                                                               !.existing = existing]]
    BY <2>2 DEF Start
  <2>4. /\ Others(p) /\ pc'[p] = "record"
        /\ loc'[p] = [Fresh EXCEPT !.resume = resume, !.existing = existing]
    BY <1>0, <2>2, <2>3 DEF Start, Goto, TypeOK, Others
  <2>5. ~loc'[p].replay
    BY <2>4 DEF Fresh
  <2> QED
    BY <1>0, <2>1, <2>4, <2>5, SharedStays DEF At, WithTx
<1>2. CASE Fail(p) \/ Crash(p) \/ CrashWriting(p)
  <2>1. UNCHANGED shared /\ (Stop(p) \/ Abort(p))
    BY <1>2 DEF Fail, Crash, CrashWriting, shared, disk, maker, lightning, chain
  <2> QED
    BY <1>0, <2>1, SharedStays, Ended
<1>9. CASE FailWriting(p)
  BY <1>0, <1>9, FailWritingEffect
<1> USE DEF From
<1>3. CASE PhaseInputFunding(p)
  <2>1. OnPhase(p, "INPUT_FUNDING", "bc_funding") /\ pc[p] = "ph_funding"
    BY <1>3 DEF PhaseInputFunding
  <2>2. fundingOutbox # NoTx /\ loc[p].tx = fundingOutbox /\ UNCHANGED <<fundingOutbox, claimTx>>
    BY <1>0, <2>1 DEF At, WithTx, OnPhase, chain
  <2> QED
    BY <1>0, <2>1, <2>2, OnPhaseEffect DEF At, WithTx
<1>4. CASE PhaseInputLocked(p)
  <2>1. OnPhase(p, "INPUT_LOCKED", "ph_pending") /\ pc[p] = "ph_locked"
    BY <1>4 DEF PhaseInputLocked
  <2> QED
    BY <1>0, <2>1, OnPhaseEffect DEF At, WithTx, Grows
<1>5. CASE PhaseOutputPending(p)
  <2>1. OnPhase(p, "OUTPUT_PENDING", "pay") /\ pc[p] = "ph_pending"
    BY <1>5 DEF PhaseOutputPending
  <2> QED
    BY <1>0, <2>1, OnPhaseEffect DEF At, WithTx, Grows
<1>6. CASE PhaseOutputSettled(p)
  <2>1. OnPhase(p, "OUTPUT_SETTLED", "consume") /\ pc[p] = "ph_output"
    BY <1>6 DEF PhaseOutputSettled
  <2> QED
    BY <1>0, <2>1, OnPhaseEffect DEF At, WithTx, Grows
<1>7. CASE PhaseClaimPending(p)
  <2>1. OnPhase(p, "CLAIM_PENDING", "bc_claim") /\ pc[p] = "ph_claim"
    BY <1>7 DEF PhaseClaimPending
  <2> QED
    BY <1>0, <2>1, OnPhaseEffect DEF At, WithTx, Grows
<1>8. CASE PhaseSettled(p)
  <2>1. OnPhase(p, "SETTLED", "evidence") /\ pc[p] = "ph_settled"
    BY <1>8 DEF PhaseSettled
  <2>2. claimTx = "CONFIRMED"
    BY <1>0, <2>1 DEF At
  <2> QED
    BY <1>0, <2>1, <2>2, OnPhaseEffect DEF At, WithTx, Grows
<1> QED
  BY <1>1, <1>2, <1>3, <1>4, <1>5, <1>6, <1>7, <1>8, <1>9, ReadingStep, WritingStep
  DEF RunnerStep

LEMMA IInvInit == Init => IInv
<1> SUFFICES ASSUME Init PROVE IInv
  OBVIOUS
<1>1. Shared
  BY DEF Init, Shared, FundedOnce, Announced, Booked, Refunding, Forward
<1>2. \A p \in Runners : At(p)
  BY DEF Init, At, WithTx
<1> QED
  BY <1>1, <1>2, TypeInit DEF IInv

LEMMA IInvStep == IInv /\ [Next]_vars => IInv' /\ Grows
<1> SUFFICES ASSUME IInv, [Next]_vars PROVE IInv' /\ Grows
  OBVIOUS
<1>0. TypeOK'
  BY TypeStep DEF IInv
<1>1. ASSUME NEW p \in Runners,
             \/ \E resume \in BOOLEAN : Start(p, resume)
             \/ RunnerStep(p) \/ Fail(p) \/ Crash(p) \/ FailWriting(p) \/ CrashWriting(p)
      PROVE  IInv' /\ Grows
  <2>1. Shared' /\ Grows /\ Others(p) /\ At(p)'
    BY <1>1, RunEffect
  <2>2. \A q \in Runners : At(q)'
    BY <2>1, AtStays DEF IInv, Others
  <2> QED
    BY <1>0, <2>1, <2>2 DEF IInv
<1>2. CASE UNCHANGED local /\ Shared' /\ Grows
  <2>1. \A q \in Runners : At(q)'
    BY <1>2, AtStays DEF IInv, local
  <2> QED
    BY <1>0, <1>2, <2>1 DEF IInv
<1>3. CASE RefundStep \/ RefundFails \/ Environment
  BY <1>2, <1>3, RefundEffect, EnvironmentEffect
<1>4. CASE UNCHANGED vars
  BY <1>2, <1>4, SharedStays
  DEF vars, shared, disk, maker, lightning, chain, local, IInv
<1> QED
  BY <1>1, <1>3, <1>4 DEF Next

LEMMA Invariance == Spec => []IInv
  BY IInvInit, IInvStep, PTL DEF Spec

-------------------------------------------------------------------------------
(* Only the transaction of the funding outbox is ever broadcast, however    *)
(* many runs sign one at the same time (prepare_or_replay_funding,          *)
(* write_outbox).                                                           *)
THEOREM FundedOnceAlways == Spec => []FundedOnce
<1>1. IInv => FundedOnce
  BY DEF IInv, Shared
<1> QED
  BY <1>1, Invariance, PTL

(* No funding transaction is on its way before the row says so, and no      *)
(* payment is started before the asset is locked (on_phase around           *)
(* prepare_or_replay_funding and pay_if_open).                              *)
THEOREM WriteAheadAlways == Spec => []WriteAhead
<1>1. IInv => WriteAhead
  BY DEF IInv, TypeOK, Shared, FundedOnce, Announced, WriteAhead, Locked, Exposed, Paying,
         PaidStates
<1> QED
  BY <1>1, Invariance, PTL

(* No claim is prepared before the payment succeeded, the hold was settled  *)
(* and the reservation booked (track_success, on_phase, claim_or_replay).   *)
THEOREM ClaimNeedsPaymentAlways == Spec => []ClaimNeedsPayment
<1>1. IInv => ClaimNeedsPayment
  BY DEF IInv, Shared, Booked, ClaimNeedsPayment
<1> QED
  BY <1>1, Invariance, PTL

(* A refund excludes a success of the payment, a claim and a booking        *)
(* (refund_funded_swap), though it reads the payment before the invoice.    *)
THEOREM RefundNeedsFailureAlways == Spec => []RefundNeedsFailure
<1>1. IInv => RefundNeedsFailure
  BY DEF IInv, Shared, Booked, Refunding, RefundNeedsFailure
<1> QED
  BY <1>1, Invariance, PTL

(* The client's row and the maker's reservation agree, across crashes       *)
(* between the transactions on their two databases (on_phase).              *)
THEOREM BooksAgreeAlways == Spec => []BooksAgree
<1>1. IInv => BooksAgree
  BY DEF IInv, Shared, Booked, BooksAgree, PaidStates
<1> QED
  BY <1>1, Invariance, PTL

-------------------------------------------------------------------------------
\* What AtomicSwap sees of a step: a block; or, with the confirmed transactions
\* as they are, a move of the hold invoice or of the reservation.
SameConfirmed ==
    /\ \A t \in FundingTxs : fundingTx'[t] = "CONFIRMED" <=> fundingTx[t] = "CONFIRMED"
    /\ claimTx' = "CONFIRMED" <=> claimTx = "CONFIRMED"
    /\ refundTx' = "CONFIRMED" <=> refundTx = "CONFIRMED"

InvoiceMoves ==
    \/ invoice' = invoice
    \/ invoice = "NONE" /\ invoice' = "OPEN"
    \/ invoice = "OPEN" /\ invoice' = "ACCEPTED" /\ payment # "NONE"
    \/ invoice = "ACCEPTED" /\ invoice' = "SETTLED"
    \/ invoice \in {"OPEN", "ACCEPTED"} /\ invoice' = "CANCELED"

ReservationMoves ==
    \/ reservation' = reservation
    \/ reservation = "HELD" /\ reservation' = "CONSUMED" /\ payment = "SUCCEEDED"
    \/ reservation = "HELD" /\ reservation' = "RELEASED"

Seen ==
    \/ MineBlock /\ UNCHANGED <<invoice, reservation>>
    \/ SameConfirmed /\ InvoiceMoves /\ reservation' = reservation
    \/ SameConfirmed /\ ReservationMoves /\ invoice' = invoice

LEMMA PhaseSeen ==
    ASSUME NEW p \in Runners, NEW next, NEW then, OnPhase(p, next, then)
    PROVE  Seen
  BY DEF OnPhase, Seen, SameConfirmed, InvoiceMoves, maker, lightning, chain

LEMMA RunnerSeen ==
    ASSUME IInv, NEW p \in Runners, RunnerStep(p)
    PROVE  Seen
<1> USE DEF maker, lightning, chain, Seen, SameConfirmed, InvoiceMoves, ReservationMoves
<1>0. TypeOK /\ At(p)
  BY DEF IInv
<1>1. CASE UNCHANGED <<fundingTx, claimTx, refundTx, invoice, reservation>>
  BY <1>1
<1>2. CASE BroadcastFunding(p)
  BY <1>0, <1>2 DEF BroadcastFunding, TypeOK
<1>3. CASE ObserveFunding(p) \/ ObserveClaim(p, AfterClaim(p))
  BY <1>1, <1>3 DEF ObserveFunding, ObserveClaim, Confirm
<1>4. CASE BroadcastClaim(p)
  BY <1>4 DEF BroadcastClaim
<1>5. CASE EnsureInvoice(p)
  BY <1>5 DEF EnsureInvoice
<1>6. CASE SettleInvoice(p)
  BY <1>6 DEF SettleInvoice
<1>7. CASE CancelIfAccepted(p)
  BY <1>7 DEF CancelIfAccepted
<1>8. CASE ConsumeReservation(p)
  BY <1>0, <1>8 DEF ConsumeReservation, At
<1>9. CASE \/ EnsureSwapRecord(p) \/ CheckReservation(p) \/ AttachReservation(p)
           \/ ReadClaimOutbox(p, "timing")
  BY <1>1, <1>9 DEF EnsureSwapRecord, CheckReservation, AttachReservation, ReadClaimOutbox
<1>10. CASE CheckTiming(p) \/ ReadFundingOutbox(p) \/ PersistFunding(p) \/ ObserveFundingAgain(p)
  BY <1>1, <1>10 DEF CheckTiming, ReadFundingOutbox, PersistFunding, ObserveFundingAgain
<1>11. CASE \/ Pay(p) \/ PayReturns(p) \/ ObserveAccepted(p, "settle") \/ TrackSuccess(p)
            \/ PersistClaim(p)
  BY <1>1, <1>11 DEF Pay, PayReturns, ObserveAccepted, TrackSuccess, PersistClaim
<1>12. CASE ObserveClaimAgain(p, AfterClaim(p)) \/ RecordEvidence(p) \/ Report(p)
  BY <1>1, <1>12 DEF ObserveClaimAgain, RecordEvidence, Report
<1>13. CASE \/ PhaseInputFunding(p) \/ PhaseInputLocked(p) \/ PhaseOutputPending(p)
            \/ PhaseOutputSettled(p) \/ PhaseClaimPending(p) \/ PhaseSettled(p)
  BY <1>13, PhaseSeen
  DEF PhaseInputFunding, PhaseInputLocked, PhaseOutputPending, PhaseOutputSettled,
      PhaseClaimPending, PhaseSettled
<1> QED
  BY <1>2, <1>3, <1>4, <1>5, <1>6, <1>7, <1>8, <1>9, <1>10, <1>11, <1>12, <1>13 DEF RunnerStep

LEMMA StepSeen == IInv /\ [Next]_vars => Seen
<1> SUFFICES ASSUME IInv, [Next]_vars PROVE Seen
  OBVIOUS
<1> USE DEF disk, maker, lightning, chain
<1>1. CASE UNCHANGED <<fundingTx, claimTx, refundTx, invoice, reservation>>
  BY <1>1 DEF Seen, SameConfirmed, InvoiceMoves
<1>2. ASSUME NEW p \in Runners,
             \/ \E resume \in BOOLEAN : Start(p, resume)
             \/ Fail(p) \/ Crash(p) \/ FailWriting(p) \/ CrashWriting(p)
      PROVE  Seen
  BY <1>1, <1>2 DEF Start, Fail, Crash, FailWriting, CrashWriting
<1>3. CASE RefundStep \/ RefundFails
  <2>1. CASE RefundObserve
    BY <1>1, <2>1 DEF RefundObserve, RefundGoto, Seen
  <2>2. CASE RefundBroadcast
    BY <2>2 DEF RefundBroadcast, RefundGoto, Seen, SameConfirmed, InvoiceMoves
  <2> QED
    BY <1>1, <1>3, <2>1, <2>2
    DEF RefundStep, RefundFails, RefundTrackPayment, RefundLookupInvoice, RefundPersist,
        RefundObserveAgain, RefundGoto
<1>4. CASE Environment
  <2>1. CASE HtlcArrives \/ InvoiceCancels
    BY <2>1 DEF HtlcArrives, InvoiceCancels, Seen, SameConfirmed, InvoiceMoves
  <2>2. CASE MakerReleasesReservation
    BY <2>2 DEF MakerReleasesReservation, Seen, SameConfirmed, ReservationMoves
  <2>3. CASE LiquidBlock
    BY <2>3 DEF LiquidBlock, Seen
  <2> QED
    BY <1>1, <1>4, <2>1, <2>2, <2>3
    DEF Environment, QuoteExpires, PaymentFails, PaymentSucceeds, LightningBlock
<1>5. CASE UNCHANGED vars
  BY <1>1, <1>5 DEF vars
<1> QED
  BY <1>2, <1>3, <1>4, <1>5, RunnerSeen DEF Next

\* The asset is locked while the hold moves, and not locked twice.
LEMMA AssetFacts ==
    ASSUME IInv
    PROVE  /\ invoice \in {"OPEN", "ACCEPTED"} /\ payment # "NONE" => AssetSeen = "LOCKED"
           /\ claimTx # "NONE" =>
                  refundTx = "NONE" /\ invoice = "SETTLED" /\ reservation = "CONSUMED"
           /\ refundTx # "NONE" => invoice = "CANCELED" /\ reservation # "CONSUMED"
           /\ claimTx # "NONE" \/ refundTx # "NONE" =>
                  \E t \in FundingTxs : fundingTx[t] = "CONFIRMED"
<1>1. /\ claimTx # "NONE" => refundTx = "NONE" /\ invoice = "SETTLED" /\ reservation = "CONSUMED"
      /\ refundTx # "NONE" => invoice = "CANCELED" /\ reservation # "CONSUMED"
      /\ claimTx # "NONE" \/ refundTx # "NONE" => payment # "NONE"
  BY DEF IInv, Shared, Booked, Refunding
<1>2. payment # "NONE" => \E t \in FundingTxs : fundingTx[t] = "CONFIRMED"
  BY DEF IInv, TypeOK, Shared, Announced, Locked
<1>3. invoice \in {"OPEN", "ACCEPTED"} => claimTx # "CONFIRMED" /\ refundTx # "CONFIRMED"
  BY <1>1
<1>4. invoice \in {"OPEN", "ACCEPTED"} /\ payment # "NONE" => AssetSeen = "LOCKED"
  BY <1>2, <1>3 DEF AssetSeen
<1> QED
  BY <1>1, <1>2, <1>4

LEMMA Simulation == IInv /\ [Next]_vars => [Abstract!Next]_<<AssetSeen, HoldSeen, reservation>>
<1> SUFFICES ASSUME IInv, [Next]_vars
             PROVE  Abstract!Next \/ UNCHANGED <<AssetSeen, HoldSeen, reservation>>
  OBVIOUS
<1>0. TypeOK /\ Seen
  BY StepSeen DEF IInv
<1>1. CASE MineBlock /\ UNCHANGED <<invoice, reservation>>
  <2>1. HoldSeen' = HoldSeen /\ reservation' = reservation
    BY <1>1 DEF HoldSeen
  <2>2. /\ AssetSeen \in {"CLAIMED", "RETURNED"} => AssetSeen' = AssetSeen
        /\ AssetSeen = "LOCKED" =>
              \/ AssetSeen' = "LOCKED"
              \/ AssetSeen' = "CLAIMED" /\ claimTx # "NONE"
              \/ AssetSeen' = "RETURNED" /\ refundTx # "NONE"
        /\ AssetSeen = "FREE" => AssetSeen' \in {"FREE", "LOCKED"}
        /\ AssetSeen \in {"FREE", "LOCKED", "CLAIMED", "RETURNED"}
    BY <1>0, <1>1, AssetFacts DEF MineBlock, AssetSeen, TypeOK
  <2>3. AssetSeen' = "CLAIMED" /\ AssetSeen = "LOCKED" => Abstract!ClaimAsset
    BY <1>1, <2>1, <2>2, AssetFacts DEF Abstract!ClaimAsset, HoldSeen
  <2>4. AssetSeen' = "RETURNED" /\ AssetSeen = "LOCKED" => Abstract!ReturnAsset
    BY <1>1, <2>1, <2>2, AssetFacts DEF Abstract!ReturnAsset, HoldSeen
  <2>5. AssetSeen' = "LOCKED" /\ AssetSeen = "FREE" => Abstract!LockAsset
    BY <2>1 DEF Abstract!LockAsset
  <2> QED
    BY <2>1, <2>2, <2>3, <2>4, <2>5 DEF Abstract!Next
<1>2. CASE SameConfirmed /\ InvoiceMoves /\ reservation' = reservation
  <2>1. AssetSeen' = AssetSeen
    BY <1>2 DEF SameConfirmed, AssetSeen
  <2>2. CASE invoice' = invoice \/ (invoice = "NONE" /\ invoice' = "OPEN")
    BY <1>2, <2>1, <2>2 DEF HoldSeen
  <2>3. CASE invoice = "OPEN" /\ invoice' = "ACCEPTED" /\ payment # "NONE"
    <3>1. Abstract!HoldPayment
      BY <1>2, <2>1, <2>3, AssetFacts DEF HoldSeen, Abstract!HoldPayment
    <3> QED
      BY <3>1 DEF Abstract!Next
  <2>4. CASE invoice = "ACCEPTED" /\ invoice' = "SETTLED"
    <3>1. payment # "NONE"
      BY <2>4 DEF IInv, Shared, Announced
    <3>2. Abstract!RevealPreimage
      BY <1>2, <2>1, <2>4, <3>1, AssetFacts DEF HoldSeen, Abstract!RevealPreimage
    <3> QED
      BY <3>2 DEF Abstract!Next
  <2>5. CASE invoice \in {"OPEN", "ACCEPTED"} /\ invoice' = "CANCELED"
    <3>1. Abstract!DropHold
      BY <1>2, <2>1, <2>5 DEF HoldSeen, Abstract!DropHold
    <3> QED
      BY <3>1 DEF Abstract!Next
  <2> QED
    BY <1>2, <2>2, <2>3, <2>4, <2>5 DEF InvoiceMoves
<1>3. CASE SameConfirmed /\ ReservationMoves /\ invoice' = invoice
  <2>1. AssetSeen' = AssetSeen /\ HoldSeen' = HoldSeen
    BY <1>3 DEF SameConfirmed, AssetSeen, HoldSeen
  <2>2. CASE reservation' = reservation
    BY <2>1, <2>2
  <2>3. CASE reservation = "HELD" /\ reservation' = "CONSUMED" /\ payment = "SUCCEEDED"
    <3>1. HoldSeen = "REVEALED"
      BY <2>3 DEF IInv, Shared, Booked, HoldSeen
    <3>2. Abstract!ConsumeInventory
      BY <2>1, <2>3, <3>1 DEF Abstract!ConsumeInventory
    <3> QED
      BY <3>2 DEF Abstract!Next
  <2>4. CASE reservation = "HELD" /\ reservation' = "RELEASED"
    <3>1. Abstract!ReleaseInventory
      BY <2>1, <2>4 DEF Abstract!ReleaseInventory
    <3> QED
      BY <3>1 DEF Abstract!Next
  <2> QED
    BY <1>3, <2>2, <2>3, <2>4 DEF ReservationMoves
<1> QED
  BY <1>0, <1>1, <1>2, <1>3 DEF Seen

(* The detailed swap implements the atomic one: however many runs, deaths   *)
(* and refunds, the asset is claimed only with a revealed preimage and a    *)
(* booked reservation, and returned only after the hold was dropped.        *)
THEOREM AtomicSwapImplemented == Spec => ImplementsAtomicSwap
<1>1. Init => Abstract!Init
  BY DEF Init, Abstract!Init, AssetSeen, HoldSeen
<1>2. IInv /\ [Next]_vars => [Abstract!Next]_Abstract!vars
  BY Simulation DEF Abstract!vars
<1> QED
  BY <1>1, <1>2, Invariance, PTL DEF Spec, ImplementsAtomicSwap, Abstract!Spec

-------------------------------------------------------------------------------
\* A row that says it was paid is right, however many runs write it.
PaidRow == client \in PaidStates => payment = "SUCCEEDED"

\* The steps that follow the look at the invoice and end with the payment.
BeforePay == WithTx \cup {"replay", "timing", "funding", "ph_locked", "ph_pending", "pay"}

\* What a run that is not disturbed by another one knows: funding that is on
\* record is exposed from the first look at the outbox on, so that a run which
\* may cancel has not paid, and an invoice that it saw open is not settled
\* before it has paid.
Undisturbed(p) ==
    /\ pc[p] = "cancel" => payment = "NONE"
    /\ pc[p] \in {"timing", "funding", "persist"} => fundingOutbox = NoTx \/ loc[p].exposed
    /\ pc[p] \in (WithTx \ {"persist"}) \cup {"ph_locked", "ph_pending", "pay", "paying"}
            => loc[p].exposed
    /\ pc[p] = "accept" => loc[p].exposed \/ loc[p].replay
    /\ pc[p] \in BeforePay /\ loc[p].inv = "OPEN" => invoice # "SETTLED"

AloneInv == IInv /\ PaidRow /\ \A p \in Runners : Undisturbed(p)

LEMMA PhasePaysRow ==
    ASSUME IInv, PaidRow, NEW p \in Runners, NEW next \in DOMAIN From, NEW then,
           OnPhase(p, next, then), next = "OUTPUT_SETTLED" => payment = "SUCCEEDED"
    PROVE  client' \in PaidStates => payment = "SUCCEEDED"
<1>1. CASE client' = client
  BY <1>1 DEF PaidRow
<1>2. CASE client = Before(next) /\ client' = next
  BY <1>2 DEF Before, ExpectedBefore, From, PaidStates, PaidRow
<1> QED
  BY <1>1, <1>2 DEF OnPhase

\* OUTPUT_SETTLED is written only after track_success.
LEMMA PaidRowStep == IInv /\ PaidRow /\ [Next]_vars => PaidRow'
<1> SUFFICES ASSUME IInv, PaidRow, [Next]_vars PROVE PaidRow'
  OBVIOUS
<1> USE DEF disk, maker, lightning, chain
<1>0. payment = "SUCCEEDED" => payment' = "SUCCEEDED"
  BY IInvStep DEF Grows
<1>1. client' \in PaidStates => payment = "SUCCEEDED"
  <2>1. CASE client' = client
    BY <2>1 DEF PaidRow
  <2>2. ASSUME NEW p \in Runners, RunnerStep(p), client' # client
        PROVE  client' \in PaidStates => payment = "SUCCEEDED"
    <3>1. CASE EnsureSwapRecord(p)
      BY <2>2, <3>1 DEF EnsureSwapRecord, PaidStates
    <3>2. CASE PhaseOutputSettled(p)
      <4>1. payment = "SUCCEEDED"
        BY <3>2 DEF PhaseOutputSettled, IInv, At
      <4> QED
        BY <4>1
    <3>3. CASE PhaseInputFunding(p) \/ PhaseInputLocked(p) \/ PhaseOutputPending(p)
      BY <3>3, PhasePaysRow
      DEF PhaseInputFunding, PhaseInputLocked, PhaseOutputPending, From
    <3>4. CASE PhaseClaimPending(p) \/ PhaseSettled(p)
      BY <3>4, PhasePaysRow DEF PhaseClaimPending, PhaseSettled, From
    <3>5. CASE \/ CheckReservation(p) \/ AttachReservation(p) \/ EnsureInvoice(p)
               \/ ReadClaimOutbox(p, "timing") \/ CheckTiming(p) \/ ReadFundingOutbox(p)
               \/ PersistFunding(p) \/ BroadcastFunding(p) \/ ObserveFunding(p)
               \/ ObserveFundingAgain(p) \/ Pay(p) \/ PayReturns(p)
      BY <2>2, <3>5
      DEF CheckReservation, AttachReservation, EnsureInvoice, ReadClaimOutbox, CheckTiming,
          ReadFundingOutbox, PersistFunding, BroadcastFunding, ObserveFunding,
          ObserveFundingAgain, Pay, PayReturns
    <3>6. CASE \/ ObserveAccepted(p, "settle") \/ SettleInvoice(p) \/ TrackSuccess(p)
               \/ ConsumeReservation(p) \/ PersistClaim(p) \/ BroadcastClaim(p)
               \/ ObserveClaim(p, AfterClaim(p)) \/ ObserveClaimAgain(p, AfterClaim(p))
               \/ RecordEvidence(p) \/ Report(p) \/ CancelIfAccepted(p)
      BY <2>2, <3>6
      DEF ObserveAccepted, SettleInvoice, TrackSuccess, ConsumeReservation, PersistClaim,
          BroadcastClaim, ObserveClaim, ObserveClaimAgain, RecordEvidence, Report,
          CancelIfAccepted
    <3> QED
      BY <2>2, <3>1, <3>2, <3>3, <3>4, <3>5, <3>6 DEF RunnerStep
  <2>3. ASSUME NEW p \in Runners,
               \/ \E resume \in BOOLEAN : Start(p, resume)
               \/ Fail(p) \/ Crash(p) \/ FailWriting(p) \/ CrashWriting(p)
        PROVE  client' = client
    BY <2>3 DEF Start, Fail, Crash, FailWriting, CrashWriting
  <2>4. CASE RefundStep \/ RefundFails
    <3>1. client' = client
      BY <2>4 DEF RefundStep, RefundFails, RefundTrackPayment, RefundLookupInvoice, RefundPersist,
         RefundBroadcast, RefundObserve, RefundObserveAgain, RefundGoto
    <3> QED
      BY <2>1, <3>1
  <2>5. CASE Environment
    <3>1. client' = client
      BY <2>5 DEF Environment, QuoteExpires, MakerReleasesReservation, HtlcArrives, PaymentFails,
         PaymentSucceeds, InvoiceCancels, LightningBlock, LiquidBlock
    <3> QED
      BY <2>1, <3>1
  <2>6. CASE UNCHANGED vars
    BY <2>1, <2>6 DEF vars
  <2> QED
    BY <2>1, <2>2, <2>3, <2>4, <2>5, <2>6 DEF Next
<1> QED
  BY <1>0, <1>1 DEF PaidRow

(* However many runs write the row: one that says the swap was paid is      *)
(* right, also at the payer's node and at the receiver's hold (live.rs      *)
(* on_phase after orchestrator.rs track_success).                           *)
THEOREM PaidRowAlways ==
    Spec => [](client \in PaidStates => payment = "SUCCEEDED" /\ invoice = "SETTLED")
<1>1. Init => PaidRow
  BY DEF Init, PaidRow, PaidStates
<1>2. IInv /\ PaidRow => (client \in PaidStates => payment = "SUCCEEDED" /\ invoice = "SETTLED")
  BY DEF IInv, Shared, Booked, PaidRow
<1> QED
  BY <1>1, <1>2, PaidRowStep, Invariance, PTL DEF Spec

(* No run, resume or refund, and nothing that the nodes do, undoes what has *)
(* happened: the outbox keeps its transaction, the locked asset stays on    *)
(* record, the row never goes back, a payment that succeeded is not started *)
(* again, and a hold that was settled or dropped stays so.                  *)
THEOREM NothingUndone == Spec => [][Grows]_vars
<1>1. IInv /\ [Next]_vars => [Grows]_vars
  BY IInvStep
<1> QED
  BY <1>1, Invariance, PTL DEF Spec

-------------------------------------------------------------------------------
\* A run that ends, is canceled or goes on knows what it has to.
LEMMA EndedUndisturbed ==
    ASSUME IInv, NEW p \in Runners, Undisturbed(p), payment' = payment, Stop(p) \/ Abort(p)
    PROVE  Undisturbed(p)'
<1>1. CASE Stop(p)
  <2>1. pc'[p] = "idle"
    BY <1>1 DEF IInv, TypeOK, Stop, Goto
  <2> QED
    BY <2>1 DEF Undisturbed, WithTx, BeforePay
<1>2. CASE MayCancel(p) /\ Goto(p, "cancel")
  <2>1. pc'[p] = "cancel"
    BY <1>2 DEF IInv, TypeOK, Goto
  <2>2. payment = "NONE"
    <3>1. fundingOutbox = NoTx
      BY <1>2 DEF Undisturbed, MayCancel, AfterInvoice, WithTx
    <3> QED
      BY <3>1 DEF IInv, Shared, Announced, Locked
  <2> QED
    BY <2>1, <2>2 DEF Undisturbed, WithTx, BeforePay
<1> QED
  BY <1>1, <1>2 DEF Abort

\* The steps before the invoice is looked at, and those after the payment.
Apart == Steps \ (BeforePay \cup {"cancel", "paying", "accept"})

LEMMA ApartUndisturbed ==
    ASSUME NEW p \in Runners, pc'[p] \in Apart
    PROVE  Undisturbed(p)'
  BY DEF Undisturbed, Apart, BeforePay, WithTx

\* From a step that knows as much as the next one needs.
LEMMA OnwardUndisturbed ==
    ASSUME TypeOK, NEW p \in Runners, NEW step, Undisturbed(p), Goto(p, step), UNCHANGED loc,
           UNCHANGED <<fundingOutbox, invoice>>,
           \/ step \in Apart
           \/ pc[p] = "timing" /\ step = "funding"
           \/ /\ pc[p] \in (WithTx \ {"persist"}) \cup {"ph_locked", "ph_pending"}
              /\ step \in WithTx \cup {"ph_locked", "ph_pending", "pay"}
           \/ pc[p] \in {"pay", "paying"} /\ step \in {"paying", "accept"}
           \/ loc[p].replay /\ step = "accept"
    PROVE  Undisturbed(p)'
<1>1. pc'[p] = step /\ loc'[p] = loc[p]
  BY Moved
<1>2. CASE step \in Apart
  BY <1>1, <1>2, ApartUndisturbed
<1>3. CASE pc[p] = "timing" /\ step = "funding"
  BY <1>1, <1>3 DEF Undisturbed, BeforePay, WithTx
<1>4. CASE /\ pc[p] \in (WithTx \ {"persist"}) \cup {"ph_locked", "ph_pending"}
           /\ step \in WithTx \cup {"ph_locked", "ph_pending", "pay"}
  BY <1>1, <1>4 DEF Undisturbed, BeforePay, WithTx
<1>5. CASE pc[p] \in {"pay", "paying"} /\ step \in {"paying", "accept"}
  BY <1>1, <1>5 DEF Undisturbed, BeforePay, WithTx
<1>6. CASE loc[p].replay /\ step = "accept"
  BY <1>1, <1>6 DEF Undisturbed, BeforePay, WithTx
<1> QED
  BY <1>2, <1>3, <1>4, <1>5, <1>6

LEMMA PhaseUndisturbed ==
    ASSUME IInv, NEW p \in Runners, NEW next, NEW then, Undisturbed(p), OnPhase(p, next, then),
           \/ then \in Apart
           \/ /\ pc[p] \in (WithTx \ {"persist"}) \cup {"ph_locked", "ph_pending"}
              /\ then \in WithTx \cup {"ph_locked", "ph_pending", "pay"}
    PROVE  Undisturbed(p)'
<1>1. UNCHANGED <<fundingOutbox, invoice, payment>> /\ TypeOK
  BY DEF OnPhase, lightning, IInv
<1>2. Stop(p) \/ (Goto(p, then) /\ UNCHANGED loc)
  BY DEF OnPhase
<1>3. CASE Stop(p)
  BY <1>1, <1>3, EndedUndisturbed
<1>4. CASE Goto(p, then) /\ UNCHANGED loc
  BY <1>1, <1>4, OnwardUndisturbed
<1> QED
  BY <1>2, <1>3, <1>4

\* Each step of a run that nothing but the environment comes between.
LEMMA RunUndisturbed ==
    ASSUME IInv, NEW p \in Runners, Undisturbed(p),
           \/ \E resume \in BOOLEAN : Start(p, resume)
           \/ RunnerStep(p) \/ Fail(p) \/ Crash(p) \/ FailWriting(p) \/ CrashWriting(p)
    PROVE  Undisturbed(p)'
<1> USE DEF disk, lightning
<1>0. TypeOK /\ loc[p] \in Locals
  BY DEF IInv, TypeOK
<1> DEFINE Over == payment' = payment /\ (Stop(p) \/ Abort(p))
<1>o. CASE Over
  BY <1>o, EndedUndisturbed
<1>p. CASE Goto(p, "record") \/ Goto(p, "reserve") \/ Goto(p, "attach") \/ Goto(p, "invoice")
  <2>1. pc'[p] \in Apart
    BY <1>0, <1>p DEF TypeOK, Goto, Apart, Steps, BeforePay, WithTx
  <2> QED
    BY <2>1, ApartUndisturbed
<1>1. CASE \E resume \in BOOLEAN : Start(p, resume)
  BY <1>p, <1>1 DEF Start
<1>2. CASE Fail(p) \/ Crash(p) \/ FailWriting(p) \/ CrashWriting(p)
  BY <1>o, <1>2 DEF Fail, Crash, FailWriting, CrashWriting
<1>3. CASE EnsureSwapRecord(p) \/ CheckReservation(p) \/ AttachReservation(p)
  BY <1>o, <1>p, <1>3 DEF EnsureSwapRecord, CheckReservation, AttachReservation
<1>4. CASE EnsureInvoice(p)
  <2>1. CASE /\ invoice # "CANCELED" /\ Goto(p, "replay")
             /\ loc' = [loc EXCEPT ![p].inv = invoice']
    <3>1. pc'[p] = "replay" /\ loc'[p].inv = invoice'
      BY <1>0, <2>1 DEF TypeOK, Goto, Locals
    <3> QED
      BY <3>1 DEF Undisturbed, WithTx
  <2> QED
    BY <1>o, <1>4, <2>1 DEF EnsureInvoice
<1>5. CASE ReadClaimOutbox(p, "timing")
  <2>1. CASE /\ loc' = [loc EXCEPT ![p].replay = claimOutbox,
                                   ![p].exposed = ~claimOutbox /\ fundingOutbox # NoTx]
             /\ Goto(p, IF claimOutbox THEN "bc_claim" ELSE "timing")
    <3>1. UNCHANGED <<fundingOutbox, invoice>> /\ pc[p] = "replay"
      BY <1>5 DEF ReadClaimOutbox
    <3>2. CASE claimOutbox
      <4>1. pc'[p] \in Apart
        BY <1>0, <2>1, <3>2 DEF TypeOK, Goto, Apart, Steps, BeforePay, WithTx
      <4> QED
        BY <4>1, ApartUndisturbed
    <3>3. CASE ~claimOutbox
      <4>1. /\ pc'[p] = "timing" /\ loc'[p].inv = loc[p].inv
            /\ loc'[p].exposed = (fundingOutbox # NoTx)
        BY <1>0, <2>1, <3>3 DEF TypeOK, Goto, Locals
      <4> QED
        BY <3>1, <4>1 DEF Undisturbed, WithTx, BeforePay
    <3> QED
      BY <3>2, <3>3
  <2> QED
    BY <1>o, <1>5, <2>1 DEF ReadClaimOutbox
<1>6. CASE CheckTiming(p)
  <2>1. CASE Goto(p, "funding") /\ UNCHANGED loc
    BY <1>0, <1>6, <2>1, OnwardUndisturbed DEF CheckTiming
  <2> QED
    BY <1>o, <1>6, <2>1 DEF CheckTiming
<1>7. CASE ReadFundingOutbox(p)
  <2>0. UNCHANGED <<fundingOutbox, invoice>> /\ pc[p] = "funding"
    BY <1>7 DEF ReadFundingOutbox
  <2>1. CASE /\ Goto(p, "ph_funding")
             /\ loc' = [loc EXCEPT ![p].tx = fundingOutbox, ![p].exposed = TRUE]
    <3>1. pc'[p] = "ph_funding" /\ loc'[p].exposed /\ loc'[p].inv = loc[p].inv
      BY <1>0, <2>1 DEF TypeOK, Goto, Locals
    <3> QED
      BY <2>0, <3>1 DEF Undisturbed, WithTx, BeforePay
  <2>2. CASE (\E t \in FundingTxs : loc' = [loc EXCEPT ![p].tx = t]) /\ Goto(p, "persist")
    <3>1. /\ pc'[p] = "persist" /\ loc'[p].exposed = loc[p].exposed
          /\ loc'[p].inv = loc[p].inv
      BY <1>0, <2>2 DEF TypeOK, Goto, Locals
    <3> QED
      BY <2>0, <3>1 DEF Undisturbed, WithTx, BeforePay
  <2> QED
    BY <1>o, <1>7, <2>1, <2>2 DEF ReadFundingOutbox
<1>8. CASE PersistFunding(p)
  <2>1. CASE /\ Goto(p, "ph_funding") /\ loc' = [loc EXCEPT ![p].exposed = TRUE]
    <3>1. pc'[p] = "ph_funding" /\ loc'[p].exposed /\ loc'[p].inv = loc[p].inv
      BY <1>0, <2>1 DEF TypeOK, Goto, Locals
    <3>2. UNCHANGED invoice /\ pc[p] = "persist"
      BY <1>8 DEF PersistFunding
    <3> QED
      BY <3>1, <3>2 DEF Undisturbed, WithTx, BeforePay
  <2> QED
    BY <1>o, <1>8, <2>1 DEF PersistFunding
<1>9. CASE PhaseInputFunding(p) \/ PhaseInputLocked(p) \/ PhaseOutputPending(p)
  BY <1>9, PhaseUndisturbed
  DEF PhaseInputFunding, PhaseInputLocked, PhaseOutputPending, WithTx
<1>10. CASE PhaseOutputSettled(p) \/ PhaseClaimPending(p) \/ PhaseSettled(p)
  BY <1>10, PhaseUndisturbed
  DEF PhaseOutputSettled, PhaseClaimPending, PhaseSettled, Apart, Steps, BeforePay, WithTx
<1>11. CASE BroadcastFunding(p) \/ ObserveFunding(p) \/ ObserveFundingAgain(p)
  <2>1. UNCHANGED <<fundingOutbox, invoice, payment>> /\ pc[p] \in WithTx \ {"persist"}
    BY <1>11 DEF BroadcastFunding, ObserveFunding, ObserveFundingAgain, WithTx
  <2>2. \/ Stop(p)
        \/ /\ UNCHANGED loc
           /\ \E step \in {"obs_funding", "obs_funding2", "ph_locked"} : Goto(p, step)
    BY <1>11 DEF BroadcastFunding, ObserveFunding, ObserveFundingAgain, Confirm
  <2> QED
    BY <1>0, <1>o, <2>1, <2>2, OnwardUndisturbed DEF WithTx
<1>12. CASE Pay(p)
  <2>0. UNCHANGED <<fundingOutbox, invoice>> /\ pc[p] = "pay"
    BY <1>12 DEF Pay
  <2>1. Over \/ (UNCHANGED loc /\ \E step \in {"paying", "accept"} : Goto(p, step))
    BY <1>12 DEF Pay
  <2> QED
    BY <1>0, <1>o, <2>0, <2>1, OnwardUndisturbed
<1>13. CASE PayReturns(p)
  <2>1. CASE Goto(p, "accept") /\ UNCHANGED loc
    BY <1>0, <1>13, <2>1, OnwardUndisturbed DEF PayReturns
  <2> QED
    BY <1>o, <1>13, <2>1 DEF PayReturns
<1>14. CASE \/ ObserveAccepted(p, "settle") \/ SettleInvoice(p) \/ TrackSuccess(p)
            \/ ConsumeReservation(p) \/ PersistClaim(p) \/ BroadcastClaim(p)
            \/ RecordEvidence(p) \/ Report(p) \/ CancelIfAccepted(p)
  <2> DEFINE Later == {"settle", "track", "ph_output", "ph_settled", "claim", "ph_claim",
                       "obs_claim", "check"}
  <2>1. Over \/ \E step \in Later : Goto(p, step)
    BY <1>14
    DEF ObserveAccepted, SettleInvoice, TrackSuccess, ConsumeReservation, PersistClaim,
        BroadcastClaim, RecordEvidence, Report, CancelIfAccepted
  <2>2. CASE \E step \in Later : Goto(p, step)
    <3>1. pc'[p] \in Later
      BY <1>0, <2>2 DEF TypeOK, Goto
    <3>2. pc'[p] \in Apart
      BY <3>1 DEF Apart, Steps, BeforePay, WithTx
    <3> QED
      BY <3>2, ApartUndisturbed
  <2> QED
    BY <1>o, <2>1, <2>2
<1>15. CASE ObserveClaim(p, AfterClaim(p)) \/ ObserveClaimAgain(p, AfterClaim(p))
  <2>0. UNCHANGED <<fundingOutbox, invoice, payment>>
    BY <1>15 DEF ObserveClaim, ObserveClaimAgain
  <2>1. Stop(p) \/ (UNCHANGED loc /\ (Goto(p, AfterClaim(p)) \/ Goto(p, "obs_claim2")))
    BY <1>15 DEF ObserveClaim, ObserveClaimAgain, Confirm
  <2>2. "obs_claim2" \in Apart /\ "ph_settled" \in Apart
    BY DEF Apart, Steps, BeforePay, WithTx
  <2>3. AfterClaim(p) = "ph_settled" \/ (loc[p].replay /\ AfterClaim(p) = "accept")
    BY DEF AfterClaim
  <2> QED
    BY <1>0, <1>o, <2>0, <2>1, <2>2, <2>3, OnwardUndisturbed
<1> QED
  BY <1>1, <1>2, <1>3, <1>4, <1>5, <1>6, <1>7, <1>8, <1>9, <1>10, <1>11, <1>12, <1>13, <1>14,
     <1>15 DEF RunnerStep

\* Nobody but a run settles the hold, exposes funding, pays or moves a run.
LEMMA AroundUndisturbed ==
    ASSUME IInv, RefundStep \/ RefundFails \/ Environment \/ UNCHANGED vars,
           NEW p \in Runners, Undisturbed(p)
    PROVE  Undisturbed(p)'
<1> USE DEF disk, maker, lightning, chain
<1>1. UNCHANGED <<local, fundingOutbox>>
  <2>1. CASE RefundStep \/ RefundFails
    BY <2>1, RefundEffect
    DEF RefundStep, RefundFails, RefundTrackPayment, RefundLookupInvoice, RefundPersist,
        RefundBroadcast, RefundObserve, RefundObserveAgain, RefundGoto
  <2>2. CASE Environment
    BY <2>2, EnvironmentEffect
    DEF Environment, QuoteExpires, MakerReleasesReservation, HtlcArrives, PaymentFails,
        PaymentSucceeds, InvoiceCancels, LightningBlock, LiquidBlock
  <2> QED
    BY <2>1, <2>2 DEF vars
<1>2. /\ invoice' = "SETTLED" => invoice = "SETTLED"
      /\ payment = "NONE" => payment' = "NONE"
  <2>1. CASE RefundStep \/ RefundFails
    BY <2>1
    DEF RefundStep, RefundFails, RefundTrackPayment, RefundLookupInvoice, RefundPersist,
        RefundBroadcast, RefundObserve, RefundObserveAgain, RefundGoto
  <2>2. CASE Environment
    BY <2>2
    DEF Environment, QuoteExpires, MakerReleasesReservation, HtlcArrives, PaymentFails,
        PaymentSucceeds, InvoiceCancels, LightningBlock, LiquidBlock
  <2> QED
    BY <2>1, <2>2 DEF vars
<1> QED
  BY <1>1, <1>2 DEF Undisturbed, local

LEMMA AloneInvariance ==
    ASSUME \A p, q \in Runners : p = q
    PROVE  Spec => []AloneInv
<1>1. Init => AloneInv
  BY IInvInit DEF Init, AloneInv, PaidRow, PaidStates, Undisturbed, WithTx, BeforePay
<1>2. AloneInv /\ [Next]_vars => AloneInv'
  <2> SUFFICES ASSUME AloneInv, [Next]_vars PROVE AloneInv'
    OBVIOUS
  <2>1. IInv' /\ PaidRow'
    BY IInvStep, PaidRowStep DEF AloneInv
  <2>2. ASSUME NEW p \in Runners PROVE Undisturbed(p)'
    BY RunUndisturbed, AroundUndisturbed DEF AloneInv, Next
  <2> QED
    BY <2>1, <2>2 DEF AloneInv
<1> QED
  BY <1>1, <1>2, PTL DEF Spec

\* Who may drop a held payment.
LEMMA Dropped ==
    ASSUME [Next]_vars, invoice = "ACCEPTED", invoice' = "CANCELED"
    PROVE  InvoiceCancels \/ \E p \in Runners : CancelIfAccepted(p)
<1> USE DEF disk, maker, lightning, chain
<1>1. ASSUME NEW p \in Runners, RunnerStep(p)
      PROVE  CancelIfAccepted(p)
  <2>1. CASE \/ EnsureSwapRecord(p) \/ CheckReservation(p) \/ AttachReservation(p)
             \/ EnsureInvoice(p) \/ ReadClaimOutbox(p, "timing") \/ CheckTiming(p)
             \/ ReadFundingOutbox(p) \/ PersistFunding(p) \/ BroadcastFunding(p)
             \/ ObserveFunding(p) \/ ObserveFundingAgain(p)
    BY <2>1
    DEF EnsureSwapRecord, CheckReservation, AttachReservation, EnsureInvoice, ReadClaimOutbox,
        CheckTiming, ReadFundingOutbox, PersistFunding, BroadcastFunding, ObserveFunding,
        ObserveFundingAgain
  <2>2. CASE \/ Pay(p) \/ PayReturns(p) \/ ObserveAccepted(p, "settle") \/ SettleInvoice(p)
             \/ TrackSuccess(p) \/ ConsumeReservation(p) \/ PersistClaim(p) \/ BroadcastClaim(p)
             \/ ObserveClaim(p, AfterClaim(p)) \/ ObserveClaimAgain(p, AfterClaim(p))
             \/ RecordEvidence(p) \/ Report(p)
    BY <2>2
    DEF Pay, PayReturns, ObserveAccepted, SettleInvoice, TrackSuccess, ConsumeReservation,
        PersistClaim, BroadcastClaim, ObserveClaim, ObserveClaimAgain, RecordEvidence, Report
  <2>3. CASE \/ PhaseInputFunding(p) \/ PhaseInputLocked(p) \/ PhaseOutputPending(p)
             \/ PhaseOutputSettled(p) \/ PhaseClaimPending(p) \/ PhaseSettled(p)
    BY <2>3
    DEF PhaseInputFunding, PhaseInputLocked, PhaseOutputPending, PhaseOutputSettled,
        PhaseClaimPending, PhaseSettled, OnPhase
  <2> QED
    BY <1>1, <2>1, <2>2, <2>3 DEF RunnerStep
<1>2. ASSUME NEW p \in Runners,
             \/ \E resume \in BOOLEAN : Start(p, resume)
             \/ Fail(p) \/ Crash(p) \/ FailWriting(p) \/ CrashWriting(p)
      PROVE  FALSE
  BY <1>2 DEF Start, Fail, Crash, FailWriting, CrashWriting
<1>3. ~(RefundStep \/ RefundFails)
  BY DEF RefundStep, RefundFails, RefundTrackPayment, RefundLookupInvoice, RefundPersist,
     RefundBroadcast, RefundObserve, RefundObserveAgain, RefundGoto
<1>4. CASE Environment
  BY <1>4
  DEF Environment, QuoteExpires, MakerReleasesReservation, HtlcArrives, PaymentFails,
      PaymentSucceeds, LightningBlock, LiquidBlock
<1> QED
  BY <1>1, <1>2, <1>3, <1>4 DEF Next, vars

(* While a swap has one run at a time, however often it fails, dies and is  *)
(* resumed, the payer's held money is dropped only at the end of its HTLC:  *)
(* a run gets to the cancel only while nothing is paid, also the run whose  *)
(* write_outbox erred with its file complete (run_forward_swap's            *)
(* funding_exposed, cancel_if_accepted).  With two runs at once this is     *)
(* false: one is refused by write_outbox while the other one goes on to the *)
(* payment.                                                                 *)
THEOREM HoldIsKeptAlone ==
    ASSUME \A p, q \in Runners : p = q
    PROVE  Spec => HoldIsKept
<1> DEFINE Keeps == invoice = "ACCEPTED" /\ invoice' = "CANCELED" => expiry <= tip
<1>1. AloneInv /\ [Next]_vars => [Keeps]_vars
  <2> SUFFICES ASSUME AloneInv, [Next]_vars, invoice = "ACCEPTED", invoice' = "CANCELED"
               PROVE  expiry <= tip
    OBVIOUS
  <2>1. ~\E p \in Runners : CancelIfAccepted(p)
    BY DEF AloneInv, Undisturbed, CancelIfAccepted, IInv, Shared, Announced
  <2>2. InvoiceCancels
    BY <2>1, Dropped
  <2> QED
    BY <2>2 DEF InvoiceCancels
<1> QED
  BY <1>1, AloneInvariance, PTL DEF Spec, HoldIsKept

(* While a swap has one run at a time, a row that says the swap was paid    *)
(* and a look at the invoice that would start a payment exclude each other  *)
(* (pay_if_open): the row is written only after the payment, the payment    *)
(* implies the settled hold, and the run settles it after the look.         *)
THEOREM NoSecondPaymentAlone ==
    ASSUME \A p, q \in Runners : p = q
    PROVE  Spec => []NoSecondPayment
<1>1. AloneInv => NoSecondPayment
  BY DEF AloneInv, PaidRow, IInv, Shared, Booked, Undisturbed, BeforePay, NoSecondPayment
<1> QED
  BY <1>1, AloneInvariance, PTL

===============================================================================
