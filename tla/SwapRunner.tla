------------------------------ MODULE SwapRunner ------------------------------
(***************************************************************************)
(* One TEST-DEPIX -> Lightning swap: the runs of `xmm swap forward` and    *)
(* `xmm swap resume` (cli/live.rs run_forward with the durable observer,   *)
(* swaps/orchestrator.rs run_forward_swap), the library's refund           *)
(* (refund_funded_swap), and around them the stores they write, the maker  *)
(* that may give the reservation back, the two Lightning nodes and the     *)
(* Liquid chain.  Every durable write and every call to a node is one      *)
(* action; a run can fail or die between any two of them, and any number   *)
(* of runs may be going on at once.                                        *)
(***************************************************************************)
EXTENDS Naturals, SwapStates

CONSTANTS
    Runners,        \* processes that run `swap forward` or `swap resume`
    FundingTxs,     \* funding transactions that preparing can produce
    MakerReleases,  \* whether the maker ever calls release_reservation
    TornWrites,     \* whether write_outbox can end with half a file
    Lock,           \* refund_lock_height of the contract
    RequiredDelta,  \* Liquid blocks that validate_forward_timing asks for
    HoldDelta,      \* blocks until an accepted Lightning HTLC expires
    MinHeadroom,    \* MIN_ACCEPTED_HEADROOM_BLOCKS
    MaxMined,       \* bound: blocks mined by others than the runner
    MaxHeight,      \* bound of the Liquid height
    MaxTip,         \* bound of the Lightning block height
    MaxFaults,      \* bound: errors of a call and deaths of a process
    NoTx

ASSUME BoundsAssumption ==
    /\ {Lock, RequiredDelta, HoldDelta, MinHeadroom, MaxMined, MaxHeight, MaxTip,
        MaxFaults} \subseteq Nat
    /\ NoTx \notin FundingTxs
    /\ MakerReleases \in BOOLEAN /\ TornWrites \in BOOLEAN

VARIABLES
    client,         \* state column of the client's swap row, or ABSENT
    evidence,       \* claim confirmations in the recorded evidence, 0 if none
    fundingOutbox,  \* the transaction in the funding outbox file, or NoTx
    claimOutbox,    \* whether the claim outbox file exists
    refundOutbox,   \* whether the refund outbox file exists
    torn,           \* the outbox files created without their content
    reservation,    \* state of the maker's reservation row
    attached,       \* whether its swap_id names this swap
    expired,        \* whether the quote and the reservation have expired
    invoice,        \* the receiver's hold invoice
    accepted,       \* whether it ever held an HTLC of the quoted amount
    expiry,         \* block height at which that HTLC expires
    payment,        \* the payer's payment by hash
    tip,            \* the receiver's block height
    height,         \* the Liquid height
    fundingTx,      \* where each funding transaction is
    claimTx, refundTx,
    claimHeight,    \* height of the block with the claim, 0 if none
    pc, loc,        \* each run's next step and its local values
    refunder,       \* the refund's next step
    faults

disk == <<client, evidence, fundingOutbox, claimOutbox, refundOutbox, torn>>
maker == <<reservation, attached, expired>>
lightning == <<invoice, accepted, expiry, payment, tip>>
chain == <<height, fundingTx, claimTx, refundTx, claimHeight>>
local == <<pc, loc>>
vars == <<disk, maker, lightning, chain, local, refunder, faults>>

Places == {"NONE", "MEMPOOL", "CONFIRMED"}
InvoiceStates == {"NONE", "OPEN", "ACCEPTED", "SETTLED", "CANCELED"}
PaymentStates == {"NONE", "INFLIGHT", "SUCCEEDED", "FAILED"}
Steps == {"idle", "record", "reserve", "attach", "invoice", "replay", "timing", "funding",
          "persist", "ph_funding", "bc_funding", "obs_funding", "obs_funding2", "ph_locked",
          "ph_pending", "pay", "paying", "accept", "settle", "track", "ph_output",
          "consume", "claim", "ph_claim", "bc_claim", "obs_claim", "obs_claim2",
          "ph_settled", "evidence", "check", "cancel"}
RefundSteps == {"idle", "invoice", "files", "broadcast", "observe", "observe2"}

Locals == [resume : BOOLEAN,             \* `swap resume` rather than `swap forward`
           existing : SwapState \cup {"ABSENT"}, \* the row as read at the start
           inv : InvoiceStates,          \* the invoice as last looked up
           exposed : BOOLEAN,            \* funding_exposed
           replay : BOOLEAN,             \* inside replay_completed
           tx : FundingTxs \cup {NoTx}]  \* the funding transaction in hand

Fresh == [resume |-> FALSE, existing |-> "ABSENT", inv |-> "NONE", exposed |-> FALSE,
          replay |-> FALSE, tx |-> NoTx]

\* The steps between choosing the funding transaction and observing it.
WithTx == {"persist", "ph_funding", "bc_funding", "obs_funding", "obs_funding2"}

TypeOK ==
    /\ client \in SwapState \cup {"ABSENT"}
    /\ evidence \in Nat
    /\ fundingOutbox \in FundingTxs \cup {NoTx}
    /\ claimOutbox \in BOOLEAN /\ refundOutbox \in BOOLEAN
    /\ torn \subseteq {"funding", "claim", "refund"}
    /\ reservation \in {"HELD", "CONSUMED", "RELEASED"}
    /\ attached \in BOOLEAN /\ expired \in BOOLEAN
    /\ invoice \in InvoiceStates /\ payment \in PaymentStates
    /\ accepted \in BOOLEAN /\ expiry \in Nat /\ tip \in Nat
    /\ height \in Nat /\ claimHeight \in 0..height
    /\ fundingTx \in [FundingTxs -> Places]
    /\ claimTx \in Places /\ refundTx \in Places
    /\ pc \in [Runners -> Steps]
    /\ loc \in [Runners -> Locals]
    /\ refunder \in RefundSteps
    /\ faults \in Nat
    /\ \A p \in Runners : pc[p] \in WithTx => loc[p].tx \in FundingTxs

\* After `swap prepare`, the quote selection and the maker's reservation.  The
\* library may be called without prepare, and then makes the invoice itself.
Init ==
    /\ client = "ABSENT" /\ evidence = 0
    /\ fundingOutbox = NoTx /\ claimOutbox = FALSE /\ refundOutbox = FALSE /\ torn = {}
    /\ reservation = "HELD" /\ attached = FALSE /\ expired = FALSE
    /\ invoice \in {"NONE", "OPEN"} /\ payment = "NONE"
    /\ accepted = FALSE /\ expiry = 0 /\ tip = 0
    /\ height = 0 /\ claimHeight = 0
    /\ fundingTx = [t \in FundingTxs |-> "NONE"]
    /\ claimTx = "NONE" /\ refundTx = "NONE"
    /\ pc = [p \in Runners |-> "idle"]
    /\ loc = [p \in Runners |-> Fresh]
    /\ refunder = "idle"
    /\ faults = 0

-------------------------------------------------------------------------------
Goto(p, step) == pc' = [pc EXCEPT ![p] = step]

Forget(p) == loc' = [loc EXCEPT ![p] = Fresh]

Stop(p) == Goto(p, "idle") /\ Forget(p)

\* An error after the invoice asks for the cancel while funding_exposed is
\* unset; replay_completed never does.
AfterInvoice == {"ph_pending", "pay", "paying", "accept", "timing", "funding", "persist"}

MayCancel(p) == pc[p] \in AfterInvoice /\ ~loc[p].exposed /\ ~loc[p].replay

Abort(p) ==
    IF MayCancel(p) THEN Goto(p, "cancel") /\ UNCHANGED loc ELSE Stop(p)

\* A block is found: everything in the mempool is in it.
MineBlock ==
    /\ height' = height + 1
    /\ fundingTx' = [t \in FundingTxs |->
                        IF fundingTx[t] = "MEMPOOL" THEN "CONFIRMED" ELSE fundingTx[t]]
    /\ claimTx' = IF claimTx = "MEMPOOL" THEN "CONFIRMED" ELSE claimTx
    /\ refundTx' = IF refundTx = "MEMPOOL" THEN "CONFIRMED" ELSE refundTx
    /\ claimHeight' = IF claimTx = "MEMPOOL" THEN height + 1 ELSE claimHeight

\* The adapter's confirm_*: one regtest block, if the node still mines.
Confirm(p, then) ==
    IF height < MaxHeight
    THEN MineBlock /\ Goto(p, then) /\ UNCHANGED loc
    ELSE Stop(p) /\ UNCHANGED chain

\* on_phase: nothing to do when the row is there already or further on, an
\* error when it is not in the state that the phase leaves.  (Losing the
\* compare-and-set to another run after the read is one of the errors of Fail.)
Before(next) ==
    IF next = "OUTPUT_SETTLED" /\ client = "OUTPUT_UNKNOWN"
    THEN "OUTPUT_UNKNOWN" ELSE ExpectedBefore[next]

\* Mutant: a row that is further on than the phase is an error.
OnPhaseStrict(p, next, then) ==
    /\ \/ /\ client = next
          /\ Goto(p, then)
          /\ UNCHANGED <<client, loc>>
       \/ /\ client = Before(next)
          /\ client' = next
          /\ Goto(p, then)
          /\ UNCHANGED loc
       \/ /\ client \notin {next, Before(next)}
          /\ Stop(p)
          /\ UNCHANGED client
    /\ UNCHANGED <<evidence, fundingOutbox, claimOutbox, refundOutbox, torn, maker, lightning,
                   chain, refunder, faults>>

OnPhase(p, next, then) ==
    /\ \/ /\ client # "ABSENT" /\ Rank(client) >= Rank(next)
          /\ Goto(p, then)
          /\ UNCHANGED <<client, loc>>
       \/ /\ client = Before(next)
          /\ CanTransitionTo(client, next)
          /\ client' = next
          /\ Goto(p, then)
          /\ UNCHANGED loc
       \/ /\ client = "ABSENT" \/ Rank(client) < Rank(next)
          /\ client # Before(next)
          /\ Stop(p)
          /\ UNCHANGED client
    /\ UNCHANGED <<evidence, fundingOutbox, claimOutbox, refundOutbox, torn, maker, lightning,
                   chain, refunder, faults>>

-------------------------------------------------------------------------------
(* run_forward up to the runner: read the row if resuming, check the quote, *)
(* insert the row if starting, check and attach the reservation.            *)
Start(p, resume) ==
    /\ pc[p] = "idle"
    /\ LET existing == IF resume THEN client ELSE "ABSENT" IN
       /\ existing \notin AbandonedStates
       /\ expired => existing # "ABSENT" /\ Rank(existing) > Rank("CREATED")
       /\ loc' = [loc EXCEPT ![p] = [Fresh EXCEPT !.resume = resume, !.existing = existing]]
    /\ Goto(p, "record")
    /\ UNCHANGED <<disk, maker, lightning, chain, refunder, faults>>

EnsureSwapRecord(p) ==
    /\ pc[p] = "record"
    /\ \/ /\ client = "ABSENT" /\ ~loc[p].resume
          /\ client' = "CREATED"
          /\ Goto(p, "reserve") /\ UNCHANGED loc
       \/ /\ client # "ABSENT" /\ (loc[p].resume \/ client = "CREATED")
          /\ Goto(p, "reserve") /\ UNCHANGED <<client, loc>>
       \/ /\ IF loc[p].resume THEN client = "ABSENT" ELSE client \notin {"ABSENT", "CREATED"}
          /\ Stop(p) /\ UNCHANGED client
    /\ UNCHANGED <<evidence, fundingOutbox, claimOutbox, refundOutbox, torn, maker, lightning,
                   chain, refunder, faults>>

\* Mutant: a consumed reservation is refused even when a paid swap is resumed.
CheckReservationHeldOnly(p) ==
    /\ pc[p] = "reserve"
    /\ \/ reservation = "HELD" /\ attached /\ Goto(p, "invoice") /\ Forget(p)
       \/ reservation = "HELD" /\ ~attached /\ ~expired /\ Goto(p, "attach") /\ Forget(p)
       \/ reservation # "HELD" /\ Stop(p)
       \/ reservation = "HELD" /\ ~attached /\ expired /\ Stop(p)
    /\ UNCHANGED <<disk, maker, lightning, chain, refunder, faults>>

\* prepare_solver_reservation with the reads of attach_reservation.  After it
\* the row as first read is not looked at again, and is forgotten.
CheckReservation(p) ==
    /\ pc[p] = "reserve"
    /\ \/ /\ \/ reservation = "CONSUMED" /\ loc[p].resume /\ loc[p].existing \in PaidStates
             \/ reservation = "HELD" /\ attached
          /\ Goto(p, "invoice") /\ Forget(p)
       \/ /\ reservation = "HELD" /\ ~attached /\ ~expired
          /\ Goto(p, "attach") /\ Forget(p)
       \/ /\ \/ reservation = "CONSUMED" /\ ~(loc[p].resume /\ loc[p].existing \in PaidStates)
             \/ reservation = "HELD" /\ ~attached /\ expired
             \/ reservation = "RELEASED"
          /\ Stop(p)
    /\ UNCHANGED <<disk, maker, lightning, chain, refunder, faults>>

\* The UPDATE of attach_reservation looks at swap_id only.
AttachReservation(p) ==
    /\ pc[p] = "attach"
    /\ attached' = TRUE
    /\ Goto(p, "invoice")
    /\ UNCHANGED <<disk, reservation, expired, lightning, chain, loc, refunder, faults>>

-------------------------------------------------------------------------------
(* run_forward_swap: the invoice, then either the replay of a claim that    *)
(* was prepared before, or the swap itself.                                 *)

\* Mutant: an invoice that exists is taken to be open.
EnsureInvoiceAssumesOpen(p) ==
    /\ pc[p] = "invoice"
    /\ invoice # "CANCELED"
    /\ invoice' = IF invoice = "NONE" THEN "OPEN" ELSE invoice
    /\ loc' = [loc EXCEPT ![p].inv = "OPEN"]
    /\ Goto(p, "replay")
    /\ UNCHANGED <<disk, maker, accepted, expiry, payment, tip, chain, refunder, faults>>

EnsureInvoice(p) ==
    /\ pc[p] = "invoice"
    /\ \/ /\ invoice = "CANCELED"
          /\ Stop(p) /\ UNCHANGED invoice
       \/ /\ invoice # "CANCELED"
          /\ invoice' = IF invoice = "NONE" THEN "OPEN" ELSE invoice
          /\ loc' = [loc EXCEPT ![p].inv = invoice']
          /\ Goto(p, "replay")
    /\ UNCHANGED <<disk, maker, accepted, expiry, payment, tip, chain, refunder, faults>>

\* Mutant: funding_exposed starts as false.
ReadClaimOutboxUnexposed(p, otherwise) ==
    /\ pc[p] = "replay"
    /\ loc' = [loc EXCEPT ![p].replay = claimOutbox]
    /\ Goto(p, IF claimOutbox THEN "bc_claim" ELSE otherwise)
    /\ UNCHANGED <<disk, maker, lightning, chain, refunder, faults>>

\* A file that is there but cannot be parsed is an error, here without cancel.
ReadClaimOutbox(p, otherwise) ==
    /\ pc[p] = "replay"
    /\ \/ /\ "claim" \notin torn /\ (claimOutbox \/ "funding" \notin torn)
          /\ loc' = [loc EXCEPT ![p].replay = claimOutbox,
                                ![p].exposed = ~claimOutbox /\ fundingOutbox # NoTx]
          /\ Goto(p, IF claimOutbox THEN "bc_claim" ELSE otherwise)
       \/ /\ "claim" \in torn \/ (~claimOutbox /\ "funding" \in torn)
          /\ Stop(p)
    /\ UNCHANGED <<disk, maker, lightning, chain, refunder, faults>>

\* validate_forward_timing, as the number of blocks that it asks for.
ForwardTiming == height + RequiredDelta <= Lock

CheckTiming(p) ==
    /\ pc[p] = "timing"
    /\ LET settledRecovery == loc[p].inv = "SETTLED" /\ fundingOutbox # NoTx IN
       IF settledRecovery \/ ForwardTiming
       THEN Goto(p, "funding") /\ UNCHANGED loc
       ELSE Abort(p)
    /\ UNCHANGED <<disk, maker, lightning, chain, refunder, faults>>

\* Mutant: the outbox is found, but its transaction is not taken from it.
ReadFundingOutboxForgets(p) ==
    /\ pc[p] = "funding"
    /\ IF fundingOutbox # NoTx
       THEN loc' = [loc EXCEPT ![p].exposed = TRUE] /\ Goto(p, "ph_funding")
       ELSE /\ \E t \in FundingTxs : loc' = [loc EXCEPT ![p].tx = t]
            /\ Goto(p, "persist")
    /\ UNCHANGED <<disk, maker, lightning, chain, refunder, faults>>

\* prepare_or_replay_funding: reuse the outbox, or sign a transaction.
ReadFundingOutbox(p) ==
    /\ pc[p] = "funding"
    /\ \/ /\ fundingOutbox # NoTx
          /\ loc' = [loc EXCEPT ![p].tx = fundingOutbox, ![p].exposed = TRUE]
          /\ Goto(p, "ph_funding")
       \/ /\ fundingOutbox = NoTx /\ "funding" \notin torn
          /\ \E t \in FundingTxs : loc' = [loc EXCEPT ![p].tx = t]
          /\ Goto(p, "persist")
       \/ /\ "funding" \in torn
          /\ Abort(p)
    /\ UNCHANGED <<disk, maker, lightning, chain, refunder, faults>>

\* Mutant: the outbox file is created without O_EXCL and the comparison.
PersistFundingOverwrites(p) ==
    /\ pc[p] = "persist"
    /\ fundingOutbox' = loc[p].tx
    /\ loc' = [loc EXCEPT ![p].exposed = TRUE]
    /\ Goto(p, "ph_funding")
    /\ UNCHANGED <<client, evidence, claimOutbox, refundOutbox, torn, maker, lightning, chain,
                   refunder, faults>>

\* write_outbox creates the file exclusively and refuses a different one.
PersistFunding(p) ==
    /\ pc[p] = "persist"
    /\ \/ /\ fundingOutbox \in {NoTx, loc[p].tx} /\ "funding" \notin torn
          /\ fundingOutbox' = loc[p].tx
          /\ loc' = [loc EXCEPT ![p].exposed = TRUE]
          /\ Goto(p, "ph_funding")
       \/ /\ fundingOutbox \notin {NoTx, loc[p].tx} \/ "funding" \in torn
          /\ Abort(p)
          /\ UNCHANGED fundingOutbox
    /\ UNCHANGED <<client, evidence, claimOutbox, refundOutbox, torn, maker, lightning, chain,
                   refunder, faults>>

PhaseInputFunding(p) ==
    pc[p] = "ph_funding" /\ OnPhase(p, "INPUT_FUNDING", "bc_funding")

\* A transaction the node knows already is answered like a new one.
BroadcastFunding(p) ==
    /\ pc[p] = "bc_funding"
    /\ fundingTx' = [fundingTx EXCEPT ![loc[p].tx] = IF @ = "NONE" THEN "MEMPOOL" ELSE @]
    /\ Goto(p, "obs_funding")
    /\ UNCHANGED <<disk, maker, lightning, height, claimTx, refundTx, claimHeight, loc,
                   refunder, faults>>

\* Mutant: no minimum number of confirmations.
FundingVisibleUnconfirmed(t) ==
    /\ fundingTx[t] # "NONE"
    /\ claimTx = "NONE" /\ refundTx = "NONE"
    /\ height + 1 < Lock

\* inspect_liquid_htlc_output: confirmed, unspent, and not about to be refundable.
FundingVisible(t) ==
    /\ fundingTx[t] = "CONFIRMED"
    /\ claimTx = "NONE" /\ refundTx = "NONE"
    /\ height + 1 < Lock

ObserveFunding(p) ==
    /\ pc[p] = "obs_funding"
    /\ IF FundingVisible(loc[p].tx)
       THEN Goto(p, "ph_locked") /\ UNCHANGED <<chain, loc>>
       ELSE Confirm(p, "obs_funding2")
    /\ UNCHANGED <<disk, maker, lightning, refunder, faults>>

ObserveFundingAgain(p) ==
    /\ pc[p] = "obs_funding2"
    /\ IF FundingVisible(loc[p].tx) THEN Goto(p, "ph_locked") /\ UNCHANGED loc ELSE Stop(p)
    /\ UNCHANGED <<disk, maker, lightning, chain, refunder, faults>>

PhaseInputLocked(p) ==
    pc[p] = "ph_locked" /\ OnPhase(p, "INPUT_LOCKED", "ph_pending")

PhaseOutputPending(p) ==
    pc[p] = "ph_pending" /\ OnPhase(p, "OUTPUT_PENDING", "pay")

-------------------------------------------------------------------------------
(* pay_if_open decides on the invoice as looked up at the start.  The node  *)
(* starts a payment of an open invoice unless one is under way or done.     *)
Payable == invoice = "OPEN" /\ payment \in {"NONE", "FAILED"}

Pay(p) ==
    /\ pc[p] = "pay"
    /\ \/ /\ loc[p].inv # "OPEN"
          /\ Goto(p, "accept") /\ UNCHANGED <<payment, loc>>
       \/ /\ loc[p].inv = "OPEN" /\ Payable
          /\ payment' = "INFLIGHT"
          /\ Goto(p, "paying") /\ UNCHANGED loc
       \/ /\ loc[p].inv = "OPEN" /\ ~Payable
          /\ Abort(p) /\ UNCHANGED payment
    /\ UNCHANGED <<disk, maker, invoice, accepted, expiry, tip, chain, refunder, faults>>

\* The call returns FAILED, or anything else (a timeout is UNKNOWN).
PayReturns(p) ==
    /\ pc[p] = "paying"
    /\ IF payment = "FAILED" THEN Abort(p) ELSE Goto(p, "accept") /\ UNCHANGED loc
    /\ UNCHANGED <<disk, maker, lightning, chain, refunder, faults>>

\* observe_accepted and validate_accepted.
ObserveAccepted(p, then) ==
    /\ pc[p] = "accept"
    /\ IF \/ accepted /\ invoice = "SETTLED"
          \/ accepted /\ invoice = "ACCEPTED" /\ expiry > tip + MinHeadroom
       THEN loc' = [loc EXCEPT ![p].inv = invoice] /\ Goto(p, then)
       ELSE Abort(p)
    /\ UNCHANGED <<disk, maker, lightning, chain, refunder, faults>>

SettleInvoice(p) ==
    /\ pc[p] = "settle"
    /\ IF loc[p].inv = "SETTLED" \/ invoice \in {"ACCEPTED", "SETTLED"}
       THEN /\ invoice' = IF invoice = "ACCEPTED" THEN "SETTLED" ELSE invoice
            /\ Goto(p, "track") /\ UNCHANGED loc
       ELSE Stop(p) /\ UNCHANGED invoice
    /\ UNCHANGED <<disk, maker, accepted, expiry, payment, tip, chain, refunder, faults>>

\* Mutant: any answer about the payment will do, as the hold was settled.
TrackAnything(p) ==
    /\ pc[p] = "track"
    /\ Goto(p, "ph_output")
    /\ UNCHANGED <<disk, maker, lightning, chain, loc, refunder, faults>>

TrackSuccess(p) ==
    /\ pc[p] = "track"
    /\ IF payment = "SUCCEEDED" THEN Goto(p, "ph_output") /\ UNCHANGED loc ELSE Stop(p)
    /\ UNCHANGED <<disk, maker, lightning, chain, refunder, faults>>

PhaseOutputSettled(p) ==
    pc[p] = "ph_output" /\ OnPhase(p, "OUTPUT_SETTLED", "consume")

\* Mutant: the reservation's state is not looked at.
ConsumeUnheld(p) ==
    /\ pc[p] = "consume"
    /\ reservation' = "CONSUMED"
    /\ Goto(p, IF loc[p].replay THEN "ph_settled" ELSE "claim")
    /\ UNCHANGED <<disk, attached, expired, lightning, chain, loc, refunder, faults>>

\* A transaction on the maker's database, after the one on the client's.
ConsumeReservation(p) ==
    /\ pc[p] = "consume"
    /\ IF reservation \in {"HELD", "CONSUMED"}
       THEN /\ reservation' = "CONSUMED"
            /\ Goto(p, IF loc[p].replay THEN "ph_settled" ELSE "claim")
            /\ UNCHANGED loc
       ELSE Stop(p) /\ UNCHANGED reservation
    /\ UNCHANGED <<disk, attached, expired, lightning, chain, refunder, faults>>

-------------------------------------------------------------------------------
(* claim_or_replay, and the claim part of replay_completed.                 *)
PersistClaim(p) ==
    /\ pc[p] = "claim"
    /\ IF "claim" \notin torn
       THEN claimOutbox' = TRUE /\ Goto(p, "ph_claim") /\ UNCHANGED loc
       ELSE Stop(p) /\ UNCHANGED claimOutbox
    /\ UNCHANGED <<client, evidence, fundingOutbox, refundOutbox, torn, maker, lightning, chain,
                   refunder, faults>>

PhaseClaimPending(p) ==
    pc[p] = "ph_claim" /\ OnPhase(p, "CLAIM_PENDING", "bc_claim")

BroadcastClaim(p) ==
    /\ pc[p] = "bc_claim"
    /\ IF claimTx # "NONE" \/ (refundTx = "NONE" /\ fundingTx[fundingOutbox] # "NONE")
       THEN /\ claimTx' = IF claimTx = "NONE" THEN "MEMPOOL" ELSE claimTx
            /\ Goto(p, "obs_claim") /\ UNCHANGED loc
       ELSE Stop(p) /\ UNCHANGED claimTx
    /\ UNCHANGED <<disk, maker, lightning, height, fundingTx, refundTx, claimHeight, refunder,
                   faults>>

AfterClaim(p) == IF loc[p].replay THEN "accept" ELSE "ph_settled"

\* Mutant: a claim in the mempool counts as observed.
ObserveClaimUnconfirmed(p, then) ==
    /\ pc[p] = "obs_claim"
    /\ Goto(p, then)
    /\ UNCHANGED <<disk, maker, lightning, chain, loc, refunder, faults>>

ObserveClaim(p, then) ==
    /\ pc[p] = "obs_claim"
    /\ IF claimTx = "CONFIRMED"
       THEN Goto(p, then) /\ UNCHANGED <<chain, loc>>
       ELSE Confirm(p, "obs_claim2")
    /\ UNCHANGED <<disk, maker, lightning, refunder, faults>>

ObserveClaimAgain(p, then) ==
    /\ pc[p] = "obs_claim2"
    /\ IF claimTx = "CONFIRMED" THEN Goto(p, then) /\ UNCHANGED loc ELSE Stop(p)
    /\ UNCHANGED <<disk, maker, lightning, chain, refunder, faults>>

PhaseSettled(p) ==
    pc[p] = "ph_settled" /\ OnPhase(p, "SETTLED", "evidence")

\* record_swap_evidence: written once, equal ever after.
Confirmations == height - claimHeight + 1

RecordEvidence(p) ==
    /\ pc[p] = "evidence"
    /\ IF evidence \in {0, Confirmations}
       THEN evidence' = Confirmations /\ Goto(p, "check") /\ UNCHANGED loc
       ELSE Stop(p) /\ UNCHANGED evidence
    /\ UNCHANGED <<client, fundingOutbox, claimOutbox, refundOutbox, torn, maker, lightning, chain,
                   refunder, faults>>

\* reservation_is_consumed, then the report; either way the run is over.
Report(p) ==
    /\ pc[p] = "check"
    /\ Stop(p)
    /\ UNCHANGED <<disk, maker, lightning, chain, refunder, faults>>

-------------------------------------------------------------------------------
(* cancel_if_accepted, after an error before funding was exposed.           *)
CancelIfAccepted(p) ==
    /\ pc[p] = "cancel"
    /\ invoice' = IF invoice = "ACCEPTED" THEN "CANCELED" ELSE invoice
    /\ Stop(p)
    /\ UNCHANGED <<disk, maker, accepted, expiry, payment, tip, chain, refunder, faults>>

\* A call returns an error, or stop-after-payment is asked for.
Fail(p) ==
    /\ pc[p] # "idle"
    /\ faults < MaxFaults
    /\ faults' = faults + 1
    /\ Abort(p)
    /\ UNCHANGED <<disk, maker, lightning, chain, refunder>>

\* The process dies and loses what was only in memory.
Crash(p) ==
    /\ pc[p] # "idle"
    /\ faults < MaxFaults
    /\ faults' = faults + 1
    /\ Stop(p)
    /\ UNCHANGED <<disk, maker, lightning, chain, refunder>>

\* write_outbox creates the funding file and then errs, in the write itself or
\* in one of the syncs after it; persist_funding returns before it sets
\* funding_exposed.
FailWriting(p) ==
    /\ pc[p] = "persist"
    /\ fundingOutbox = NoTx /\ "funding" \notin torn
    /\ faults < MaxFaults
    /\ faults' = faults + 1
    /\ \/ fundingOutbox' = loc[p].tx /\ UNCHANGED torn
       \/ TornWrites /\ torn' = torn \cup {"funding"} /\ UNCHANGED fundingOutbox
    /\ Abort(p)
    /\ UNCHANGED <<client, evidence, claimOutbox, refundOutbox, maker, lightning, chain,
                   refunder>>

\* It dies between the creation of an outbox file and the end of the write.
\* (For the claim an error there is the same, as no cancel follows it, and an
\* error or a death after the end is a PersistClaim that Fails or Crashes next.)
CrashWriting(p) ==
    /\ TornWrites /\ faults < MaxFaults
    /\ \/ /\ pc[p] = "persist" /\ fundingOutbox = NoTx
          /\ torn' = torn \cup {"funding"}
       \/ /\ pc[p] = "claim" /\ ~claimOutbox
          /\ torn' = torn \cup {"claim"}
    /\ faults' = faults + 1
    /\ Stop(p)
    /\ UNCHANGED <<client, evidence, fundingOutbox, claimOutbox, refundOutbox, maker,
                   lightning, chain, refunder>>

-------------------------------------------------------------------------------
(* refund_funded_swap.  Any failed condition returns an error.              *)
RefundGoto(step) ==
    refunder' = step /\ UNCHANGED <<client, evidence, fundingOutbox, claimOutbox, torn, maker,
                                    lightning, height, fundingTx, claimTx, claimHeight,
                                    local, faults>>

RefundTrackPayment ==
    /\ refunder = "idle" /\ payment = "FAILED"
    /\ RefundGoto("invoice") /\ UNCHANGED <<refundOutbox, refundTx>>

\* Mutant: the failed payment is enough, whatever became of the hold.
RefundSkipsInvoice ==
    /\ refunder = "invoice"
    /\ RefundGoto(IF accepted THEN "files" ELSE "idle")
    /\ UNCHANGED <<refundOutbox, refundTx>>

RefundLookupInvoice ==
    /\ refunder = "invoice"
    /\ RefundGoto(IF invoice = "CANCELED" /\ accepted THEN "files" ELSE "idle")
    /\ UNCHANGED <<refundOutbox, refundTx>>

\* The claim and funding outboxes, the height, and the refund outbox if any.
MayRefund ==
    /\ ~claimOutbox /\ fundingOutbox # NoTx
    /\ height >= Lock
    /\ torn = {}

\* Mutant: a refund outbox left by an earlier attempt is an error.
RefundPersistOnce ==
    /\ refunder = "files"
    /\ IF MayRefund /\ ~refundOutbox
       THEN RefundGoto("broadcast") /\ refundOutbox' = TRUE
       ELSE RefundGoto("idle") /\ UNCHANGED refundOutbox
    /\ UNCHANGED refundTx

RefundPersist ==
    /\ refunder = "files"
    /\ IF MayRefund
       THEN RefundGoto("broadcast") /\ refundOutbox' = TRUE
       ELSE RefundGoto("idle") /\ UNCHANGED refundOutbox
    /\ UNCHANGED refundTx

RefundBroadcast ==
    /\ refunder = "broadcast"
    /\ IF refundTx # "NONE" \/ (claimTx = "NONE" /\ fundingTx[fundingOutbox] # "NONE")
       THEN /\ RefundGoto("observe")
            /\ refundTx' = IF refundTx = "NONE" THEN "MEMPOOL" ELSE refundTx
       ELSE RefundGoto("idle") /\ UNCHANGED refundTx
    /\ UNCHANGED refundOutbox

RefundObserve ==
    /\ refunder = "observe"
    /\ IF refundTx # "CONFIRMED" /\ height < MaxHeight
       THEN /\ MineBlock
            /\ refunder' = "observe2"
            /\ UNCHANGED <<disk, maker, lightning, local, faults>>
       ELSE RefundGoto("idle") /\ UNCHANGED <<refundOutbox, refundTx>>

RefundObserveAgain ==
    /\ refunder = "observe2"
    /\ RefundGoto("idle") /\ UNCHANGED <<refundOutbox, refundTx>>

\* An error of a call, a death of the process, or one inside write_outbox.
RefundFails ==
    /\ refunder # "idle" /\ faults < MaxFaults
    /\ faults' = faults + 1
    /\ refunder' = "idle"
    /\ \/ UNCHANGED torn
       \/ /\ TornWrites /\ refunder = "files" /\ MayRefund /\ ~refundOutbox
          /\ torn' = torn \cup {"refund"}
    /\ UNCHANGED <<client, evidence, fundingOutbox, claimOutbox, refundOutbox, maker,
                   lightning, chain, local>>

RefundStep ==
    \/ RefundTrackPayment \/ RefundLookupInvoice \/ RefundPersist \/ RefundBroadcast
    \/ RefundObserve \/ RefundObserveAgain

-------------------------------------------------------------------------------
(* The maker, the Lightning nodes and the chain.                            *)
QuoteExpires ==
    /\ ~expired /\ expired' = TRUE
    /\ UNCHANGED <<disk, reservation, attached, lightning, chain, local, refunder, faults>>

\* release_reservation: an attached row stays, as its swap row is elsewhere.
MakerReleasesReservation ==
    /\ MakerReleases /\ reservation = "HELD" /\ expired /\ ~attached
    /\ reservation' = "RELEASED"
    /\ UNCHANGED <<disk, attached, expired, lightning, chain, local, refunder, faults>>

HtlcArrives ==
    /\ payment = "INFLIGHT" /\ invoice = "OPEN"
    /\ invoice' = "ACCEPTED" /\ accepted' = TRUE /\ expiry' = tip + HoldDelta
    /\ UNCHANGED <<disk, maker, payment, tip, chain, local, refunder, faults>>

PaymentFails ==
    /\ payment = "INFLIGHT" /\ invoice \in {"OPEN", "CANCELED"}
    /\ payment' = "FAILED"
    /\ UNCHANGED <<disk, maker, invoice, accepted, expiry, tip, chain, local, refunder, faults>>

PaymentSucceeds ==
    /\ payment = "INFLIGHT" /\ invoice = "SETTLED"
    /\ payment' = "SUCCEEDED"
    /\ UNCHANGED <<disk, maker, invoice, accepted, expiry, tip, chain, local, refunder, faults>>

\* The node drops an invoice nobody paid in time, and a hold about to expire.
InvoiceCancels ==
    /\ \/ invoice = "OPEN"
       \/ invoice = "ACCEPTED" /\ expiry <= tip
    /\ invoice' = "CANCELED"
    /\ UNCHANGED <<disk, maker, accepted, expiry, payment, tip, chain, local, refunder, faults>>

LightningBlock ==
    /\ tip < MaxTip /\ tip' = tip + 1
    /\ UNCHANGED <<disk, maker, invoice, accepted, expiry, payment, chain, local, refunder,
                   faults>>

LiquidBlock ==
    /\ height < MaxMined /\ MineBlock
    /\ UNCHANGED <<disk, maker, lightning, local, refunder, faults>>

-------------------------------------------------------------------------------
RunnerStep(p) ==
    \/ EnsureSwapRecord(p) \/ CheckReservation(p) \/ AttachReservation(p)
    \/ EnsureInvoice(p) \/ ReadClaimOutbox(p, "timing") \/ CheckTiming(p)
    \/ ReadFundingOutbox(p) \/ PersistFunding(p) \/ PhaseInputFunding(p)
    \/ BroadcastFunding(p) \/ ObserveFunding(p) \/ ObserveFundingAgain(p)
    \/ PhaseInputLocked(p) \/ PhaseOutputPending(p) \/ Pay(p) \/ PayReturns(p)
    \/ ObserveAccepted(p, "settle") \/ SettleInvoice(p) \/ TrackSuccess(p)
    \/ PhaseOutputSettled(p) \/ ConsumeReservation(p) \/ PersistClaim(p)
    \/ PhaseClaimPending(p) \/ BroadcastClaim(p)
    \/ ObserveClaim(p, AfterClaim(p)) \/ ObserveClaimAgain(p, AfterClaim(p))
    \/ PhaseSettled(p) \/ RecordEvidence(p) \/ Report(p) \/ CancelIfAccepted(p)

Environment ==
    \/ QuoteExpires \/ MakerReleasesReservation \/ HtlcArrives \/ PaymentFails
    \/ PaymentSucceeds \/ InvoiceCancels \/ LightningBlock \/ LiquidBlock

Next ==
    \/ \E p \in Runners : \/ \E resume \in BOOLEAN : Start(p, resume)
                          \/ RunnerStep(p)
                          \/ Fail(p)
                          \/ Crash(p)
                          \/ FailWriting(p)
                          \/ CrashWriting(p)
    \/ RefundStep
    \/ RefundFails
    \/ Environment

Spec == Init /\ [][Next]_vars

(* A started run goes on; whoever runs it resumes the swap again and again; *)
(* somebody calls the refund; a settled hold pays the payer back; and the   *)
(* Liquid chain grows.                                                      *)
Fairness ==
    /\ \A p \in Runners : WF_vars(RunnerStep(p)) /\ SF_vars(Start(p, TRUE))
    /\ WF_vars(RefundStep)
    /\ WF_vars(PaymentSucceeds)
    /\ WF_vars(LiquidBlock)

FairSpec == Spec /\ Fairness

-------------------------------------------------------------------------------
(* The asset is locked at most once: whatever runs race, die or are         *)
(* resumed, only the transaction of the funding outbox is ever broadcast    *)
(* (orchestrator.rs prepare_or_replay_funding, outbox.rs write_outbox).     *)
FundedOnce == \A t \in FundingTxs : fundingTx[t] # "NONE" => fundingOutbox = t

(* Exposure is written down first: no funding transaction is on its way     *)
(* while the row still reads CREATED, which a release would trust, and no   *)
(* payment is started before the asset is confirmed as locked and the row   *)
(* says so (live.rs on_phase around prepare_or_replay_funding, pay_if_open).*)
WriteAhead ==
    /\ fundingOutbox # NoTx /\ fundingTx[fundingOutbox] # "NONE" =>
            client \notin {"ABSENT", "CREATED"}
    /\ payment # "NONE" =>
            /\ fundingOutbox # NoTx /\ fundingTx[fundingOutbox] = "CONFIRMED"
            /\ client \notin {"ABSENT", "CREATED", "INPUT_FUNDING", "INPUT_LOCKED"}

(* The asset is claimed only against a payment: no claim is even prepared   *)
(* before the payer's node reports success, the receiver's hold is settled  *)
(* and the maker's inventory is booked as consumed (orchestrator.rs         *)
(* track_success and on_phase before claim_or_replay).                      *)
ClaimNeedsPayment ==
    claimOutbox \/ claimTx # "NONE" =>
        /\ payment = "SUCCEEDED" /\ invoice = "SETTLED"
        /\ reservation = "CONSUMED"

(* The asset is returned only when the payment can no longer happen, and a  *)
(* swap never has both a claim and a refund.  (refund_funded_swap looks at  *)
(* the payment first and at the invoice after it: a resumed run may have    *)
(* started the payment again in between, but not against a canceled hold.)  *)
RefundNeedsFailure ==
    refundOutbox \/ refundTx # "NONE" =>
        /\ payment # "SUCCEEDED" /\ invoice = "CANCELED"
        /\ ~claimOutbox /\ reservation # "CONSUMED"

(* The two databases agree in the direction that matters: the maker books   *)
(* a reservation as consumed only after the payment and after the client's  *)
(* row says so; a row that says SETTLED has its claim confirmed and its     *)
(* reservation consumed (live.rs on_phase).                                 *)
BooksAgree ==
    /\ reservation = "CONSUMED" => payment = "SUCCEEDED" /\ client \in PaidStates
    /\ client = "SETTLED" => claimTx = "CONFIRMED" /\ reservation = "CONSUMED"
    /\ evidence # 0 => client = "SETTLED"

(* With one run at a time, the payer's held money is not given back before  *)
(* its HTLC is about to expire: the payment is started behind the lock, and *)
(* no error, not even one of write_outbox after its file is complete, makes *)
(* that run or a resumed one cancel the hold (run_forward_swap's            *)
(* funding_exposed and cancel_if_accepted).                                 *)
HoldIsKept == [][invoice = "ACCEPTED" /\ invoice' = "CANCELED" => expiry <= tip]_vars

(* With one run at a time, a swap whose row says that it was paid never     *)
(* asks the payer's node to pay again (pay_if_open; tests/safety_boundary.rs*)
(* paid_states_cannot_switch_to_refund_or_retry_payment).                   *)
NoSecondPayment ==
    \A p \in Runners : pc[p] = "pay" /\ loc[p].inv = "OPEN" => client \notin PaidStates

(* The swap as its two parties see it: where the asset is, according to the *)
(* chain, what the hold invoice did, and what the maker booked.             *)
AssetSeen ==
    IF claimTx = "CONFIRMED" THEN "CLAIMED"
    ELSE IF refundTx = "CONFIRMED" THEN "RETURNED"
    ELSE IF \E t \in FundingTxs : fundingTx[t] = "CONFIRMED" THEN "LOCKED"
    ELSE "FREE"

HoldSeen ==
    CASE invoice \in {"NONE", "OPEN"} -> "NONE"
      [] invoice = "ACCEPTED"         -> "HELD"
      [] invoice = "SETTLED"          -> "REVEALED"
      [] invoice = "CANCELED"         -> "DROPPED"

Abstract == INSTANCE AtomicSwap
                WITH asset <- AssetSeen, hold <- HoldSeen, inventory <- reservation

(* However many runs, crashes and refunds, what happens on the chain, at    *)
(* the Lightning nodes and in the maker's ledger is one atomic swap.        *)
ImplementsAtomicSwap == Abstract!Spec

(* Once the hold is settled, which reveals the preimage, the asset is       *)
(* claimed in the end, through any crashes and resumes, as long as the      *)
(* chain stays below the height at which funding is no longer accepted.     *)
RevealedIsClaimed == invoice = "SETTLED" ~> claimTx = "CONFIRMED"

(* The row gets to SETTLED and the evidence is recorded as well, but for    *)
(* one way out: a run that died between the claim outbox and CLAIM_PENDING. *)
Stranded ==
    claimOutbox /\ client = "OUTPUT_SETTLED" /\ \A p \in Runners : pc[p] = "idle"

RevealedIsSettled ==
    invoice = "SETTLED" ~> (client = "SETTLED" /\ evidence # 0) \/ Stranded

(* A payment that failed after its HTLC was held gives the asset back.      *)
HeldFailureIsRefunded ==
    payment = "FAILED" /\ invoice = "CANCELED" /\ accepted ~> refundTx = "CONFIRMED"

-------------------------------------------------------------------------------
(* What the documents say and the code does not do; see the findings.       *)

(* "Once a payment is verified, recovery completes the claim"               *)
(* (api-contract.md:64), whatever the chain's height by then.               *)
PaidIsClaimed == payment = "SUCCEEDED" ~> claimTx = "CONFIRMED"

(* "recovery finishes or reconciles the claim"                              *)
(* (docs/marketMakerTutorial.md:210): a claimed swap ends in SETTLED.       *)
ClaimedIsSettled == claimTx = "CONFIRMED" ~> client = "SETTLED"
===============================================================================
