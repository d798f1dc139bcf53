# A verification project for cross-network-market-maker

TLA+ models of `xmm`, from a request for quotes to the settled swap: clients and
makers with their quotes and reservations, the preparation of a session, the
makers' inventory ledgers, the swap between TEST-DEPIX (Liquid) and Lightning in
both directions with its crashes, resumes, refunds and concurrent runs, and the
wallet whose coins the sessions share. TLC checks small instances (`MC*.tla`,
`*.cfg`); TLAPS proves theorems for every value of the constants.
`PROJECT.json` lists runs, mutants, the mapping to source lines, findings and
hazards. Paths are relative to the repository, kept under `src/`.

## 1. The system

`xmm` lets a client swap an asset between networks with a maker, atomically by
one payment hash. `swap prepare` draws the secrets, makes them durable, has the
receiver's node issue a hold invoice and writes the intent. `rfq` asks the makers
for signed quotes, selects one and reserves it. One CLI process (`swap forward`,
again as `swap resume`) accepts the selected quote, attaches the reservation and
drives the swap: it funds a Liquid HTLC, has the payer's LND pay a hold invoice
at the receiver's LND, settles the hold (which reveals the preimage), has the
payer's node confirm the success, books the maker's reservation as consumed
and claims the HTLC. After a failure `refund_funded_swap` (library only) spends
the refund branch at an absolute height.

| Component | State | Operations | Hard because |
|---|---|---|---|
| Swap state machine `core/settlement.rs` | 11 states | `can_transition_to` | outcomes must not cross over long legal sequences |
| Store `core/storage.rs` | SQLite: ledger, reservations, swap rows, journal | `ensure_solver_ledger`, `reserve`, `attach_reservation`, `consume_*`, `release_*`, `insert_swap`, `transition_swap`, `record_swap_evidence` | several connections; attach is not a transaction; repeated calls; maker and client have separate databases |
| Forward command `cli/live.rs` | client database, observer | `run_prepare`, `run_forward`, `on_phase` | two databases, resumes in every state, quote expiry |
| Orchestrator `swaps/orchestrator.rs` | none but the files below | `run_forward_swap`, `run_reverse_swap`, `refund_funded_swap` | about 25 external effects in a row, each can fail or be the last |
| Outbox and recovery files `swaps/outbox.rs`, `swaps/recovery.rs` | one file per transaction, one encrypted record | exclusive create, compare | death inside a write, two writers |
| Chain adapter `swaps/liquid.rs`, `chain/observation.rs` | the Liquid node and one wallet | select coins, fund, spend, broadcast, observe, mine | re-broadcast, headroom near the lock height, sessions that pick the same coin |
| Timing `swaps/timing.rs` | - | forward and reverse checks | boundaries, overflow |
| Lightning client `lightning/*` | two LND nodes | hold, lookup, pay, track, settle, cancel | unknown results, retries, HTLC expiry |
| RFQ and routes `core/rfq.rs`, `core/routes.rs`, `core/amount.rs` ... | - | sign, verify quotes | expiry, what a signature binds |
| Maker service `cli/solver.rs`, client command `cli/commands.rs` | the store; `selected.json` | quote, reserve, choose a quote | one connection at a time, lost and late answers, restarts with another offer |
| Native exit `exit/*` | - | qualify an exit proof | conjunction of many conditions |
| Primitives `chain/contract.rs`, `htlc_script.rs`, `bitcoin.rs`, `liquid.rs`; `rpc.rs`, TLS, encodings | - | build, encode | cryptographic data, I/O |

What makes each correct: *ledger* - totals are backed by rows, never
over-promised, conserved; one swap owns a reservation. *Swap* - funded at most
once; recorded before it is exposed; claimed only when paid, refunded only when
the payment can no longer happen; the two databases agree; a revealed preimage
ends in a claim; a held payment that failed ends in a refund. *Timing* - the
payment can only start with room for the claim. *RFQ* - what a session owns
is what it accepted, within its intent, booked once and in time. *Prepare* - no
invoice without its preimage on disk; what is prepared is quoted, verified and,
but for two reasons that are named, accepted by `swap forward`. *Wallet* - what is made durable is valid; a locked asset leaves by one
branch; a paid session's claim gets into the chain.

## 2. Modules

| Module | What it is |
|---|---|
| `SwapStates` | persisted states, edges, and the observer's two tables (`state_rank`, `phase_transition`) |
| `Ledger` | the store of `core/storage.rs`: one action per transaction, and one per statement of `attach_reservation` |
| `MCLedger` | its instance: two makers, requests that compete, clash or reuse an identity |
| `LedgerProofs` | TLAPS proofs about `Ledger` |
| `AtomicSwap` | abstract specification of one swap: lock, hold, reveal or drop, book, claim or return |
| `SwapRunner` | one swap in detail: runs, refunder, client and maker stores, outbox files, LND nodes, Liquid chain. Implements `AtomicSwap` |
| `MCSwapRunner` | the symmetry used by its instances |
| `ReverseRunner` | the same swap in the other direction: `run_reverse_swap` with its replay and refund, built from the actions of `SwapRunner`, with block times |
| `MCReverseRunner` | its instance |
| `ReverseRunnerProofs` | TLAPS proofs about `ReverseRunner` |
| `SwapRunnerProofs` | TLAPS proofs about `SwapRunner`, with the refinement of `AtomicSwap` |
| `Quotes` | intents, signed quotes, endpoints and routes, with every validation of them, as operators |
| `QuotesProofs` | theorems about them: a maker's own quotes verify, and a digest stands for one quote |
| `Market` | clients with `rfq` and the acceptance of a quote, makers with their service, each over a store that is an instance of `Ledger` |
| `MCMarket` | its instance: two makers, one with two offers, and a session |
| `MarketProofs` | TLAPS proofs about `Market`, with the refinement of `Ledger`; takes the results of `LedgerProofs` over to every maker |
| `Prepare` | `swap prepare`, run by several processes, with its files and the receiver's invoices |
| `MCPrepare` | its instance: good arguments, another amount with a fee above the limit, deadlines without a margin, an amount of zero |
| `PrepareProofs` | TLAPS proofs about `Prepare` |
| `LiquidWallet` | the coins, transactions, outboxes, mempool and chain of sessions that share a wallet |
| `MCLiquidWallet` | its instance: two sessions |
| `LiquidWalletProofs` | TLAPS proofs about `LiquidWallet` |

`Ledger` and `SwapRunner` share `SwapStates`. `Market` and `Prepare` share
`Quotes`: `Prepare` ends with the intent that `Market` takes as a constant, and
`Market` ends where a session owns a reservation, which is where `SwapRunner`
begins (its payment and consumption come back as `Market`'s `Settle`).
`LiquidWallet` takes from `SwapRunner` only the conditions under which a
transaction is signed. `SwapRunner` sees of the maker's
database the one reservation of its swap, with the reads and the update of
`attach_reservation` apart, as `Ledger` has them.

Operators whose comment begins with "Mutant" are variants of the definition
below them with a plausible bug; nothing in the models uses them.

### Ledger

`available`, `reserved`, `consumed` and `asset` are the `solver_ledgers` row,
`row` and `attached` the `state` and `swap_id` columns of `reservations`,
`swap` the `state` column of `swaps`, `clock` the `now` that callers pass.
A row is named by the request that would insert it, so that two requests with
the same id, quote or hash are two elements of `Requests` that exclude each
other (`Conflicts`, the table's keys). `pc` and `job` hold where a connection is
inside `attach_reservation`; `owners` remembers which swaps were told `Ok`, and
is read by no action. Amounts are naturals up to `MaxU64` with the code's
checked operations; the amounts themselves are kept, since the properties are
about sums. `LocalSwaps` are the swaps whose row is in the same file (the test
harness); for the others `release_reservation` finds no swap row, as in the
command line's set-up with two databases. Repeated calls that change nothing
are stuttering. The journal is left out.

### SwapRunner

| Variable | In the code |
|---|---|
| `client`, `evidence` | the client's swap row: `state`, and the confirmations inside `payment_evidence_json` |
| `fundingOutbox`, `claimOutbox`, `refundOutbox`, `torn` | the three outbox files; `torn` are those created but not completely written |
| `reservation`, `attached`, `expired` | the maker's reservation row; quote and reservation expire together (`solver.rs` copies the quote's expiry) |
| `invoice`, `accepted`, `expiry`, `payment`, `tip` | the receiver's hold invoice and HTLC, the payer's payment, the block height they see |
| `height`, `fundingTx`, `claimTx`, `refundTx`, `claimHeight` | the Liquid chain |
| `pc`, `loc` | each run's next call and its local variables |
| `refunder` | the next call of `refund_funded_swap` |

Every durable write and every call to a node is an action, in the order of the
code; `run_forward` is `Start` .. `CheckReservation` .. `Report`,
`run_forward_swap` is `EnsureInvoice`, `ReadClaimOutbox` and then either
`replay_completed` (`loc.replay`) or `run_forward_after_invoice`. The replay
uses the same actions in its own order: broadcast and observe the claim, then
accept, settle, track, OUTPUT_SETTLED, SETTLED. `OnPhase` is `on_phase`: nothing
if the row is as far or further, a compare-and-set if it is in the expected
state, an error otherwise. An error goes through `Abort`, which asks for the
cancel exactly where `funding_exposed` can still be false. `Fail` makes any
call fail, `Crash` ends the process, `CrashWriting` ends it between creation
and content of an outbox file. `FailWriting` is `write_outbox` returning an error
once the funding file is there, torn or, when one of the syncs or the permissions
failed, complete: `persist_funding` then returns with `funding_exposed` false, and
the run goes to the cancel with a funding on record, which a later run finds and
treats as exposed. (For the claim, where no cancel follows, the same error is a
`CrashWriting` or a `PersistClaim` before a `Fail`.) That a power failure could
take back what a failed sync left unwritten is not modelled.

Funding transactions are model values (signing twice gives two of them); claim
and refund are deterministic. Calls of one run that only read, with no effect
between them, are one action where another actor cannot make a difference
(stated at the action).

### ReverseRunner

`ReverseRunner` extends `SwapRunner` as the code shares its helpers: invoice,
outboxes, node calls and refund are the same actions, in the order of
`run_reverse_after_invoice` - pay, observe the hold, timing, fund, claim, settle,
track - or of `replay_completed`. Actions whose successor differs take it as a
parameter. The observer is `NoopSwapObserver` (no caller under `src/src` has
another), so phases are steps without effect (`NoopPhase`) and the swap row and
the reservation stay untouched. `left` is what the timing check will be told of
the HTLC: it is read with `observe_accepted`, the Liquid height one call later.
`lastBlock` and `Paced` state the policy behind `timing.rs`: a Lightning block
takes at least `BlockRatio` Liquid blocks.

### Quotes and Market

`Quotes` keeps an intent and a quote as records with the fields of the code, and
states `Intent::validate`, `MakerQuote`, `SignQuote`, `VerifyQuote`, route
qualification and both invoice checks as predicates over them. Texts (ids, keys,
addresses, nonces) are opaque, a signature is the signed digest with its key, and
what an invoice's text says is the function `Bolt11`.

| Variable of `Market` | In the code |
|---|---|
| `config` | what a running maker was started with (fee, rate, inventory), `None` when it is down |
| `inbox` | the connections that wait at its listener; the service answers one at a time |
| `command` | the client's command: its next step and the quotes it has |
| `selected` | `selected.json`, `None` when it is missing or torn |
| `bound` | the quote in the client's swap row |
| the others | the makers' stores, variables of `Ledger` |

`MakerStart` is `SolverService::new` (with `ensure_solver_ledger`), `ServeQuote`
and `ServeReserve` are one pass of `serve`; `RunRfq`, `Ask`, `Select` and
`WriteSelected` are `run_rfq`; `Accept`, `CheckReservation` and `Attach` are
`run_forward` up to the swap. `GiveUp` is the ten seconds' timeout, a broken
connection or a death: the request stays in the maker's queue and is executed
although nobody waits. A lost answer is the same as a client that gave up just
before it, so it needs no action. Every maker has its own database; they are kept
in one `Ledger` whose unique hash column carries the maker.

### Prepare

| Variable | In the code |
|---|---|
| `keyFile`, `recovery`, `intentFile` | the three files: missing, `Partial` (created or truncated), or whole |
| `invoice` | the receiver's hold invoices by hash |
| `height`, `now` | the Liquid chain and the clock, which move together (prepare reads one after the other and only adds to both) |
| `pc`, `loc` | each process's next call and its arguments, key, deadlines and record |

One action per file operation and node call, in the order of `run_prepare` and
`prepare_or_load_recovery`; creation and content of a file are two actions, so
`Stop` can fall between them, and `LoadRecovery` first refuses amounts and refund
heights of zero. Secrets are named by their hashes, and an address
by the hash and lock height it commits to. `ReadChains` is one action since none
of what it reads depends on another and nothing is written in between.

### LiquidWallet

A transaction is a record of inputs (coin and witness), lock time and outputs
(asset, sats, script), built by `FundingTx` and `SpendTx` as `make_funding` and
`make_spend` do, with change and fee outputs. It is named by session and kind, as
an outbox is written once. `Selectable` is what `select_utxo` may return: any
confirmed and unspent coin of the wallet that suffices. `Accepts` is the node:
unspent inputs, scripts, lock time, and amounts that balance by asset. `fate` is
what Lightning decided and `observed` whose run has seen the locked asset; both
stand for `SwapRunner`. All fees are equal, so nothing in the mempool is replaced.

### External code

External code is modelled from its use: LND pays a hash once and refuses a
second payment in flight (`Payable`), cancels a hold at its expiry, and a payer
succeeds only after a settlement. The Liquid node re-accepts a known transaction,
one block confirms the whole mempool, and there are no reorganisations (the
code targets regtest and asks for one confirmation). A claim remains possible
after the lock height until the refund spends the output.

## 3. Runs

Every property of a passing run has a mutant that breaks it.

| Run | Instance | Shows |
|---|---|---|
| `ledger` | 2 makers in one file (4 units of one asset or 2 of the other), 4 requests: two compete at one maker, the third has the first one's id, the fourth the second one's hash at the other maker; restarts with another inventory; 2 swaps, one local; 2 connections (symmetric) | `Backed`, `Solvent`, `AlwaysBookable`, `SingleOwner`, `Conserved`, `OwnedStaysLocked`, `OutcomesDisjoint` |
| `swap_race` | 2 concurrent runs, 2 funding transactions (both symmetric), refunder, releasing maker, 1 fault or torn file | `FundedOnce`, `WriteAhead`, `ClaimNeedsPayment`, `RefundNeedsFailure`, `BooksAgree`, `ImplementsAtomicSwap` |
| `swap_claim` | 1 run at a time, 2 faults, chain below the lock, whole files | `HoldIsKept`, `NoSecondPayment`, `RevealedIsClaimed`, `RevealedIsSettled` |
| `swap_refund` | 1 run at a time, chain reaches the lock, 1 fault | `HeldFailureIsRefunded` |
| `reverse` | 1 run at a time, 1 fault, refunder, blocks at the assumed pace up to and past the lock height and the HTLC's expiry | `HoldCoversFunding`, `SettleNeedsClaim`, `RefundNeedsDrop`, `HoldOutlivesLock`, `ClaimIsPaid`, `FundedIsDecided` |
| `market` | 2 makers, one with two offers, that start and stop; 1 session with any number of commands; 1 waiting connection; clock 0..1 with quotes good for 1 | `OwnedIsBound`, `OneRowPerSession`, `BookedInTime`, `StoreIsLedger`, `CommandsEnd` |
| `prepare` | 2 processes, 4 argument lists, 3 secrets, 2 keys, 1 block, 1 death or lost answer | `SecretIsDurable`, `ValidEndToEnd`, `PrepareCompletes` |
| `wallet` | 2 sessions, 2 coins of each asset, locks 5 and 6, 1 death | `PersistedIsValid`, `HtlcPaysOneSide`, `PaidIsClaimedUnlessRaced` |
| `swap_late_resume`, `swap_claim_window`, `prepare_stale_lock`, `wallet_shared_fee` | violations, see section 4 | |

`StoreIsLedger` is a refinement: whatever clients, faults and restarts do, a
maker's store only takes steps of `Ledger`, so what is proved of `Ledger` holds of
every maker of the market (`MakersSolvent` in `MarketProofs`).

`HoldIsKept` (held money goes back only at the end of its HTLC) and
`NoSecondPayment` are about one run at a time: with two of them, one can be
refused its outbox after the other has written it and then cancels the hold the
other is paid through, and one can pay on an invoice that it looked up earlier. The
swap stays atomic in both cases, which `swap_race` shows. `RevealedIsSettled`
names its exception, `Stranded`: the state that `swap_claim_window` reaches.

Bounds. Requests of 1, 2 and 3 units on 4 make every refusal of `reserve` happen and
let a release or consumption re-open the door; `MaxU64` equal to the inventory
brings the overflow checks to their boundary; two connections suffice for every
interleaving of the four statements with one competitor. In the swap, `Lock` 4
with `RequiredDelta` 2 lets the chain pass each of the three heights that the
code compares with (timing, headroom, refund); `HoldDelta` 2 and `MinHeadroom` 1
make a hold that is acceptable, one that is too late and one that expires;
`MaxFaults` bounds errors and deaths, resumes are unbounded. `MaxMined` and
`MaxHeight` bound the blocks found by others and by the adapter's own mining.
The liveness runs drop the second funding transaction and the maker's release.
`reverse` has `Lock` 8, `BlockRatio` 2, `HoldDelta` 4 and the smallest margin that
covers the headroom, 4, so that the timing check fails early and passes later;
an HTLC that arrives at tip 0 expires within `MaxTip` 4 and one that arrives at
tip 2 never comes near its expiry, which is what `FundedIsDecided` and
`ClaimIsPaid` need. `HoldCoversFunding` is, like `HoldIsKept`, about one run at a
time, and about a funding that was broadcast: an erring `write_outbox` can leave a
funding on record whose hold the run then cancels, and no resume gets as far as
the broadcast of it, as each of them needs an open or accepted invoice.

`ValidEndToEnd` says of an intent that a maker quotes it, that client and maker
verify the quote, and that `swap forward`, called with the chain fee of the
prepared record, accepts both, unless for one of two reasons that prepare lets
pass: the refund height is not that of the record (finding 3), or the fee is above
the intent's limit (section 4). The second argument list has such a fee.
In `market`, the maker with the lower fee wins, may stop between quote and
reservation and come back with the higher fee, so that a repeated `rfq` selects
the other one and leaves two reservations, of which one can be owned; its two
inventories are both enough for one quote, and `ensure_solver_ledger` must keep
the first. Validity 1 and a clock of two values make quotes that stand and
quotes that lapsed while they waited; one waiting connection is enough for a
request that outlives its client, as a session sends one at a time.
In `prepare`, three secrets suffice for two processes and a record on disk; the
deltas 7 and 6 lie on both sides of the margin, one block makes a
repeated command compute other deadlines, and the amount zero is refused.
In `wallet`, the liquidity is that of `prepare_explicit_liquidity`: two outputs
of each asset. One session uses its payment coin up, the other leaves change;
with two fee coins, four transactions have to wait for change or for each other.
`MaxHeight` 6 reaches both lock heights.
`CHECK_DEADLOCK FALSE` is set because the real system rests: a settled swap
with all bounds used up, or a ledger with every reservation decided.

Fairness (`SwapRunner!Fairness`): a started run takes its next step (a
sequential program); whoever runs the command uses `resume` again and again
(strong fairness: useless `forward` calls in between may not keep it out) - the
documentation's recovery procedure; the refund is called; a payer whose hold was
settled sees its success; Liquid blocks come, up to the bound. None is assumed of the payment
arriving. `RevealedIsClaimed` holds only below the lock height and without torn
files; the runs of the findings show what happens otherwise. In the reverse
direction, Lightning blocks come too, a hold that has expired is canceled, and a
payment whose hold is gone fails (`ReverseFairness`).

`Market`: a client's command goes on and its timeouts fire; nothing is assumed of
makers, which may never answer. `Prepare`: a started command goes on, and
somebody runs it again with the arguments it had (strong fairness, as other
commands in between may be running whenever it could start). `LiquidWallet`:
blocks come (the adapter mines them on regtest), and a resumed run observes,
signs the claim and broadcasts its outboxes again; none is assumed of funding,
paying or refunding.

## 4. Findings

Each is a run that TLC must find violated, with the document it contradicts:

1. `swap_claim_window`: a death between the claim outbox and CLAIM_PENDING
   makes every later run fail at SETTLED, as the replay skips that phase.
2. `swap_late_resume`: without a claim outbox, a resume one block below the lock
   height cannot get past the observation of its own funding.
3. `prepare_stale_lock`: a prepare that is repeated after a block, before there
   is an intent, takes the recovery record of the first with its lock height and
   writes an intent with the new one. The intent's refund height is then not the
   one that its address commits to, and `swap forward` refuses it.
4. `wallet_shared_fee`: a claim spends a second coin for its fee, which nothing
   reserves. Another session's funding may take that coin between the claim
   outbox and the broadcast; the outbox is never signed again, so the verified
   payment is never claimed. `PaidIsClaimedUnlessRaced` shows that nothing else
   the sessions do to each other has this effect.

Seen while modelling, without a run:

- Nothing ever writes OUTPUT_UNKNOWN, which `README.md:69` has an interrupted run
  persist; the row stays at OUTPUT_PENDING, and a resume handles it there.
- `record_swap_evidence` refuses evidence whose confirmation count has grown, so
  resuming a settled swap after another block is an error; `RecordEvidence`
  models it, and `README.md:294` says otherwise.
- `attach_reservation` can answer Ok for a reservation that was released between
  its statements; nothing under `src/src` releases one.
- An outbox file left empty by a death can be neither read nor replaced
  (`torn` in `SwapRunner`; `write_outbox`); a paid swap whose claim outbox is
  such a file is never claimed, at whatever height it is resumed.
- An error of `write_outbox` after the funding file is complete leads to the cancel
  with a funding on record (`FailWriting`). In the forward direction nothing is
  paid by then, the invoice is still open and stays so, and a resume goes on with
  the recorded funding. In the reverse direction the hold is accepted and is
  canceled: the swap is over, and nothing broadcasts the funding afterwards
  (`HoldCoversFunding`).
- `run_prepare` takes a chain fee above `--fee-limit-lbtc`, makes it durable and has an
  invoice issued; makers quote the intent, which has the limit but not the fee,
  and every `swap forward` refuses it (`swap_terms`). No document promises
  otherwise (`FeeWithinCap` in `ValidEndToEnd`).
- A payment that failed before its HTLC arrived can never be refunded through
  `refund_funded_swap`, which asks for an accepted amount
  (`HeldFailureIsRefunded` names the condition).
- A reverse replay refuses to settle a hold within the headroom of its expiry
  although its claim is confirmed (`ClaimIsPaid` names the condition), and a
  reverse run that died between claim outbox and broadcast can, once the hold has
  expired, neither be resumed nor refunded (`FundedIsDecided`).
- `run_prepare` takes `--lightning-max-cltv 0`: its comparison of the deadlines
  passes, and the intent is written with a Lightning expiry of that moment, which
  `validate_deadlines` refuses in every quote for it. The proof of `ValidEndToEnd`
  came upon it (`OneForOne` names the condition, section 5).
- An intent file, once there, makes every further prepare fail, as each intent
  has a fresh nonce; what the earlier one made durable is not touched.
- `RunRfq` can leave a second maker with a reservation that no session will ever
  own; nothing under `src/src` releases it.

## 5. Proofs

Every invariant, action property and refinement that a passing run checks is also
a theorem; only the liveness properties are not. In the order of the modules:

`LedgerProofs` proves, for every set of makers, requests, swaps and connections
and every bound, with the assumptions named in `Ledger` (requests have natural
amounts and known makers, inventories fit into `MaxU64`, `Sum` adds up amounts):
`TypeOK`, `Backed`, `Solvent`, `AlwaysBookable`, `SingleOwner` as invariants and
`Conserved`, `OutcomesDisjoint`, `OwnedStaysLocked` as action properties.

The inductive invariant is `IInv`: `TypeOK`, `Backed` and `Solvent` together
with `Unopened` (no rows or totals of a maker without a ledger row) and
`Capacity` (available plus consumed fits into u64). `Solvent` alone is not
inductive: that a release lowers `reserved` without underflow needs `Backed`,
and `AlwaysBookable` needs `Capacity` for the addition to `consumed`. The lemmas
about `Sum` (monotone, adding and removing one request) carry the arithmetic;
`SingleOwner` is inductive by itself, since `swap_id` is written only when it is
NULL. Assumption `SumAssumption` is what a sum over a finite set satisfies; TLC
evaluates it for the function of `MCLedger`.

`SwapRunnerProofs` proves, for any number of concurrent runs and any funding
transactions, heights, delays and fault bounds, with or without a releasing maker
and torn files: `TypeOK`, `FundedOnce`, `WriteAhead`, `ClaimNeedsPayment`,
`RefundNeedsFailure`, `BooksAgree` and `ImplementsAtomicSwap`; beyond the runs'
properties, that a row which says it was paid is right at both nodes
(`PaidRowAlways`) and that nothing which has happened is undone
(`NothingUndone`); and for one run at a time `HoldIsKept` and
`NoSecondPayment`. The only assumption on the constants is `BoundsAssumption`
(bounds are naturals, `NoTx` is no transaction).

The argument: `IInv` is `TypeOK`, what is true whatever the runs do (`Shared`:
`FundedOnce`, `Announced`, `Booked`, `Refunding`), and for every run what it may
rely on at its next step (`At(p)`: after the outbox it holds the recorded
transaction, past `track_success` the payment succeeded, before SETTLED the claim
is confirmed, and a replay has seen the claim confirmed). None of the five
properties is inductive: that a broadcast keeps `FundedOnce` needs what the run
holds in memory, and that a refund excludes a success needs that a success
implies a settled invoice. Runs do not disturb each other because what has
happened is never undone, `Grows`, which is proved of every step: `AtStays` turns
it into the stability of `At` for all the runs that did not move, so that each
action is examined only for the run that takes it. For the refinement, every step
is shown to be one of three kinds (`Seen`): a block, a move of the hold invoice,
or a move of the reservation; `Simulation` maps each to a step of `AtomicSwap`.

With one run at a time, `AloneInv` adds what a run knows when no other interferes
(`Undisturbed`): at the cancel nothing has been paid, as funding on record is
exposed from the first look at the outbox on and the payment comes behind it -
also for the run whose `write_outbox` erred, which had not got to the payment -,
and an invoice that it saw open is not settled before it has paid. `Dropped` then
goes through all steps that can cancel a hold. Both are
false with two runs, where `HoldIsKept` and `NoSecondPayment` fail too, so
`\A p, q \in Runners : p = q` is a hypothesis of these two theorems and of no
other in the module. `PaidRow` needs no such hypothesis: OUTPUT_SETTLED is
written after `track_success` and by nothing else.

`ReverseRunnerProofs` proves, for any number of runs and any heights, delays and
bounds, `ReverseTypeOK`, `SettleNeedsClaim`, `RefundNeedsDrop` and, beyond the
runs' properties, that nothing which has happened is undone
(`NothingUndoneInReverse`) and that only the transaction of the outbox is broadcast
(`FundedOnceInReverse`, the forward run's `FundedOnce`); for one run at a time
`HoldCoversFunding`; and `HoldOutlivesLock` under three assumptions:
blocks are `Paced`, the margin is at least `(MinHeadroom + 1) * BlockRatio`, and
the bound of the Liquid chain lies above the lock, so that the exemption of
`ReverseLightningBlock` at the end of the chain does not matter.

The argument: a step of a run is one of some twenty actions, and `RunMoves` says
once what all of them have in common (`Calls`, what it may do outside; `Locally`,
between which steps it may move and what it has seen then); `OthersMove` and
`RefundMoves` do so for the nodes and the refund. The invariants then follow from
these summaries. `RInv` is the inductive one: `Outcomes` (a refund in progress
has seen a dropped hold, a success implies a settled hold, a funding an accepted
HTLC, whose expiry thus stays) and, for every run, `RAt` (a replay past its claim
steps has seen the claim confirmed). `Funds` says for every step when a
funding may be sent and with which transaction, from which `FundedOnce` follows.
`Covered` adds that a run which may cancel has seen no funding, that one at the
cancel has sent none (`Unsent`, although its `write_outbox` may have left one on
record), and that whoever is on the way to the broadcast, or has done it, has the
hold; this is inductive only if no other run funds meanwhile.
`Pace` is the arithmetic of blocks: counted in Liquid blocks, the HTLC's
remaining time exceeds the lock's plus the margin (`Outlasts`), or did at the
last Lightning block, of which one may be used up since.

`PrepareProofs` proves, for any number of concurrent commands, argument lists,
keys, secrets, blocks and faults, `TypeOK` and `SecretIsDurable`, and under
`OneForOne` also `ValidEndToEnd`. The assumptions of `Prepare` are that arguments
and delays are naturals and that a missing or incomplete file differs from one
with content. `IInv` adds to the two invariants what a process may rely on
(`At`: it holds the key that is in the key file, deadlines that left the margin,
and from `load` on a record with its own terms that is the one on disk), that a
file being filled has one writer (`OneWriter`, the exclusive creation), that the
record on disk decrypts with the key on disk (`Decrypts`), and that the intent
names a hash that was drawn (`NamesHash`). As in `SwapRunner`, other processes do
not disturb `At`, since a complete file is never rewritten. `ValidEndToEnd` follows
at the step that writes the intent (`ValidWhenWritten`): the comparison of the
deadlines with margin and saturation implies each of those that maker and client
make (`DeadlinesLeaveMargin`), and its record is the one on disk with its own terms
and fee, so that `validate_recovery_binding` can only miss the refund height and
`swap_terms` only the limit. `OneForOne` says what the arguments must have for a
maker that quotes one for one to agree: equal amounts that fit into
millisatoshis, a Lightning expiry that lies ahead, and a node whose invoice text
says what it was asked for.

`LiquidWalletProofs` proves `PersistedIsValid` and `HtlcPaysOneSide` for any number
of sessions, coins, amounts, fees, lock heights and restarts; the assumption is
that the two assets differ and amounts, fees and lock heights are positive, which
the adapter checks. `IInv` says of what is durable that it was `Signed` (each
outbox is the transaction which `make_funding` or `make_spend` builds from two
different coins of the wallet), of what is sent that it was durable (`Sent`), and
of claim and refund what Lightning and the chain had `Decided` then. That a
transaction balances is arithmetic on the two or four outputs it can have
(`SatsOfTwo` .. `SatsOfFour`, `FundingOuts`, `SpendOuts`); that earlier coins keep
their outputs when an outbox is added is `Looked` and `LookedNext`.

`QuotesProofs` is about the two sides of a quote, which different files check.
`QuotedIsVerified`: whatever `MakerQuote` makes of a `Quotable` intent, `VerifyQuote`
accepts from a client that pinned the key, given only what the maker does not look
at (the intent's minimum output, fee limit and version, valid deadlines) and that
neither intent nor quote has expired. `DigestBinds`: the signature determines the
quote, although `quote_digest` leaves out the context's copies of three heights and
reads an absent payment request as an empty text; verifying makes up for the
first, and that no payment request is the empty text is a hypothesis. The model
prints no numbers, and of the other absent fields `IsEnabled` fixes the asset
hashes and a number never prints as an empty text.

`MarketProofs` proves `TypeOK`, `OwnedIsBound`, `OneRowPerSession`, `BookedInTime`
and `StoreIsLedger` for any makers, offers, peers, sessions, backlogs and clocks.
Its assumptions: fees, rates and inventories are u64 with a denominator above
zero, as `solver.rs` parses them; amounts and expiries of intents are u64; the
list of peers is not empty, which `run_rfq` checks; `Sum` as in `Ledger`; and
`None` is no quote. `IInv` is `Shapes` (every quote that travels is one that a
maker signed), `Awaited` (a client that waits has one request under way, and the
right one), `Progress`, `Rows` (rows exclude each other and take from their
maker's asset), `Promises` (what was bound was acceptable, and `check` looks at
what is selected) and `Ownership` (whoever owns a row, or is inside
`attach_reservation` for it, has bound the quote it was booked for). The last is
why `Promises` is needed: the row is compared with the selected quote, the
promise is about the bound one. A quote leads back to its maker through the
signature and the pinned key (`SignedQuotes`, `VerifiedTerms`).

`MoveIsStep` shows that what a step of the market does to the stores is one of the
actions of `Ledger` or nothing, which is the refinement. `StoreAssumptions` shows
that the requests of the market satisfy what `Ledger` assumes of its own, so the
results of `LedgerProofs` can be instantiated: `MakersSolvent` says that no maker
of the market ever promises more than its inventory, and that every row it holds
can be booked without an arithmetic error.

Only model-checked is liveness, which needs ENABLED and the fairness of actions,
neither of which the prover covers: `RevealedIsClaimed`, `RevealedIsSettled`,
`HeldFailureIsRefunded`, `ClaimIsPaid`, `FundedIsDecided`, `CommandsEnd`,
`PrepareCompletes` and `PaidIsClaimedUnlessRaced`. `Sum` is not proved to exist for
every set of requests, as that is an induction over data; it is an assumption
that TLC evaluates for the runs' instances.

## 6. Not modelled, and why

- Parsing, TLS, HTTP, encryption, key derivation, wording: I/O and
  cryptographic data. `Quotes`, `Prepare` and `LiquidWallet` keep what they commit to.
- Decimal amounts (`core/amount.rs`, `chain/observation.rs`, `swaps/liquid.rs`):
  text in, number out, without state; a model would spell the parsers out.
- `exit/*`: called by tests only. A parser of node answers, a predicate over
  them, and one request to close a channel; nothing runs beside it or resumes it.
- `chain/bitcoin.rs`: the HTLC transactions for Bitcoin, called by tests only.
- Overflow in `swaps/timing.rs`: heights near 2^64, and then a refusal to start.
- The journal and the `funding_outbox` table of the store: written but never read
  by the program.
- Reorganisations: the code does not handle them. Replacement in the mempool: the
  adapter's fees are one constant per command line.
- Partial payments and several HTLCs for one invoice: an HTLC of another amount is
  an error of `ObserveAccepted`, covered by `Fail`.
- Sessions that share makers: a maker's capacity under competition is `Ledger`'s
  (`ledger`), a session's commands are `Market`'s; two sessions in `Market` are
  out of TLC's reach in the time a run has.

## 7. Plan

Order of work, most important behaviour first.

1. `SwapStates`, `Ledger`, `LedgerProofs` - done.
2. `SwapRunner`, `AtomicSwap`, `SwapRunnerProofs` - done.
3. `ReverseRunner`, `ReverseRunnerProofs` - done.
4. `Quotes`, `Market` over `Ledger`, `QuotesProofs`, `MarketProofs` - done.
5. `Prepare`, `PrepareProofs` - done.
6. `LiquidWallet`, `LiquidWalletProofs` - done.
7. Safety of `AtomicSwap` itself, carried over to `SwapRunner` by the refinement,
   as `MakersSolvent` carries `Ledger`'s over to `Market`.
