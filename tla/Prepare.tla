-------------------------------- MODULE Prepare --------------------------------
(***************************************************************************)
(* `xmm swap prepare` of one session (cli/live.rs run_prepare,             *)
(* swaps/recovery.rs): the recovery key, the encrypted recovery file with  *)
(* the session's secrets, the hold invoice for their hash and the public   *)
(* intent, in this order.  The command can die or fail anywhere and be     *)
(* run again, also twice at the same time.                                 *)
(*                                                                         *)
(* The intent is one of Quotes, so that what is prepared can be compared   *)
(* with what makers quote and `swap forward` accepts.  Secrets are named   *)
(* by their hash; keys, addresses and invoices by what they commit to.     *)
(***************************************************************************)
EXTENDS Quotes

CONSTANTS
    Procs,          \* processes that may run the command at a time
    Arguments,      \* argument lists, see ArgumentFields
    Keys,           \* recovery keys that may be drawn
    Hashes,         \* hashes of the secrets that may be drawn
    Partial,        \* a file that was created or truncated, without complete content
    Session, AssetHash,
    Tip,            \* block height of the receiver's node
    LiquidSeconds,  \* REGTEST_LIQUID_BLOCK_SECONDS
    BitcoinSeconds, \* REGTEST_BITCOIN_BLOCK_SECONDS
    Lifetime,       \* seconds that an intent is good for
    Maker, Validity,        \* a maker that quotes one for one, for ValidEndToEnd
    MaxHeight, MaxFaults    \* bounds

ArgumentFields ==
    {"amount_in", "amount_out", "fee_sats", "fee_limit_lbtc", "source_refund_delta",
     "lightning_max_cltv", "margin_seconds"}

\* What a recovery record repeats of the arguments.
Terms(args) == <<args.amount_out, args.amount_in, args.fee_sats>>

Records ==
    [key : Keys, hash : Hashes, terms : {Terms(args) : args \in Arguments}, lock : Nat]

Invoices == [amount_sats : Nat, state : {"OPEN", "CANCELED"}]

Locals ==
    [args : Arguments, key : Keys \cup {None}, context : [ContextFields -> Nat] \cup {None},
     record : Records \cup {None}, now : Nat \cup {None}]

ASSUME NumbersAssumption ==
    /\ {Tip, LiquidSeconds, BitcoinSeconds, Lifetime, Validity} \subseteq Nat
    /\ {MaxHeight, MaxFaults, MaxU64} \subseteq Nat
    /\ \A args \in Arguments : \A f \in ArgumentFields : args[f] \in Nat

\* A file that is missing or incomplete is not mistaken for one with content.
ASSUME FilesAssumption ==
    /\ None # Partial /\ None \notin Nat
    /\ \A incomplete \in {None, Partial} : incomplete \notin Keys /\ incomplete \notin Records
    /\ None \notin Invoices /\ None \notin Locals

VARIABLES
    keyFile,        \* recovery key: None, Partial or a key
    recovery,       \* recovery file: None, Partial or a record
    invoice,        \* [hash -> None or [amount_sats, state]], the receiver's node
    intentFile,     \* intent: None, Partial or an intent
    height, now,    \* Liquid blocks, seconds
    pc, loc,        \* next call of a process, and its [args, key, context, record, now]
    faults

fileVars == <<keyFile, recovery, intentFile>>
worldVars == <<height, now, faults>>
vars == <<fileVars, invoice, worldVars, pc, loc>>

Whole(file) == file \notin {None, Partial}

Steps == {"idle", "key", "readKey", "createKey", "fillKey", "chains", "load",
          "create", "fill", "lookup", "invoice", "exists", "write", "fillIntent"}

TypeOK ==
    /\ keyFile \in Keys \cup {None, Partial}
    /\ recovery \in Records \cup {None, Partial}
    /\ invoice \in [Hashes -> Invoices \cup {None}]
    /\ height \in 0..MaxHeight /\ now \in Nat /\ faults \in 0..MaxFaults
    /\ pc \in [Procs -> Steps]
    /\ loc \in [Procs -> Locals \cup {None}]
    /\ \A p \in Procs : pc[p] = "idle" <=> loc[p] = None

Init ==
    /\ keyFile = None /\ recovery = None /\ intentFile = None
    /\ invoice = [h \in Hashes |-> None]
    /\ height = 0 /\ now = 0 /\ faults = 0
    /\ pc = [p \in Procs |-> "idle"]
    /\ loc = [p \in Procs |-> None]

-------------------------------------------------------------------------------
\* Mutant: what an earlier command held is still there for the next.
GotoKeeping(p, step, locals) ==
    /\ pc' = [pc EXCEPT ![p] = step]
    /\ loc' = [loc EXCEPT ![p] = locals]
    /\ UNCHANGED worldVars

\* The process goes on with these locals, or ends and forgets them.
Goto(p, step, locals) ==
    /\ pc' = [pc EXCEPT ![p] = step]
    /\ loc' = [loc EXCEPT ![p] = IF step = "idle" THEN None ELSE locals]
    /\ UNCHANGED worldVars

Advance(p, from, step) == pc[p] = from /\ Goto(p, step, loc[p])

Start(p, args) ==
    /\ pc[p] = "idle"
    /\ Goto(p, "key", [args |-> args, key |-> None, context |-> None,
                       record |-> None, now |-> None])
    /\ UNCHANGED <<fileVars, invoice>>

\* load_or_create_key looks, and then reads or creates.
KeyExists(p) ==
    /\ Advance(p, "key", IF keyFile = None THEN "createKey" ELSE "readKey")
    /\ UNCHANGED <<fileVars, invoice>>

ReadKey(p) ==
    /\ pc[p] = "readKey"
    /\ Goto(p, IF Whole(keyFile) THEN "chains" ELSE "idle", [loc[p] EXCEPT !.key = keyFile])
    /\ UNCHANGED <<fileVars, invoice>>

CreateKey(p) ==
    /\ pc[p] = "createKey"
    /\ IF keyFile # None
       THEN Goto(p, "idle", loc[p]) /\ UNCHANGED keyFile
       ELSE /\ keyFile' = Partial
            /\ \E k \in Keys : Goto(p, "fillKey", [loc[p] EXCEPT !.key = k])
    /\ UNCHANGED <<recovery, intentFile, invoice>>

FillKey(p) ==
    /\ Advance(p, "fillKey", "chains")
    /\ keyFile' = loc[p].key
    /\ UNCHANGED <<recovery, intentFile, invoice>>

\* Deadlines at these heights and time; additions are checked, products saturate.
Blocks(n, seconds) == IF n * seconds > MaxU64 THEN MaxU64 ELSE n * seconds

Context(args, source, destination, time) ==
    LET lock == source + args.source_refund_delta
        expiry == destination + args.lightning_max_cltv
        lockAt == time + Blocks(args.source_refund_delta, LiquidSeconds)
        expiryAt == time + Blocks(args.lightning_max_cltv, BitcoinSeconds)
    IN  [source_height |-> source, destination_height |-> destination,
         source_refund_height |-> lock, destination_refund_height |-> expiry,
         lightning_expiry_height |-> expiry, source_refund_at |-> lockAt,
         destination_refund_at |-> expiryAt, lightning_expiry_at |-> expiryAt,
         margin_seconds |-> args.margin_seconds]

\* Mutant: the deadlines may meet.
LeavesMarginNone(context) ==
    \A f \in QuotedHeights \cup {"source_refund_at", "lightning_expiry_at"} :
        context[f] <= MaxU64

LeavesMargin(context) ==
    /\ \A f \in QuotedHeights \cup {"source_refund_at", "lightning_expiry_at"} :
            context[f] <= MaxU64
    /\ context.source_refund_at > Later(context.lightning_expiry_at, context.margin_seconds)

\* Both heights and the time; each is read once and none depends on another.
ReadChains(p) ==
    LET context == Context(loc[p].args, height, Tip, now)
    IN  /\ pc[p] = "chains"
        /\ Goto(p, IF LeavesMargin(context) THEN "load" ELSE "idle",
                [loc[p] EXCEPT !.context = context, !.now = now])
        /\ UNCHANGED <<fileVars, invoice>>

\* The contract, and with it the record, commits to hash and lock height.
Record(p, hash) ==
    [key |-> loc[p].key, hash |-> hash, terms |-> Terms(loc[p].args),
     lock |-> loc[p].context.source_refund_height]

\* Secrets that nobody has seen yet; which of them is drawn makes no difference.
Unseen ==
    {h \in Hashes : /\ invoice[h] = None
                    /\ Whole(recovery) => recovery.hash # h
                    /\ \A p \in Procs : (loc[p] # None /\ loc[p].record # None)
                                            => loc[p].record.hash # h}

\* Mutant: a record of other terms is taken.
ValidateNothing(p) == recovery.key = loc[p].key

\* It decrypts and has these terms; the lock height is the record's own.
ValidateRecovery(p) ==
    /\ recovery.key = loc[p].key
    /\ recovery.terms = Terms(loc[p].args)

\* What the recovery record is asked for with.
Positive(p) ==
    /\ loc[p].args.amount_out > 0 /\ loc[p].args.amount_in > 0
    /\ loc[p].context.source_refund_height > 0

LoadRecovery(p) ==
    /\ pc[p] = "load"
    /\ \/ ~Positive(p) /\ Goto(p, "idle", loc[p])
       \/ /\ Positive(p) /\ recovery = None /\ Unseen # {}
          /\ Goto(p, "create", [loc[p] EXCEPT !.record = Record(p, CHOOSE h \in Unseen : TRUE)])
       \/ /\ Positive(p) /\ recovery # None
          /\ Goto(p, IF Whole(recovery) /\ ValidateRecovery(p) THEN "lookup" ELSE "idle",
                  [loc[p] EXCEPT !.record = recovery])
    /\ UNCHANGED <<fileVars, invoice>>

\* Mutant: the file is opened for writing whether it exists or not.
CreateRecoveryAgain(p) ==
    /\ Advance(p, "create", "fill")
    /\ recovery' = Partial
    /\ UNCHANGED <<keyFile, intentFile, invoice>>

(* Exclusive creation.  A file that appeared meanwhile must hold the very   *)
(* record, which one with other secrets never does.                         *)
CreateRecovery(p) ==
    /\ IF recovery = None
       THEN recovery' = Partial /\ Advance(p, "create", "fill")
       ELSE /\ Advance(p, "create", IF recovery = loc[p].record THEN "lookup" ELSE "idle")
            /\ UNCHANGED recovery
    /\ UNCHANGED <<keyFile, intentFile, invoice>>

FillRecovery(p) ==
    /\ Advance(p, "fill", "lookup")
    /\ recovery' = loc[p].record
    /\ UNCHANGED <<keyFile, intentFile, invoice>>

-------------------------------------------------------------------------------
Matches(p, found) ==
    found.amount_sats = loc[p].args.amount_out /\ found.state # "CANCELED"

\* Mutant: the invoice is created without a look.
LookupNever(p) ==
    /\ Advance(p, "lookup", "invoice")
    /\ UNCHANGED <<fileVars, invoice>>

LookupInvoice(p) ==
    LET found == invoice[loc[p].record.hash]
    IN  /\ Advance(p, "lookup", IF found = None THEN "invoice"
                                ELSE IF Matches(p, found) THEN "exists" ELSE "idle")
        /\ UNCHANGED <<fileVars, invoice>>

\* The node refuses a second invoice for a hash.
CreateInvoice(p) ==
    LET hash == loc[p].record.hash
    IN  /\ pc[p] = "invoice"
        /\ IF invoice[hash] = None
           THEN /\ Goto(p, "exists", loc[p])
                /\ invoice' = [invoice EXCEPT ![hash] =
                                [amount_sats |-> loc[p].args.amount_out, state |-> "OPEN"]]
           ELSE Goto(p, "idle", loc[p]) /\ UNCHANGED invoice
        /\ UNCHANGED fileVars

\* The text of the invoice for a hash, which Bolt11 parses.
PaymentRequest(hash, sats) == <<"invoice", hash, sats>>
Address(record) == <<"htlc", record.hash, record.lock>>

BuildIntent(p) ==
    LET args == loc[p].args
        hash == loc[p].record.hash
    IN  [version |-> 1, intent_id |-> Session,
         source |-> Endpoint("TEST-DEPIX", "LiquidRegtest", AssetHash),
         destination |-> Endpoint("BTC", "LightningRegtest", None),
         amount_in |-> args.amount_in, min_amount_out |-> args.amount_out,
         fee_limit_lbtc |-> args.fee_limit_lbtc, hash_commitment |-> hash,
         client_claim_pubkey |-> <<"claim", hash>>,
         client_refund_pubkey |-> <<"refund", hash>>,
         source_destination |-> Address(loc[p].record),
         destination_destination |-> PaymentRequest(hash, args.amount_out),
         refund_destination |-> <<"destination", hash>>,
         deadline_context |-> loc[p].context,
         created_at |-> loc[p].now, expires_at |-> Later(loc[p].now, Lifetime),
         nonce |-> p]

\* The new intent has a nonce of its own and is never equal to one in the file.
IntentExists(p) ==
    /\ Advance(p, "exists", IF intentFile = None THEN "write" ELSE "idle")
    /\ UNCHANGED <<fileVars, invoice>>

\* fs::write truncates and then writes.
TruncateIntent(p) ==
    /\ Advance(p, "write", "fillIntent")
    /\ intentFile' = Partial
    /\ UNCHANGED <<keyFile, recovery, invoice>>

\* Over what another process wrote meanwhile, the tail of a longer text remains.
FillIntent(p) ==
    /\ Advance(p, "fillIntent", "idle")
    /\ \/ intentFile' = BuildIntent(p)
       \/ Whole(intentFile) /\ intentFile' = Partial
    /\ UNCHANGED <<keyFile, recovery, invoice>>

-------------------------------------------------------------------------------
\* A call fails, its answer is lost, or the process dies.
Stop(p) ==
    /\ pc[p] # "idle"
    /\ faults < MaxFaults
    /\ faults' = faults + 1
    /\ pc' = [pc EXCEPT ![p] = "idle"]
    /\ loc' = [loc EXCEPT ![p] = None]
    /\ UNCHANGED <<fileVars, invoice, height, now>>

\* Time passes with the blocks: prepare only adds to the time it reads.
LiquidBlock ==
    /\ height < MaxHeight
    /\ height' = height + 1
    /\ now' = now + LiquidSeconds
    /\ UNCHANGED <<fileVars, invoice, faults, pc, loc>>

\* The node cancels an invoice that has expired.
InvoiceExpires(h) ==
    /\ invoice[h] # None
    /\ invoice' = [invoice EXCEPT ![h].state = "CANCELED"]
    /\ UNCHANGED <<fileVars, worldVars, pc, loc>>

Step(p) ==
    \/ KeyExists(p) \/ ReadKey(p) \/ CreateKey(p) \/ FillKey(p)
    \/ ReadChains(p)
    \/ LoadRecovery(p) \/ CreateRecovery(p) \/ FillRecovery(p)
    \/ LookupInvoice(p) \/ CreateInvoice(p)
    \/ IntentExists(p) \/ TruncateIntent(p) \/ FillIntent(p)

Next ==
    \/ \E p \in Procs : Step(p) \/ Stop(p) \/ \E args \in Arguments : Start(p, args)
    \/ LiquidBlock
    \/ \E h \in Hashes : InvoiceExpires(h)

\* A started command goes on, and it is run again with the arguments it had.
Fairness ==
    /\ \A p \in Procs : WF_vars(Step(p))
    /\ \A args \in Arguments : SF_vars(\E p \in Procs : Start(p, args))

Spec == Init /\ [][Next]_vars /\ Fairness
-------------------------------------------------------------------------------
(* No invoice can be paid whose preimage is not on disk: the hash of every  *)
(* invoice is that of the one complete recovery record, which the key in    *)
(* the key file decrypts, and an intent names that very invoice - through   *)
(* deaths inside every write and two commands at a time (recovery.rs        *)
(* write_recovery before live.rs create_hold_invoice).                      *)
SecretIsDurable ==
    /\ \A h \in Hashes : invoice[h] # None =>
            /\ Whole(recovery) /\ recovery.hash = h
            /\ recovery.key = keyFile
    /\ Whole(intentFile) => invoice[intentFile.hash_commitment] # None

\* live.rs validate_recovery_binding: `swap forward` with this chain fee.
RecoveryBinds(intent, quote, fee) ==
    LET hash == recovery.hash
    IN  /\ hash = intent.hash_commitment
        /\ recovery.terms = <<quote.amount_out, quote.amount_in, fee>>
        /\ recovery.lock = intent.deadline_context.source_refund_height
        /\ intent.client_claim_pubkey = <<"claim", hash>>
        /\ intent.client_refund_pubkey = <<"refund", hash>>
        /\ intent.source_destination = Address(recovery)
        /\ intent.refund_destination = <<"destination", hash>>

\* live.rs swap_terms; prepare compares the two nowhere.
FeeWithinCap(intent, fee) == fee <= intent.fee_limit_lbtc

(* What prepare writes is quoted by a maker, verified by client and maker   *)
(* with its quote, and then accepted by `swap forward` with the chain fee   *)
(* it was prepared with, unless for one of two reasons that prepare lets    *)
(* pass: its refund height is not that of the record, which an earlier      *)
(* prepare wrote, or that fee is above the limit of the intent.  Otherwise  *)
(* prepare's checks of deadlines, terms and record are as strict as those   *)
(* of rfq.rs, solver.rs and live.rs validate_recovery_binding, swap_terms.  *)
ValidEndToEnd ==
    Whole(intentFile) =>
        LET intent == intentFile
            rate == [numerator |-> 1, denominator |-> 1]
            solver == [id |-> Maker, key_id |-> Maker, rate |-> rate, fee |-> 0]
            quote == MakerQuote(intent, solver, Validity, intent.created_at)
            fee == recovery.terms[3]
        IN  /\ Quotable(intent, AssetHash, "BTC", rate)
            /\ VerifyQuote(intent, SignQuote(quote, Maker), [m \in {Maker} |-> m],
                           AssetHash, intent.deadline_context, intent.created_at)
            /\ ValidPaymentRequest(intent, quote)
            /\ \/ RecoveryBinds(intent, quote, fee) /\ FeeWithinCap(intent, fee)
               \/ recovery.lock # intent.deadline_context.source_refund_height
               \/ fee > intent.fee_limit_lbtc

(* Once the secrets are on disk, a repeated prepare gets as far as the      *)
(* intent file, wherever the earlier ones died or lost an answer, unless    *)
(* the invoice expires first (live.rs looks the invoice up before it        *)
(* creates one).                                                            *)
PrepareCompletes ==
    Whole(recovery) ~> \/ intentFile # None
                       \/ \E h \in Hashes : /\ invoice[h] # None
                                            /\ invoice[h].state = "CANCELED"

(* The intent's refund height is the one its HTLC address commits to        *)
(* (src/docs/marketMakerTutorial.md:141).                                   *)
IntentMatchesLock ==
    Whole(intentFile) =>
        intentFile.deadline_context.source_refund_height = recovery.lock
===============================================================================
