-------------------------------- MODULE Market --------------------------------
(***************************************************************************)
(* The market between clients and makers: `xmm rfq` (cli/commands.rs),     *)
(* the makers' HTTP service (cli/solver.rs) over their stores (Ledger),    *)
(* and the acceptance of a selected quote by `xmm swap forward`            *)
(* (cli/live.rs), up to the point where SwapRunner begins.                 *)
(*                                                                         *)
(* A maker serves one connection at a time: what arrives meanwhile waits,  *)
(* also when the client that sent it gave up.  Answers may be lost.        *)
(*                                                                         *)
(* Every maker has a database of its own.  They are kept in one Ledger     *)
(* whose unique hash column carries the maker, so that nothing clashes     *)
(* across databases; identities of quotes name the maker already.          *)
(***************************************************************************)
EXTENDS Quotes, Sequences

CONSTANTS
    Makers,     \* makers, which are also their key identities
    Configs,    \* [maker -> set of the [fee, rate, asset, amount] it is started with]
    Peers,      \* the makers of the --peer list, in order
    Sessions,   \* prepared sessions; a session runs one command at a time
    Intent,     \* [session -> intent]
    AssetHash,  \* the fixture's TEST-DEPIX hash, which everybody is started with
    Validity,   \* seconds that a quote is good for
    MaxClock,   \* bound of the modelled clock
    MaxBacklog, \* the connections that the listener of a maker lets wait
    Sum,        \* as in Ledger
    NoAsset, NoSwap

VARIABLES
    config,     \* what a running maker was started with, None when it is down
    inbox,      \* connections that wait at a maker, [session, signed, live]
    command,    \* a session's running command: [at, reserve, quotes]
    selected,   \* selected.json: [maker, signed], or None when it cannot be read
    bound,      \* the quote in the client's swap row, None before it exists
    asset, available, reserved, consumed, row, attached, clock, pc, job, owners

clientVars == <<command, selected, bound>>
storeVars == <<asset, available, reserved, consumed, row, attached, pc, job, owners>>
vars == <<config, inbox, clientVars, storeVars, clock>>

Solver(m, c) == [id |-> m, key_id |-> m, rate |-> c.rate, fee |-> c.fee]

\* The reservation that a maker books for a quote of its own.
Reservation(m, quote, inventoryAsset) ==
    [id |-> quote.quote_id, quote |-> quote.quote_id,
     hash |-> <<m, quote.hash_commitment>>, solver |-> m, asset |-> inventoryAsset,
     amount |-> quote.amount_out, expires_at |-> quote.expires_at]

MakersOffers(m) ==
    {MakerQuote(Intent[s], Solver(m, c), Validity, t) :
        s \in Sessions, c \in Configs[m], t \in 0..MaxClock}

\* The offers that the rate does not overflow, and these as a maker signs them.
Offered(m) == {o \in MakersOffers(m) : o.amount_out # None}

Signed == UNION {{SignQuote(o, m) : o \in Offered(m)} : m \in Makers}

Requests ==
    UNION {{Reservation(m, q, c.asset) : q \in Offered(m), c \in Configs[m]} :
           m \in Makers}

Inventory(c) == [asset |-> c.asset, amount |-> c.amount]

\* The swap rows are in the clients' databases, which no maker can read.
Store == INSTANCE Ledger WITH
    Solvers <- Makers, Swaps <- Sessions, LocalSwaps <- {}, Clients <- Sessions,
    Inventories <- UNION {{Inventory(c) : c \in Configs[m]} : m \in Makers},
    swap <- [s \in Sessions |-> "ABSENT"]

\* A maker's inventory and rate as solver.rs parses them.
ASSUME ConfigsAssumption ==
    \A m \in Makers : \A c \in Configs[m] :
        /\ c # None
        /\ c.asset # NoAsset
        /\ {c.fee, c.amount, c.rate.numerator} \subseteq 0..MaxU64
        /\ c.rate.denominator \in Nat \ {0}

ASSUME IntentsAssumption ==
    \A s \in Sessions : {Intent[s].amount_in, Intent[s].expires_at} \subseteq 0..MaxU64

\* `xmm rfq` refuses an empty list of peers.
ASSUME PeersAssumption == Peers \in Seq(Makers) /\ Peers # <<>>

ASSUME NoneAssumption == None \notin Signed \cup Nat

ASSUME SumAssumption ==
    /\ Sum \in [SUBSET Requests -> Nat]
    /\ Sum[{}] = 0
    /\ \A S \in SUBSET Requests : \A r \in Requests \ S :
            Sum[S \cup {r}] = Sum[S] + r.amount

ASSUME BoundsAssumption ==
    /\ {MaxU64, MaxClock, MaxBacklog, Validity} \subseteq Nat
    /\ NoSwap \notin Sessions

PinnedKeys == [m \in Makers |-> m]

Verified(s, signed, now) ==
    VerifyQuote(Intent[s], signed, PinnedKeys, AssetHash, Intent[s].deadline_context, now)

\* `at` is the next step of the command; it keeps the quotes it got so far, in
\* the order of Peers.
At(s) == command[s].at
Got(s) == command[s].quotes
Command(step, reserve, quotes) == [at |-> step, reserve |-> reserve, quotes |-> quotes]
Idle == Command("idle", FALSE, <<>>)

TypeOK ==
    /\ Store!TypeOK
    /\ \A m \in Makers : /\ config[m] \in Configs[m] \cup {None}
                         /\ Len(inbox[m]) <= MaxBacklog
    /\ \A s \in Sessions :
        /\ At(s) \in {"idle", "ask", "quoting", "reserving", "write", "check", "attach"}
        /\ Len(Got(s)) <= Len(Peers)
        /\ At(s) = "quoting" => Len(Got(s)) < Len(Peers)
        /\ At(s) \in {"reserving", "write"} => Len(Got(s)) = Len(Peers)
        /\ At(s) = "attach" <=> pc[s] # "idle"

Init ==
    /\ Store!Init
    /\ config = [m \in Makers |-> None]
    /\ inbox = [m \in Makers |-> <<>>]
    /\ command = [s \in Sessions |-> Idle]
    /\ selected = [s \in Sessions |-> None]
    /\ bound = [s \in Sessions |-> None]

Tick == Store!Tick /\ UNCHANGED <<config, inbox, clientVars>>

-------------------------------------------------------------------------------
\* Mutant: a start with another inventory rewrites the ledger row.
MakerStartResets(m, c) ==
    /\ config[m] = None
    /\ config' = [config EXCEPT ![m] = c]
    /\ asset' = [asset EXCEPT ![m] = c.asset]
    /\ available' = [available EXCEPT ![m] = c.amount]
    /\ UNCHANGED <<reserved, consumed, row, attached, pc, job, owners, clock>>
    /\ UNCHANGED <<inbox, clientVars>>

MakerStart(m, c) ==
    /\ config[m] = None
    /\ config' = [config EXCEPT ![m] = c]
    /\ \/ Store!EnsureSolverLedger(m, Inventory(c))
       \/ /\ asset[m] # NoAsset
          /\ UNCHANGED <<storeVars, clock>>
    /\ UNCHANGED <<inbox, clientVars>>

\* The process ends; the connections that wait for it are lost.
MakerStop(m) ==
    /\ config[m] # None
    /\ config' = [config EXCEPT ![m] = None]
    /\ inbox' = [inbox EXCEPT ![m] = <<>>]
    /\ UNCHANGED <<clientVars, storeVars, clock>>

\* A command goes on; one that ends keeps nothing.
Goto(s, step) ==
    command' = [command EXCEPT ![s] = IF step = "idle" THEN Idle ELSE [@ EXCEPT !.at = step]]

\* The next connection of a maker, its request a reservation or not.
Serves(m, reservation) ==
    /\ config[m] # None
    /\ inbox[m] # <<>>
    /\ (Head(inbox[m]).signed # None) = reservation
    /\ inbox' = [inbox EXCEPT ![m] = Tail(@)]
    /\ UNCHANGED <<config, selected, bound>>

\* An answer reaches a client that still waits for it.  One that is lost, or
\* comes too late, is one to a client that has given up.
Answer(msg, result) ==
    command' = IF msg.live THEN [command EXCEPT ![msg.session] = result] ELSE command

ServeQuote(m) ==
    LET msg == Head(inbox[m])
        s == msg.session
        c == config[m]
        quote == MakerQuote(Intent[s], Solver(m, c), Validity, clock)
    IN  /\ Serves(m, FALSE)
        /\ Answer(msg,
                  IF Quotable(Intent[s], AssetHash, c.asset, c.rate)
                  THEN Command("ask", command[s].reserve, Append(Got(s), SignQuote(quote, m)))
                  ELSE Idle)
        /\ UNCHANGED <<storeVars, clock>>

\* The booking of a served request, and its answer.
Book(m, msg, verified) ==
    LET r == Reservation(m, msg.signed.quote, config[m].asset)
        written == [command[msg.session] EXCEPT !.at = "write"]
    IN  IF verified /\ Store!Reservable(r)
        THEN Store!Reserve(r) /\ Answer(msg, written)
        ELSE UNCHANGED <<storeVars, clock>> /\ Answer(msg, Idle)

\* Mutant: the maker trusts a quote that has its signature, however old.
ServeReserveAnytime(m) ==
    LET msg == Head(inbox[m])
    IN  /\ Serves(m, TRUE)
        /\ Book(m, msg, msg.signed.signature.key = m)

(* The maker verifies its own quote at the time it serves the request, with *)
(* its own key only, and books it in one transaction of its store.          *)
ServeReserve(m) ==
    LET msg == Head(inbox[m])
        intent == Intent[msg.session]
    IN  /\ Serves(m, TRUE)
        /\ Book(m, msg,
                VerifyQuote(intent, msg.signed, [k \in {m} |-> m], AssetHash,
                            intent.deadline_context, clock))

-------------------------------------------------------------------------------
\* `xmm rfq`, with or without --reserve, in a session that runs no command.
RunRfq(s, reserve) ==
    /\ At(s) = "idle"
    /\ command' = [command EXCEPT ![s] = Command("ask", reserve, <<>>)]
    /\ UNCHANGED <<selected, bound, config, inbox, storeVars, clock>>

\* A connection to a maker waits there; one that is down or full lets none in.
Send(s, m, signed, waiting) ==
    IF config[m] = None \/ Len(inbox[m]) = MaxBacklog
    THEN Goto(s, "idle") /\ UNCHANGED inbox
    ELSE /\ inbox' = [inbox EXCEPT ![m] =
                        Append(@, [session |-> s, signed |-> signed, live |-> TRUE])]
         /\ Goto(s, waiting)

\* The peers are asked one after the other; one that fails ends the command.
Ask(s) ==
    /\ At(s) = "ask"
    /\ Len(Got(s)) < Len(Peers)
    /\ Send(s, Peers[Len(Got(s)) + 1], None, "quoting")
    /\ UNCHANGED <<selected, bound, config, storeVars, clock>>

\* Mutant: the client waits for an answer however long it takes.
GiveUpNever(s) ==
    /\ At(s) \in {"ask", "write"}
    /\ Goto(s, "idle")
    /\ UNCHANGED <<selected, bound, config, inbox, storeVars, clock>>

\* Mutant: a late answer is taken for the answer to whatever is asked by then.
GiveUpListening(s) ==
    /\ At(s) \in {"ask", "quoting", "reserving", "write"}
    /\ Goto(s, "idle")
    /\ UNCHANGED <<selected, bound, config, inbox, storeVars, clock>>

(* Ten seconds without an answer, or the connection or the client's process *)
(* breaks: the command is over.  What it sent still waits at the maker, and *)
(* what was booked stays booked.                                            *)
GiveUp(s) ==
    /\ At(s) \in {"ask", "quoting", "reserving", "write"}
    /\ Goto(s, "idle")
    /\ inbox' = [m \in Makers |->
                    [i \in DOMAIN inbox[m] |->
                        [inbox[m][i] EXCEPT !.live = @ /\ inbox[m][i].session # s]]]
    /\ UNCHANGED <<selected, bound, config, storeVars, clock>>

\* Lower fee first, then higher amount, then the order of the peers.
Precedes(quotes, i, j) ==
    LET a == quotes[i].quote
        b == quotes[j].quote
    IN  \/ a.fee_lbtc < b.fee_lbtc
        \/ /\ a.fee_lbtc = b.fee_lbtc
           /\ \/ a.amount_out > b.amount_out
              \/ a.amount_out = b.amount_out /\ i <= j

Chosen(s) ==
    LET i == CHOOSE k \in DOMAIN Got(s) : \A j \in DOMAIN Got(s) : Precedes(Got(s), k, j)
    IN  [maker |-> Peers[i], signed |-> Got(s)[i]]

\* One quote that does not verify ends the command for all of them.
Select(s) ==
    LET valid == \A i \in DOMAIN Got(s) : /\ Verified(s, Got(s)[i], clock)
                                          /\ ValidPaymentRequest(Intent[s], Got(s)[i].quote)
    IN  /\ At(s) = "ask"
        /\ Len(Got(s)) = Len(Peers)
        /\ IF valid /\ command[s].reserve
           THEN Send(s, Chosen(s).maker, Chosen(s).signed, "reserving")
           ELSE Goto(s, IF valid THEN "write" ELSE "idle") /\ UNCHANGED inbox
        /\ UNCHANGED <<selected, bound, config, storeVars, clock>>

\* The file is rewritten in place: a death inside leaves one that no
\* command can read.
WriteSelected(s) ==
    /\ At(s) = "write"
    /\ selected' \in {[selected EXCEPT ![s] = Chosen(s)], [selected EXCEPT ![s] = None]}
    /\ Goto(s, "idle")
    /\ UNCHANGED <<bound, config, inbox, storeVars, clock>>

-------------------------------------------------------------------------------
\* The checks of a selected quote before anything else, at the present time.
Acceptable(s) ==
    /\ selected[s] # None
    /\ Verified(s, selected[s].signed, clock)
    /\ ValidPaymentRequest(Intent[s], selected[s].signed.quote)

\* Mutant: the quote in the swap row is not compared with the selected one.
AcceptRebinds(s) ==
    /\ At(s) = "idle"
    /\ Acceptable(s)
    /\ bound' = [bound EXCEPT ![s] = selected[s].signed]
    /\ Goto(s, "check")
    /\ UNCHANGED <<selected, config, inbox, storeVars, clock>>

(* `swap forward`, or `swap resume` of a session still without payment: the *)
(* quote is verified again and written to the swap row, or must be the one  *)
(* written there before.  A refusal changes nothing.                        *)
Accept(s) ==
    /\ At(s) = "idle"
    /\ Acceptable(s)
    /\ bound[s] \in {None, selected[s].signed}
    /\ bound' = [bound EXCEPT ![s] = selected[s].signed]
    /\ Goto(s, "check")
    /\ UNCHANGED <<selected, config, inbox, storeVars, clock>>

\* The row that the selected file names, as the forward command compares it.
Matches(s, r) ==
    LET quote == selected[s].signed.quote
        m == selected[s].maker
    IN  /\ row[r] = "HELD"
        /\ r.id = quote.quote_id
        /\ r.solver = m
        /\ asset[m] = quote.destination.asset_id
        /\ r.quote = quote.quote_id
        /\ r.amount = quote.amount_out
        /\ r.hash = <<m, Intent[s].hash_commitment>>
        /\ attached[r] \in {NoSwap, s}

CheckReservation(s) ==
    /\ At(s) = "check"
    /\ \/ \E r \in Requests : /\ Matches(s, r)
                              /\ Store!AttachRead(s, r, s)
                              /\ Goto(s, "attach")
       \/ /\ \A r \in Requests : ~Matches(s, r)
          /\ Goto(s, "idle")
          /\ UNCHANGED <<storeVars, clock>>
    /\ UNCHANGED <<selected, bound, config, inbox>>

\* The statements of attach_reservation, and the swap that starts after them.
Attach(s) ==
    /\ At(s) = "attach"
    /\ Store!AttachReadSwap(s) \/ Store!AttachUpdate(s)
    /\ Goto(s, IF pc'[s] = "idle" THEN "idle" ELSE "attach")
    /\ UNCHANGED <<selected, bound, config, inbox>>

\* The client's process dies inside `swap forward`.
Die(s) ==
    /\ \/ At(s) = "check" /\ UNCHANGED <<storeVars, clock>>
       \/ At(s) = "attach" /\ Store!AttachCrash(s)
    /\ Goto(s, "idle")
    /\ UNCHANGED <<selected, bound, config, inbox>>

\* SwapRunner's OUTPUT_SETTLED: the paid swap consumes its reservation.
Settle(s, r) ==
    /\ s \in owners[r]
    /\ Store!ConsumeReservation(r)
    /\ UNCHANGED <<config, inbox, clientVars>>

-------------------------------------------------------------------------------
ClientStep(s) ==
    Ask(s) \/ GiveUp(s) \/ Select(s) \/ WriteSelected(s) \/ CheckReservation(s) \/ Attach(s)

Next ==
    \/ Tick
    \/ \E m \in Makers : \/ \E c \in Configs[m] : MakerStart(m, c)
                         \/ MakerStop(m)
                         \/ ServeQuote(m)
                         \/ ServeReserve(m)
    \/ \E s \in Sessions : \/ \E reserve \in BOOLEAN : RunRfq(s, reserve)
                           \/ ClientStep(s)
                           \/ Accept(s)
                           \/ Die(s)
                           \/ \E r \in Requests : Settle(s, r)

\* A client's command goes on by itself and its timeouts fire.
Fairness == \A s \in Sessions : WF_vars(ClientStep(s))

Spec == Init /\ [][Next]_vars /\ Fairness
-------------------------------------------------------------------------------
(* However many makers, restarts with another offer, commands and lost      *)
(* answers: a session that was told it owns a reservation has bound a quote *)
(* of the very maker that holds it, for exactly the reserved amount and     *)
(* hash, within the limits of its own intent (live.rs validate_forward_     *)
(* inputs and prepare_solver_reservation against solver.rs reserve).  As    *)
(* bound has one value, it never owns the inventory of two makers, although *)
(* a repeated `rfq` may leave another maker holding a reservation as well.  *)
OwnedIsBound ==
    \A r \in Requests : \A s \in owners[r] :
        /\ row[r] \in {"HELD", "CONSUMED"}
        /\ bound[s] # None
        /\ LET quote == bound[s].quote
           IN  /\ bound[s].signature.key = r.solver
               /\ <<r.amount, r.quote>> = <<quote.amount_out, quote.quote_id>>
               /\ r.hash = <<r.solver, Intent[s].hash_commitment>>
               /\ asset[r.solver] = Intent[s].destination.asset_id
               /\ quote.amount_out >= Intent[s].min_amount_out
               /\ quote.fee_lbtc <= Intent[s].fee_limit_lbtc

(* At one maker a session takes capacity once, whatever was sent twice,     *)
(* served after the client gave up, or quoted anew with another expiry or   *)
(* fee (api-contract.md:46).                                                *)
OneRowPerSession ==
    \A r, other \in Requests :
        /\ row[r] # "ABSENT" /\ row[other] # "ABSENT"
        /\ r.hash = other.hash
        => r = other

(* A reservation that waited at the maker, or was sent with a quote of      *)
(* before a restart, is booked only while its quote still stands and while  *)
(* the session's refunds have not come due (solver.rs reserve).             *)
BookedInTime ==
    [][\A r \in Requests : row[r] = "ABSENT" /\ row'[r] = "HELD" =>
            /\ r.expires_at > clock
            /\ \E s \in Sessions : /\ r.hash = <<r.solver, Intent[s].hash_commitment>>
                                   /\ r.expires_at <= Intent[s].expires_at
                                   /\ Intent[s].deadline_context.source_refund_at > clock]_vars

(* What clients, restarts and faults do to a maker's store is what Ledger   *)
(* allows, so that what is proved of Ledger holds of every maker.           *)
StoreIsLedger == Store!Spec

(* A command ends, also with a maker that is up and never answers, and with *)
(* one whose answers are lost (commands.rs run_rfq, solver.rs post_json).   *)
CommandsEnd == \A s \in Sessions : At(s) # "idle" ~> At(s) = "idle"
===============================================================================
