-------------------------------- MODULE Ledger --------------------------------
(***************************************************************************)
(* A maker's SQLite store (core/storage.rs): one inventory ledger per      *)
(* solver, the reservations booked against it, and the swap rows that the  *)
(* same file may hold.  Every transaction of the store is one action.      *)
(* `attach_reservation` is not a transaction: its statements are separate  *)
(* actions, so that the transactions of other connections come between.    *)
(*                                                                         *)
(* A reservation row is named by the request that inserted it.             *)
(***************************************************************************)
EXTENDS Naturals, SwapStates

CONSTANTS
    Solvers,      \* maker identities with a ledger row
    Inventories,  \* [asset, amount] records a maker may be started with
    Requests,     \* [id, quote, hash, solver, asset, amount, expires_at] records
    Swaps,        \* swap identities a reservation can be attached to
    LocalSwaps,   \* the swaps whose row is in this same database
    Clients,      \* connections that run attach_reservation
    Sum,          \* Sum[S] is the total amount of a set S of requests
    MaxU64,       \* largest value of the u64 amounts
    MaxClock,     \* bound of the modelled clock
    NoAsset, NoSwap

ASSUME RequestsAssumption ==
    \A r \in Requests : /\ r.solver \in Solvers
                        /\ r.asset # NoAsset
                        /\ r.amount \in Nat
                        /\ r.expires_at \in Nat

ASSUME InventoriesAssumption ==
    \A i \in Inventories : i.amount \in 0..MaxU64 /\ i.asset # NoAsset

ASSUME SumAssumption ==
    /\ Sum \in [SUBSET Requests -> Nat]
    /\ Sum[{}] = 0
    /\ \A S \in SUBSET Requests : \A r \in Requests \ S :
            Sum[S \cup {r}] = Sum[S] + r.amount

ASSUME BoundsAssumption ==
    /\ MaxU64 \in Nat
    /\ MaxClock \in Nat
    /\ LocalSwaps \subseteq Swaps
    /\ NoSwap \notin Swaps

VARIABLES
    asset,      \* asset of a solver's ledger row, NoAsset before it exists
    available,  \* available_amount of the ledger row
    reserved,   \* reserved_amount
    consumed,   \* consumed_amount
    row,        \* state of the reservation row a request inserted
    attached,   \* its swap_id column
    swap,       \* state column of the swaps table
    clock,      \* seconds, as the callers pass them in `now`
    pc, job,    \* where each connection is inside attach_reservation
    owners      \* the swaps that attach_reservation answered Ok to

ledgerVars == <<asset, available, reserved, consumed>>
callVars == <<pc, job, owners>>
vars == <<ledgerVars, row, attached, swap, clock, callVars>>

RowStates == {"ABSENT", "HELD", "CONSUMED", "RELEASED"}
SwapRows == SwapState \cup {"ABSENT"}
Jobs == [row : Requests, swap : Swaps, attachable : BOOLEAN]

TypeOK ==
    /\ asset \in [Solvers -> {i.asset : i \in Inventories} \cup {NoAsset}]
    /\ available \in [Solvers -> 0..MaxU64]
    /\ reserved \in [Solvers -> 0..MaxU64]
    /\ consumed \in [Solvers -> 0..MaxU64]
    /\ row \in [Requests -> RowStates]
    /\ attached \in [Requests -> Swaps \cup {NoSwap}]
    /\ swap \in [Swaps -> SwapRows]
    /\ clock \in Nat
    /\ pc \in [Clients -> {"idle", "read_swap", "update", "reread"}]
    /\ job \in [Clients -> Jobs \cup {NoSwap}]
    /\ \A c \in Clients : pc[c] # "idle" => job[c] \in Jobs
    /\ owners \in [Requests -> SUBSET Swaps]

Init ==
    /\ asset = [s \in Solvers |-> NoAsset]
    /\ available = [s \in Solvers |-> 0]
    /\ reserved = [s \in Solvers |-> 0]
    /\ consumed = [s \in Solvers |-> 0]
    /\ row = [r \in Requests |-> "ABSENT"]
    /\ attached = [r \in Requests |-> NoSwap]
    /\ swap = [s \in Swaps |-> "ABSENT"]
    /\ clock = 0
    /\ pc = [c \in Clients |-> "idle"]
    /\ job = [c \in Clients |-> NoSwap]
    /\ owners = [r \in Requests |-> {}]

Tick ==
    /\ clock < MaxClock
    /\ clock' = clock + 1
    /\ UNCHANGED <<ledgerVars, row, attached, swap, callVars>>

-------------------------------------------------------------------------------
\* Mutant: INSERT OR REPLACE at every start.
EnsureSolverLedgerResets(s, inventory) ==
    /\ asset' = [asset EXCEPT ![s] = inventory.asset]
    /\ available' = [available EXCEPT ![s] = inventory.amount]
    /\ UNCHANGED <<reserved, consumed, row, attached, swap, clock, callVars>>

(* The ledger row is inserted when the maker starts; a later start, with    *)
(* whatever inventory, leaves the existing row as it is.                    *)
EnsureSolverLedger(s, inventory) ==
    /\ asset[s] = NoAsset
    /\ asset' = [asset EXCEPT ![s] = inventory.asset]
    /\ available' = [available EXCEPT ![s] = inventory.amount]
    /\ UNCHANGED <<reserved, consumed, row, attached, swap, clock, callVars>>

\* Mutant: the quote and hash columns are not UNIQUE, and the identity has a date.
ConflictsUndeclared(r, other) == r = other

\* The primary key and the two UNIQUE columns of the reservations table.
Conflicts(r, other) ==
    r.id = other.id \/ r.quote = other.quote \/ r.hash = other.hash

\* Mutant: neither the free inventory nor the addition is checked.
ReserveUnchecked(r) ==
    /\ asset[r.solver] = r.asset
    /\ \A other \in Requests : Conflicts(r, other) => row[other] = "ABSENT"
    /\ row' = [row EXCEPT ![r] = "HELD"]
    /\ reserved' = [reserved EXCEPT ![r.solver] = @ + r.amount]
    /\ UNCHANGED <<asset, available, consumed, attached, swap, clock, callVars>>

Reservable(r) ==
    /\ asset[r.solver] = r.asset
    /\ reserved[r.solver] <= available[r.solver]
    /\ r.amount <= available[r.solver] - reserved[r.solver]
    /\ \A other \in Requests : Conflicts(r, other) => row[other] = "ABSENT"
    /\ reserved[r.solver] + r.amount <= MaxU64

Reserve(r) ==
    /\ Reservable(r)
    /\ row' = [row EXCEPT ![r] = "HELD"]
    /\ reserved' = [reserved EXCEPT ![r.solver] = @ + r.amount]
    /\ UNCHANGED <<asset, available, consumed, attached, swap, clock, callVars>>

\* Mutant: consumption forgets to take the amount out of what is reserved.
ConsumeKeepsReserved(r) ==
    /\ row[r] = "HELD"
    /\ r.amount <= available[r.solver]
    /\ consumed[r.solver] + r.amount <= MaxU64
    /\ row' = [row EXCEPT ![r] = "CONSUMED"]
    /\ available' = [available EXCEPT ![r.solver] = @ - r.amount]
    /\ consumed' = [consumed EXCEPT ![r.solver] = @ + r.amount]
    /\ UNCHANGED <<asset, reserved, attached, swap, clock, callVars>>

\* Mutant: consumption forgets to take the amount out of what is available.
ConsumeKeepsAvailable(r) ==
    /\ row[r] = "HELD"
    /\ r.amount <= reserved[r.solver]
    /\ consumed[r.solver] + r.amount <= MaxU64
    /\ row' = [row EXCEPT ![r] = "CONSUMED"]
    /\ reserved' = [reserved EXCEPT ![r.solver] = @ - r.amount]
    /\ consumed' = [consumed EXCEPT ![r.solver] = @ + r.amount]
    /\ UNCHANGED <<asset, available, attached, swap, clock, callVars>>

(* A repeated call finds CONSUMED and changes nothing.                      *)
ConsumeReservation(r) ==
    /\ row[r] = "HELD"
    /\ r.amount <= available[r.solver]
    /\ r.amount <= reserved[r.solver]
    /\ consumed[r.solver] + r.amount <= MaxU64
    /\ row' = [row EXCEPT ![r] = "CONSUMED"]
    /\ available' = [available EXCEPT ![r.solver] = @ - r.amount]
    /\ reserved' = [reserved EXCEPT ![r.solver] = @ - r.amount]
    /\ consumed' = [consumed EXCEPT ![r.solver] = @ + r.amount]
    /\ UNCHANGED <<asset, attached, swap, clock, callVars>>

\* Mutant: a swap that is not in this database counts as one not started.
ReleaseableUnknown(r) ==
    attached[r] # NoSwap => swap[attached[r]] \in {"ABSENT", "CREATED", "FAILED", "REFUNDED"}

\* A row is given back only when no swap can still be spending against it.
Releaseable(r) ==
    attached[r] # NoSwap => swap[attached[r]] \in {"CREATED", "FAILED", "REFUNDED"}

\* Mutant: a row that was released already is released again.
ReleaseTwice(r) ==
    /\ row[r] \in {"HELD", "RELEASED"}
    /\ r.expires_at <= clock
    /\ Releaseable(r)
    /\ r.amount <= reserved[r.solver]
    /\ row' = [row EXCEPT ![r] = "RELEASED"]
    /\ reserved' = [reserved EXCEPT ![r.solver] = @ - r.amount]
    /\ UNCHANGED <<asset, available, consumed, attached, swap, clock, callVars>>

ReleaseReservation(r) ==
    /\ row[r] = "HELD"
    /\ r.expires_at <= clock
    /\ Releaseable(r)
    /\ r.amount <= reserved[r.solver]
    /\ row' = [row EXCEPT ![r] = "RELEASED"]
    /\ reserved' = [reserved EXCEPT ![r.solver] = @ - r.amount]
    /\ UNCHANGED <<asset, available, consumed, attached, swap, clock, callVars>>

-------------------------------------------------------------------------------
(* attach_reservation: read state and expiry; read swap_id; UPDATE ... WHERE *)
(* swap_id IS NULL; read swap_id again if the update changed no row.        *)
AttachRead(c, r, s) ==
    /\ pc[c] = "idle"
    /\ row[r] # "ABSENT"
    /\ pc' = [pc EXCEPT ![c] = "read_swap"]
    /\ job' = [job EXCEPT ![c] =
                 [row |-> r, swap |-> s,
                  attachable |-> row[r] = "HELD" /\ r.expires_at > clock]]
    /\ UNCHANGED <<ledgerVars, row, attached, swap, clock, owners>>

\* The call returns; Ok is remembered as ownership of the row.
Return(c, ok) ==
    /\ pc' = [pc EXCEPT ![c] = "idle"]
    /\ job' = [job EXCEPT ![c] = NoSwap]
    /\ owners' = IF ok THEN [owners EXCEPT ![job[c].row] = @ \cup {job[c].swap}]
                       ELSE owners

AttachReadSwap(c) ==
    /\ pc[c] = "read_swap"
    /\ \/ /\ attached[job[c].row] = job[c].swap
          /\ Return(c, TRUE)
       \/ /\ attached[job[c].row] # job[c].swap
          /\ ~job[c].attachable
          /\ Return(c, FALSE)
       \/ /\ attached[job[c].row] # job[c].swap
          /\ job[c].attachable
          /\ pc' = [pc EXCEPT ![c] = "update"]
          /\ UNCHANGED <<job, owners>>
    /\ UNCHANGED <<ledgerVars, row, attached, swap, clock>>

\* Mutant: the UPDATE lacks "AND swap_id IS NULL".
AttachOverwrites(c) ==
    /\ pc[c] = "update"
    /\ attached' = [attached EXCEPT ![job[c].row] = job[c].swap]
    /\ Return(c, TRUE)
    /\ UNCHANGED <<ledgerVars, row, swap, clock>>

AttachUpdate(c) ==
    /\ pc[c] = "update"
    /\ \/ /\ attached[job[c].row] = NoSwap
          /\ attached' = [attached EXCEPT ![job[c].row] = job[c].swap]
          /\ Return(c, TRUE)
       \/ /\ attached[job[c].row] # NoSwap
          /\ pc' = [pc EXCEPT ![c] = "reread"]
          /\ UNCHANGED <<attached, job, owners>>
    /\ UNCHANGED <<ledgerVars, row, swap, clock>>

AttachReread(c) ==
    /\ pc[c] = "reread"
    /\ Return(c, attached[job[c].row] = job[c].swap)
    /\ UNCHANGED <<ledgerVars, row, attached, swap, clock>>

\* The process dies inside the call: what was committed stays.
AttachCrash(c) ==
    /\ pc[c] # "idle"
    /\ Return(c, FALSE)
    /\ UNCHANGED <<ledgerVars, row, attached, swap, clock>>

-------------------------------------------------------------------------------
InsertSwap(s) ==
    /\ s \in LocalSwaps
    /\ swap[s] = "ABSENT"
    /\ swap' = [swap EXCEPT ![s] = "CREATED"]
    /\ UNCHANGED <<ledgerVars, row, attached, clock, callVars>>

\* A compare-and-set on the state column, along an edge of the state graph.
TransitionSwap(s, expected, next) ==
    /\ CanTransitionTo(expected, next)
    /\ swap[s] = expected
    /\ swap' = [swap EXCEPT ![s] = next]
    /\ UNCHANGED <<ledgerVars, row, attached, clock, callVars>>

Next ==
    \/ Tick
    \/ \E s \in Solvers, i \in Inventories : EnsureSolverLedger(s, i)
    \/ \E r \in Requests : \/ Reserve(r)
                           \/ ConsumeReservation(r)
                           \/ ReleaseReservation(r)
    \/ \E c \in Clients : \/ \E r \in Requests, s \in Swaps : AttachRead(c, r, s)
                          \/ AttachReadSwap(c)
                          \/ AttachUpdate(c)
                          \/ AttachReread(c)
                          \/ AttachCrash(c)
    \/ \E s \in Swaps : InsertSwap(s)
    \/ \E s \in Swaps, expected, next \in SwapState : TransitionSwap(s, expected, next)

Spec == Init /\ [][Next]_vars
-------------------------------------------------------------------------------
HeldOf(s) == {r \in Requests : r.solver = s /\ row[r] = "HELD"}
ConsumedOf(s) == {r \in Requests : r.solver = s /\ row[r] = "CONSUMED"}

(* The two booked totals are exactly the rows behind them: a reservation    *)
(* counts once while held, once after a consumption however often the call  *)
(* is repeated, and not at all after a release (storage.rs reserve,         *)
(* consume_reservation_with_hash, release_reservation).                     *)
Backed ==
    \A s \in Solvers : /\ reserved[s] = Sum[HeldOf(s)]
                       /\ consumed[s] = Sum[ConsumedOf(s)]

(* A maker never promises more inventory than it has: `reserve` compares    *)
(* with what is free, and consumption lowers both sides together.           *)
Solvent == \A s \in Solvers : reserved[s] <= available[s]

(* Restarts, reservations, releases and consumptions never create or lose   *)
(* inventory: what is available plus what was consumed stays what the       *)
(* ledger row was first inserted with, in the same asset.                   *)
Conserved ==
    [][\A s \in Solvers : asset[s] # NoAsset =>
            /\ asset'[s] = asset[s]
            /\ available'[s] + consumed'[s] = available[s] + consumed[s]]_vars

(* The defensive errors of consume and release ("ledger balance assertion   *)
(* failed", underflow, overflow) can never answer a held reservation: a     *)
(* payment that was made can always be booked.                              *)
AlwaysBookable ==
    \A r \in Requests : row[r] = "HELD" =>
        /\ r.amount <= available[r.solver]
        /\ r.amount <= reserved[r.solver]
        /\ consumed[r.solver] + r.amount <= MaxU64

(* Whatever the interleaving of two attach_reservation calls, only the swap *)
(* named in the row was ever told that it owns the reservation.             *)
SingleOwner == \A r \in Requests : owners[r] \subseteq {attached[r]}

(* Once a client was told that its swap owns a held reservation, nobody     *)
(* releases it while that swap is unknown to this database or exposed.      *)
OwnedStaysLocked ==
    [][\A r \in Requests :
            /\ owners[r] # {}
            /\ row[r] = "HELD"
            /\ swap[attached[r]] \notin {"CREATED", "FAILED", "REFUNDED"}
            => row'[r] # "RELEASED"]_vars

(* A swap that was paid is never given up afterwards, and one that was      *)
(* given up is never paid: no path of `can_transition_to` crosses over.     *)
OutcomesDisjoint ==
    [][\A s \in Swaps : /\ swap[s] \in PaidStates => swap'[s] \in PaidStates
                        /\ swap[s] \in AbandonedStates => swap'[s] \in AbandonedStates]_vars
===============================================================================
