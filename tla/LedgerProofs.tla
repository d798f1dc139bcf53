----------------------------- MODULE LedgerProofs -----------------------------
(***************************************************************************)
(* The bookkeeping of Ledger, for every set of requests, makers and        *)
(* clients.  Nothing is assumed of the environment but the assumptions on  *)
(* the constants stated in Ledger.                                         *)
(***************************************************************************)
EXTENDS Ledger, TLAPS

\* A ledger row that does not exist yet has nothing booked in it.
Unopened ==
    \A s \in Solvers : asset[s] = NoAsset =>
        available[s] = 0 /\ reserved[s] = 0 /\ consumed[s] = 0

\* What is left and what was consumed together still fit a u64.
Capacity == \A s \in Solvers : available[s] + consumed[s] <= MaxU64

IInv == TypeOK /\ Backed /\ Solvent /\ Unopened /\ Capacity

USE RequestsAssumption, InventoriesAssumption, BoundsAssumption

-------------------------------------------------------------------------------
\* Taking a member out of a set of requests takes its amount off the sum.
LEMMA SumRemove ==
    ASSUME NEW S \in SUBSET Requests, NEW r \in S
    PROVE  /\ Sum[S \ {r}] = Sum[S] - r.amount
           /\ r.amount <= Sum[S]
<1> DEFINE rest == S \ {r}
<1>1. rest \in SUBSET Requests /\ r \in Requests \ rest /\ rest \cup {r} = S
  OBVIOUS
<1>2. Sum[rest] \in Nat /\ Sum[S] \in Nat /\ r.amount \in Nat
  BY <1>1, SumAssumption
<1>3. Sum[rest \cup {r}] = Sum[rest] + r.amount
  BY <1>1, SumAssumption
<1>4. Sum[S] = Sum[rest] + r.amount
  BY <1>1, <1>3, Zenon
<1> HIDE DEF rest
<1>5. Sum[rest] = Sum[S] - r.amount /\ r.amount <= Sum[S]
  BY <1>2, <1>4
<1> QED
  BY <1>5 DEF rest

\* The steps that leave the rows and the ledgers alone.
LEMMA QuietStep ==
    ASSUME UNCHANGED <<asset, available, reserved, consumed, row>>,
           Backed, Solvent, Unopened, Capacity
    PROVE  Backed' /\ Solvent' /\ Unopened' /\ Capacity'
<1>1. \A s \in Solvers : HeldOf(s)' = HeldOf(s) /\ ConsumedOf(s)' = ConsumedOf(s)
  BY DEF HeldOf, ConsumedOf
<1> QED
  BY <1>1 DEF Backed, Solvent, Unopened, Capacity

-------------------------------------------------------------------------------
(* Every variable of the store keeps its type: in particular no amount      *)
(* leaves the range of the u64 it is stored as (storage.rs parse_u64 and    *)
(* the checked arithmetic of reserve, consume and release).                 *)
LEMMA TypeInit == Init => TypeOK
  BY DEF Init, TypeOK, RowStates, SwapRows

LEMMA ReturnType ==
    ASSUME TypeOK, NEW c \in Clients, NEW ok \in BOOLEAN, pc[c] # "idle", Return(c, ok)
    PROVE  /\ pc' \in [Clients -> {"idle", "read_swap", "update", "reread"}]
           /\ job' \in [Clients -> Jobs \cup {NoSwap}]
           /\ \A d \in Clients : pc'[d] # "idle" => job'[d] \in Jobs
           /\ owners' \in [Requests -> SUBSET Swaps]
<1>1. job[c] \in Jobs /\ job[c].row \in Requests /\ job[c].swap \in Swaps
  BY DEF TypeOK, Jobs
<1> QED
  BY <1>1 DEF TypeOK, Return

LEMMA TypeStep == TypeOK /\ [Next]_vars => TypeOK'
<1> SUFFICES ASSUME TypeOK, [Next]_vars PROVE TypeOK'
  OBVIOUS
<1> USE DEF ledgerVars, callVars
<1>1. CASE Tick
  BY <1>1 DEF TypeOK, Tick
<1>2. ASSUME NEW s \in Solvers, NEW i \in Inventories, EnsureSolverLedger(s, i)
      PROVE  TypeOK'
  BY <1>2 DEF TypeOK, EnsureSolverLedger
<1>3. ASSUME NEW r \in Requests, Reserve(r)
      PROVE  TypeOK'
  <2>1. reserved' \in [Solvers -> 0..MaxU64]
    BY <1>3 DEF TypeOK, Reserve, Reservable
  <2> QED
    BY <1>3, <2>1 DEF TypeOK, Reserve, Reservable, RowStates
<1>4. ASSUME NEW r \in Requests, ConsumeReservation(r)
      PROVE  TypeOK'
  <2>1. /\ available' \in [Solvers -> 0..MaxU64]
        /\ reserved' \in [Solvers -> 0..MaxU64]
        /\ consumed' \in [Solvers -> 0..MaxU64]
    BY <1>4 DEF TypeOK, ConsumeReservation
  <2> QED
    BY <1>4, <2>1 DEF TypeOK, ConsumeReservation, RowStates
<1>5. ASSUME NEW r \in Requests, ReleaseReservation(r)
      PROVE  TypeOK'
  <2>1. reserved' \in [Solvers -> 0..MaxU64]
    BY <1>5 DEF TypeOK, ReleaseReservation
  <2> QED
    BY <1>5, <2>1 DEF TypeOK, ReleaseReservation, RowStates
<1>6. ASSUME NEW c \in Clients, NEW r \in Requests, NEW s \in Swaps, AttachRead(c, r, s)
      PROVE  TypeOK'
  BY <1>6 DEF TypeOK, AttachRead, Jobs
<1>7. ASSUME NEW c \in Clients, AttachReadSwap(c)
      PROVE  TypeOK'
  <2>1. CASE Return(c, TRUE)
    BY <1>7, <2>1, ReturnType DEF TypeOK, AttachReadSwap
  <2>2. CASE Return(c, FALSE)
    BY <1>7, <2>2, ReturnType DEF TypeOK, AttachReadSwap
  <2>3. CASE pc' = [pc EXCEPT ![c] = "update"] /\ UNCHANGED <<job, owners>>
    BY <1>7, <2>3 DEF TypeOK, AttachReadSwap
  <2> QED
    BY <1>7, <2>1, <2>2, <2>3 DEF AttachReadSwap
<1>8. ASSUME NEW c \in Clients, AttachUpdate(c)
      PROVE  TypeOK'
  <2>1. job[c] \in Jobs /\ job[c].row \in Requests /\ job[c].swap \in Swaps
    BY <1>8 DEF TypeOK, Jobs, AttachUpdate
  <2>2. attached' \in [Requests -> Swaps \cup {NoSwap}]
    BY <1>8, <2>1 DEF TypeOK, AttachUpdate
  <2>3. CASE Return(c, TRUE)
    BY <1>8, <2>2, <2>3, ReturnType DEF TypeOK, AttachUpdate
  <2>4. CASE pc' = [pc EXCEPT ![c] = "reread"] /\ UNCHANGED <<attached, job, owners>>
    BY <1>8, <2>4 DEF TypeOK, AttachUpdate
  <2> QED
    BY <1>8, <2>3, <2>4 DEF AttachUpdate
<1>9. ASSUME NEW c \in Clients, AttachReread(c)
      PROVE  TypeOK'
  BY <1>9, ReturnType DEF TypeOK, AttachReread
<1>10. ASSUME NEW c \in Clients, AttachCrash(c)
       PROVE  TypeOK'
  BY <1>10, ReturnType DEF TypeOK, AttachCrash
<1>11. ASSUME NEW s \in Swaps, InsertSwap(s)
       PROVE  TypeOK'
  BY <1>11 DEF TypeOK, InsertSwap, SwapRows, SwapState
<1>12. ASSUME NEW s \in Swaps, NEW expected \in SwapState, NEW next \in SwapState,
              TransitionSwap(s, expected, next)
       PROVE  TypeOK'
  BY <1>12 DEF TypeOK, TransitionSwap, SwapRows
<1>13. CASE UNCHANGED vars
  BY <1>13 DEF TypeOK, vars
<1> QED
  BY <1>1, <1>2, <1>3, <1>4, <1>5, <1>6, <1>7, <1>8, <1>9, <1>10, <1>11, <1>12,
     <1>13 DEF Next

THEOREM TypeCorrect == Spec => []TypeOK
  BY TypeInit, TypeStep, PTL DEF Spec


-------------------------------------------------------------------------------
LEMMA BookInit == Init => Backed /\ Solvent /\ Unopened /\ Capacity
<1> SUFFICES ASSUME Init PROVE Backed /\ Solvent /\ Unopened /\ Capacity
  OBVIOUS
<1>1. \A s \in Solvers : HeldOf(s) = {} /\ ConsumedOf(s) = {}
  BY DEF Init, HeldOf, ConsumedOf
<1>2. \A s \in Solvers : available[s] = 0 /\ reserved[s] = 0 /\ consumed[s] = 0
  BY DEF Init
<1>3. Backed
  BY <1>1, <1>2, SumAssumption DEF Backed
<1> QED
  BY <1>2, <1>3 DEF Solvent, Unopened, Capacity

LEMMA ReserveBooks ==
    ASSUME IInv, NEW r \in Requests, Reserve(r)
    PROVE  Backed' /\ Solvent' /\ Unopened' /\ Capacity'
<1> USE DEF IInv
<1>1. row[r] = "ABSENT" /\ row' = [row EXCEPT ![r] = "HELD"]
  BY DEF Reserve, Reservable, Conflicts
<1>2. \A s \in Solvers :
        /\ HeldOf(s)' = IF s = r.solver THEN HeldOf(s) \cup {r} ELSE HeldOf(s)
        /\ ConsumedOf(s)' = ConsumedOf(s)
  BY <1>1 DEF TypeOK, HeldOf, ConsumedOf
<1>3. r \in Requests \ HeldOf(r.solver) /\ HeldOf(r.solver) \in SUBSET Requests
  BY <1>1 DEF HeldOf
<1>4. Sum[HeldOf(r.solver) \cup {r}] = Sum[HeldOf(r.solver)] + r.amount
  BY <1>3, SumAssumption
<1>5. \A s \in Solvers :
        /\ reserved'[s] = IF s = r.solver THEN reserved[s] + r.amount ELSE reserved[s]
        /\ consumed'[s] = consumed[s]
        /\ available[s] \in Nat /\ reserved[s] \in Nat /\ consumed[s] \in Nat
  BY DEF Reserve, Reservable, TypeOK
<1>6. /\ r.amount \in Nat /\ r.solver \in Solvers
      /\ r.amount <= available[r.solver] - reserved[r.solver]
      /\ asset[r.solver] # NoAsset
      /\ asset' = asset /\ available' = available /\ consumed' = consumed
  BY DEF Reserve, Reservable
<1>7. Backed'
  <2>1. ASSUME NEW s \in Solvers, s = r.solver
        PROVE  reserved'[s] = Sum[HeldOf(s)'] /\ consumed'[s] = Sum[ConsumedOf(s)']
    BY <2>1, <1>2, <1>4, <1>5 DEF Backed
  <2>2. ASSUME NEW s \in Solvers, s # r.solver
        PROVE  reserved'[s] = Sum[HeldOf(s)'] /\ consumed'[s] = Sum[ConsumedOf(s)']
    BY <2>2, <1>2, <1>5 DEF Backed
  <2> QED
    BY <2>1, <2>2 DEF Backed
<1>8. Solvent' /\ Capacity'
  BY <1>5, <1>6 DEF Solvent, Capacity
<1>9. Unopened'
  BY <1>5, <1>6 DEF Unopened
<1> QED
  BY <1>7, <1>8, <1>9

LEMMA ConsumeBooks ==
    ASSUME IInv, NEW r \in Requests, ConsumeReservation(r)
    PROVE  Backed' /\ Solvent' /\ Unopened' /\ Capacity'
<1> USE DEF IInv
<1>1. row[r] = "HELD" /\ row' = [row EXCEPT ![r] = "CONSUMED"]
  BY DEF ConsumeReservation
<1>2. \A s \in Solvers :
        /\ HeldOf(s)' = IF s = r.solver THEN HeldOf(s) \ {r} ELSE HeldOf(s)
        /\ ConsumedOf(s)' = IF s = r.solver THEN ConsumedOf(s) \cup {r} ELSE ConsumedOf(s)
  BY <1>1 DEF TypeOK, HeldOf, ConsumedOf
<1>3. /\ r \in HeldOf(r.solver) /\ HeldOf(r.solver) \in SUBSET Requests
      /\ r \in Requests \ ConsumedOf(r.solver) /\ ConsumedOf(r.solver) \in SUBSET Requests
  BY <1>1 DEF HeldOf, ConsumedOf
<1>4. Sum[HeldOf(r.solver) \ {r}] = Sum[HeldOf(r.solver)] - r.amount
  BY <1>3, SumRemove
<1>5. Sum[ConsumedOf(r.solver) \cup {r}] = Sum[ConsumedOf(r.solver)] + r.amount
  BY <1>3, SumAssumption
<1>6. \A s \in Solvers :
        /\ available'[s] = IF s = r.solver THEN available[s] - r.amount ELSE available[s]
        /\ reserved'[s] = IF s = r.solver THEN reserved[s] - r.amount ELSE reserved[s]
        /\ consumed'[s] = IF s = r.solver THEN consumed[s] + r.amount ELSE consumed[s]
        /\ available[s] \in Nat /\ reserved[s] \in Nat /\ consumed[s] \in Nat
  BY DEF ConsumeReservation, TypeOK
<1>7. r.amount \in Nat /\ r.amount <= reserved[r.solver] /\ UNCHANGED asset
  BY DEF ConsumeReservation
<1>8. Backed'
  <2>1. ASSUME NEW s \in Solvers, s = r.solver
        PROVE  reserved'[s] = Sum[HeldOf(s)'] /\ consumed'[s] = Sum[ConsumedOf(s)']
    BY <2>1, <1>2, <1>4, <1>5, <1>6 DEF Backed
  <2>2. ASSUME NEW s \in Solvers, s # r.solver
        PROVE  reserved'[s] = Sum[HeldOf(s)'] /\ consumed'[s] = Sum[ConsumedOf(s)']
    BY <2>2, <1>2, <1>6 DEF Backed
  <2> QED
    BY <2>1, <2>2 DEF Backed
<1>9. Solvent' /\ Capacity'
  BY <1>6, <1>7 DEF Solvent, Capacity
<1>10. Unopened'
  BY <1>6, <1>7 DEF Unopened
<1> QED
  BY <1>8, <1>9, <1>10

LEMMA ReleaseBooks ==
    ASSUME IInv, NEW r \in Requests, ReleaseReservation(r)
    PROVE  Backed' /\ Solvent' /\ Unopened' /\ Capacity'
<1> USE DEF IInv
<1>1. row[r] = "HELD" /\ row' = [row EXCEPT ![r] = "RELEASED"]
  BY DEF ReleaseReservation
<1>2. \A s \in Solvers :
        /\ HeldOf(s)' = IF s = r.solver THEN HeldOf(s) \ {r} ELSE HeldOf(s)
        /\ ConsumedOf(s)' = ConsumedOf(s)
  BY <1>1 DEF TypeOK, HeldOf, ConsumedOf
<1>3. r \in HeldOf(r.solver) /\ HeldOf(r.solver) \in SUBSET Requests
  BY <1>1 DEF HeldOf
<1>4. Sum[HeldOf(r.solver) \ {r}] = Sum[HeldOf(r.solver)] - r.amount
  BY <1>3, SumRemove
<1>5. \A s \in Solvers :
        /\ reserved'[s] = IF s = r.solver THEN reserved[s] - r.amount ELSE reserved[s]
        /\ consumed'[s] = consumed[s]
        /\ available[s] \in Nat /\ reserved[s] \in Nat /\ consumed[s] \in Nat
  BY DEF ReleaseReservation, TypeOK
<1>6. /\ r.amount \in Nat /\ r.amount <= reserved[r.solver]
      /\ asset' = asset /\ available' = available /\ consumed' = consumed
  BY DEF ReleaseReservation
<1>7. Backed'
  BY <1>2, <1>4, <1>5 DEF Backed
<1>8. Solvent' /\ Capacity'
  BY <1>5, <1>6 DEF Solvent, Capacity
<1>9. Unopened'
  BY <1>5, <1>6 DEF Unopened
<1> QED
  BY <1>7, <1>8, <1>9

LEMMA OpenBooks ==
    ASSUME IInv, NEW s \in Solvers, NEW i \in Inventories, EnsureSolverLedger(s, i)
    PROVE  Backed' /\ Solvent' /\ Unopened' /\ Capacity'
<1>1. \A t \in Solvers : HeldOf(t)' = HeldOf(t) /\ ConsumedOf(t)' = ConsumedOf(t)
  BY DEF EnsureSolverLedger, HeldOf, ConsumedOf
<1> QED
  BY <1>1 DEF IInv, TypeOK, Backed, Solvent, Unopened, Capacity, EnsureSolverLedger

LEMMA BookStep == IInv /\ [Next]_vars => IInv'
<1> SUFFICES ASSUME IInv, [Next]_vars PROVE IInv'
  OBVIOUS
<1>1. TypeOK'
  BY TypeStep DEF IInv
<1>2. Backed' /\ Solvent' /\ Unopened' /\ Capacity'
  <2>1. CASE UNCHANGED <<asset, available, reserved, consumed, row>>
    BY <2>1, QuietStep DEF IInv
  <2>2. CASE \E s \in Solvers, i \in Inventories : EnsureSolverLedger(s, i)
    BY <2>2, OpenBooks
  <2>3. CASE \E r \in Requests : Reserve(r)
    BY <2>3, ReserveBooks
  <2>4. CASE \E r \in Requests : ConsumeReservation(r)
    BY <2>4, ConsumeBooks
  <2>5. CASE \E r \in Requests : ReleaseReservation(r)
    BY <2>5, ReleaseBooks
  <2> QED
    BY <2>1, <2>2, <2>3, <2>4, <2>5
    DEF Next, vars, ledgerVars, Tick, AttachRead, AttachReadSwap, AttachUpdate,
        AttachReread, AttachCrash, InsertSwap, TransitionSwap
<1> QED
  BY <1>1, <1>2 DEF IInv

LEMMA BooksInvariant == Spec => []IInv
<1>1. Init => IInv
  BY TypeInit, BookInit DEF IInv
<1> QED
  BY <1>1, BookStep, PTL DEF Spec

-------------------------------------------------------------------------------
(* The booked totals are the sums of the rows behind them, whatever was     *)
(* reserved, consumed, released and repeated in whatever order.             *)
THEOREM BackedAlways == Spec => []Backed
  BY BooksInvariant, PTL DEF IInv

(* No maker's reservations ever exceed its inventory.                       *)
THEOREM SolventAlways == Spec => []Solvent
  BY BooksInvariant, PTL DEF IInv

LEMMA BooksAreBookable == IInv => AlwaysBookable
<1> SUFFICES ASSUME IInv, NEW r \in Requests, row[r] = "HELD"
             PROVE  /\ r.amount <= available[r.solver]
                    /\ r.amount <= reserved[r.solver]
                    /\ consumed[r.solver] + r.amount <= MaxU64
  BY DEF AlwaysBookable
<1>1. r \in HeldOf(r.solver) /\ HeldOf(r.solver) \in SUBSET Requests
  BY DEF HeldOf
<1>2. r.amount <= reserved[r.solver]
  BY <1>1, SumRemove DEF IInv, Backed
<1> QED
  BY <1>2 DEF IInv, TypeOK, Solvent, Capacity

(* The error branches of consume and release that guard the arithmetic are  *)
(* unreachable for a held reservation: a paid swap can always be booked.    *)
THEOREM BookableAlways == Spec => []AlwaysBookable
  BY BooksAreBookable, BooksInvariant, PTL

(* Inventory is neither created nor lost by any step after the ledger row   *)
(* was inserted.                                                            *)
THEOREM ConservedAlways == Spec => Conserved
<1>1. TypeOK /\ [Next]_vars =>
        [\A s \in Solvers : asset[s] # NoAsset =>
            /\ asset'[s] = asset[s]
            /\ available'[s] + consumed'[s] = available[s] + consumed[s]]_vars
  <2> SUFFICES ASSUME TypeOK, Next, NEW s \in Solvers, asset[s] # NoAsset
               PROVE  /\ asset'[s] = asset[s]
                      /\ available'[s] + consumed'[s] = available[s] + consumed[s]
    OBVIOUS
  <2>1. CASE UNCHANGED <<asset, available, consumed>>
    BY <2>1
  <2>2. ASSUME NEW t \in Solvers, NEW i \in Inventories, EnsureSolverLedger(t, i)
        PROVE  /\ asset'[s] = asset[s]
               /\ available'[s] + consumed'[s] = available[s] + consumed[s]
    BY <2>2 DEF EnsureSolverLedger, TypeOK
  <2>3. ASSUME NEW r \in Requests, ConsumeReservation(r)
        PROVE  /\ asset'[s] = asset[s]
               /\ available'[s] + consumed'[s] = available[s] + consumed[s]
    BY <2>3 DEF ConsumeReservation, TypeOK
  <2> QED
    BY <2>1, <2>2, <2>3
    DEF Next, ledgerVars, Tick, Reserve, Reservable, ReleaseReservation, AttachRead, AttachReadSwap,
        AttachUpdate, AttachReread, AttachCrash, InsertSwap, TransitionSwap
<1> QED
  BY <1>1, TypeCorrect, PTL DEF Spec, Conserved

(* Two interleaved attach calls never both answer Ok for different swaps.   *)
THEOREM SingleOwnerAlways == Spec => []SingleOwner
<1>1. Init => SingleOwner
  BY DEF Init, SingleOwner
<1>2. TypeOK /\ SingleOwner /\ [Next]_vars => SingleOwner'
  <2> SUFFICES ASSUME TypeOK, SingleOwner, [Next]_vars PROVE SingleOwner'
    OBVIOUS
  <2>1. CASE UNCHANGED <<attached, owners>>
    BY <2>1 DEF SingleOwner
  <2>2. ASSUME NEW c \in Clients, AttachReadSwap(c) PROVE SingleOwner'
    <3>1. job[c] \in Jobs /\ job[c].row \in Requests
      BY <2>2 DEF TypeOK, Jobs, AttachReadSwap
    <3> QED
      BY <2>2, <3>1 DEF SingleOwner, AttachReadSwap, Return, TypeOK
  <2>3. ASSUME NEW c \in Clients, AttachUpdate(c) PROVE SingleOwner'
    <3>1. job[c] \in Jobs /\ job[c].row \in Requests /\ job[c].swap \in Swaps
      BY <2>3 DEF TypeOK, Jobs, AttachUpdate
    <3>2. CASE attached[job[c].row] = NoSwap
      <4>1. owners[job[c].row] = {}
        BY <2>3, <3>1, <3>2 DEF SingleOwner, TypeOK
      <4> QED
        BY <2>3, <3>1, <3>2, <4>1 DEF SingleOwner, AttachUpdate, Return, TypeOK
    <3>3. CASE attached[job[c].row] # NoSwap
      BY <2>3, <3>3 DEF SingleOwner, AttachUpdate
    <3> QED
      BY <3>2, <3>3
  <2>4. ASSUME NEW c \in Clients, AttachReread(c) PROVE SingleOwner'
    <3>1. job[c] \in Jobs /\ job[c].row \in Requests
      BY <2>4 DEF TypeOK, Jobs, AttachReread
    <3> QED
      BY <2>4, <3>1 DEF SingleOwner, AttachReread, Return, TypeOK
  <2>5. ASSUME NEW c \in Clients, AttachCrash(c) PROVE SingleOwner'
    BY <2>5 DEF SingleOwner, AttachCrash, Return
  <2> QED
    BY <2>1, <2>2, <2>3, <2>4, <2>5
    DEF Next, vars, callVars, Tick, EnsureSolverLedger, Reserve, Reservable, ConsumeReservation,
        ReleaseReservation, AttachRead, InsertSwap, TransitionSwap
<1> QED
  BY <1>1, <1>2, TypeCorrect, PTL DEF Spec

(* No path through the state graph leads from a paid swap to a given-up one *)
(* or back, whichever callers race on the row.                              *)
THEOREM OutcomesDisjointAlways == Spec => OutcomesDisjoint
<1>1. TypeOK /\ [Next]_vars =>
        [\A s \in Swaps : /\ swap[s] \in PaidStates => swap'[s] \in PaidStates
                          /\ swap[s] \in AbandonedStates => swap'[s] \in AbandonedStates]_vars
  <2> SUFFICES ASSUME TypeOK, Next, NEW s \in Swaps
               PROVE  /\ swap[s] \in PaidStates => swap'[s] \in PaidStates
                      /\ swap[s] \in AbandonedStates => swap'[s] \in AbandonedStates
    OBVIOUS
  <2>1. CASE UNCHANGED swap
    BY <2>1
  <2>2. ASSUME NEW t \in Swaps, InsertSwap(t)
        PROVE  /\ swap[s] \in PaidStates => swap'[s] \in PaidStates
               /\ swap[s] \in AbandonedStates => swap'[s] \in AbandonedStates
    BY <2>2 DEF InsertSwap, TypeOK, PaidStates, AbandonedStates
  <2>3. ASSUME NEW t \in Swaps, NEW expected \in SwapState, NEW next \in SwapState,
               TransitionSwap(t, expected, next)
        PROVE  /\ swap[s] \in PaidStates => swap'[s] \in PaidStates
               /\ swap[s] \in AbandonedStates => swap'[s] \in AbandonedStates
    <3>1. /\ expected \in PaidStates => next \in PaidStates
          /\ expected \in AbandonedStates => next \in AbandonedStates
      BY <2>3 DEF TransitionSwap, CanTransitionTo, Edges, PaidStates, AbandonedStates
    <3> QED
      BY <2>3, <3>1 DEF TransitionSwap, TypeOK
  <2> QED
    BY <2>1, <2>2, <2>3
    DEF Next, callVars, Tick, EnsureSolverLedger, Reserve, Reservable, ConsumeReservation,
        ReleaseReservation, AttachRead, AttachReadSwap, AttachUpdate, AttachReread,
        AttachCrash
<1> QED
  BY <1>1, TypeCorrect, PTL DEF Spec, OutcomesDisjoint

(* A reservation that a client was told it owns stays booked while its swap *)
(* is unknown to the maker's database or exposed, also after it expired.    *)
THEOREM OwnedStaysLockedAlways == Spec => OwnedStaysLocked
<1>1. TypeOK /\ SingleOwner /\ [Next]_vars =>
        [\A r \in Requests :
            /\ owners[r] # {}
            /\ row[r] = "HELD"
            /\ swap[attached[r]] \notin {"CREATED", "FAILED", "REFUNDED"}
            => row'[r] # "RELEASED"]_vars
  <2> SUFFICES ASSUME TypeOK, SingleOwner, Next, NEW r \in Requests, owners[r] # {},
                      row[r] = "HELD",
                      swap[attached[r]] \notin {"CREATED", "FAILED", "REFUNDED"}
               PROVE  row'[r] # "RELEASED"
    OBVIOUS
  <2>1. attached[r] # NoSwap
    BY DEF SingleOwner, TypeOK
  <2>2. CASE UNCHANGED row
    BY <2>2
  <2>3. ASSUME NEW t \in Requests, Reserve(t) \/ ConsumeReservation(t)
        PROVE  row'[r] # "RELEASED"
    BY <2>3 DEF Reserve, Reservable, ConsumeReservation, TypeOK
  <2>4. ASSUME NEW t \in Requests, ReleaseReservation(t)
        PROVE  row'[r] # "RELEASED"
    BY <2>1, <2>4 DEF ReleaseReservation, Releaseable, TypeOK
  <2> QED
    BY <2>2, <2>3, <2>4
    DEF Next, Tick, EnsureSolverLedger, AttachRead, AttachReadSwap, AttachUpdate,
        AttachReread, AttachCrash, InsertSwap, TransitionSwap
<1> QED
  BY <1>1, TypeCorrect, SingleOwnerAlways, PTL DEF Spec, OwnedStaysLocked
===============================================================================
