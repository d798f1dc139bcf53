------------------------------ MODULE MCLedger ------------------------------
(* A small instance of Ledger: two makers in one store, and requests that   *)
(* compete for inventory or reuse an identity.                              *)
EXTENDS Ledger, FiniteSetsExt, TLC

CONSTANTS m1, m2, L, D

Request(id, quote, hash, solver, assetId, amount, expires) ==
    [id |-> id, quote |-> quote, hash |-> hash, solver |-> solver,
     asset |-> assetId, amount |-> amount, expires_at |-> expires]

\* The first two compete for one maker's inventory; the third, a small one, has
\* the first one's id; the last uses the second one's hash at another maker.
MCRequests ==
    {Request(1, 1, 1, m1, L, 2, 1),
     Request(2, 2, 2, m1, L, 3, 1),
     Request(1, 3, 3, m1, L, 1, 1),
     Request(4, 4, 2, m2, D, 1, 1)}

\* Started first with one, after a restart with another.
MCInventories == {[asset |-> L, amount |-> 4], [asset |-> D, amount |-> 2]}

\* Connections are interchangeable.
MCSymmetry == Permutations(Clients)

\* The sum of the amounts of a set of requests, as a function.
MCSum == [S \in SUBSET Requests |-> MapThenSumSet(LAMBDA r : r.amount, S)]
=============================================================================
