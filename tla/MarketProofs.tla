----------------------------- MODULE MarketProofs -----------------------------
(***************************************************************************)
(* The market for every set of makers, peers, sessions and intents: whom a *)
(* client owes, and that the makers' stores do only what Ledger allows.    *)
(***************************************************************************)
EXTENDS Market, QuotesProofs, SequenceTheorems, WellFoundedInduction, TLAPS

\* What is proved of the store is proved of every maker's store.
Proved == INSTANCE LedgerProofs WITH
    Solvers <- Makers, Swaps <- Sessions, LocalSwaps <- {}, Clients <- Sessions,
    Inventories <- UNION {{Inventory(c) : c \in Configs[m]} : m \in Makers},
    swap <- [s \in Sessions |-> "ABSENT"]

Messages == [session : Sessions, signed : Signed \cup {None}, live : BOOLEAN]
Steps == {"idle", "ask", "quoting", "reserving", "write", "check", "attach"}
Commands == [at : Steps, reserve : BOOLEAN, quotes : Seq(Signed)]
Selections == [maker : Makers, signed : Signed]

\* Every quote that travels is one that a maker signed.
Shapes ==
    /\ Store!TypeOK
    /\ clock <= MaxClock
    /\ DOMAIN config = Makers
    /\ \A m \in Makers : config[m] \in Configs[m] \cup {None}
    /\ inbox \in [Makers -> Seq(Messages)]
    /\ \A m \in Makers : Len(inbox[m]) <= MaxBacklog
    /\ command \in [Sessions -> Commands]
    /\ selected \in [Sessions -> Selections \cup {None}]
    /\ bound \in [Sessions -> Signed \cup {None}]

\* A client that still waits for an answer waits for this one.
Awaited ==
    /\ \A m \in Makers : \A i \in DOMAIN inbox[m] :
            inbox[m][i].live =>
                At(inbox[m][i].session) =
                    IF inbox[m][i].signed = None THEN "quoting" ELSE "reserving"
    /\ \A m, n \in Makers : \A i \in DOMAIN inbox[m], j \in DOMAIN inbox[n] :
            /\ inbox[m][i].live /\ inbox[n][j].live
            /\ inbox[m][i].session = inbox[n][j].session
            => m = n /\ i = j

\* How far a command is, by what it got.
Progress ==
    \A s \in Sessions :
        /\ Len(Got(s)) <= Len(Peers)
        /\ At(s) = "quoting" => Len(Got(s)) < Len(Peers)
        /\ At(s) \in {"reserving", "write"} => Len(Got(s)) = Len(Peers)
        /\ At(s) = "attach" <=> pc[s] # "idle"

\* A row takes from the asset of its maker's ledger, and stands alone.
Rows ==
    /\ \A r \in Requests : /\ row[r] \in {"ABSENT", "HELD", "CONSUMED"}
                           /\ row[r] # "ABSENT" => asset[r.solver] = r.asset
    /\ \A r, other \in Requests :
            /\ row[r] # "ABSENT" /\ row[other] # "ABSENT"
            /\ Store!Conflicts(r, other)
            => r = other

\* What a client once bound was acceptable, and is what it has selected.
Promises ==
    \A s \in Sessions :
        /\ bound[s] # None =>
            /\ bound[s].quote.destination = Intent[s].destination
            /\ bound[s].quote.amount_out >= Intent[s].min_amount_out
            /\ bound[s].quote.fee_lbtc <= Intent[s].fee_limit_lbtc
        /\ At(s) = "check" => selected[s] # None /\ bound[s] = selected[s].signed

\* The row is the one that the session has bound the quote of.
Entitled(r, s) ==
    /\ row[r] \in {"HELD", "CONSUMED"}
    /\ bound[s] # None
    /\ LET quote == bound[s].quote
       IN  /\ bound[s].signature.key = r.solver
           /\ <<r.amount, r.quote>> = <<quote.amount_out, quote.quote_id>>
           /\ r.hash = <<r.solver, Intent[s].hash_commitment>>
           /\ asset[r.solver] = Intent[s].destination.asset_id
           /\ quote.amount_out >= Intent[s].min_amount_out
           /\ quote.fee_lbtc <= Intent[s].fee_limit_lbtc

\* So is a row that the session is about to be told it owns.
Ownership ==
    /\ \A r \in Requests : \A s \in owners[r] : Entitled(r, s)
    /\ \A s \in Sessions : pc[s] # "idle" => job[s].swap = s /\ Entitled(job[s].row, s)

IInv == Shapes /\ Awaited /\ Progress /\ Rows /\ Promises /\ Ownership

-------------------------------------------------------------------------------
LEMMA LeastNatural ==
    ASSUME NEW T, T \subseteq Nat, T # {}
    PROVE  \E m \in T : \A k \in T : m <= k
<1> DEFINE R == OpToRel(<, Nat)
<1>1. IsWellFoundedOn(R, Nat)
  BY NatLessThanWellFounded
<1>2. \A x, y \in Nat : x < y => <<x, y>> \in R
  BY DEF OpToRel
<1> HIDE DEF R
<1>3. PICK x \in T : \A y \in T : <<y, x>> \notin R
  BY <1>1, WFMin
<1>4. \A y \in T : ~(y < x)
  BY <1>2, <1>3
<1>5. \A y \in T : x <= y
  <2> TAKE y \in T
  <2>1. x \in Nat /\ y \in Nat
    OBVIOUS
  <2> QED
    BY <2>1, <1>4
<1> QED
  BY <1>5

\* What solver.rs quotes for an intent: an amount of a u64, or a refusal.
LEMMA RatedRange ==
    ASSUME NEW s \in Sessions, NEW m \in Makers, NEW c \in Configs[m]
    PROVE  RatedAmount(Intent[s].amount_in, c.rate) \in 0..MaxU64 \cup {None}
<1> DEFINE x == Intent[s].amount_in
           n == c.rate.numerator
           d == c.rate.denominator
<1>1. x \in Nat /\ n \in Nat /\ d \in Nat \ {0} /\ MaxU64 \in Nat
  BY ConfigsAssumption, IntentsAssumption, BoundsAssumption
<1> HIDE DEF x, n, d
<1> DEFINE p == x * n
<1>2. p \in Nat
  BY <1>1
<1>3. RatedAmount(x, c.rate) = IF p > MaxU64 THEN None ELSE p \div d
  BY DEF RatedAmount, n, d
<1> HIDE DEF p
<1>4. (p \div d) \in 0..p
  BY <1>1, <1>2
<1> QED
  BY <1>1, <1>2, <1>3, <1>4 DEF x

\* The quotes of a maker carry its identity, which is also its key.
LEMMA Offers ==
    ASSUME NEW m \in Makers, NEW o \in Offered(m)
    PROVE  /\ o.solver_key_id = m
           /\ \E id : o.quote_id = <<m, id>>
           /\ o.amount_out \in 0..MaxU64
           /\ o.fee_lbtc \in Nat
           /\ o.expires_at \in Nat
<1>1. PICK s \in Sessions : \E c \in Configs[m], t \in 0..MaxClock :
            o = MakerQuote(Intent[s], Solver(m, c), Validity, t)
  BY DEF Offered, MakersOffers
<1>2. PICK c \in Configs[m], t \in 0..MaxClock :
            o = MakerQuote(Intent[s], Solver(m, c), Validity, t)
  BY <1>1
<1> DEFINE solver == Solver(m, c)
<1>3. solver.id = m /\ solver.key_id = m /\ solver.rate = c.rate /\ solver.fee = c.fee
  BY DEF Solver
<1> HIDE DEF solver
<1>4. /\ o.solver_key_id = solver.key_id
      /\ o.quote_id = <<solver.id, Intent[s].intent_id>>
      /\ o.amount_out = RatedAmount(Intent[s].amount_in, solver.rate)
      /\ o.fee_lbtc = solver.fee
      /\ o.expires_at = IF Intent[s].expires_at < t + Validity
                        THEN Intent[s].expires_at ELSE t + Validity
  <2>1. o = MakerQuote(Intent[s], solver, Validity, t)
    BY <1>2 DEF solver
  <2> QED
    BY <2>1, QuotedFields
<1>5. o.amount_out \in 0..MaxU64
  BY <1>3, <1>4, RatedRange DEF Offered
<1>6. o.expires_at \in Nat /\ o.fee_lbtc \in Nat
  BY <1>3, <1>4, IntentsAssumption, ConfigsAssumption, BoundsAssumption
<1> QED
  BY <1>3, <1>4, <1>5, <1>6

LEMMA SignedQuotes ==
    ASSUME NEW signed \in Signed
    PROVE  \E m \in Makers : /\ signed.quote \in Offered(m)
                            /\ signed.signature.key = m
<1>1. PICK m \in Makers : \E o \in Offered(m) : signed = SignQuote(o, m)
  BY DEF Signed
<1>2. signed.quote \in Offered(m) /\ signed.signature.key = m
  BY <1>1 DEF SignQuote
<1> QED
  BY <1>2

\* What Ledger assumes of its constants holds of a maker's store.
LEMMA RequestFields ==
    ASSUME NEW r \in Requests
    PROVE  /\ r.solver \in Makers
           /\ r.asset # NoAsset
           /\ r.amount \in Nat
           /\ r.expires_at \in Nat
           /\ \E id : r.id = <<r.solver, id>>
<1>1. PICK m \in Makers : \E q \in Offered(m), c \in Configs[m] :
            r = Reservation(m, q, c.asset)
  BY DEF Requests
<1>2. PICK q \in Offered(m), c \in Configs[m] : r = Reservation(m, q, c.asset)
  BY <1>1
<1>3. /\ r.solver = m /\ r.asset = c.asset /\ r.amount = q.amount_out
      /\ r.expires_at = q.expires_at /\ r.id = q.quote_id
  BY <1>2 DEF Reservation
<1> QED
  BY <1>3, Offers, ConfigsAssumption

LEMMA StoreAssumptions ==
    /\ \A r \in Requests : /\ r.solver \in Makers
                           /\ r.asset # NoAsset
                           /\ r.amount \in Nat
                           /\ r.expires_at \in Nat
    /\ \A i \in UNION {{Inventory(c) : c \in Configs[m]} : m \in Makers} :
            i.amount \in 0..MaxU64 /\ i.asset # NoAsset
    /\ MaxU64 \in Nat /\ MaxClock \in Nat
    /\ {} \subseteq Sessions /\ NoSwap \notin Sessions
  BY RequestFields, ConfigsAssumption, BoundsAssumption DEF Inventory

-------------------------------------------------------------------------------
StoreMove ==
    \/ UNCHANGED <<storeVars, clock>>
    \/ Store!Tick
    \/ \E m \in Makers : \E c \in Configs[m] : Store!EnsureSolverLedger(m, Inventory(c))
    \/ \E r \in Requests : Store!Reserve(r) \/ Store!ConsumeReservation(r)
    \/ \E s \in Sessions : \/ \E r \in Requests : Store!AttachRead(s, r, s)
                           \/ Store!AttachReadSwap(s)
                           \/ Store!AttachUpdate(s)
                           \/ Store!AttachCrash(s)

\* What a maker books is a request: it verified a quote of its own.
LEMMA Booking ==
    ASSUME Shapes, NEW m \in Makers, ServeReserve(m)
    PROVE  LET msg == Head(inbox[m])
               r == Reservation(m, msg.signed.quote, config[m].asset)
           IN  /\ msg \in Messages
               /\ msg.signed \in Signed
               /\ config[m] \in Configs[m]
               /\ VerifyQuote(Intent[msg.session], msg.signed, [k \in {m} |-> m], AssetHash,
                              Intent[msg.session].deadline_context, clock)
                  => r \in Requests
<1> DEFINE msg == Head(inbox[m])
           r == Reservation(m, msg.signed.quote, config[m].asset)
<1>1. inbox[m] # <<>> /\ config[m] # None /\ msg.signed # None
  BY DEF ServeReserve, Serves
<1>2. config[m] \in Configs[m] /\ inbox[m] \in Seq(Messages)
  BY <1>1 DEF Shapes
<1>3. msg \in Messages
  BY <1>1, <1>2
<1>4. msg.signed \in Signed
  BY <1>1, <1>3 DEF Messages
<1>5. PICK n \in Makers : msg.signed.quote \in Offered(n)
  BY <1>4, SignedQuotes
<1>6. ASSUME VerifyQuote(Intent[msg.session], msg.signed, [k \in {m} |-> m], AssetHash,
                         Intent[msg.session].deadline_context, clock)
      PROVE  r \in Requests
  <2>1. msg.signed.quote.solver_key_id \in {m}
    BY <1>6 DEF VerifyQuote
  <2>2. n = m
    BY <1>5, <2>1, Offers
  <2> QED
    BY <1>2, <1>5, <2>2 DEF Requests
<1> QED
  BY <1>2, <1>3, <1>4, <1>6

LEMMA StoreStep == Shapes /\ [Next]_vars => StoreMove
<1> SUFFICES ASSUME Shapes, [Next]_vars PROVE StoreMove
  OBVIOUS
<1>1. CASE Tick
  BY <1>1 DEF Tick, StoreMove
<1>2. ASSUME NEW m \in Makers, NEW c \in Configs[m], MakerStart(m, c)
      PROVE  StoreMove
  BY <1>2 DEF MakerStart, StoreMove
<1>3. ASSUME NEW m \in Makers, MakerStop(m) \/ ServeQuote(m)
      PROVE  StoreMove
  BY <1>3 DEF MakerStop, ServeQuote, StoreMove
<1>4. ASSUME NEW m \in Makers, ServeReserve(m)
      PROVE  StoreMove
  BY <1>4, Booking DEF ServeReserve, Book, StoreMove
<1>5. ASSUME NEW s \in Sessions, NEW reserve \in BOOLEAN, RunRfq(s, reserve)
      PROVE  StoreMove
  BY <1>5 DEF RunRfq, StoreMove, storeVars
<1>6. ASSUME NEW s \in Sessions, Ask(s) \/ GiveUp(s) \/ Select(s) \/ WriteSelected(s) \/ Accept(s)
      PROVE  StoreMove
  BY <1>6 DEF Ask, GiveUp, Select, WriteSelected, Accept, StoreMove, storeVars
<1>7. ASSUME NEW s \in Sessions, CheckReservation(s)
      PROVE  StoreMove
  BY <1>7 DEF CheckReservation, StoreMove
<1>8. ASSUME NEW s \in Sessions, Attach(s) \/ Die(s)
      PROVE  StoreMove
  BY <1>8 DEF Attach, Die, StoreMove
<1>9. ASSUME NEW s \in Sessions, NEW r \in Requests, Settle(s, r)
      PROVE  StoreMove
  BY <1>9 DEF Settle, StoreMove
<1>10. CASE UNCHANGED vars
  BY <1>10 DEF vars, storeVars, StoreMove
<1> QED
  BY <1>1, <1>2, <1>3, <1>4, <1>5, <1>6, <1>7, <1>8, <1>9, <1>10 DEF Next, ClientStep

LEMMA MoveIsStep == StoreMove => [Store!Next]_(Store!vars)
<1> SUFFICES ASSUME StoreMove PROVE [Store!Next]_(Store!vars)
  OBVIOUS
<1> DEFINE Stock == UNION {{Inventory(c) : c \in Configs[m]} : m \in Makers}
<1>1. CASE UNCHANGED <<storeVars, clock>>
  BY <1>1 DEF storeVars, Store!vars, Store!ledgerVars, Store!callVars
<1>2. CASE Store!Tick
  BY <1>2 DEF Store!Next
<1>3. ASSUME NEW m \in Makers, NEW c \in Configs[m], Store!EnsureSolverLedger(m, Inventory(c))
      PROVE  Store!Next
  <2>1. Inventory(c) \in Stock
    OBVIOUS
  <2> QED
    BY <1>3, <2>1 DEF Store!Next
<1>4. ASSUME NEW r \in Requests, Store!Reserve(r) \/ Store!ConsumeReservation(r)
      PROVE  Store!Next
  BY <1>4 DEF Store!Next
<1>5. ASSUME NEW s \in Sessions, NEW r \in Requests, Store!AttachRead(s, r, s)
      PROVE  Store!Next
  BY <1>5 DEF Store!Next
<1>6. ASSUME NEW s \in Sessions,
             Store!AttachReadSwap(s) \/ Store!AttachUpdate(s) \/ Store!AttachCrash(s)
      PROVE  Store!Next
  BY <1>6 DEF Store!Next
<1> QED
  BY <1>1, <1>2, <1>3, <1>4, <1>5, <1>6 DEF StoreMove

\* What the proofs of Ledger speak of is the same store.
LEMMA SameStore ==
    /\ Store!TypeOK <=> Proved!TypeOK
    /\ Store!TypeOK' <=> Proved!TypeOK'
    /\ Store!Init <=> Proved!Init
    /\ [Store!Next]_(Store!vars) <=> [Proved!Next]_(Proved!vars)
<1>1. /\ Store!TypeOK <=> Proved!TypeOK
      /\ Store!TypeOK' <=> Proved!TypeOK'
  BY DEF Store!TypeOK, Proved!TypeOK, Store!RowStates, Proved!RowStates, Store!SwapRows,
         Proved!SwapRows, Store!Jobs, Proved!Jobs
<1>2. Store!Init <=> Proved!Init
  BY DEF Store!Init, Proved!Init
<1>3. [Store!Next]_(Store!vars) <=> [Proved!Next]_(Proved!vars)
  BY DEF Store!Next, Proved!Next, Store!vars, Proved!vars, Store!ledgerVars,
         Proved!ledgerVars, Store!callVars, Proved!callVars, Store!Tick, Proved!Tick,
         Store!EnsureSolverLedger, Proved!EnsureSolverLedger, Store!Reserve, Proved!Reserve,
         Store!Reservable, Proved!Reservable, Store!Conflicts, Proved!Conflicts,
         Store!ConsumeReservation, Proved!ConsumeReservation,
         Store!ReleaseReservation, Proved!ReleaseReservation,
         Store!Releaseable, Proved!Releaseable, Store!AttachRead, Proved!AttachRead,
         Store!AttachReadSwap, Proved!AttachReadSwap, Store!Return, Proved!Return,
         Store!AttachUpdate, Proved!AttachUpdate, Store!AttachReread, Proved!AttachReread,
         Store!AttachCrash, Proved!AttachCrash, Store!InsertSwap, Proved!InsertSwap,
         Store!TransitionSwap, Proved!TransitionSwap
<1> QED
  BY <1>1, <1>2, <1>3

\* The store's own invariants hold of the makers' stores, as Ledger proves them.
LEMMA StoreTypeStep ==
    ASSUME Store!TypeOK, [Store!Next]_(Store!vars)
    PROVE  Store!TypeOK'
  BY Proved!TypeStep, StoreAssumptions, SumAssumption, SameStore

LEMMA StoreInit == Init => Store!TypeOK
  BY Proved!TypeInit, StoreAssumptions, SumAssumption, SameStore DEF Init

\* Rows and bindings only advance, and a ledger row keeps its asset.
LEMMA RowsAdvance ==
    ASSUME Shapes, Rows, StoreMove
    PROVE  /\ \A r \in Requests :
                /\ row'[r] \in {"ABSENT", "HELD", "CONSUMED"}
                /\ row[r] # "ABSENT" => row'[r] # "ABSENT"
           /\ \A m \in Makers : asset[m] # NoAsset => asset'[m] = asset[m]
<1> USE DEF Shapes, Rows, Store!TypeOK
<1>1. CASE UNCHANGED <<storeVars, clock>>
  BY <1>1 DEF storeVars
<1>2. CASE Store!Tick
  BY <1>2 DEF Store!Tick, Store!ledgerVars
<1>3. ASSUME NEW m \in Makers, NEW c \in Configs[m], Store!EnsureSolverLedger(m, Inventory(c))
      PROVE  row' = row /\ \A n \in Makers : asset[n] # NoAsset => asset'[n] = asset[n]
  BY <1>3 DEF Store!EnsureSolverLedger
<1>4. ASSUME NEW r \in Requests, Store!Reserve(r) \/ Store!ConsumeReservation(r)
      PROVE  asset' = asset /\ \E state \in {"HELD", "CONSUMED"} : row' = [row EXCEPT ![r] = state]
  BY <1>4 DEF Store!Reserve, Store!ConsumeReservation
<1>5. ASSUME NEW s \in Sessions,
             \/ \E r \in Requests : Store!AttachRead(s, r, s)
             \/ Store!AttachReadSwap(s) \/ Store!AttachUpdate(s) \/ Store!AttachCrash(s)
      PROVE  row' = row /\ asset' = asset
  BY <1>5 DEF Store!AttachRead, Store!AttachReadSwap, Store!AttachUpdate, Store!AttachCrash,
              Store!ledgerVars
<1> QED
  BY <1>1, <1>2, <1>3, <1>4, <1>5 DEF StoreMove

LEMMA RowsStep ==
    ASSUME Shapes, Rows, StoreMove
    PROVE  Rows'
<1> USE DEF Shapes, Store!TypeOK
<1>1. \A r \in Requests : row[r] # "ABSENT" => asset[r.solver] # NoAsset /\ r.solver \in Makers
  BY RequestFields DEF Rows
<1>2. ASSUME NEW r \in Requests, Store!Reserve(r)
      PROVE  Rows'
  <2>1. /\ row' = [row EXCEPT ![r] = "HELD"] /\ asset' = asset
        /\ asset[r.solver] = r.asset
        /\ \A other \in Requests : Store!Conflicts(r, other) => row[other] = "ABSENT"
    BY <1>2 DEF Store!Reserve, Store!Reservable
  <2>2. \A q \in Requests : row'[q] = IF q = r THEN "HELD" ELSE row[q]
    BY <2>1
  <2>3. \A q, other \in Requests : Store!Conflicts(q, other) => Store!Conflicts(other, q)
    BY DEF Store!Conflicts
  <2>4. \A q, other \in Requests :
            Store!Conflicts(q, other)' <=> Store!Conflicts(q, other)
    BY DEF Store!Conflicts
  <2> QED
    BY <2>1, <2>2, <2>3, <2>4 DEF Rows
<1>3. ASSUME \A q \in Requests : row'[q] # "ABSENT" => row[q] # "ABSENT"
      PROVE  Rows'
  <2>1. \A q \in Requests : row'[q] # "ABSENT" => asset'[q.solver] = q.asset
    BY <1>1, <1>3, RowsAdvance DEF Rows
  <2>2. \A q, other \in Requests :
            Store!Conflicts(q, other)' <=> Store!Conflicts(q, other)
    BY DEF Store!Conflicts
  <2> QED
    BY <1>3, <2>1, <2>2, RowsAdvance DEF Rows
<1>4. CASE UNCHANGED row
  BY <1>3, <1>4
<1>5. ASSUME NEW r \in Requests, Store!ConsumeReservation(r)
      PROVE  Rows'
  <2>1. row[r] = "HELD" /\ row' = [row EXCEPT ![r] = "CONSUMED"]
    BY <1>5 DEF Store!ConsumeReservation
  <2> QED
    BY <1>3, <2>1
<1> QED
  BY <1>2, <1>4, <1>5 DEF StoreMove, storeVars, Store!Tick, Store!EnsureSolverLedger,
     Store!AttachRead, Store!AttachReadSwap, Store!AttachUpdate, Store!AttachCrash

-------------------------------------------------------------------------------
\* Among quotes there is one that precedes all, so that `xmm rfq` selects one.
LEMMA SomeFirst ==
    ASSUME NEW quotes \in Seq(Signed), quotes # <<>>
    PROVE  \E k \in DOMAIN quotes : \A j \in DOMAIN quotes : Precedes(quotes, k, j)
<1> DEFINE fee(i) == quotes[i].quote.fee_lbtc
           amount(i) == quotes[i].quote.amount_out
<1>1. DOMAIN quotes = 1..Len(quotes) /\ Len(quotes) \in Nat \ {0}
  OBVIOUS
<1>2. ASSUME NEW i \in DOMAIN quotes
      PROVE  fee(i) \in Nat /\ amount(i) \in 0..MaxU64
  <2>1. quotes[i] \in Signed
    OBVIOUS
  <2> QED
    BY <2>1, SignedQuotes, Offers
<1> DEFINE fees == {fee(i) : i \in DOMAIN quotes}
<1>3. PICK f \in fees : \A g \in fees : f <= g
  <2>1. fees \subseteq Nat /\ fees # {}
    BY <1>1, <1>2
  <2> HIDE DEF fees
  <2> QED
    BY <2>1, LeastNatural
<1> DEFINE cheap == {i \in DOMAIN quotes : fee(i) = f}
           short(i) == MaxU64 - amount(i)
           rests == {short(i) : i \in cheap}
<1>4. \A i \in DOMAIN quotes : short(i) \in Nat
  BY <1>2, BoundsAssumption
<1>5. PICK a \in rests : \A b \in rests : a <= b
  <2>1. rests \subseteq Nat /\ rests # {}
    BY <1>3, <1>4
  <2> HIDE DEF rests
  <2> QED
    BY <2>1, LeastNatural
<1> DEFINE best == {i \in cheap : short(i) = a}
<1>6. PICK k \in best : \A j \in best : k <= j
  <2>1. best \subseteq Nat /\ best # {}
    BY <1>1, <1>5
  <2> HIDE DEF best
  <2> QED
    BY <2>1, LeastNatural
<1>7. ASSUME NEW j \in DOMAIN quotes
      PROVE  Precedes(quotes, k, j)
  <2>1. k \in DOMAIN quotes /\ fee(k) = f /\ short(k) = a
    BY <1>6
  <2>2. fee(k) <= fee(j)
    BY <1>3, <2>1
  <2>3. fee(j) = fee(k) => amount(k) >= amount(j)
    <3>1. ASSUME fee(j) = fee(k) PROVE short(k) <= short(j)
      BY <1>5, <2>1, <3>1
    <3> QED
      BY <3>1, <1>2, <2>1, BoundsAssumption
  <2>4. fee(j) = fee(k) /\ amount(j) = amount(k) => k <= j
    BY <1>6, <2>1
  <2>5. fee(j) \in Nat /\ fee(k) \in Nat /\ amount(j) \in Nat /\ amount(k) \in Nat
    BY <1>2, <2>1
  <2> QED
    BY <2>2, <2>3, <2>4, <2>5 DEF Precedes
<1> QED
  BY <1>6, <1>7

LEMMA Selection ==
    ASSUME Shapes, NEW s \in Sessions, Len(Got(s)) = Len(Peers)
    PROVE  /\ Chosen(s) \in Selections
           /\ \E i \in DOMAIN Got(s) : Chosen(s).signed = Got(s)[i]
<1>1. Got(s) \in Seq(Signed) /\ Got(s) # <<>> /\ DOMAIN Got(s) = DOMAIN Peers
  BY PeersAssumption DEF Shapes, Commands, Got
<1> DEFINE first(k) == \A j \in DOMAIN Got(s) : Precedes(Got(s), k, j)
           i == CHOOSE k \in DOMAIN Got(s) : first(k)
<1>2. \E k \in DOMAIN Got(s) : first(k)
  BY <1>1, SomeFirst
<1> HIDE DEF first
<1>3. i \in DOMAIN Got(s)
  BY <1>2
<1>4. Chosen(s) = [maker |-> Peers[i], signed |-> Got(s)[i]]
  BY DEF Chosen, first
<1> HIDE DEF i
<1>5. Peers[i] \in Makers /\ Got(s)[i] \in Signed
  BY <1>1, <1>3, PeersAssumption
<1> QED
  BY <1>3, <1>4, <1>5 DEF Selections

\* A command that goes on.
LEMMA Going ==
    ASSUME Shapes, NEW s \in Sessions, NEW step \in Steps, Goto(s, step)
    PROVE  /\ command' \in [Sessions -> Commands]
           /\ \A t \in Sessions : t # s => command'[t] = command[t]
           /\ At(s)' = step
           /\ Got(s)' = IF step = "idle" THEN <<>> ELSE Got(s)
<1>1. command \in [Sessions -> Commands] /\ command[s] \in Commands
  BY DEF Shapes
<1>2. [command[s] EXCEPT !.at = step] \in Commands
  BY <1>1 DEF Commands
<1>3. Idle \in Commands /\ Idle.at = "idle" /\ Idle.quotes = <<>>
  BY EmptySeq DEF Idle, Command, Commands, Steps
<1>4. command'[s] = IF step = "idle" THEN Idle ELSE [command[s] EXCEPT !.at = step]
  BY <1>1 DEF Goto
<1>5. [command[s] EXCEPT !.at = step].at = step /\ [command[s] EXCEPT !.at = step].quotes = Got(s)
  BY <1>1 DEF Commands, Got
<1>6. At(s)' = step /\ Got(s)' = IF step = "idle" THEN <<>> ELSE Got(s)
  BY <1>3, <1>4, <1>5 DEF At, Got
<1>7. command' \in [Sessions -> Commands] /\ \A t \in Sessions : t # s => command'[t] = command[t]
  BY <1>1, <1>2, <1>3 DEF Goto
<1> QED
  BY <1>6, <1>7

-------------------------------------------------------------------------------
\* A message that waits, in any inbox, and what is awaited of it.
LEMMA Waiting ==
    ASSUME Shapes, NEW m \in Makers, NEW i \in DOMAIN inbox[m]
    PROVE  inbox[m][i] \in Messages /\ inbox[m][i].session \in Sessions
<1>1. inbox[m] \in Seq(Messages)
  BY DEF Shapes
<1>2. inbox[m][i] \in Messages
  BY <1>1
<1> QED
  BY <1>2 DEF Messages

\* Connections vanish or are given up, and only commands that wait for none of
\* those that remain go on.
LEMMA AwaitedFewer ==
    ASSUME Shapes, Awaited,
           \A m \in Makers : \A i \in DOMAIN inbox'[m] :
                /\ i \in DOMAIN inbox[m]
                /\ inbox'[m][i].session = inbox[m][i].session
                /\ inbox'[m][i].signed = inbox[m][i].signed
                /\ inbox'[m][i].live =>
                        /\ inbox[m][i].live
                        /\ command'[inbox[m][i].session].at = At(inbox[m][i].session)
    PROVE  Awaited'
<1>1. ASSUME NEW m \in Makers, NEW i \in DOMAIN inbox'[m], inbox'[m][i].live
      PROVE  command'[inbox'[m][i].session].at =
                    IF inbox'[m][i].signed = None THEN "quoting" ELSE "reserving"
  BY <1>1 DEF Awaited
<1>2. ASSUME NEW m \in Makers, NEW n \in Makers,
             NEW i \in DOMAIN inbox'[m], NEW j \in DOMAIN inbox'[n],
             inbox'[m][i].live, inbox'[n][j].live,
             inbox'[m][i].session = inbox'[n][j].session
      PROVE  m = n /\ i = j
  BY <1>2 DEF Awaited
<1> QED
  BY <1>1, <1>2 DEF Awaited, At

LEMMA AwaitedQuiet ==
    ASSUME Shapes, Awaited,
           \A n \in Makers : inbox'[n] \in {inbox[n], <<>>},
           \A t \in Sessions : At(t) \in {"quoting", "reserving"} => At(t)' = At(t)
    PROVE  Awaited'
<1>1. ASSUME NEW m \in Makers, NEW i \in DOMAIN inbox'[m]
      PROVE  i \in DOMAIN inbox[m] /\ inbox'[m][i] = inbox[m][i]
  OBVIOUS
<1>2. ASSUME NEW m \in Makers, NEW i \in DOMAIN inbox[m], inbox[m][i].live
      PROVE  command'[inbox[m][i].session].at = At(inbox[m][i].session)
  BY <1>2, Waiting DEF Awaited, At
<1> QED
  BY <1>1, <1>2, AwaitedFewer

\* A command sends and waits.
LEMMA AwaitedSent ==
    ASSUME Shapes, Awaited, NEW s \in Sessions, NEW m \in Makers,
           NEW signed \in Signed \cup {None},
           At(s) \notin {"quoting", "reserving"},
           At(s)' = IF signed = None THEN "quoting" ELSE "reserving",
           \A t \in Sessions : t # s => command'[t] = command[t],
           inbox' = [inbox EXCEPT ![m] =
                        Append(@, [session |-> s, signed |-> signed, live |-> TRUE])]
    PROVE  Awaited'
<1> DEFINE msg == [session |-> s, signed |-> signed, live |-> TRUE]
           last == Len(inbox[m]) + 1
<1>1. \A n \in Makers : inbox[n] \in Seq(Messages)
  BY DEF Shapes
<1>2. \A n \in Makers : inbox'[n] = IF n = m THEN Append(inbox[m], msg) ELSE inbox[n]
  BY DEF Shapes
<1>3. ASSUME NEW n \in Makers, NEW i \in DOMAIN inbox'[n]
      PROVE  \/ n = m /\ i = last /\ inbox'[n][i] = msg
             \/ i \in DOMAIN inbox[n] /\ inbox'[n][i] = inbox[n][i]
  BY <1>1, <1>2
<1>4. ASSUME NEW n \in Makers, NEW i \in DOMAIN inbox[n], inbox[n][i].live
      PROVE  inbox[n][i].session # s
  BY <1>4, Waiting DEF Awaited
<1>5. ASSUME NEW n \in Makers, NEW i \in DOMAIN inbox'[n], inbox'[n][i].live
      PROVE  command'[inbox'[n][i].session].at =
                    IF inbox'[n][i].signed = None THEN "quoting" ELSE "reserving"
  <2>1. CASE inbox'[n][i] = msg
    BY <2>1 DEF At
  <2>2. CASE i \in DOMAIN inbox[n] /\ inbox'[n][i] = inbox[n][i]
    BY <1>4, <1>5, <2>2, Waiting DEF Awaited, At
  <2> QED
    BY <1>3, <2>1, <2>2
<1>6. ASSUME NEW n \in Makers, NEW k \in Makers,
             NEW i \in DOMAIN inbox'[n], NEW j \in DOMAIN inbox'[k],
             inbox'[n][i].live, inbox'[k][j].live,
             inbox'[n][i].session = inbox'[k][j].session
      PROVE  n = k /\ i = j
  <2>1. msg.session = s
    OBVIOUS
  <2> HIDE DEF msg, last
  <2> QED
    BY <1>3, <1>4, <1>6, <2>1 DEF Awaited
<1> QED
  BY <1>5, <1>6 DEF Awaited, At

\* A client gives up; nothing that it sent is answered to it any more.
LEMMA AwaitedGivenUp ==
    ASSUME Shapes, Awaited, NEW s \in Sessions,
           \A t \in Sessions : t # s => command'[t] = command[t],
           inbox' = [m \in Makers |->
                        [i \in DOMAIN inbox[m] |->
                            [inbox[m][i] EXCEPT !.live = @ /\ inbox[m][i].session # s]]]
    PROVE  Awaited' /\ inbox' \in [Makers -> Seq(Messages)]
                    /\ \A m \in Makers : Len(inbox'[m]) = Len(inbox[m])
<1>1. \A m \in Makers : DOMAIN inbox'[m] = DOMAIN inbox[m]
  OBVIOUS
<1>2. ASSUME NEW m \in Makers, NEW i \in DOMAIN inbox[m]
      PROVE  /\ inbox'[m][i] \in Messages
             /\ inbox'[m][i].session = inbox[m][i].session
             /\ inbox'[m][i].signed = inbox[m][i].signed
             /\ inbox'[m][i].live => inbox[m][i].live /\ inbox[m][i].session # s
  <2>1. inbox'[m][i] = [inbox[m][i] EXCEPT !.live = @ /\ inbox[m][i].session # s]
    OBVIOUS
  <2>2. inbox[m][i] \in Messages
    BY Waiting
  <2> HIDE DEF Messages
  <2>3. inbox[m][i].live \in BOOLEAN
    BY <2>2 DEF Messages
  <2> DEFINE b == inbox[m][i].live /\ inbox[m][i].session # s
  <2>4. b \in BOOLEAN /\ (b => inbox[m][i].live /\ inbox[m][i].session # s)
    BY <2>3
  <2>5. inbox'[m][i] = [inbox[m][i] EXCEPT !.live = b]
    BY <2>1
  <2> HIDE DEF b
  <2> QED
    BY <2>2, <2>4, <2>5 DEF Messages
<1>3. ASSUME NEW m \in Makers
      PROVE  inbox'[m] \in Seq(Messages) /\ Len(inbox'[m]) = Len(inbox[m])
  <2>1. inbox[m] \in Seq(Messages)
    BY DEF Shapes
  <2>2. Len(inbox[m]) \in Nat /\ DOMAIN inbox[m] = 1..Len(inbox[m])
    BY <2>1
  <2>3. inbox'[m] \in [1..Len(inbox[m]) -> Messages]
    BY <2>2, <1>2
  <2> HIDE DEF Messages
  <2>4. inbox'[m] \in Seq(Messages)
    BY <2>2, <2>3, SeqDef
  <2> QED
    BY <2>2, <2>3, <2>4, LenProperties
<1>4. inbox' \in [Makers -> Seq(Messages)]
  BY <1>3
<1>5. ASSUME NEW m \in Makers, NEW i \in DOMAIN inbox[m], inbox[m][i].session # s
      PROVE  command'[inbox[m][i].session].at = At(inbox[m][i].session)
  BY <1>5, Waiting DEF At
<1> QED
  BY <1>1, <1>2, <1>3, <1>4, <1>5, AwaitedFewer

LEMMA TailOf ==
    ASSUME NEW S, NEW q \in Seq(S), q # <<>>, NEW i \in DOMAIN Tail(q)
    PROVE  i \in Nat /\ i + 1 \in DOMAIN q /\ i + 1 # 1 /\ Tail(q)[i] = q[i + 1]
<1>1. /\ Len(q) \in Nat /\ DOMAIN q = 1..Len(q) /\ DOMAIN Tail(q) = 1..(Len(q) - 1)
      /\ \A k \in 1..(Len(q) - 1) : Tail(q)[k] = q[k + 1]
  BY HeadTailProperties, LenProperties
<1>2. i \in 1..(Len(q) - 1)
  BY <1>1
<1> QED
  BY <1>1, <1>2

\* A maker serves a connection, and its client, if it waits, goes on.
LEMMA AwaitedServed ==
    ASSUME Shapes, Awaited, NEW m \in Makers, inbox[m] # <<>>,
           \A t \in Sessions :
                ~(Head(inbox[m]).live /\ t = Head(inbox[m]).session)
                    => command'[t] = command[t],
           inbox' = [inbox EXCEPT ![m] = Tail(@)]
    PROVE  Awaited' /\ inbox' \in [Makers -> Seq(Messages)]
                    /\ \A n \in Makers : Len(inbox'[n]) <= Len(inbox[n])
<1>1. \A n \in Makers : inbox[n] \in Seq(Messages)
  BY DEF Shapes
<1>2. \A n \in Makers : inbox'[n] = IF n = m THEN Tail(inbox[m]) ELSE inbox[n]
  BY DEF Shapes
<1> DEFINE was(n, i) == IF n = m THEN i + 1 ELSE i
<1>3. ASSUME NEW n \in Makers, NEW i \in DOMAIN inbox'[n]
      PROVE  /\ was(n, i) \in DOMAIN inbox[n]
             /\ inbox'[n][i] = inbox[n][was(n, i)]
             /\ n = m => was(n, i) # 1
             /\ i \in Nat
  <2>1. CASE n = m
    <3>1. inbox'[n] = Tail(inbox[m]) /\ inbox[m] \in Seq(Messages) /\ inbox[m] # <<>>
      BY <1>1, <1>2, <2>1
    <3>2. /\ i \in Nat /\ i + 1 \in DOMAIN inbox[m] /\ i + 1 # 1
          /\ inbox'[n][i] = inbox[m][i + 1]
      BY <3>1, TailOf
    <3> QED
      BY <2>1, <3>2
  <2>2. CASE n # m
    BY <1>1, <1>2, <2>2
  <2> QED
    BY <2>1, <2>2
<1>4. Head(inbox[m]) = inbox[m][1] /\ 1 \in DOMAIN inbox[m]
  BY <1>1
<1> HIDE DEF was
<1>5. ASSUME NEW n \in Makers, NEW i \in DOMAIN inbox'[n], inbox'[n][i].live
      PROVE  command'[inbox'[n][i].session] = command[inbox[n][was(n, i)].session]
  <2>1. ~(Head(inbox[m]).live /\ inbox'[n][i].session = Head(inbox[m]).session)
    BY <1>3, <1>4, <1>5 DEF Awaited
  <2> QED
    BY <1>3, <2>1, Waiting
<1>6. ASSUME NEW n \in Makers, NEW i \in DOMAIN inbox'[n], inbox'[n][i].live
      PROVE  command'[inbox'[n][i].session].at =
                    IF inbox'[n][i].signed = None THEN "quoting" ELSE "reserving"
  BY <1>3, <1>5, <1>6 DEF Awaited, At
<1>7. ASSUME NEW n \in Makers, NEW k \in Makers,
             NEW i \in DOMAIN inbox'[n], NEW j \in DOMAIN inbox'[k],
             inbox'[n][i].live, inbox'[k][j].live,
             inbox'[n][i].session = inbox'[k][j].session
      PROVE  n = k /\ i = j
  <2>1. n = k /\ was(n, i) = was(k, j)
    BY <1>3, <1>7 DEF Awaited
  <2> QED
    BY <1>3, <2>1 DEF was
<1>8. inbox' \in [Makers -> Seq(Messages)]
  <2>1. Tail(inbox[m]) \in Seq(Messages)
    BY <1>1
  <2> QED
    BY <2>1 DEF Shapes
<1>9. \A n \in Makers : Len(inbox'[n]) <= Len(inbox[n])
  BY <1>1, <1>2
<1> QED
  BY <1>6, <1>7, <1>8, <1>9 DEF Awaited, At

-------------------------------------------------------------------------------
\* What travels and what waits for it.
Wires ==
    /\ inbox \in [Makers -> Seq(Messages)]
    /\ \A m \in Makers : Len(inbox[m]) <= MaxBacklog
    /\ command \in [Sessions -> Commands]
    /\ Awaited
    /\ Progress

LEMMA Moved ==
    ASSUME Shapes, Progress, NEW s \in Sessions, NEW step \in Steps, Goto(s, step),
           \A t \in Sessions : t # s => pc'[t] = pc[t],
           step = "attach" <=> pc'[s] # "idle",
           step = "quoting" => Len(Got(s)) < Len(Peers),
           step \in {"reserving", "write"} => Len(Got(s)) = Len(Peers)
    PROVE  Progress'
<1>1. /\ \A t \in Sessions : t # s => command'[t] = command[t]
      /\ At(s)' = step
      /\ Got(s)' = IF step = "idle" THEN <<>> ELSE Got(s)
  BY Going
<1>2. Len(Peers) \in Nat /\ Len(<<>>) = 0
  BY PeersAssumption
<1>3. /\ Len(Got(s)') <= Len(Peers)
      /\ At(s)' = "quoting" => Len(Got(s)') < Len(Peers)
      /\ At(s)' \in {"reserving", "write"} => Len(Got(s)') = Len(Peers)
      /\ At(s)' = "attach" <=> pc'[s] # "idle"
  BY <1>1, <1>2 DEF Progress
<1>4. ASSUME NEW t \in Sessions, t # s
      PROVE  At(t)' = At(t) /\ Got(t)' = Got(t) /\ pc'[t] = pc[t]
  BY <1>1, <1>4 DEF At, Got
<1>5. ASSUME NEW t \in Sessions
      PROVE  /\ Len(Got(t)') <= Len(Peers)
             /\ At(t)' = "quoting" => Len(Got(t)') < Len(Peers)
             /\ At(t)' \in {"reserving", "write"} => Len(Got(t)') = Len(Peers)
             /\ At(t)' = "attach" <=> pc'[t] # "idle"
  <2>1. CASE t = s
    BY <1>3, <2>1
  <2>2. CASE t # s
    BY <1>4, <2>2 DEF Progress
  <2> QED
    BY <2>1, <2>2
<1> QED
  BY <1>5 DEF Progress

\* A command that waits for no answer goes on without sending anything.
LEMMA WiresQuiet ==
    ASSUME Shapes, Awaited, Progress, NEW s \in Sessions, NEW step \in Steps, Goto(s, step),
           At(s) \notin {"quoting", "reserving"}, UNCHANGED inbox,
           \A t \in Sessions : t # s => pc'[t] = pc[t],
           step = "attach" <=> pc'[s] # "idle",
           step = "quoting" => Len(Got(s)) < Len(Peers),
           step \in {"reserving", "write"} => Len(Got(s)) = Len(Peers)
    PROVE  Wires'
<1>1. command' \in [Sessions -> Commands] /\ \A t \in Sessions : t # s => At(t)' = At(t)
  BY Going DEF At
<1>2. Awaited'
  BY <1>1, AwaitedQuiet
<1>3. Progress'
  BY Moved
<1> QED
  BY <1>1, <1>2, <1>3 DEF Wires, Shapes

\* A command sends, or finds the maker down or full and is over.
LEMMA WiresSent ==
    ASSUME Shapes, Awaited, Progress, NEW s \in Sessions, NEW m \in Makers,
           NEW signed \in Signed \cup {None}, At(s) = "ask", UNCHANGED pc,
           IF signed = None THEN Len(Got(s)) < Len(Peers) ELSE Len(Got(s)) = Len(Peers),
           Send(s, m, signed, IF signed = None THEN "quoting" ELSE "reserving")
    PROVE  Wires'
<1> DEFINE step == IF signed = None THEN "quoting" ELSE "reserving"
           msg == [session |-> s, signed |-> signed, live |-> TRUE]
<1>1. pc[s] = "idle"
  BY DEF Progress
<1>2. CASE Goto(s, "idle") /\ UNCHANGED inbox
  <2>1. "idle" \in Steps
    BY DEF Steps
  <2> QED
    BY <1>1, <1>2, <2>1, WiresQuiet
<1>3. CASE /\ Len(inbox[m]) # MaxBacklog
           /\ inbox' = [inbox EXCEPT ![m] = Append(@, msg)]
           /\ Goto(s, step)
  <2>1. step \in Steps
    BY DEF Steps
  <2>2. /\ command' \in [Sessions -> Commands]
        /\ \A t \in Sessions : t # s => command'[t] = command[t]
        /\ At(s)' = step
    BY <1>3, <2>1, Going
  <2>3. Awaited'
    BY <1>3, <2>2, AwaitedSent
  <2>4. Progress'
    BY <1>1, <1>3, <2>1, Moved
  <2>5. msg \in Messages
    BY DEF Messages
  <2> HIDE DEF msg
  <2>6. inbox[m] \in Seq(Messages) /\ Len(inbox[m]) <= MaxBacklog
    BY DEF Shapes
  <2>7. Append(inbox[m], msg) \in Seq(Messages) /\ Len(Append(inbox[m], msg)) = Len(inbox[m]) + 1
    BY <2>5, <2>6, AppendProperties
  <2>8. Len(inbox[m]) + 1 <= MaxBacklog
    BY <1>3, <2>6, BoundsAssumption
  <2>9. \A n \in Makers : inbox'[n] = IF n = m THEN Append(inbox[m], msg) ELSE inbox[n]
    BY <1>3 DEF Shapes
  <2>10. inbox' \in [Makers -> Seq(Messages)]
    BY <1>3, <2>7 DEF Shapes
  <2>11. \A n \in Makers : Len(inbox'[n]) <= MaxBacklog
    BY <2>7, <2>8, <2>9 DEF Shapes
  <2> QED
    BY <2>2, <2>3, <2>4, <2>10, <2>11 DEF Wires
<1> QED
  BY <1>2, <1>3 DEF Send

\* A maker serves a connection; the command that still waits goes on or is over.
LEMMA WiresServed ==
    ASSUME Shapes, Awaited, Progress, NEW m \in Makers, NEW reservation,
           Serves(m, reservation), UNCHANGED pc,
           NEW result, Answer(Head(inbox[m]), result),
           Head(inbox[m]).live =>
                /\ result \in Commands
                /\ result.at \in {"ask", "write", "idle"}
                /\ Len(result.quotes) <= Len(Peers)
                /\ result.at = "write" => Len(result.quotes) = Len(Peers)
    PROVE  Wires'
<1> DEFINE msg == Head(inbox[m])
           s == msg.session
<1>1. inbox[m] # <<>> /\ inbox[m] \in Seq(Messages) /\ inbox' = [inbox EXCEPT ![m] = Tail(@)]
  BY DEF Serves, Shapes
<1>2. 1 \in DOMAIN inbox[m] /\ msg = inbox[m][1]
  BY <1>1
<1>3. msg \in Messages /\ s \in Sessions
  BY <1>2, Waiting
<1>4. msg.live => At(s) \in {"quoting", "reserving"}
  BY <1>2 DEF Awaited
<1>5. msg.live => pc[s] = "idle"
  BY <1>3, <1>4 DEF Progress
<1> HIDE DEF msg
<1>6. /\ command \in [Sessions -> Commands]
      /\ command' = IF msg.live THEN [command EXCEPT ![s] = result] ELSE command
      /\ msg.live => result \in Commands
  BY DEF Answer, Shapes, msg
<1>7. \A t \in Sessions : command'[t] = IF msg.live /\ t = s THEN result ELSE command[t]
  BY <1>3, <1>6
<1>8. command' \in [Sessions -> Commands]
  BY <1>3, <1>6
<1>9. /\ Awaited' /\ inbox' \in [Makers -> Seq(Messages)]
      /\ \A n \in Makers : Len(inbox'[n]) <= Len(inbox[n])
  <2>1. \A t \in Sessions : ~(msg.live /\ t = s) => command'[t] = command[t]
    BY <1>7
  <2> QED
    BY <1>1, <2>1, AwaitedServed DEF msg
<1>10. \A n \in Makers : Len(inbox'[n]) <= MaxBacklog
  <2> TAKE n \in Makers
  <2>1. inbox'[n] \in Seq(Messages) /\ inbox[n] \in Seq(Messages)
    BY <1>9 DEF Shapes
  <2> QED
    BY <1>9, <2>1, LenProperties, BoundsAssumption DEF Shapes
<1>11. Progress'
  <2> SUFFICES ASSUME NEW t \in Sessions
               PROVE  /\ Len(Got(t)') <= Len(Peers)
                      /\ At(t)' = "quoting" => Len(Got(t)') < Len(Peers)
                      /\ At(t)' \in {"reserving", "write"} => Len(Got(t)') = Len(Peers)
                      /\ At(t)' = "attach" <=> pc'[t] # "idle"
    BY DEF Progress
  <2>1. CASE msg.live /\ t = s
    <3>1. At(t)' = result.at /\ Got(t)' = result.quotes /\ pc'[t] = "idle"
      BY <1>5, <1>7, <2>1 DEF At, Got
    <3> QED
      BY <2>1, <3>1 DEF msg
  <2>2. CASE ~(msg.live /\ t = s)
    <3>1. At(t)' = At(t) /\ Got(t)' = Got(t) /\ pc'[t] = pc[t]
      BY <1>7, <2>2 DEF At, Got
    <3> QED
      BY <3>1 DEF Progress
  <2> QED
    BY <2>1, <2>2
<1> QED
  BY <1>8, <1>9, <1>10, <1>11 DEF Wires

LEMMA WiresQuote ==
    ASSUME Shapes, Awaited, Progress, NEW m \in Makers, ServeQuote(m)
    PROVE  Wires'
<1> DEFINE msg == Head(inbox[m])
           s == msg.session
           c == config[m]
           quote == MakerQuote(Intent[s], Solver(m, c), Validity, clock)
           quotable == Quotable(Intent[s], AssetHash, c.asset, c.rate)
           answer == Command("ask", command[s].reserve, Append(Got(s), SignQuote(quote, m)))
<1>1. /\ inbox[m] # <<>> /\ inbox[m] \in Seq(Messages) /\ c # None /\ c \in Configs[m]
      /\ msg.signed = None
  BY DEF ServeQuote, Serves, Shapes
<1>2. 1 \in DOMAIN inbox[m] /\ msg = inbox[m][1]
  BY <1>1
<1>3. s \in Sessions
  BY <1>2, Waiting
<1>4. msg.live => At(s) = "quoting"
  BY <1>1, <1>2 DEF Awaited
<1>5. ASSUME quotable PROVE SignQuote(quote, m) \in Signed
  <2>1. quote \in MakersOffers(m)
    <3>1. clock \in 0..MaxClock
      BY BoundsAssumption DEF Shapes, Store!TypeOK
    <3> QED
      BY <1>1, <1>3, <3>1 DEF MakersOffers
  <2>2. quote.amount_out = RatedAmount(Intent[s].amount_in, Solver(m, c).rate)
    BY QuotedFields
  <2>3. RatedAmount(Intent[s].amount_in, c.rate) # None
    BY <1>5 DEF Quotable
  <2>4. quote.amount_out # None
    BY <2>2, <2>3 DEF Solver
  <2> HIDE DEF quote
  <2>5. quote \in Offered(m)
    BY <2>1, <2>4 DEF Offered
  <2> QED
    BY <2>5 DEF Signed
<1> HIDE DEF quote, msg, c
<1>6. command[s] \in Commands /\ Got(s) \in Seq(Signed) /\ command[s].reserve \in BOOLEAN
  BY <1>3 DEF Shapes, Commands, Got
<1>7. ASSUME quotable
      PROVE  /\ answer \in Commands /\ answer.at = "ask"
             /\ Len(answer.quotes) = Len(Got(s)) + 1
  <2>1. /\ Append(Got(s), SignQuote(quote, m)) \in Seq(Signed)
        /\ Len(Append(Got(s), SignQuote(quote, m))) = Len(Got(s)) + 1
    BY <1>5, <1>6, <1>7, AppendProperties
  <2> HIDE DEF quotable
  <2> QED
    BY <1>6, <2>1 DEF Command, Commands, Steps
<1>8. Idle \in Commands /\ Idle.at = "idle" /\ Len(Idle.quotes) = 0
  BY EmptySeq DEF Idle, Command, Commands, Steps
<1> HIDE DEF answer, quotable, s
<1>9. Answer(msg, IF quotable THEN answer ELSE Idle) /\ Serves(m, FALSE) /\ UNCHANGED pc
  BY DEF ServeQuote, storeVars, answer, quotable, quote, msg, c, s
<1>10. msg.live => Len(Got(s)) + 1 <= Len(Peers)
  BY <1>3, <1>4, <1>6, PeersAssumption DEF Progress
<1>11. Len(Peers) \in Nat
  BY PeersAssumption
<1> DEFINE result == IF quotable THEN answer ELSE Idle
<1>12. msg.live => /\ result \in Commands /\ result.at \in {"ask", "write", "idle"}
                   /\ Len(result.quotes) <= Len(Peers)
                   /\ result.at = "write" => Len(result.quotes) = Len(Peers)
  BY <1>7, <1>8, <1>10, <1>11
<1> HIDE DEF result
<1>13. Answer(msg, result)
  BY <1>9 DEF result
<1> QED
  BY <1>9, <1>12, <1>13, WiresServed DEF msg

LEMMA WiresReserve ==
    ASSUME Shapes, Awaited, Progress, NEW m \in Makers, ServeReserve(m)
    PROVE  Wires'
<1> DEFINE msg == Head(inbox[m])
           s == msg.session
           written == [command[s] EXCEPT !.at = "write"]
<1>1. /\ inbox[m] # <<>> /\ inbox[m] \in Seq(Messages) /\ msg.signed # None
      /\ Serves(m, TRUE)
  BY DEF ServeReserve, Serves, Shapes
<1>2. 1 \in DOMAIN inbox[m] /\ msg = inbox[m][1]
  BY <1>1
<1>3. s \in Sessions
  BY <1>2, Waiting
<1>4. msg.live => At(s) = "reserving"
  BY <1>1, <1>2 DEF Awaited
<1>5. UNCHANGED pc /\ \E result \in {written, Idle} : Answer(msg, result)
  BY DEF ServeReserve, Book, Store!Reserve, Store!callVars, storeVars
<1> HIDE DEF msg
<1>6. command[s] \in Commands
  BY <1>3 DEF Shapes
<1>7. written \in Commands /\ written.at = "write" /\ written.quotes = Got(s)
  BY <1>6 DEF Commands, Steps, Got
<1>8. Idle \in Commands /\ Idle.at = "idle" /\ Len(Idle.quotes) = 0
  BY EmptySeq DEF Idle, Command, Commands, Steps
<1>9. msg.live => Len(Got(s)) = Len(Peers)
  BY <1>3, <1>4 DEF Progress
<1>10. Len(Peers) \in Nat
  BY PeersAssumption
<1> HIDE DEF written
<1>11. PICK result \in {written, Idle} : Answer(msg, result)
  BY <1>5
<1>12. msg.live => /\ result \in Commands /\ result.at \in {"ask", "write", "idle"}
                   /\ Len(result.quotes) <= Len(Peers)
                   /\ result.at = "write" => Len(result.quotes) = Len(Peers)
  BY <1>7, <1>8, <1>9, <1>10, <1>11
<1> QED
  BY <1>1, <1>5, <1>11, <1>12, WiresServed DEF msg

LEMMA WiresStep ==
    ASSUME Shapes, Awaited, Progress, [Next]_vars
    PROVE  Wires'
<1> USE DEF Steps
<1>1. CASE UNCHANGED <<inbox, command, pc>>
  <2>1. Awaited'
    BY <1>1, AwaitedQuiet DEF At
  <2>2. Progress'
    BY <1>1 DEF Progress, At, Got
  <2> QED
    BY <1>1, <2>1, <2>2 DEF Wires, Shapes
<1>2. CASE Tick
  BY <1>1, <1>2 DEF Tick, Store!Tick, Store!callVars, clientVars
<1>3. ASSUME NEW m \in Makers, NEW c \in Configs[m], MakerStart(m, c)
      PROVE  Wires'
  BY <1>1, <1>3 DEF MakerStart, Store!EnsureSolverLedger, Store!callVars, clientVars, storeVars
<1>4. ASSUME NEW m \in Makers, MakerStop(m)
      PROVE  Wires'
  <2>1. inbox' = [inbox EXCEPT ![m] = <<>>] /\ UNCHANGED <<command, pc>>
    BY <1>4 DEF MakerStop, clientVars, storeVars
  <2>2. \A n \in Makers : inbox'[n] = IF n = m THEN <<>> ELSE inbox[n]
    BY <2>1 DEF Shapes
  <2>3. Awaited'
    BY <2>1, <2>2, AwaitedQuiet DEF At
  <2>4. Progress'
    BY <2>1 DEF Progress, At, Got
  <2>5. inbox' \in [Makers -> Seq(Messages)] /\ Len(<<>>) = 0
    BY <2>1, EmptySeq DEF Shapes
  <2>6. \A n \in Makers : Len(inbox'[n]) <= MaxBacklog
    BY <2>2, <2>5, BoundsAssumption DEF Shapes
  <2> QED
    BY <2>1, <2>3, <2>4, <2>5, <2>6 DEF Wires, Shapes
<1>5. ASSUME NEW m \in Makers, ServeQuote(m) \/ ServeReserve(m)
      PROVE  Wires'
  BY <1>5, WiresQuote, WiresReserve
<1>6. ASSUME NEW s \in Sessions, NEW reserve \in BOOLEAN, RunRfq(s, reserve)
      PROVE  Wires'
  <2> DEFINE fresh == Command("ask", reserve, <<>>)
  <2>1. /\ At(s) = "idle" /\ command' = [command EXCEPT ![s] = fresh]
        /\ UNCHANGED <<inbox, pc>>
    BY <1>6 DEF RunRfq, storeVars
  <2>2. fresh \in Commands /\ fresh.at = "ask" /\ fresh.quotes = <<>>
    BY EmptySeq DEF Command, Commands
  <2> HIDE DEF fresh
  <2>3. command' \in [Sessions -> Commands]
    BY <2>1, <2>2 DEF Shapes
  <2>4. \A t \in Sessions : command'[t] = IF t = s THEN fresh ELSE command[t]
    BY <2>1 DEF Shapes
  <2>5. Awaited'
    BY <2>1, <2>4, AwaitedQuiet DEF At
  <2>6. Progress'
    <3>1. Len(<<>>) = 0 /\ Len(Peers) \in Nat /\ pc[s] = "idle"
      BY <2>1, PeersAssumption DEF Progress
    <3>2. \A t \in Sessions : t # s => At(t)' = At(t) /\ Got(t)' = Got(t)
      BY <2>4 DEF At, Got
    <3>3. At(s)' = "ask" /\ Got(s)' = <<>>
      BY <2>2, <2>4 DEF At, Got
    <3> QED
      BY <2>1, <3>1, <3>2, <3>3 DEF Progress
  <2> QED
    BY <2>1, <2>3, <2>5, <2>6 DEF Wires, Shapes
<1>7. ASSUME NEW s \in Sessions, Ask(s)
      PROVE  Wires'
  <2>1. /\ At(s) = "ask" /\ Len(Got(s)) < Len(Peers) /\ UNCHANGED pc
        /\ Send(s, Peers[Len(Got(s)) + 1], None, "quoting")
    BY <1>7 DEF Ask, storeVars
  <2>2. Got(s) \in Seq(Signed)
    BY DEF Shapes, Commands, Got
  <2>3. Peers[Len(Got(s)) + 1] \in Makers
    BY <2>1, <2>2, PeersAssumption
  <2> QED
    BY <2>1, <2>3, WiresSent
<1>8. ASSUME NEW s \in Sessions, GiveUp(s)
      PROVE  Wires'
  <2>1. /\ At(s) \in {"ask", "quoting", "reserving", "write"} /\ Goto(s, "idle") /\ UNCHANGED pc
        /\ inbox' = [m \in Makers |->
                        [i \in DOMAIN inbox[m] |->
                            [inbox[m][i] EXCEPT !.live = @ /\ inbox[m][i].session # s]]]
    BY <1>8 DEF GiveUp, storeVars
  <2>2. pc[s] = "idle"
    BY <2>1 DEF Progress
  <2>3. command' \in [Sessions -> Commands] /\ \A t \in Sessions : t # s => command'[t] = command[t]
    BY <2>1, Going
  <2>4. /\ Awaited' /\ inbox' \in [Makers -> Seq(Messages)]
        /\ \A m \in Makers : Len(inbox'[m]) = Len(inbox[m])
    BY <2>1, <2>3, AwaitedGivenUp
  <2>5. Progress'
    BY <2>1, <2>2, Moved
  <2> QED
    BY <2>3, <2>4, <2>5 DEF Wires, Shapes
<1>9. ASSUME NEW s \in Sessions, Select(s)
      PROVE  Wires'
  <2>1. At(s) = "ask" /\ Len(Got(s)) = Len(Peers) /\ UNCHANGED pc
    BY <1>9 DEF Select, storeVars
  <2>2. pc[s] = "idle"
    BY <2>1 DEF Progress
  <2>3. CASE Send(s, Chosen(s).maker, Chosen(s).signed, "reserving")
    <3>1. Chosen(s).maker \in Makers /\ Chosen(s).signed \in Signed
      BY <2>1, Selection DEF Selections
    <3>2. Chosen(s).signed # None
      BY <3>1, NoneAssumption
    <3> QED
      BY <2>1, <2>3, <3>1, <3>2, WiresSent
  <2>4. ASSUME NEW step \in {"write", "idle"}, Goto(s, step), UNCHANGED inbox
        PROVE  Wires'
    BY <2>1, <2>2, <2>4, WiresQuiet
  <2> QED
    BY <1>9, <2>3, <2>4 DEF Select
<1>10. ASSUME NEW s \in Sessions, WriteSelected(s) \/ Accept(s)
       PROVE  Wires'
  <2>1. /\ At(s) \in {"write", "idle"} /\ UNCHANGED <<inbox, pc>>
        /\ \E step \in {"idle", "check"} : Goto(s, step)
    BY <1>10 DEF WriteSelected, Accept, storeVars
  <2>2. pc[s] = "idle"
    BY <2>1 DEF Progress
  <2> QED
    BY <2>1, <2>2, WiresQuiet
<1>11. ASSUME NEW s \in Sessions, CheckReservation(s)
       PROVE  Wires'
  <2>1. At(s) = "check" /\ pc[s] = "idle" /\ UNCHANGED inbox
    BY <1>11 DEF CheckReservation, Progress
  <2>2. CASE Goto(s, "idle") /\ UNCHANGED pc
    BY <2>1, <2>2, WiresQuiet
  <2>3. ASSUME NEW r \in Requests, Store!AttachRead(s, r, s), Goto(s, "attach")
        PROVE  Wires'
    <3>1. \A t \in Sessions : pc'[t] = IF t = s THEN "read_swap" ELSE pc[t]
      BY <2>3 DEF Store!AttachRead, Shapes, Store!TypeOK
    <3> QED
      BY <2>1, <2>3, <3>1, WiresQuiet
  <2> QED
    BY <1>11, <2>2, <2>3 DEF CheckReservation, storeVars
<1>12. ASSUME NEW s \in Sessions, Attach(s)
       PROVE  Wires'
  <2>1. At(s) = "attach" /\ UNCHANGED inbox /\ Goto(s, IF pc'[s] = "idle" THEN "idle" ELSE "attach")
    BY <1>12 DEF Attach
  <2>2. \A t \in Sessions : t # s => pc'[t] = pc[t]
    BY <1>12 DEF Attach, Store!AttachReadSwap, Store!AttachUpdate, Store!Return, Shapes, Store!TypeOK
  <2> QED
    BY <2>1, <2>2, WiresQuiet
<1>13. ASSUME NEW s \in Sessions, Die(s)
       PROVE  Wires'
  <2>1. At(s) \in {"check", "attach"} /\ UNCHANGED inbox /\ Goto(s, "idle")
    BY <1>13 DEF Die
  <2>2. \A t \in Sessions : pc'[t] = IF t = s THEN "idle" ELSE pc[t]
    BY <1>13 DEF Die, Store!AttachCrash, Store!Return, Shapes, Store!TypeOK, Progress, storeVars
  <2> QED
    BY <2>1, <2>2, WiresQuiet
<1>14. ASSUME NEW s \in Sessions, NEW r \in Requests, Settle(s, r)
       PROVE  Wires'
  BY <1>1, <1>14 DEF Settle, Store!ConsumeReservation, Store!callVars, clientVars
<1>15. CASE UNCHANGED vars
  BY <1>1, <1>15 DEF vars, clientVars, storeVars
<1> QED
  BY <1>2, <1>3, <1>4, <1>5, <1>6, <1>7, <1>8, <1>9, <1>10, <1>11, <1>12, <1>13,
     <1>14, <1>15 DEF Next, ClientStep

-------------------------------------------------------------------------------
\* Makers are started with what they may be, clients' files hold signed quotes,
\* and a binding stays.
LEMMA FilesStep ==
    ASSUME Shapes, Progress, [Next]_vars
    PROVE  /\ DOMAIN config' = Makers
           /\ \A m \in Makers : config'[m] \in Configs[m] \cup {None}
           /\ selected' \in [Sessions -> Selections \cup {None}]
           /\ bound' \in [Sessions -> Signed \cup {None}]
           /\ \A s \in Sessions : bound[s] # None => bound'[s] = bound[s]
<1> USE DEF Shapes
<1>1. CASE UNCHANGED <<config, selected, bound>>
  BY <1>1
<1>2. ASSUME NEW m \in Makers, \E c \in Configs[m] \cup {None} : config' = [config EXCEPT ![m] = c],
             UNCHANGED <<selected, bound>>
      PROVE  /\ DOMAIN config' = Makers
             /\ \A n \in Makers : config'[n] \in Configs[n] \cup {None}
  BY <1>2
<1>3. ASSUME NEW m \in Makers, (\E c \in Configs[m] : MakerStart(m, c)) \/ MakerStop(m)
      PROVE  (\E c \in Configs[m] \cup {None} : config' = [config EXCEPT ![m] = c])
             /\ UNCHANGED <<selected, bound>>
  BY <1>3 DEF MakerStart, MakerStop, clientVars
<1>4. ASSUME NEW s \in Sessions, WriteSelected(s)
      PROVE  UNCHANGED <<config, bound>> /\ selected' \in [Sessions -> Selections \cup {None}]
  <2>1. Chosen(s) \in Selections
    BY <1>4, Selection DEF WriteSelected, Progress
  <2> QED
    BY <1>4, <2>1 DEF WriteSelected
<1>5. ASSUME NEW s \in Sessions, Accept(s)
      PROVE  /\ UNCHANGED <<config, selected>>
             /\ bound' \in [Sessions -> Signed \cup {None}]
             /\ \A t \in Sessions : bound[t] # None => bound'[t] = bound[t]
  <2>1. /\ selected[s] # None /\ selected[s] \in Selections
        /\ bound[s] \in {None, selected[s].signed}
        /\ bound' = [bound EXCEPT ![s] = selected[s].signed]
        /\ UNCHANGED <<config, selected>>
    BY <1>5 DEF Accept, Acceptable
  <2>2. selected[s].signed \in Signed
    BY <2>1 DEF Selections
  <2> QED
    BY <2>1, <2>2
<1>6. ASSUME NEW m \in Makers, ServeQuote(m) \/ ServeReserve(m)
      PROVE  UNCHANGED <<config, selected, bound>>
  BY <1>6 DEF ServeQuote, ServeReserve, Serves
<1>7. ASSUME NEW s \in Sessions,
             \/ \E reserve \in BOOLEAN : RunRfq(s, reserve)
             \/ Ask(s) \/ GiveUp(s) \/ Select(s) \/ CheckReservation(s) \/ Attach(s) \/ Die(s)
             \/ \E r \in Requests : Settle(s, r)
      PROVE  UNCHANGED <<config, selected, bound>>
  BY <1>7 DEF RunRfq, Ask, GiveUp, Select, CheckReservation, Attach, Die, Settle, clientVars
<1>8. CASE Tick
  BY <1>1, <1>8 DEF Tick, clientVars
<1>9. CASE UNCHANGED vars
  BY <1>1, <1>9 DEF vars, clientVars
<1> QED
  BY <1>1, <1>2, <1>3, <1>4, <1>5, <1>6, <1>7, <1>8, <1>9 DEF Next, ClientStep

LEMMA ShapesStep ==
    ASSUME Shapes, Awaited, Progress, [Next]_vars
    PROVE  Shapes'
<1>1. Store!TypeOK'
  BY StoreStep, MoveIsStep, StoreTypeStep DEF Shapes
<1>2. clock' \in {clock, clock + 1} /\ (clock' # clock => clock < MaxClock)
  <2>1. StoreMove
    BY StoreStep
  <2> QED
    BY <2>1 DEF StoreMove, Store!Tick, Store!EnsureSolverLedger, Store!Reserve,
       Store!ConsumeReservation, Store!AttachRead, Store!AttachReadSwap, Store!AttachUpdate,
       Store!AttachCrash
<1>3. clock \in Nat /\ clock <= MaxClock /\ MaxClock \in Nat
  BY BoundsAssumption DEF Shapes, Store!TypeOK
<1>4. clock' <= MaxClock
  BY <1>2, <1>3
<1> QED
  BY <1>1, <1>4, WiresStep, FilesStep DEF Shapes, Wires

\* A command comes to compare the row only through the acceptance of a quote.
LEMMA CheckStep ==
    ASSUME Shapes, Awaited, Progress, [Next]_vars, NEW s \in Sessions,
           At(s)' = "check", ~Accept(s)
    PROVE  At(s) = "check" /\ selected'[s] = selected[s]
<1> USE DEF Steps
<1>1. ASSUME NEW t \in Sessions, NEW step \in Steps \ {"check"}, Goto(t, step)
      PROVE  t # s /\ At(s) = "check"
  BY <1>1, Going DEF At
<1>2. ASSUME NEW m \in Makers, NEW result, Answer(Head(inbox[m]), result), inbox[m] # <<>>,
             Head(inbox[m]).live /\ Head(inbox[m]).session = s => result.at # "check"
      PROVE  At(s) = "check"
  <2>1. command' = IF Head(inbox[m]).live
                   THEN [command EXCEPT ![Head(inbox[m]).session] = result] ELSE command
    BY <1>2 DEF Answer
  <2> QED
    BY <1>2, <2>1 DEF At, Shapes
<1>3. ASSUME UNCHANGED command PROVE At(s) = "check"
  BY <1>3 DEF At
<1>4. ASSUME NEW m \in Makers, ServeQuote(m)
      PROVE  At(s) = "check" /\ selected' = selected
  <2> DEFINE other == Command("ask", command[Head(inbox[m]).session].reserve,
                Append(Got(Head(inbox[m]).session),
                       SignQuote(MakerQuote(Intent[Head(inbox[m]).session],
                                            Solver(m, config[m]), Validity, clock), m)))
  <2>1. \E result \in {other, Idle} : Answer(Head(inbox[m]), result)
    BY <1>4 DEF ServeQuote
  <2>2. other.at = "ask" /\ Idle.at = "idle"
    BY DEF Command, Idle
  <2> HIDE DEF other
  <2> QED
    BY <1>2, <1>4, <2>1, <2>2 DEF ServeQuote, Serves
<1>5. ASSUME NEW m \in Makers, ServeReserve(m)
      PROVE  At(s) = "check" /\ selected' = selected
  <2> DEFINE t == Head(inbox[m]).session
             written == [command[t] EXCEPT !.at = "write"]
  <2>1. inbox[m] # <<>> /\ inbox[m] \in Seq(Messages)
    BY <1>5 DEF ServeReserve, Serves, Shapes
  <2>2. 1 \in DOMAIN inbox[m] /\ Head(inbox[m]) = inbox[m][1]
    BY <2>1
  <2>3. t \in Sessions
    BY <2>2, Waiting
  <2>4. command[t] \in Commands
    BY <2>3 DEF Shapes
  <2>5. written.at = "write" /\ Idle.at = "idle"
    BY <2>4 DEF Commands, Idle, Command
  <2>6. \E result \in {written, Idle} : Answer(Head(inbox[m]), result)
    BY <1>5 DEF ServeReserve, Book
  <2> HIDE DEF written
  <2> QED
    BY <1>2, <1>5, <2>1, <2>5, <2>6 DEF ServeReserve, Serves
<1>6. ASSUME NEW t \in Sessions, NEW reserve \in BOOLEAN, RunRfq(t, reserve)
      PROVE  At(s) = "check" /\ selected' = selected
  <2>1. Command("ask", reserve, <<>>).at = "ask"
    BY DEF Command
  <2> QED
    BY <1>6, <2>1 DEF RunRfq, At, Shapes
<1>7. ASSUME NEW t \in Sessions,
             Ask(t) \/ GiveUp(t) \/ Select(t) \/ CheckReservation(t) \/ Attach(t) \/ Die(t)
      PROVE  At(s) = "check" /\ selected' = selected
  <2>1. \E step \in Steps \ {"check"} : Goto(t, step)
    BY <1>7 DEF Ask, GiveUp, Select, CheckReservation, Attach, Die, Send
  <2> QED
    BY <1>1, <1>7, <2>1 DEF Ask, GiveUp, Select, CheckReservation, Attach, Die
<1>8. ASSUME NEW t \in Sessions, WriteSelected(t)
      PROVE  At(s) = "check" /\ selected'[s] = selected[s]
  <2>1. t # s /\ At(s) = "check"
    BY <1>1, <1>8 DEF WriteSelected
  <2> QED
    BY <1>8, <2>1 DEF WriteSelected, Shapes
<1>9. ASSUME NEW t \in Sessions, Accept(t)
      PROVE  At(s) = "check" /\ selected' = selected
  <2>1. t # s
    BY <1>9
  <2> QED
    BY <1>9, <2>1, Going DEF Accept, At
<1>10. ASSUME NEW t \in Sessions, NEW r \in Requests, Settle(t, r)
       PROVE  At(s) = "check" /\ selected' = selected
  BY <1>3, <1>10 DEF Settle, clientVars
<1>11. ASSUME NEW m \in Makers, (\E c \in Configs[m] : MakerStart(m, c)) \/ MakerStop(m)
       PROVE  At(s) = "check" /\ selected' = selected
  BY <1>3, <1>11 DEF MakerStart, MakerStop, clientVars
<1>12. CASE Tick
  BY <1>3, <1>12 DEF Tick, clientVars
<1>13. CASE UNCHANGED vars
  BY <1>3, <1>13 DEF vars, clientVars
<1> QED
  BY <1>4, <1>5, <1>6, <1>7, <1>8, <1>9, <1>10, <1>11, <1>12, <1>13 DEF Next, ClientStep

\* A verified quote is what the intent asks for.
LEMMA VerifiedTerms ==
    ASSUME NEW intent, NEW signed, NEW keys, NEW now,
           VerifyQuote(intent, signed, keys, AssetHash, intent.deadline_context, now)
    PROVE  /\ signed.quote.destination = intent.destination
           /\ signed.quote.hash_commitment = intent.hash_commitment
           /\ signed.quote.amount_out >= intent.min_amount_out
           /\ signed.quote.fee_lbtc <= intent.fee_limit_lbtc
           /\ signed.quote.expires_at <= intent.expires_at
           /\ signed.quote.expires_at > now
           /\ intent.deadline_context.source_refund_at > now
<1> DEFINE quote == signed.quote
           context == intent.deadline_context
<1>1. ValidTerms(intent, quote, AssetHash, context, now)
  BY DEF VerifyQuote
<1>2. \A f \in BoundFields : quote[f] = intent[f]
  BY <1>1 DEF ValidTerms
<1>3. quote.destination = intent.destination /\ quote.hash_commitment = intent.hash_commitment
  <2>1. "destination" \in BoundFields /\ "hash_commitment" \in BoundFields
    BY DEF BoundFields
  <2> QED
    BY <1>2, <2>1
<1>4. /\ quote.amount_out >= intent.min_amount_out
      /\ quote.fee_lbtc <= intent.fee_limit_lbtc
      /\ quote.expires_at <= intent.expires_at
      /\ quote.expires_at > now
      /\ ValidDeadlines(quote, context, now)
  BY <1>1 DEF ValidTerms
<1>5. context.source_refund_at > now
  BY <1>4 DEF ValidDeadlines
<1> QED
  BY <1>3, <1>4, <1>5

LEMMA PromisesStep ==
    ASSUME Shapes, Awaited, Progress, Promises, [Next]_vars
    PROVE  Promises'
<1> DEFINE Kept(s) == /\ bound[s].quote.destination = Intent[s].destination
                      /\ bound[s].quote.amount_out >= Intent[s].min_amount_out
                      /\ bound[s].quote.fee_lbtc <= Intent[s].fee_limit_lbtc
<1>1. ASSUME NEW s \in Sessions, Accept(s)
      PROVE  /\ Kept(s)'
             /\ selected'[s] # None /\ bound'[s] = selected'[s].signed
  <2>1. /\ Verified(s, selected[s].signed, clock) /\ selected[s] # None
        /\ bound' = [bound EXCEPT ![s] = selected[s].signed] /\ selected' = selected
    BY <1>1 DEF Accept, Acceptable
  <2>2. bound'[s] = selected[s].signed
    BY <2>1 DEF Shapes
  <2> QED
    BY <2>1, <2>2, VerifiedTerms DEF Verified
<1>2. ASSUME NEW s \in Sessions, ~Accept(s)
      PROVE  bound'[s] = bound[s]
  <2>1. CASE UNCHANGED bound
    BY <2>1
  <2>2. ASSUME NEW t \in Sessions, Accept(t)
        PROVE  bound'[s] = bound[s]
    BY <1>2, <2>2 DEF Accept, Shapes
  <2>3. ASSUME NEW m \in Makers, (\E c \in Configs[m] : MakerStart(m, c)) \/ MakerStop(m)
                                \/ ServeQuote(m) \/ ServeReserve(m)
        PROVE  UNCHANGED bound
    BY <2>3 DEF MakerStart, MakerStop, ServeQuote, ServeReserve, Serves, clientVars
  <2>4. ASSUME NEW t \in Sessions,
               \/ \E reserve \in BOOLEAN : RunRfq(t, reserve)
               \/ ClientStep(t) \/ Die(t) \/ \E r \in Requests : Settle(t, r)
        PROVE  UNCHANGED bound
    BY <2>4 DEF ClientStep, RunRfq, Ask, GiveUp, Select, WriteSelected, CheckReservation,
                Attach, Die, Settle, clientVars
  <2>5. CASE Tick \/ UNCHANGED vars
    BY <2>5 DEF Tick, vars, clientVars
  <2> QED
    BY <2>1, <2>2, <2>3, <2>4, <2>5 DEF Next
<1>3. ASSUME NEW s \in Sessions, bound'[s] # None
      PROVE  Kept(s)'
  <2>1. CASE Accept(s)
    BY <1>1, <2>1
  <2>2. CASE ~Accept(s)
    BY <1>2, <1>3, <2>2 DEF Promises
  <2> QED
    BY <2>1, <2>2
<1>4. ASSUME NEW s \in Sessions, At(s)' = "check"
      PROVE  selected'[s] # None /\ bound'[s] = selected'[s].signed
  <2>1. CASE Accept(s)
    BY <1>1, <2>1
  <2>2. CASE ~Accept(s)
    BY <1>2, <1>4, <2>2, CheckStep DEF Promises
  <2> QED
    BY <2>1, <2>2
<1> QED
  BY <1>3, <1>4 DEF Promises

-------------------------------------------------------------------------------
\* What a session is entitled to is not taken from it.
LEMMA EntitledKept ==
    ASSUME Shapes, Awaited, Progress, Rows, [Next]_vars,
           NEW r \in Requests, NEW s \in Sessions, Entitled(r, s)
    PROVE  Entitled(r, s)'
<1>1. StoreMove
  BY StoreStep
<1>2. row'[r] \in {"HELD", "CONSUMED"}
  BY <1>1, RowsAdvance DEF Entitled
<1>3. bound'[s] = bound[s]
  BY FilesStep DEF Entitled
<1>4. asset'[r.solver] = asset[r.solver]
  BY <1>1, RowsAdvance, RequestFields DEF Entitled, Rows
<1> QED
  BY <1>2, <1>3, <1>4 DEF Entitled

\* The row that matches the selected quote is the one the session has bound.
LEMMA Matching ==
    ASSUME Shapes, Promises, NEW s \in Sessions, At(s) = "check",
           NEW r \in Requests, Matches(s, r)
    PROVE  Entitled(r, s)
<1> DEFINE signed == selected[s].signed
           quote == signed.quote
           m == selected[s].maker
<1>1. bound[s] = signed /\ selected[s] \in Selections
  BY DEF Promises, Shapes
<1>2. signed \in Signed /\ signed # None
  BY <1>1, NoneAssumption DEF Selections
<1>3. PICK n \in Makers : quote \in Offered(n) /\ signed.signature.key = n
  BY <1>2, SignedQuotes
<1>4. /\ row[r] = "HELD" /\ r.id = quote.quote_id /\ r.solver = m
      /\ asset[m] = quote.destination.asset_id
      /\ <<r.amount, r.quote>> = <<quote.amount_out, quote.quote_id>>
      /\ r.hash = <<m, Intent[s].hash_commitment>>
  BY DEF Matches
<1>5. n = m
  <2>1. PICK id : quote.quote_id = <<n, id>>
    BY <1>3, Offers
  <2>2. PICK other : r.id = <<r.solver, other>>
    BY RequestFields
  <2> QED
    BY <1>4, <2>1, <2>2
<1>6. /\ quote.destination = Intent[s].destination
      /\ quote.amount_out >= Intent[s].min_amount_out
      /\ quote.fee_lbtc <= Intent[s].fee_limit_lbtc
  BY <1>1, <1>2 DEF Promises
<1> HIDE DEF signed, m
<1> QED
  BY <1>1, <1>2, <1>3, <1>4, <1>5, <1>6 DEF Entitled

\* An owner was in attach_reservation before, and whoever is there came from the
\* comparison of the row.
LEMMA CallStep ==
    ASSUME Shapes, Awaited, Progress, [Next]_vars
    PROVE  /\ \A r \in Requests : \A t \in owners'[r] :
                \/ t \in owners[r]
                \/ \E s \in Sessions : pc[s] # "idle" /\ r = job[s].row /\ t = job[s].swap
           /\ \A s \in Sessions : pc'[s] # "idle" =>
                \/ pc[s] # "idle" /\ job'[s] = job[s]
                \/ /\ At(s) = "check" /\ job'[s].swap = s
                   /\ job'[s].row \in Requests /\ Matches(s, job'[s].row)
<1> DEFINE Owners == \A r \in Requests : \A t \in owners'[r] :
                \/ t \in owners[r]
                \/ \E s \in Sessions : pc[s] # "idle" /\ r = job[s].row /\ t = job[s].swap
           Call(s) == pc'[s] # "idle" =>
                \/ pc[s] # "idle" /\ job'[s] = job[s]
                \/ /\ At(s) = "check" /\ job'[s].swap = s
                   /\ job'[s].row \in Requests /\ Matches(s, job'[s].row)
<1>1. CASE UNCHANGED <<pc, job, owners>>
  BY <1>1
<1>2. ASSUME NEW s \in Sessions, CheckReservation(s), ~UNCHANGED pc
      PROVE  Owners /\ \A t \in Sessions : Call(t)
  <2>1. PICK r \in Requests : Matches(s, r) /\ Store!AttachRead(s, r, s) /\ At(s) = "check"
    BY <1>2 DEF CheckReservation, storeVars
  <2>2. /\ owners' = owners
        /\ \A t \in Sessions : t # s => pc'[t] = pc[t] /\ job'[t] = job[t]
        /\ job'[s].row = r /\ job'[s].swap = s
    BY <2>1 DEF Store!AttachRead, Shapes, Store!TypeOK
  <2>3. \A t \in Sessions : Call(t)
    BY <2>1, <2>2
  <2> QED
    BY <2>2, <2>3
<1>3. ASSUME NEW s \in Sessions, NEW ok \in BOOLEAN, pc[s] # "idle", Store!Return(s, ok)
      PROVE  Owners /\ \A t \in Sessions : Call(t)
  <2>1. \A t \in Sessions : Call(t)
    BY <1>3 DEF Store!Return, Shapes, Store!TypeOK
  <2>2. owners' \in {owners, [owners EXCEPT ![job[s].row] = @ \cup {job[s].swap}]}
    BY <1>3 DEF Store!Return
  <2>3. \A r \in Requests : owners'[r] \in {owners[r], owners[r] \cup {job[s].swap}}
                            /\ (owners'[r] # owners[r] => r = job[s].row)
    BY <2>2 DEF Shapes, Store!TypeOK
  <2>4. Owners
    BY <1>3, <2>3
  <2> QED
    BY <2>1, <2>4
<1>4. ASSUME NEW s \in Sessions, NEW label, pc[s] # "idle", pc' = [pc EXCEPT ![s] = label],
             UNCHANGED <<job, owners>>
      PROVE  Owners /\ \A t \in Sessions : Call(t)
  BY <1>4 DEF Shapes, Store!TypeOK
<1>5. ASSUME NEW s \in Sessions, Attach(s) \/ Die(s)
      PROVE  Owners /\ \A t \in Sessions : Call(t)
  <2>1. \/ UNCHANGED <<pc, job, owners>>
        \/ pc[s] # "idle" /\ \E ok \in BOOLEAN : Store!Return(s, ok)
        \/ pc[s] # "idle" /\ UNCHANGED <<job, owners>>
           /\ \E label \in {"update", "reread"} : pc' = [pc EXCEPT ![s] = label]
    BY <1>5 DEF Attach, Die, Store!AttachReadSwap, Store!AttachUpdate, Store!AttachCrash,
                storeVars
  <2> HIDE DEF Owners, Call
  <2>2. CASE UNCHANGED <<pc, job, owners>>
    BY <1>1, <2>2 DEF Owners, Call
  <2> QED
    BY <1>3, <1>4, <2>1, <2>2
<1>6. \/ UNCHANGED <<pc, job, owners>>
      \/ \E s \in Sessions : \/ CheckReservation(s) /\ ~UNCHANGED pc
                             \/ Attach(s) \/ Die(s)
  <2>1. ASSUME NEW m \in Makers, (\E c \in Configs[m] : MakerStart(m, c)) \/ MakerStop(m)
                                \/ ServeQuote(m) \/ ServeReserve(m)
        PROVE  UNCHANGED <<pc, job, owners>>
    BY <2>1 DEF MakerStart, Store!EnsureSolverLedger, MakerStop, ServeQuote, ServeReserve,
                Book, Store!Reserve, Store!callVars, storeVars
  <2>2. ASSUME NEW t \in Sessions,
               \/ \E reserve \in BOOLEAN : RunRfq(t, reserve)
               \/ Ask(t) \/ GiveUp(t) \/ Select(t) \/ WriteSelected(t) \/ Accept(t)
               \/ \E r \in Requests : Settle(t, r)
        PROVE  UNCHANGED <<pc, job, owners>>
    BY <2>2 DEF RunRfq, Ask, GiveUp, Select, WriteSelected, Accept, Settle,
                Store!ConsumeReservation, Store!callVars, storeVars
  <2>3. ASSUME NEW t \in Sessions, CheckReservation(t), UNCHANGED pc
        PROVE  UNCHANGED <<pc, job, owners>>
    <3>1. ~\E r \in Requests : Store!AttachRead(t, r, t)
      BY <2>3 DEF Store!AttachRead, Shapes, Store!TypeOK
    <3> QED
      BY <2>3, <3>1 DEF CheckReservation, storeVars
  <2>4. CASE Tick \/ UNCHANGED vars
    BY <2>4 DEF Tick, Store!Tick, Store!callVars, vars, storeVars
  <2> QED
    BY <2>1, <2>2, <2>3, <2>4 DEF Next, ClientStep
<1> QED
  BY <1>1, <1>2, <1>5, <1>6

LEMMA OwnershipStep ==
    ASSUME IInv, [Next]_vars
    PROVE  Ownership'
<1> USE DEF IInv
<1>1. ASSUME NEW r \in Requests, NEW s \in owners'[r]
      PROVE  Entitled(r, s)'
  <2>1. owners \in [Requests -> SUBSET Sessions]
    BY DEF Shapes, Store!TypeOK
  <2>2. CASE s \in owners[r]
    BY <2>1, <2>2, EntitledKept DEF Ownership
  <2>3. ASSUME NEW t \in Sessions, pc[t] # "idle", r = job[t].row, s = job[t].swap
        PROVE  Entitled(r, s)'
    BY <2>3, EntitledKept DEF Ownership
  <2> QED
    BY <2>2, <2>3, CallStep
<1>2. ASSUME NEW s \in Sessions, pc'[s] # "idle"
      PROVE  job'[s].swap = s /\ Entitled(job[s].row, s)'
  <2>1. CASE pc[s] # "idle" /\ job'[s] = job[s]
    <3>1. job[s].row \in Requests
      BY <2>1 DEF Shapes, Store!TypeOK, Store!Jobs
    <3>2. job[s].swap = s /\ Entitled(job[s].row, s)
      BY <2>1 DEF Ownership
    <3> DEFINE r == job[s].row
    <3>3. Entitled(r, s)
      BY <3>2
    <3> QED
      BY <2>1, <3>1, <3>2, EntitledKept DEF Entitled
  <2>2. CASE /\ At(s) = "check" /\ job'[s].swap = s
             /\ job'[s].row \in Requests /\ Matches(s, job'[s].row)
    <3>1. PICK r \in Requests : r = job'[s].row /\ Matches(s, r)
      BY <2>2
    <3>2. Entitled(r, s)'
      BY <2>2, <3>1, Matching, EntitledKept
    <3> QED
      BY <2>2, <3>1, <3>2 DEF Entitled
  <2> QED
    BY <1>2, <2>1, <2>2, CallStep
<1> QED
  BY <1>1, <1>2 DEF Ownership

-------------------------------------------------------------------------------
LEMMA InvInit == Init => IInv
<1> SUFFICES ASSUME Init PROVE IInv
  OBVIOUS
<1> USE DEF Init
<1>1. /\ row = [r \in Requests |-> "ABSENT"] /\ pc = [s \in Sessions |-> "idle"]
      /\ owners = [r \in Requests |-> {}] /\ clock = 0
  BY DEF Store!Init
<1>2. Idle \in Commands /\ Idle.at = "idle" /\ Idle.quotes = <<>> /\ Len(<<>>) = 0
  BY EmptySeq DEF Idle, Command, Commands, Steps
<1>3. \A s \in Sessions : command[s] = Idle
  OBVIOUS
<1>4. Shapes
  BY <1>1, <1>2, StoreInit, EmptySeq, BoundsAssumption DEF Shapes
<1>5. Awaited
  BY EmptySeq DEF Awaited
<1>6. Progress
  BY <1>1, <1>2, <1>3, PeersAssumption DEF Progress, At, Got
<1>7. Rows
  BY <1>1 DEF Rows
<1>8. Promises
  BY <1>2, <1>3 DEF Promises, At
<1>9. Ownership
  BY <1>1 DEF Ownership
<1> QED
  BY <1>4, <1>5, <1>6, <1>7, <1>8, <1>9 DEF IInv

LEMMA InvStep == IInv /\ [Next]_vars => IInv'
<1> SUFFICES ASSUME IInv, [Next]_vars PROVE IInv'
  OBVIOUS
<1>1. Shapes' /\ Awaited' /\ Progress'
  BY ShapesStep, WiresStep DEF IInv, Wires
<1>2. Rows'
  BY StoreStep, RowsStep DEF IInv
<1>3. Promises'
  BY PromisesStep DEF IInv
<1>4. Ownership'
  BY OwnershipStep
<1> QED
  BY <1>1, <1>2, <1>3, <1>4 DEF IInv

LEMMA Invariance == Spec => []IInv
  BY InvInit, InvStep, PTL DEF Spec

(* A command is where its list of quotes says it is, no listener lets more  *)
(* wait than its backlog, and attach_reservation runs for a session just as *)
(* long as `swap forward` is there (commands.rs run_rfq, solver.rs serve).  *)
THEOREM TypeCorrect == Spec => []TypeOK
<1>1. IInv => TypeOK
  BY DEF IInv, Shapes, Progress, Commands, Steps, TypeOK, At
<1> QED
  BY <1>1, Invariance, PTL

(* However many makers, restarts, commands and lost answers: whoever owns a *)
(* reservation has bound a quote of the very maker that holds it, for the   *)
(* reserved amount and hash and within its own limits (live.rs              *)
(* validate_forward_inputs and prepare_solver_reservation).                 *)
THEOREM OwnedIsBoundAlways == Spec => []OwnedIsBound
<1>1. IInv => OwnedIsBound
  BY DEF IInv, Ownership, Entitled, OwnedIsBound
<1> QED
  BY <1>1, Invariance, PTL

(* A maker holds at most one row for a session's hash, for every set of     *)
(* intents, also when sessions share one (storage.rs reserve).              *)
THEOREM OneRowPerSessionAlways == Spec => []OneRowPerSession
<1>1. IInv => OneRowPerSession
  BY DEF IInv, Rows, Store!Conflicts, OneRowPerSession
<1> QED
  BY <1>1, Invariance, PTL

LEMMA BookedStep ==
    ASSUME Shapes, [Next]_vars, NEW r \in Requests, row[r] = "ABSENT", row'[r] = "HELD"
    PROVE  /\ r.expires_at > clock
           /\ \E s \in Sessions : /\ r.hash = <<r.solver, Intent[s].hash_commitment>>
                                  /\ r.expires_at <= Intent[s].expires_at
                                  /\ Intent[s].deadline_context.source_refund_at > clock
<1>1. ASSUME NEW m \in Makers, ServeReserve(m)
      PROVE  /\ r.expires_at > clock
             /\ \E s \in Sessions : /\ r.hash = <<r.solver, Intent[s].hash_commitment>>
                                    /\ r.expires_at <= Intent[s].expires_at
                                    /\ Intent[s].deadline_context.source_refund_at > clock
  <2> DEFINE msg == Head(inbox[m])
             s == msg.session
             keys == [k \in {m} |-> m]
             q == Reservation(m, msg.signed.quote, config[m].asset)
             verified == VerifyQuote(Intent[s], msg.signed, keys, AssetHash,
                                     Intent[s].deadline_context, clock)
  <2>1. verified /\ Store!Reserve(q)
    BY <1>1 DEF ServeReserve, Book, storeVars
  <2>2. q = r
    BY <2>1 DEF Store!Reserve, Shapes, Store!TypeOK
  <2>3. s \in Sessions
    BY <1>1, Booking DEF Messages
  <2>4. /\ q.expires_at = msg.signed.quote.expires_at /\ q.solver = m
        /\ q.hash = <<m, msg.signed.quote.hash_commitment>>
    BY DEF Reservation
  <2> HIDE DEF q, s, keys
  <2>5. /\ msg.signed.quote.hash_commitment = Intent[s].hash_commitment
        /\ msg.signed.quote.expires_at <= Intent[s].expires_at
        /\ msg.signed.quote.expires_at > clock
        /\ Intent[s].deadline_context.source_refund_at > clock
    BY <2>1, VerifiedTerms
  <2> QED
    BY <2>2, <2>3, <2>4, <2>5
<1>2. \E m \in Makers : ServeReserve(m)
  <2>1. row' # row
    OBVIOUS
  <2>2. ASSUME NEW m \in Makers,
               (\E c \in Configs[m] : MakerStart(m, c)) \/ MakerStop(m) \/ ServeQuote(m)
        PROVE  UNCHANGED row
    BY <2>2 DEF MakerStart, Store!EnsureSolverLedger, MakerStop, ServeQuote, storeVars
  <2>3. ASSUME NEW t \in Sessions,
               \/ \E reserve \in BOOLEAN : RunRfq(t, reserve)
               \/ ClientStep(t) \/ Accept(t) \/ Die(t)
        PROVE  UNCHANGED row
    BY <2>3 DEF ClientStep, RunRfq, Ask, GiveUp, Select, WriteSelected, CheckReservation,
                Store!AttachRead, Attach, Store!AttachReadSwap, Store!AttachUpdate, Accept,
                Die, Store!AttachCrash, storeVars
  <2>4. ASSUME NEW t \in Sessions, NEW other \in Requests, Settle(t, other)
        PROVE  FALSE
    BY <2>4 DEF Settle, Store!ConsumeReservation, Shapes, Store!TypeOK
  <2>5. CASE Tick \/ UNCHANGED vars
    BY <2>1, <2>5 DEF Tick, Store!Tick, vars, storeVars
  <2> QED
    BY <2>1, <2>2, <2>3, <2>4, <2>5 DEF Next
<1> QED
  BY <1>1, <1>2

(* A reservation that waited at the maker, or comes with a quote of before  *)
(* a restart, is booked only while its quote still stands and before the    *)
(* session's refunds come due (solver.rs reserve).                          *)
THEOREM BookedInTimeAlways == Spec => BookedInTime
<1> DEFINE Timely == \A r \in Requests : row[r] = "ABSENT" /\ row'[r] = "HELD" =>
            /\ r.expires_at > clock
            /\ \E s \in Sessions : /\ r.hash = <<r.solver, Intent[s].hash_commitment>>
                                   /\ r.expires_at <= Intent[s].expires_at
                                   /\ Intent[s].deadline_context.source_refund_at > clock
<1>1. IInv /\ [Next]_vars => [Timely]_vars
  BY BookedStep DEF IInv
<1> HIDE DEF Timely
<1>2. Spec => [][Timely]_vars
  BY <1>1, Invariance, PTL DEF Spec
<1> QED
  BY <1>2 DEF BookedInTime, Timely

(* What clients, restarts and faults do to a maker's store is what Ledger   *)
(* allows: every step of the market is a transaction of Ledger or leaves    *)
(* the store alone (solver.rs, live.rs prepare_solver_reservation).         *)
THEOREM StoreRefines == Spec => StoreIsLedger
<1>1. Init => Store!Init
  BY DEF Init
<1>2. IInv /\ [Next]_vars => [Store!Next]_(Store!vars)
  BY StoreStep, MoveIsStep DEF IInv
<1>3. Spec => Store!Spec
  BY <1>1, <1>2, Invariance, PTL DEF Spec, Store!Spec
<1> QED
  BY <1>3 DEF StoreIsLedger

\* Ledger's bookkeeping invariant holds of the makers' stores.
LEMMA StoreBooks == Spec => []Proved!IInv
<1>1. Init => Proved!IInv
  BY Proved!TypeInit, Proved!BookInit, StoreAssumptions, SumAssumption, SameStore
     DEF Init, Proved!IInv
<1>2. Proved!IInv /\ [Proved!Next]_(Proved!vars) => Proved!IInv'
  BY Proved!BookStep, StoreAssumptions, SumAssumption
<1>3. IInv /\ [Next]_vars => [Proved!Next]_(Proved!vars)
  BY StoreStep, MoveIsStep, SameStore DEF IInv
<1>4. IInv /\ Proved!IInv /\ [Next]_vars => Proved!IInv'
  BY <1>2, <1>3
<1> QED
  BY <1>1, <1>4, Invariance, PTL DEF Spec

(* However many clients ask, reserve again and give up: what a maker has    *)
(* promised never exceeds its inventory, and no row that a paid swap still  *)
(* has to consume can meet the arithmetic errors of consumption (solver.rs  *)
(* reserve, storage.rs consume_reservation_with_hash).                      *)
THEOREM MakersSolvent == Spec => [](Store!Solvent /\ Store!AlwaysBookable)
<1>1. Proved!IInv => Proved!AlwaysBookable
  BY Proved!BooksAreBookable, StoreAssumptions, SumAssumption
<1>2. Proved!IInv => Store!Solvent
  BY DEF Proved!IInv, Proved!Solvent, Store!Solvent
<1>3. Proved!AlwaysBookable => Store!AlwaysBookable
  BY DEF Proved!AlwaysBookable, Store!AlwaysBookable
<1> QED
  BY <1>1, <1>2, <1>3, StoreBooks, PTL

===============================================================================
