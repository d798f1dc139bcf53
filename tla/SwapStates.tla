------------------------------ MODULE SwapStates ------------------------------
(***************************************************************************)
(* The persisted states of a swap, the edges `can_transition_to` allows    *)
(* between them, and the two tables with which the command line's observer *)
(* reads a runner phase against the persisted state.                       *)
(***************************************************************************)
EXTENDS Naturals

SwapState ==
    {"CREATED", "INPUT_FUNDING", "INPUT_LOCKED", "OUTPUT_PENDING",
     "OUTPUT_UNKNOWN", "OUTPUT_SETTLED", "CLAIM_PENDING", "SETTLED",
     "REFUNDING", "REFUNDED", "FAILED"}

Edges ==
    {<<"CREATED", "INPUT_FUNDING">>,
     <<"INPUT_FUNDING", "INPUT_LOCKED">>,
     <<"INPUT_FUNDING", "FAILED">>,
     <<"INPUT_LOCKED", "OUTPUT_PENDING">>,
     <<"INPUT_LOCKED", "REFUNDING">>,
     <<"OUTPUT_PENDING", "OUTPUT_UNKNOWN">>,
     <<"OUTPUT_PENDING", "OUTPUT_SETTLED">>,
     <<"OUTPUT_UNKNOWN", "OUTPUT_SETTLED">>,
     <<"OUTPUT_UNKNOWN", "REFUNDING">>,
     <<"OUTPUT_SETTLED", "CLAIM_PENDING">>,
     <<"CLAIM_PENDING", "SETTLED">>,
     <<"REFUNDING", "REFUNDED">>,
     <<"REFUNDING", "FAILED">>}

\* Mutant: a settled output may still be refunded.
RefundableOncePaid(from, to) == <<from, to>> \in Edges \cup {<<"OUTPUT_SETTLED", "REFUNDING">>}

CanTransitionTo(from, to) == <<from, to>> \in Edges

\* The states from which the maker was paid, and those of a swap given up.
PaidStates == {"OUTPUT_SETTLED", "CLAIM_PENDING", "SETTLED"}
AbandonedStates == {"REFUNDING", "REFUNDED", "FAILED"}

-------------------------------------------------------------------------------
\* The order in which the observer compares a phase with the stored state.
Rank(state) ==
    CASE state = "CREATED"        -> 0
      [] state = "INPUT_FUNDING"  -> 1
      [] state = "INPUT_LOCKED"   -> 2
      [] state = "OUTPUT_PENDING" -> 3
      [] state = "OUTPUT_UNKNOWN" -> 4
      [] state = "OUTPUT_SETTLED" -> 5
      [] state = "CLAIM_PENDING"  -> 6
      [] state = "SETTLED"        -> 7
      [] OTHER                    -> 8

\* A phase is named by the state it enters; this is the state it leaves.
ExpectedBefore ==
    [INPUT_FUNDING  |-> "CREATED",
     INPUT_LOCKED   |-> "INPUT_FUNDING",
     OUTPUT_PENDING |-> "INPUT_LOCKED",
     OUTPUT_UNKNOWN |-> "OUTPUT_PENDING",
     OUTPUT_SETTLED |-> "OUTPUT_PENDING",
     CLAIM_PENDING  |-> "OUTPUT_SETTLED",
     SETTLED        |-> "CLAIM_PENDING",
     REFUNDING      |-> "INPUT_LOCKED",
     REFUNDED       |-> "REFUNDING"]
===============================================================================
