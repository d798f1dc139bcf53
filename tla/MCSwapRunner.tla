----------------------------- MODULE MCSwapRunner -----------------------------
(* Small instances of SwapRunner.                                          *)
EXTENDS SwapRunner, TLC

\* Runs and funding transactions are interchangeable (for safety runs only).
MCSymmetry == Permutations(Runners) \cup Permutations(FundingTxs)
===============================================================================
