---------------------------- MODULE MCReverseRunner ----------------------------
(* Small instances of ReverseRunner: one run at a time, one funding         *)
(* transaction, and a refunder.                                             *)
EXTENDS ReverseRunner
===============================================================================
