-------------------------- MODULE MCUsageCounters ---------------------------
(***************************************************************************)
(* UsageCounters on a small instance.                                      *)
(***************************************************************************)
EXTENDS UsageCounters, TLC

WriterSymmetry == Permutations(Writers)
=============================================================================
