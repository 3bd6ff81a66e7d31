--------------------------- MODULE MCWithdrawals ---------------------------
(* Small instances of Withdrawals for TLC.                                 *)
EXTENDS Withdrawals, TLC

\* Calls differ only in their ids, and so do requests.
CallSymmetry == Permutations(Calls) \cup Permutations(Requests)
=============================================================================
