--------------------------- MODULE MCPayoutBatches ---------------------------
(* Small instances of PayoutBatches for TLC.                               *)
EXTENDS PayoutBatches, TLC

CONSTANTS e1, e2, e3, e4, ann, bob

\* Two earnings of one developer, one of another and one behind the gate.
MCDeveloper == e1 :> ann @@ e2 :> ann @@ e3 :> bob @@ e4 :> bob

Symmetry == Permutations(Calls) \cup Permutations(Intents) \cup Permutations({e1, e2})
=============================================================================
