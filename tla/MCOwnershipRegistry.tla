------------------------- MODULE MCOwnershipRegistry -------------------------
(* Small instances of OwnershipRegistry for TLC.                           *)
EXTENDS OwnershipRegistry, TLC

MCInvested == <<3, 2, 0>>

Busy == {c \in Calls : call[c] # Idle}

\* Handlers overlap that are in the same part, which is where they write the
\* same documents.
OverlapInOnePart == \A c, d \in Busy : call[c].part = call[d].part

Symmetry == Permutations(Calls)
=============================================================================
