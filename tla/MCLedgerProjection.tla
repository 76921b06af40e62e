------------------------ MODULE MCLedgerProjection ------------------------
(* Small instances of LedgerProjection. *)
EXTENDS LedgerProjection, TLC

CONSTANTS r1, p1, p2

MCRuns == {r1}
MCProjectors == {p1, p2}
MCTargets == {"completed", "error"}

\* Projectors are interchangeable: none is named, ordered or chosen.
ProjectorSymmetry == Permutations(Projectors)
=============================================================================
