--------------------------- MODULE MCReachability ---------------------------
EXTENDS Reachability, TLC

CONSTANTS r1, r2, r3, a1

MCRole == {r1, r2, r3}
MCAccount == {a1}
MCCandidate == {e \in (MCRole \cup MCAccount) \X MCRole : e[1] # e[2]}

RoleSymmetry == Permutations(MCRole)
=============================================================================
