---------------------------- MODULE MCEngineCache ----------------------------
EXTENDS EngineCache

CONSTANTS p1, p2

Perms == Permutations(Proc)

(* The rule attached in file 2 belongs to the resource of file 1.           *)
MCReads == [f \in File |-> IF f = 1 THEN File ELSE {f}]

Has(v, x) == \E f \in DOMAIN v : v[f] = x

(* A file is "safe", "open", or "dangling": open too, with a reference that *)
(* cannot be resolved, of which the policy check takes no notice.           *)
MCUnresolved(v) == Has(v, "dangling")

MCTruth(c, v) ==
  IF MCUnresolved(v) /\ c.kind # "policy" THEN "UNRESOLVABLE"
  ELSE IF Has(v, "open") \/ Has(v, "dangling") THEN "SAT"
  ELSE IF c.kind = "escalation" THEN "UNSAT_BOUNDED" ELSE "UNSAT"
=============================================================================
