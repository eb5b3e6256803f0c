------------------------------ MODULE MCRepair ------------------------------
EXTENDS RepairPatch

MCN == 3

(* A resource as a set of attacks.  An attack works as long as the rules it *)
(* needs are there and those that would stop it are not: a wildcard Allow   *)
(* needs itself and is stopped by a Deny, an escalation path needs each of  *)
(* the statements along it.                                                 *)
Attack == {a \in [needs : SUBSET (1..MCN), stops : SUBSET (1..MCN)] :
             a.needs # {} /\ a.needs \cap a.stops = {}}

Works(a, D) == a.needs \cap D = {} /\ a.stops \subseteq D

VerdictOf(attacks) ==
  [D \in SUBSET (1..MCN) |->
     IF \E a \in attacks : Works(a, D) THEN "SAT" ELSE "UNSAT"]

(* At most two attacks, any heuristics; a resource with a rule that cannot  *)
(* be resolved until it is deleted; an escalation with nothing to delete.   *)
MCCases ==
  {[rules |-> 1..MCN, verdict |-> VerdictOf({a, b}), relevant |-> r] :
     a \in Attack, b \in Attack, r \in SUBSET (1..MCN)} \cup
  {[rules |-> 1..MCN, relevant |-> {2},
    verdict |-> [D \in SUBSET (1..MCN) |->
                   IF 1 \in D THEN "SAT" ELSE "UNRESOLVABLE"]],
   [rules |-> {}, relevant |-> {},
    verdict |-> [D \in SUBSET (1..MCN) |-> "SAT"]]}

(* The ways to write a statement: an ingress block, an egress block, one    *)
(* the patch does not see (a heredoc, a policy of another attribute), a     *)
(* dynamic block, which holds no rule the parser reads.                     *)
Written == {[turn |-> 1, seen |-> TRUE], [turn |-> 2, seen |-> TRUE],
            [turn |-> 1, seen |-> FALSE], [turn |-> 0, seen |-> TRUE]}

(* Three statements of that many lines, from the second line of the file,   *)
(* with a line between.                                                     *)
Spread(ways, height) ==
  [i \in 1..3 |-> [first |-> 2 + (i - 1) * (height + 1),
                   last |-> i * (height + 1),
                   turn |-> ways[i].turn, seen |-> ways[i].seen]]

FileOf(statements, size, count) ==
  [state |-> "readable", size |-> size, statements |-> statements,
   other |-> (1..size) \ UNION {statements[i].first..statements[i].last :
                                  i \in DOMAIN statements},
   skip |-> 0, count |-> count]

Layouts ==
  {FileOf(Spread(w, h), 3 * h + 4, 3) : w \in [1..3 -> Written], h \in {1, 2}}

Ingress(first, last) == [first |-> first, last |-> last, turn |-> 1, seen |-> TRUE]

(* Statements on one line, a line shared with the end of another, a list    *)
(* whose brackets share the statement's line.                               *)
Tight ==
  {FileOf(<<Ingress(2, 2), Ingress(2, 2), Ingress(3, 4)>>, 5, 3),
   FileOf(<<Ingress(2, 3), Ingress(3, 4), Ingress(4, 4)>>, 4, 3),
   [FileOf(<<Ingress(2, 2), Ingress(3, 3), Ingress(4, 4)>>, 5, 3)
      EXCEPT !.other = {1, 2, 4, 5}]}

(* The last rule merged from another block; an escalation whose rules are   *)
(* partly those of other resources; a file that cannot be used.             *)
Partial ==
  {FileOf(<<Ingress(2, 3), Ingress(5, 6)>>, 7, 3)} \cup
  {[FileOf(<<Ingress(2, 3), Ingress(5, 6)>>, 7, 2) EXCEPT !.skip = 1]} \cup
  {[FileOf(Spread([i \in 1..3 |-> [turn |-> 1, seen |-> TRUE]], 1), 7, 3)
      EXCEPT !.state = s] : s \in {"unparsed", "gone", "unreadable"}}

MCFiles == Layouts \cup Tight \cup Partial
=============================================================================
