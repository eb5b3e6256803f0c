------------------------------- MODULE Repair -------------------------------
(***************************************************************************)
(* AutoRepairEngine.repair_resource: the search for a smallest set of      *)
(* rules whose deletion makes a vulnerable resource safe.  The solver is   *)
(* an oracle on the set of rules deleted; an engine with a time limit may  *)
(* also give up on any query.  The patch is made in module RepairPatch; the *)
(* certificates, which are text made from the result, are left out.        *)
(***************************************************************************)
EXTENDS Integers, FiniteSets

CONSTANTS
  N,      \* bound on the candidate rules; a lower number comes first in the list
  Cases   \* the resources a call may find, see CaseType

Rule == 1..N

Verdicts == {"SAT", "UNSAT", "UNRESOLVABLE"}

(* The rules that may be deleted, what verification answers for each set of *)
(* deleted rules, and the rules the prefilter's heuristics pick out.        *)
CaseType == [rules : SUBSET Rule, verdict : [SUBSET Rule -> Verdicts],
             relevant : SUBSET Rule]

ASSUME RepairAssumption ==
  /\ N \in Nat
  /\ Cases \subseteq {c \in CaseType : c.relevant \subseteq c.rules}

VARIABLES
  rules,     \* candidate_tuples
  verdict,   \* verification of the graph without a set of rules
  relevant,  \* the rules the prefilter singles out
  patient,   \* no query of this engine ends undecided
  cands,     \* search_candidates, once filtered
  pc,        \* where the call stands
  k,         \* size of the subsets being tried
  untried,   \* the combinations of size k still to try
  trial,     \* the subset under test, later found_deletion
  subs,      \* the proper subsets of trial still to check
  status     \* RemediationResult.status

input == <<rules, verdict, relevant, patient>>
vars == <<input, cands, pc, k, untried, trial, subs, status>>

Pending == "pending"

Result == {"REMEDIATED_MINIMAL", "NO_VULNERABILITY", "UNREMEDIABLE", "FAILED"}

-----------------------------------------------------------------------------
(* The answers of one verification: an undecided one is TIMEOUT or UNKNOWN, *)
(* which the search treats alike.                                           *)
Answers(D) == {verdict[D]} \cup (IF patient THEN {} ELSE {"TIMEOUT"})

(* combinations(S, j), and their order: lexicographic in the list order.    *)
Combinations(S, j) == {T \in SUBSET S : Cardinality(T) = j}

Least(S) == CHOOSE x \in S : \A y \in S : x <= y

Before(S, T) == Least((S \ T) \cup (T \ S)) \in S

(* The next of some subsets: by size, then in the order of combinations.    *)
Precedes(S, T) ==
  \/ S = T
  \/ Cardinality(S) < Cardinality(T)
  \/ Cardinality(S) = Cardinality(T) /\ Before(S, T)

First(X) == CHOOSE S \in X : \A T \in X : Precedes(S, T)

(* Faulty variants of the definitions that follow, to show that the         *)
(* properties can fail: an undecided answer taken for UNSAT, combinations   *)
(* taken from the end of the list, a prefilter without its fallback, a      *)
(* search that stops before all rules, an iterator that does not move on.   *)
RestoresUndecided(answer) == answer # "SAT"
NextTrialLast == CHOOSE S \in untried : \A T \in untried \ {S} : Before(T, S)
FilteredOnly == relevant
LastSizeShort == Cardinality(cands) - 1
RestNone(X) == X

Restores(answer) == answer = "UNSAT"

NextTrial == First(untried)

Rest(X) == X \ {First(X)}

(* _prefilter_candidates_via_unsat_core: everything when nothing matches.   *)
Filtered == IF relevant = {} THEN rules ELSE relevant

(* The last k of the loop.                                                  *)
LastSize == Cardinality(cands)

(* sub_k in range(1, k): the subsets the minimality check visits.           *)
Subsets(S) == (SUBSET S) \ {S, {}}

-----------------------------------------------------------------------------
Init ==
  /\ \E c \in Cases :
       rules = c.rules /\ verdict = c.verdict /\ relevant = c.relevant
  /\ patient \in BOOLEAN
  /\ cands = {} /\ pc = "start" /\ k = 0
  /\ untried = {} /\ trial = {} /\ subs = {}
  /\ status = Pending

Return(result) ==
  /\ pc' = "done"
  /\ status' = result
  /\ UNCHANGED <<input, cands, k, untried, trial, subs>>

(* The address is not in the graph, or the pattern is not known.            *)
NoTarget == pc = "start" /\ Return("UNREMEDIABLE")

(* The initial verification answers anything but SAT.                       *)
NotVulnerable ==
  /\ pc = "start"
  /\ \E a \in Answers({}) : a # "SAT"
  /\ Return("NO_VULNERABILITY")

NothingToDelete ==
  /\ pc = "start" /\ "SAT" \in Answers({})
  /\ rules = {}
  /\ Return("UNREMEDIABLE")

(* Candidates are collected and filtered, and the loop over k begins.       *)
Prefilter ==
  /\ pc = "start" /\ "SAT" \in Answers({})
  /\ rules # {}
  /\ cands' = Filtered
  /\ pc' = "search" /\ k' = 1
  /\ untried' = Combinations(Filtered, 1)
  /\ UNCHANGED <<input, trial, subs, status>>

(* On to the next combination, the next size, or the end of the search.     *)
Advance ==
  \/ /\ untried # {NextTrial}
     /\ untried' = Rest(untried)
     /\ UNCHANGED <<k, status>> /\ pc' = "search"
  \/ /\ untried = {NextTrial} /\ k < LastSize
     /\ k' = k + 1
     /\ untried' = Combinations(cands, k + 1)
     /\ UNCHANGED status /\ pc' = "search"
  \/ /\ untried = {NextTrial} /\ k >= LastSize
     /\ pc' = "done" /\ status' = "UNREMEDIABLE"
     /\ UNCHANGED <<k, untried>>

(* A combination does not restore UNSAT, or the solver gives up on it.      *)
TryFails ==
  /\ pc = "search"
  /\ \E a \in Answers(NextTrial) : ~Restores(a)
  /\ Advance
  /\ UNCHANGED <<input, cands, trial, subs>>

(* A combination restores UNSAT: its subsets are checked next.              *)
TryRestores ==
  /\ pc = "search"
  /\ \E a \in Answers(NextTrial) : Restores(a)
  /\ trial' = NextTrial
  /\ subs' = Subsets(NextTrial)
  /\ pc' = "minimal"
  /\ UNCHANGED <<input, cands, k, untried, status>>

(* A smaller deletion restores UNSAT too: the combination is dropped.       *)
SubRestores ==
  /\ pc = "minimal" /\ subs # {}
  /\ \E a \in Answers(First(subs)) : Restores(a)
  /\ Advance
  /\ subs' = {}
  /\ UNCHANGED <<input, cands, trial>>

SubFails ==
  /\ pc = "minimal" /\ subs # {}
  /\ \E a \in Answers(First(subs)) : ~Restores(a)
  /\ subs' = Rest(subs)
  /\ UNCHANGED <<input, cands, pc, k, untried, trial, status>>

(* No smaller deletion does: the found deletion is verified once more.      *)
Final ==
  /\ pc = "minimal" /\ subs = {}
  /\ \E a \in Answers(trial) :
       Return(IF Restores(a) THEN "REMEDIATED_MINIMAL" ELSE "FAILED")

Next == \/ NoTarget \/ NotVulnerable \/ NothingToDelete \/ Prefilter
        \/ TryFails \/ TryRestores \/ SubRestores \/ SubFails \/ Final

(* The search is one sequential call.                                       *)
Spec == Init /\ [][Next]_vars /\ WF_vars(Next)

-----------------------------------------------------------------------------
TypeOK ==
  /\ verdict \in [SUBSET Rule -> Verdicts]
  /\ rules \subseteq Rule /\ relevant \subseteq rules /\ patient \in BOOLEAN
  /\ cands \subseteq rules
  /\ pc \in {"start", "search", "minimal", "done"}
  /\ k \in 0..N
  /\ pc \in {"search", "minimal"} => untried # {}
  /\ untried \subseteq Combinations(cands, k)
  /\ trial \subseteq cands /\ subs \subseteq Subsets(trial)
  /\ status \in Result \cup {Pending}

(* README.md: "REMEDIATED_MINIMAL strictly reserved for subset-minimal      *)
(* fixes verified via full re-verification".  The deletion makes the        *)
(* resource safe, and no smaller one does, not even none; a time limit can  *)
(* cost the second half but never the first.                                *)
FixIsMinimal ==
  status = "REMEDIATED_MINIMAL" =>
    /\ verdict[trial] = "UNSAT"
    /\ patient => \A T \in SUBSET trial : T # trial => verdict[T] # "UNSAT"

(* The choice is the deterministic one: among all deletions of candidates   *)
(* that work, the reported one has the fewest rules and comes first.        *)
FixIsFirst ==
  status = "REMEDIATED_MINIMAL" /\ patient =>
    trial = First({T \in SUBSET cands : T # {} /\ verdict[T] = "UNSAT"})

(* The search is exhaustive: UNREMEDIABLE after a search means that no      *)
(* deletion of candidates works.                                            *)
UnremediableIsExhaustive ==
  status = "UNREMEDIABLE" /\ k > 0 /\ patient =>
    \A T \in SUBSET cands : T # {} => verdict[T] # "UNSAT"

(* Every call returns.                                                      *)
Terminates == <>(status # Pending)
-----------------------------------------------------------------------------
(* The argument behind the proofs.  At any point of the search every        *)
(* deletion of fewer rules, and every one of k rules already passed, fails; *)
(* while a found one is checked, every smaller part of it already passed    *)
(* fails too.                                                               *)
Passed ==
  {T \in SUBSET cands :
     /\ T # {}
     /\ \/ Cardinality(T) < k
        \/ Cardinality(T) = k /\ T \notin untried}

SearchInv ==
  /\ k \in 1..LastSize
  /\ verdict[{}] = "SAT"
  /\ patient => \A T \in Passed : verdict[T] # "UNSAT"

CheckInv ==
  /\ trial = NextTrial
  /\ verdict[trial] = "UNSAT"
  /\ patient => \A T \in Subsets(trial) \ subs : verdict[T] # "UNSAT"

IInv ==
  /\ TypeOK
  /\ pc # "done" => status = Pending
  /\ pc = "start" => k = 0 /\ cands = {}
  /\ pc \in {"search", "minimal"} => SearchInv
  /\ pc = "minimal" => CheckInv
  /\ FixIsMinimal /\ FixIsFirst /\ UnremediableIsExhaustive
=============================================================================
