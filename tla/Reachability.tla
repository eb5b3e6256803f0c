---------------------------- MODULE Reachability ----------------------------
(***************************************************************************)
(* VerificationEngine.verify_privilege_escalation: bounded model checking  *)
(* of the role-assumption graph, one solver query per hop bound, from the  *)
(* shortest bound up.  The trust graph and the target roles are inputs;    *)
(* the result cache is left to module EngineCache.                         *)
(***************************************************************************)
EXTENDS Integers, FiniteSets

CONSTANTS
  Role,       \* the graph nodes whose name does not start with "account:"
  Account,    \* the external principals, nodes named "account:..."
  Candidate,  \* the assume-role edges a configuration may contain
  Outsider,   \* a name that is no node of the graph
  None,       \* an argument left at its default
  MaxCap      \* the bound on configured_cap

(* VerificationResult.status. *)
Status == {"SAT", "UNSAT", "UNSAT_BOUNDED", "TIMEOUT", "UNKNOWN",
           "UNRESOLVABLE"}

(* Edges of both trust-graph builders end in a role, a managed identity or  *)
(* a role assignment, never in an "account:" node.                          *)
ASSUME ReachabilityAssumption ==
  /\ IsFiniteSet(Role)
  /\ Role \cap Account = {}
  /\ Candidate \subseteq (Role \cup Account) \X Role
  /\ Outsider \notin Role \cup Account
  /\ None \notin Role \cup Account \cup {Outsider} \cup Status
  /\ MaxCap \in Nat

VARIABLES
  external,   \* trust_graph.external_entry_points
  edges,      \* trust_graph.edges, as pairs <<from_node, to_node>>
  cap,        \* configured_cap
  principal,  \* entry_principal
  targets,    \* target_roles
  pc,         \* where the call stands
  hop,        \* current_k, the bound of the next query
  verdict,    \* status of the result
  witness,    \* the model of hop_0 .. hop_k a SAT result is built from
  seen        \* history: what hop_i can be in the formula of bound hop - 1

input == <<external, edges, cap, principal>>
vars == <<external, edges, cap, principal, targets, pc, hop, verdict,
          witness, seen>>

-----------------------------------------------------------------------------
(* The BMC formula.                                                         *)

Nodes == Role \cup external

RoleCount == Cardinality(Role)

(* Faulty variants of the definitions that follow, to show that the         *)
(* properties can fail: a bound one short, a bound that ignores the role    *)
(* count, a cap that counts as complete one too early, a loop that stops    *)
(* one bound early, a search that starts at the last bound.                 *)
HopBoundShort == IF RoleCount <= cap THEN RoleCount - 1 ELSE cap
HopBoundCap == cap
IsCompleteEarly == RoleCount <= cap + 1
ExhaustedEarly == hop >= (IF RoleCount <= cap THEN RoleCount ELSE cap) - 1
FirstBoundLast == IF RoleCount <= cap THEN RoleCount ELSE cap

(* compute_hop_bound: the bound k and whether reaching it is a full proof.  *)
HopBound == IF RoleCount <= cap THEN RoleCount ELSE cap

IsComplete == RoleCount <= cap

(* The loop for current_k in range(1, k + 1).                               *)
FirstBound == 1

Exhausted == hop = HopBound

(* hop_0: the entry principal when one is named, else every external one.   *)
Entry == IF principal = None THEN external ELSE {principal}

(* One transition: an edge, or a stuttering step on a node of the graph.    *)
Step == edges \cup {<<n, n>> : n \in Nodes}

(* The assignments to hop_0 .. hop_k that satisfy the entry and transition  *)
(* constraints, and whether one also satisfies the target constraint.       *)
Assignments(k) ==
  {h \in [0..k -> Nodes \cup Entry] :
     /\ h[0] \in Entry
     /\ \A i \in 0..(k - 1) : <<h[i], h[i + 1]>> \in Step}

BmcSat(k) == \E h \in Assignments(k) : h[k] \in targets

Image(S) == {n \in Nodes : \E m \in S : <<m, n>> \in Step}

-----------------------------------------------------------------------------
Init ==
  /\ external = {} /\ edges = {} /\ cap = 0 /\ principal = None
  /\ targets = {} /\ pc = "idle" /\ hop = 0
  /\ verdict = None /\ witness = None /\ seen = {}

Return(status) ==
  /\ pc' = "done"
  /\ verdict' = status
  /\ UNCHANGED <<input, targets, hop, witness, seen>>

(* A call on some graph.  One role or assignment whose trust data cannot be *)
(* resolved makes the whole query UNRESOLVABLE before any solving.          *)
Call ==
  /\ pc = "idle"
  /\ external' \in SUBSET Account
  /\ edges' \in SUBSET (Candidate \cap ((Role \cup external') \X Role))
  /\ cap' \in 0..MaxCap
  /\ principal' \in Role \cup external' \cup {Outsider, None}
  /\ \/ pc' = "targets" /\ UNCHANGED verdict
     \/ pc' = "done" /\ verdict' = "UNRESOLVABLE"
  /\ UNCHANGED <<targets, hop, witness, seen>>

(* The checks between the choice of the targets and the first query.        *)
Enter(T) ==
  /\ targets' = T
  /\ UNCHANGED <<input, witness>>
  /\ \/ /\ T = {} \/ external = {}
        /\ pc' = "done" /\ verdict' = "UNSAT"
        /\ UNCHANGED <<hop, seen>>
     \/ /\ T # {} /\ external # {} /\ HopBound = 0
        /\ pc' = "done"
        /\ verdict' = IF IsComplete THEN "UNSAT" ELSE "UNSAT_BOUNDED"
        /\ UNCHANGED <<hop, seen>>
     \/ /\ T # {} /\ external # {} /\ HopBound > 0
        /\ pc' = "query" /\ hop' = FirstBound /\ seen' = Entry
        /\ UNCHANGED verdict

(* target_resource names a role of the graph.                               *)
ExplicitTarget == pc = "targets" /\ \E t \in Role : Enter({t})

(* target_resource is not a node of the graph.                              *)
UnknownTarget == pc = "targets" /\ Return("UNRESOLVABLE")

(* No target_resource: the roles whose permission query answers sat, and    *)
(* the Azure principals with an administrative role.                        *)
DetectTargets == pc = "targets" /\ \E T \in SUBSET Role : Enter(T)

(* solver.check() answers sat: the result carries one of the models.        *)
QuerySat ==
  /\ pc = "query"
  /\ \E h \in Assignments(hop) : h[hop] \in targets /\ witness' = h
  /\ pc' = "done" /\ verdict' = "SAT"
  /\ UNCHANGED <<input, targets, hop, seen>>

(* solver.check() answers unsat: the next bound, or the end of the loop.    *)
QueryUnsat ==
  /\ pc = "query"
  /\ ~BmcSat(hop)
  /\ seen' = Image(seen)
  /\ \/ /\ ~Exhausted
        /\ hop' = hop + 1
        /\ UNCHANGED <<pc, verdict>>
     \/ /\ Exhausted
        /\ pc' = "done"
        /\ verdict' = IF IsComplete THEN "UNSAT" ELSE "UNSAT_BOUNDED"
        /\ UNCHANGED hop
  /\ UNCHANGED <<input, targets, witness>>

(* solver.check() gives up: timeout, interruption or incompleteness.        *)
QueryUnknown ==
  pc = "query" /\ \E s \in {"TIMEOUT", "UNKNOWN"} : Return(s)

Next == \/ Call \/ ExplicitTarget \/ UnknownTarget \/ DetectTargets
        \/ QuerySat \/ QueryUnsat \/ QueryUnknown

Spec == Init /\ [][Next]_vars

-----------------------------------------------------------------------------
TypeOK ==
  /\ external \subseteq Account
  /\ edges \subseteq Nodes \X Role
  /\ cap \in 0..MaxCap
  /\ principal \in Nodes \cup {Outsider, None}
  /\ targets \subseteq Role
  /\ pc \in {"idle", "targets", "query", "done"}
  /\ hop \in 0..RoleCount
  /\ verdict \in Status \cup {None}
  /\ seen \subseteq Nodes \cup {Outsider}
  /\ verdict = "SAT" => witness \in Assignments(hop)

(* A set that holds every entry point, that no edge leaves and that misses  *)
(* every target: what unreachability by any number of hops comes down to.   *)
Separates(S) ==
  /\ Entry \subseteq S
  /\ \A e \in edges : e[1] \in S => e[2] \in S
  /\ S \cap targets = {}

Unreachable == \E S \in SUBSET (Nodes \cup Entry) : Separates(S)

(* UNSAT is a complete proof (engine.py: "complete proof of unreachability" *)
(* when role count <= cap): no number of hops, even beyond the bound, leads *)
(* from an entry point to a target.  Stated for the calls that have an      *)
(* external entry point or name no principal.                               *)
CompleteProof ==
  verdict = "UNSAT" /\ (principal = None \/ external # {}) => Unreachable

(* The same for every call: what the docstring of the method promises.      *)
UnsatMeansUnreachable == verdict = "UNSAT" => Unreachable

(* UNSAT_BOUNDED claims exactly the bound that was searched.                *)
BoundedProof ==
  verdict = "UNSAT_BOUNDED" => \A j \in 1..HopBound : ~BmcSat(j)

(* The witness of a SAT result is a shortest escalation path: it ends in a  *)
(* target, it never stutters unless an entry point is itself a target, and  *)
(* no smaller bound has a path at all.                                      *)
ShortestWitness ==
  verdict = "SAT" =>
    /\ witness[hop] \in targets
    /\ \A j \in 1..(hop - 1) : ~BmcSat(j)
    /\ \/ Entry \cap targets # {}
       \/ \A i \in 0..(hop - 1) : <<witness[i], witness[i + 1]>> \in edges
                                  /\ witness[i] # witness[i + 1]

-----------------------------------------------------------------------------
(* The argument behind the proofs.  What hop_i can be after an unsat bound  *)
(* misses the targets; it keeps every entry point; and as long as an edge   *)
(* leaves it, the next bound adds a role to it, so that RoleCount bounds    *)
(* close it.                                                                *)
Closed(S) == \A e \in edges : e[1] \in S => e[2] \in S

Unrolling(k) == {h[k] : h \in Assignments(k)}

LoopInv ==
  /\ hop \in 1..HopBound
  /\ targets # {} /\ external # {}
  /\ seen = Unrolling(hop - 1)
  /\ Entry \cap Nodes \subseteq seen
  /\ Closed(seen) \/ Cardinality(seen \cap Role) >= hop - 1
  /\ \A j \in 1..(hop - 1) : ~BmcSat(j)

IInv ==
  /\ TypeOK
  /\ pc # "done" => verdict = None
  /\ pc = "idle" => seen = {}
  /\ pc = "query" => LoopInv
  /\ CompleteProof
  /\ BoundedProof
  /\ ShortestWitness
=============================================================================
