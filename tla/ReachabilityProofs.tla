------------------------- MODULE ReachabilityProofs -------------------------
(***************************************************************************)
(* Proofs, for every trust graph, cap and entry principal, of the          *)
(* invariants of module Reachability.  IInv is the inductive invariant:    *)
(* LoopInv says what each unsat bound has established, and its counting    *)
(* conjunct is why RoleCount bounds are a complete proof.                  *)
(***************************************************************************)
EXTENDS Reachability, OrderLemmas

-----------------------------------------------------------------------------
(* Facts about the formula.                                                *)

(* The role count is a natural number, so the hop bound lies within it.    *)
LEMMA HopBoundType ==
  ASSUME TypeOK
  PROVE  /\ RoleCount \in Nat
         /\ HopBound \in 0..RoleCount
         /\ IsComplete => HopBound = RoleCount
BY ReachabilityAssumption, FS_CardinalityType
   DEF TypeOK, RoleCount, HopBound, IsComplete

(* A transition, real or stuttering, stays within the graph.               *)
LEMMA StepType ==
  ASSUME TypeOK
  PROVE  Step \subseteq Nodes \X Nodes
BY DEF TypeOK, Step, Nodes

(* With no transition, hop_0 is any entry point.                           *)
LEMMA UnrollingZero == Unrolling(0) = Entry
<1>1. ASSUME NEW x \in Unrolling(0) PROVE x \in Entry
  BY <1>1 DEF Unrolling, Assignments
<1>2. ASSUME NEW x \in Entry PROVE x \in Unrolling(0)
  <2> DEFINE h == [i \in 0..0 |-> x]
  <2>1. h \in Assignments(0)
    BY <1>2 DEF Assignments
  <2>2. h[0] = x
    OBVIOUS
  <2> QED BY <2>1, <2>2 DEF Unrolling
<1> QED BY <1>1, <1>2

(* One more transition adds one image to what the last hop can be.         *)
LEMMA UnrollingStep ==
  ASSUME TypeOK, NEW k \in Nat
  PROVE  Unrolling(k + 1) = Image(Unrolling(k))
<1>1. ASSUME NEW x \in Unrolling(k + 1) PROVE x \in Image(Unrolling(k))
  <2>1. PICK h \in Assignments(k + 1) : x = h[k + 1]
    BY <1>1 DEF Unrolling
  <2> DEFINE g == [i \in 0..k |-> h[i]]
  <2>2. g \in Assignments(k)
    <3>1. g \in [0..k -> Nodes \cup Entry]
      BY <2>1 DEF Assignments
    <3>2. g[0] \in Entry
      BY <2>1 DEF Assignments
    <3>3. ASSUME NEW i \in 0..(k - 1) PROVE <<g[i], g[i + 1]>> \in Step
      <4>1. i \in 0..((k + 1) - 1) /\ i \in 0..k /\ i + 1 \in 0..k
        BY <3>3
      <4> QED BY <4>1, <2>1 DEF Assignments
    <3> QED BY <3>1, <3>2, <3>3 DEF Assignments
  <2>3. <<h[k], h[k + 1]>> \in Step
    BY <2>1 DEF Assignments
  <2>4. h[k] \in Unrolling(k)
    BY <2>2 DEF Unrolling
  <2>5. x \in Nodes
    BY <2>1, <2>3, StepType
  <2> QED BY <2>1, <2>3, <2>4, <2>5 DEF Image
<1>2. ASSUME NEW x \in Image(Unrolling(k)) PROVE x \in Unrolling(k + 1)
  <2>1. PICK g \in Assignments(k) : <<g[k], x>> \in Step /\ x \in Nodes
    BY <1>2 DEF Image, Unrolling
  <2> DEFINE h == [i \in 0..(k + 1) |-> IF i <= k THEN g[i] ELSE x]
  <2>2. g \in [0..k -> Nodes \cup Entry] /\ g[0] \in Entry
        /\ \A i \in 0..(k - 1) : <<g[i], g[i + 1]>> \in Step
    BY <2>1 DEF Assignments
  <2>3. h \in [0..(k + 1) -> Nodes \cup Entry] /\ h[0] \in Entry
    BY <2>1, <2>2
  <2>4. ASSUME NEW i \in 0..((k + 1) - 1) PROVE <<h[i], h[i + 1]>> \in Step
    <3>1. CASE i = k
      BY <3>1, <2>1
    <3>2. CASE i # k
      <4>1. i \in 0..(k - 1) /\ h[i] = g[i] /\ h[i + 1] = g[i + 1]
        BY <3>2, <2>4
      <4> QED BY <4>1, <2>2
    <3> QED BY <3>1, <3>2
  <2>5. h[k + 1] = x
    OBVIOUS
  <2> HIDE DEF h
  <2>6. h \in Assignments(k + 1)
    BY <2>3, <2>4 DEF Assignments
  <2> QED BY <2>5, <2>6 DEF Unrolling
<1> QED BY <1>1, <1>2

(* An unsat bound is one whose last hop misses every target.               *)
LEMMA BmcSatUnrolling ==
  ASSUME NEW k \in Nat
  PROVE  BmcSat(k) <=> Unrolling(k) \cap targets # {}
BY DEF BmcSat, Unrolling

(* What no edge leaves stays closed under one more transition.             *)
LEMMA ImageClosed ==
  ASSUME TypeOK, NEW S, Closed(S)
  PROVE  Closed(Image(S))
<1> SUFFICES ASSUME NEW e \in edges, e[1] \in Image(S)
             PROVE  e[2] \in Image(S)
  BY DEF Closed
<1>1. e = <<e[1], e[2]>> /\ e[1] \in Nodes /\ e[2] \in Nodes
  BY DEF TypeOK, Nodes
<1>2. e[1] \in S
  BY DEF Image, Step, Closed
<1>3. <<e[1], e[2]>> \in Step
  BY <1>1 DEF Step
<1> QED BY <1>1, <1>2, <1>3 DEF Image

(* The image keeps the nodes of a set, thanks to the stuttering steps.     *)
LEMMA ImageGrows ==
  ASSUME NEW S
  PROVE  S \cap Nodes \subseteq Image(S)
BY DEF Image, Step

(* The counting argument: each bound that leaves the set open adds a role. *)
LEMMA ImageCounts ==
  ASSUME TypeOK, NEW S, ~Closed(S), NEW k \in Nat,
         Cardinality(S \cap Role) >= k
  PROVE  Cardinality(Image(S) \cap Role) >= k + 1
<1>1. PICK e \in edges : e[1] \in S /\ e[2] \notin S
  BY DEF Closed
<1>2. e = <<e[1], e[2]>> /\ e[1] \in Nodes /\ e[2] \in Role /\ e[2] \in Nodes
  BY DEF TypeOK, Nodes
<1>3. e[2] \in Image(S)
  BY <1>1, <1>2 DEF Image, Step
<1> DEFINE A == S \cap Role
<1> DEFINE B == Image(S) \cap Role
<1>4. A \cup {e[2]} \subseteq B
  BY <1>2, <1>3, ImageGrows DEF Nodes
<1>5. IsFiniteSet(A) /\ IsFiniteSet(B)
  BY FS_Subset, ReachabilityAssumption
<1>6. Cardinality(A \cup {e[2]}) = Cardinality(A) + 1
  BY <1>1, <1>5, FS_AddElement
<1>7. Cardinality(A \cup {e[2]}) <= Cardinality(B)
  BY <1>4, <1>5, FS_Subset
<1>8. Cardinality(A) \in Nat /\ Cardinality(B) \in Nat
  BY <1>5, FS_CardinalityType
<1>9. Cardinality(A) >= k
  OBVIOUS
<1>10. Cardinality(B) >= k + 1
  <2> HIDE DEF A, B
  <2> QED BY <1>6, <1>7, <1>8, <1>9
<1> QED BY <1>10

(* With every role reached no edge can leave: edges end in roles.          *)
LEMMA FullIsClosed ==
  ASSUME TypeOK, NEW S, Cardinality(S \cap Role) >= RoleCount
  PROVE  Closed(S)
<1>1. S \cap Role \in SUBSET Role
  OBVIOUS
<1>2. S \cap Role = Role
  BY <1>1, FS_Subset, FS_CardinalityType, ReachabilityAssumption DEF RoleCount
<1> QED BY <1>2 DEF Closed, TypeOK

(* A closed set that holds the entry points and misses the targets is what *)
(* CompleteProof asks for.                                                 *)
LEMMA ClosedSeparates ==
  ASSUME TypeOK, NEW S \in SUBSET (Nodes \cup Entry), Closed(S),
         Entry \cap Nodes \subseteq S, S \cap targets = {}
  PROVE  Unreachable
<1> DEFINE U == S \cup Entry
<1>1. Entry \subseteq U /\ U \in SUBSET (Nodes \cup Entry)
  OBVIOUS
<1>2. \A e \in edges : e[1] \in U => e[2] \in U
  BY DEF Closed, TypeOK, Nodes
<1>3. U \cap targets = {}
  BY DEF TypeOK, Nodes
<1>4. Separates(U)
  BY <1>1, <1>2, <1>3 DEF Separates
<1> QED BY <1>1, <1>4 DEF Unreachable

(* Deleting a stuttering step leaves an assignment of the bound below.     *)
LEMMA DropStutter ==
  ASSUME TypeOK, NEW k \in Nat, k >= 2, NEW h \in Assignments(k),
         h[k] \in targets,
         NEW i \in 0..(k - 1), h[i] = h[i + 1]
  PROVE  BmcSat(k - 1)
<1> DEFINE g == [j \in 0..(k - 1) |-> IF j <= i THEN h[j] ELSE h[j + 1]]
<1>1. /\ h \in [0..k -> Nodes \cup Entry]
      /\ h[0] \in Entry
      /\ \A j \in 0..(k - 1) : <<h[j], h[j + 1]>> \in Step
  BY DEF Assignments
<1>2. g \in [0..(k - 1) -> Nodes \cup Entry]
  BY <1>1
<1>3. g[0] \in Entry
  BY <1>1
<1>4. ASSUME NEW j \in 0..((k - 1) - 1) PROVE <<g[j], g[j + 1]>> \in Step
  <2>1. CASE j < i
    <3>1. g[j] = h[j] /\ g[j + 1] = h[j + 1] /\ j \in 0..(k - 1)
      BY <2>1
    <3> QED BY <3>1, <1>1
  <2>2. CASE j >= i
    <3>1. g[j] = h[j + 1]
      BY <2>2
    <3>2. g[j + 1] = h[(j + 1) + 1] /\ j + 1 \in 0..(k - 1)
      BY <2>2
    <3> QED BY <3>1, <3>2, <1>1
  <2> QED BY <2>1, <2>2
<1>5. g[k - 1] = h[k]
  OBVIOUS
<1> HIDE DEF g
<1>6. g \in Assignments(k - 1)
  BY <1>2, <1>3, <1>4 DEF Assignments
<1> QED BY <1>5, <1>6 DEF BmcSat

(* What Unreachable means: no bound at all has a path to a target, also    *)
(* beyond the one the code stopped at.                                     *)
THEOREM UnreachableBlocks ==
  ASSUME Unreachable, NEW k \in Nat
  PROVE  ~BmcSat(k)
<1>1. PICK S \in SUBSET (Nodes \cup Entry) : Separates(S)
  BY DEF Unreachable
<1> SUFFICES ASSUME NEW h \in Assignments(k), h[k] \in targets
             PROVE  FALSE
  BY DEF BmcSat
<1>2. h[0] \in S /\ \A i \in 0..(k - 1) : <<h[i], h[i + 1]>> \in Step
  BY <1>1 DEF Assignments, Separates
<1> DEFINE Out == {i \in 0..k : h[i] \notin S}
<1>3. k \in Out /\ Out \in SUBSET Nat
  BY <1>1 DEF Separates
<1>4. PICK b \in Out : \A c \in Out : b <= c
  <2> HIDE DEF Out
  <2> QED BY <1>3, LeastElement
<1>5. b # 0 /\ b - 1 \in 0..(k - 1) /\ (b - 1) + 1 = b
  BY <1>2
<1>6. h[b - 1] \in S
  BY <1>4, <1>5
<1>7. <<h[b - 1], h[b]>> \in Step
  BY <1>2, <1>5
<1>8. h[b] \in S
  BY <1>1, <1>6, <1>7 DEF Step, Separates
<1> QED BY <1>8

-----------------------------------------------------------------------------
(* The inductive invariant.                                                *)

LEMMA InitInv == Init => IInv
<1> SUFFICES ASSUME Init PROVE IInv
  OBVIOUS
<1>1. TypeOK
  <2>1. RoleCount \in Nat
    BY ReachabilityAssumption, FS_CardinalityType DEF RoleCount
  <2> QED BY <2>1, ReachabilityAssumption DEF Init, TypeOK, Nodes, Status
<1>2. verdict \notin Status
  BY ReachabilityAssumption DEF Init
<1> QED BY <1>1, <1>2
        DEF Init, IInv, CompleteProof, BoundedProof, ShortestWitness, Status

(* States that claim nothing yet, or whose query was abandoned.            *)
LEMMA NoClaim ==
  ASSUME TypeOK', verdict' \notin {"SAT", "UNSAT", "UNSAT_BOUNDED"},
         pc' \notin {"idle", "query"}, pc' # "done" => verdict' = None
  PROVE  IInv'
BY DEF IInv, CompleteProof, BoundedProof, ShortestWitness

LEMMA CallInv == IInv /\ Call => IInv'
<1> SUFFICES ASSUME IInv, Call PROVE IInv'
  OBVIOUS
<1>1. verdict' \in {None, "UNRESOLVABLE"} /\ pc' \in {"targets", "done"}
      /\ (pc' # "done" => verdict' = None)
  BY DEF Call, IInv
<1>2. verdict' \notin {"SAT", "UNSAT", "UNSAT_BOUNDED"}
  BY <1>1, ReachabilityAssumption DEF Status
<1>3. TypeOK'
  <2>1. external' \subseteq Account /\ cap' \in 0..MaxCap
        /\ edges' \subseteq Nodes' \X Role
        /\ principal' \in Nodes' \cup {Outsider, None}
    BY DEF Call, Nodes
  <2>2. targets' \subseteq Role /\ hop' \in 0..RoleCount /\ seen' = {}
    BY DEF Call, IInv, TypeOK
  <2> QED BY <1>1, <1>2, <2>1, <2>2 DEF TypeOK, Status
<1> QED BY <1>1, <1>2, <1>3, NoClaim

(* TypeOK survives a step that keeps the inputs and reports nothing found. *)
LEMMA TypeStep ==
  ASSUME IInv, UNCHANGED input, targets' \subseteq Role,
         pc' \in {"targets", "query", "done"}, hop' \in 0..RoleCount,
         verdict' \in (Status \ {"SAT"}) \cup {None},
         seen' \subseteq Nodes \cup {Outsider}
  PROVE  TypeOK'
<1>1. Nodes' = Nodes
  BY DEF Nodes, input
<1>2. verdict' # "SAT"
  BY ReachabilityAssumption DEF Status
<1> QED BY <1>1, <1>2 DEF IInv, TypeOK, input

LEMMA EntryType ==
  ASSUME TypeOK
  PROVE  Entry \subseteq Nodes \cup {Outsider}
BY DEF TypeOK, Entry, Nodes

LEMMA EnterInv ==
  ASSUME IInv, pc = "targets", NEW T \in SUBSET Role, Enter(T)
  PROVE  IInv'
<1>1. TypeOK
  BY DEF IInv
<1>2. verdict = None /\ verdict \notin Status
  BY ReachabilityAssumption DEF IInv
<1>3. UNCHANGED <<input, witness>> /\ targets' = T
  BY DEF Enter
<1>4. Nodes' = Nodes /\ Entry' = Entry /\ Step' = Step /\ HopBound' = HopBound
  BY <1>3 DEF input, Nodes, Entry, Step, HopBound, RoleCount
<1>5. CASE (T = {} \/ external = {}) /\ pc' = "done" /\ verdict' = "UNSAT"
           /\ UNCHANGED <<hop, seen>>
  <2>1. TypeOK'
    BY <1>1, <1>3, <1>5, TypeStep DEF TypeOK, Status
  <2>2. ASSUME T = {} PROVE Unreachable'
    <3> DEFINE S == Nodes \cup Entry
    <3>1. Separates(S)'
      BY <1>1, <1>3, <1>4, <2>2 DEF Separates, TypeOK, input, Nodes
    <3> QED BY <1>4, <3>1 DEF Unreachable
  <2>3. ASSUME external = {}, principal = None PROVE Unreachable'
    <3>1. Separates({})'
      BY <1>3, <2>3 DEF Separates, Entry, input
    <3> QED BY <3>1 DEF Unreachable
  <2>4. CompleteProof'
    BY <1>3, <1>5, <2>2, <2>3 DEF CompleteProof, input
  <2> QED BY <1>5, <2>1, <2>4 DEF IInv, BoundedProof, ShortestWitness
<1>6. CASE T # {} /\ external # {} /\ HopBound = 0 /\ pc' = "done"
           /\ verdict' = (IF IsComplete THEN "UNSAT" ELSE "UNSAT_BOUNDED")
           /\ UNCHANGED <<hop, seen>>
  <2>1. TypeOK'
    BY <1>1, <1>3, <1>6, TypeStep DEF TypeOK, Status
  <2>2. ~IsComplete
    <3> SUFFICES ASSUME IsComplete PROVE FALSE
      OBVIOUS
    <3>1. RoleCount = 0
      BY <1>1, <1>6, HopBoundType
    <3>2. Role = {}
      BY <3>1, FS_EmptySet, ReachabilityAssumption DEF RoleCount
    <3> QED BY <1>6, <3>2
  <2>3. BoundedProof'
    BY <1>4, <1>6 DEF BoundedProof
  <2> QED BY <1>6, <2>1, <2>2, <2>3
          DEF IInv, CompleteProof, ShortestWitness
<1>7. CASE T # {} /\ external # {} /\ HopBound > 0 /\ pc' = "query"
           /\ hop' = 1 /\ seen' = Entry /\ UNCHANGED verdict
  <2>1. HopBound \in 1..RoleCount /\ RoleCount \in Nat
    BY <1>1, <1>7, HopBoundType
  <2>2. TypeOK'
    BY <1>1, <1>2, <1>3, <1>7, <2>1, EntryType, TypeStep DEF TypeOK
  <2>3. LoopInv'
    <3>1. (seen = Unrolling(hop - 1))'
      <4>1. (hop' - 1) = 0
        BY <1>7
      <4>2. Unrolling(0) = Unrolling(hop - 1)'
        BY <1>4, <4>1 DEF Unrolling, Assignments
      <4> QED BY <1>7, <4>2, UnrollingZero
    <3>2. Cardinality(seen \cap Role)' >= hop' - 1
      BY <1>7, <2>2, FS_Subset, FS_CardinalityType, ReachabilityAssumption
    <3> QED BY <1>3, <1>4, <1>7, <2>1, <3>1, <3>2 DEF LoopInv, input
  <2>4. verdict' \notin {"SAT", "UNSAT", "UNSAT_BOUNDED"} /\ verdict' = None
    BY <1>2, <1>7 DEF Status
  <2> QED BY <1>7, <2>2, <2>3, <2>4
          DEF IInv, CompleteProof, BoundedProof, ShortestWitness
<1> QED BY <1>5, <1>6, <1>7 DEF Enter, FirstBound

LEMMA ReturnInv ==
  ASSUME IInv, NEW s \in {"TIMEOUT", "UNKNOWN", "UNRESOLVABLE"}, Return(s)
  PROVE  IInv'
<1>1. TypeOK'
  BY TypeStep DEF IInv, TypeOK, Return, Status
<1> QED BY <1>1, NoClaim DEF Return

LEMMA QuerySatInv == IInv /\ QuerySat => IInv'
<1> SUFFICES ASSUME IInv, QuerySat PROVE IInv'
  OBVIOUS
<1>1. TypeOK /\ LoopInv /\ UNCHANGED <<input, targets, hop, seen>>
      /\ pc' = "done" /\ verdict' = "SAT"
  BY DEF IInv, QuerySat
<1>2. PICK h \in Assignments(hop) : h[hop] \in targets /\ witness' = h
  BY DEF QuerySat
<1>3. /\ Nodes' = Nodes /\ Step' = Step
      /\ \A k : Assignments(k)' = Assignments(k)
      /\ \A k : BmcSat(k)' = BmcSat(k)
  BY <1>1 DEF input, Nodes, Entry, Step, Assignments, BmcSat
<1>4. TypeOK'
  BY <1>1, <1>2, <1>3 DEF TypeOK, Status, input
<1>5. hop \in Nat /\ hop >= 1 /\ \A j \in 1..(hop - 1) : ~BmcSat(j)
  BY <1>1, HopBoundType DEF LoopInv
<1>6. ASSUME Entry \cap targets = {}, NEW i \in 0..(hop - 1)
      PROVE  <<h[i], h[i + 1]>> \in edges /\ h[i] # h[i + 1]
  <2>1. h[0] \in Entry /\ <<h[i], h[i + 1]>> \in Step
    BY <1>2, <1>6 DEF Assignments
  <2>2. h[i] # h[i + 1]
    <3> SUFFICES ASSUME h[i] = h[i + 1] PROVE FALSE
      OBVIOUS
    <3>1. CASE hop = 1
      BY <1>2, <1>6, <2>1, <3>1
    <3>2. CASE hop >= 2
      <4>1. BmcSat(hop - 1)
        BY <1>1, <1>2, <1>5, <1>6, <3>2, DropStutter
      <4> QED BY <1>5, <3>2, <4>1
    <3> QED BY <1>5, <3>1, <3>2
  <2> QED BY <2>1, <2>2 DEF Step
<1>7. ShortestWitness'
  BY <1>1, <1>2, <1>3, <1>5, <1>6 DEF ShortestWitness, input, Entry
<1> QED BY <1>1, <1>4, <1>7 DEF IInv, CompleteProof, BoundedProof

LEMMA QueryUnsatInv == IInv /\ QueryUnsat => IInv'
<1> SUFFICES ASSUME IInv, QueryUnsat PROVE IInv'
  OBVIOUS
<1>1. TypeOK /\ LoopInv /\ UNCHANGED <<input, targets, witness>>
      /\ pc = "query" /\ verdict = None /\ verdict \notin Status
      /\ ~BmcSat(hop) /\ seen' = Image(seen)
  BY ReachabilityAssumption DEF IInv, QueryUnsat
<1>2. /\ Nodes' = Nodes /\ Step' = Step /\ Entry' = Entry
      /\ HopBound' = HopBound /\ IsComplete' = IsComplete
      /\ edges' = edges /\ targets' = targets /\ external' = external
  BY <1>1 DEF input, Nodes, Entry, Step, HopBound, IsComplete
<1>3. /\ \A k : Assignments(k)' = Assignments(k)
      /\ \A k : BmcSat(k)' = BmcSat(k)
      /\ \A k : Unrolling(k)' = Unrolling(k)
  BY <1>1, <1>2 DEF Assignments, BmcSat, Unrolling
<1>4. /\ hop \in Nat /\ hop >= 1 /\ hop <= HopBound
      /\ RoleCount \in Nat /\ HopBound \in 0..RoleCount
  BY <1>1, HopBoundType DEF LoopInv
<1>5. seen' = Unrolling(hop)
  <2>1. hop - 1 \in Nat /\ (hop - 1) + 1 = hop
    BY <1>4
  <2> QED BY <1>1, <2>1, UnrollingStep DEF LoopInv
<1>6. seen' \subseteq Nodes /\ Entry \cap Nodes \subseteq seen'
  BY <1>1, ImageGrows DEF LoopInv, Image
<1>7. seen' \cap targets = {}
  BY <1>1, <1>4, <1>5, BmcSatUnrolling
<1>8. Closed(seen') \/ Cardinality(seen' \cap Role) >= hop
  <2>1. CASE Closed(seen)
    BY <1>1, <2>1, ImageClosed
  <2>2. CASE ~Closed(seen)
    <3>1. hop - 1 \in Nat /\ (hop - 1) + 1 = hop
      BY <1>4
    <3>2. Cardinality(seen \cap Role) >= hop - 1
      BY <1>1, <2>2 DEF LoopInv
    <3> QED BY <1>1, <2>2, <3>1, <3>2, ImageCounts
  <2> QED BY <2>1, <2>2
<1>9. \A j \in 1..hop : ~BmcSat(j)
  BY <1>1, <1>4 DEF LoopInv
<1>10. CASE hop < HopBound /\ hop' = hop + 1 /\ UNCHANGED <<pc, verdict>>
  <2>1. TypeOK'
    BY <1>1, <1>4, <1>6, <1>10, TypeStep DEF TypeOK
  <2>2. LoopInv'
    <3>1. hop' \in 1..HopBound' /\ hop' - 1 = hop
      BY <1>2, <1>4, <1>10
    <3>2. Closed(seen)' \/ Cardinality(seen \cap Role)' >= hop' - 1
      BY <1>2, <1>8, <3>1 DEF Closed
    <3>3. \A j \in 1..(hop' - 1) : ~BmcSat(j)'
      BY <1>3, <1>9, <3>1
    <3>4. (seen = Unrolling(hop - 1))'
      <4>1. Unrolling(hop) = Unrolling(hop - 1)'
        BY <1>2, <3>1 DEF Unrolling, Assignments
      <4> QED BY <1>5, <4>1
    <3>5. (Entry \cap Nodes \subseteq seen)'
      BY <1>2, <1>6
    <3> QED BY <1>1, <1>2, <3>1, <3>2, <3>3, <3>4, <3>5 DEF LoopInv
  <2>3. verdict' \notin {"SAT", "UNSAT", "UNSAT_BOUNDED"}
    BY <1>1, <1>10 DEF Status
  <2> QED BY <1>1, <1>10, <2>1, <2>2, <2>3
          DEF IInv, CompleteProof, BoundedProof, ShortestWitness
<1>11. CASE hop = HopBound /\ pc' = "done" /\ UNCHANGED hop
            /\ verdict' = (IF IsComplete THEN "UNSAT" ELSE "UNSAT_BOUNDED")
  <2>1. TypeOK'
    BY <1>1, <1>4, <1>6, <1>11, TypeStep DEF TypeOK, Status
  <2>2. ASSUME IsComplete PROVE Unreachable'
    <3>1. Closed(seen')
      <4>1. hop = RoleCount
        BY <1>1, <1>11, <2>2, HopBoundType
      <4> QED BY <1>1, <1>8, <4>1, FullIsClosed
    <3>2. Unreachable
      <4>1. seen' \in SUBSET (Nodes \cup Entry)
        BY <1>6
      <4> QED BY <1>1, <1>6, <1>7, <3>1, <4>1, ClosedSeparates
    <3> QED BY <1>2, <3>2 DEF Unreachable, Separates
  <2>3. CompleteProof'
    BY <1>11, <2>2 DEF CompleteProof
  <2>4. BoundedProof'
    BY <1>2, <1>3, <1>9, <1>11 DEF BoundedProof
  <2> QED BY <1>11, <2>1, <2>3, <2>4 DEF IInv, ShortestWitness
<1> QED BY <1>4, <1>10, <1>11 DEF QueryUnsat, Exhausted

LEMMA StutterInv == IInv /\ UNCHANGED vars => IInv'
<1> SUFFICES ASSUME IInv, UNCHANGED vars PROVE IInv'
  OBVIOUS
<1>1. TypeOK'
  BY DEF IInv, TypeOK, vars, input, Nodes, Assignments, Entry, Step
<1>2. LoopInv' <=> LoopInv
  BY DEF LoopInv, vars, input, Nodes, Entry, Step, Assignments, BmcSat,
         Unrolling, Closed, HopBound
<1>3. CompleteProof'
  BY DEF IInv, CompleteProof, Unreachable, Separates, vars, input, Nodes, Entry
<1>4. BoundedProof'
  BY DEF IInv, BoundedProof, HopBound, BmcSat, Assignments, vars, input,
         Nodes, Entry, Step
<1>5. ShortestWitness'
  BY DEF IInv, ShortestWitness, BmcSat, Assignments, vars, input, Nodes,
         Entry, Step
<1> QED BY <1>1, <1>2, <1>3, <1>4, <1>5 DEF IInv, vars

LEMMA NextInv == IInv /\ [Next]_vars => IInv'
<1> SUFFICES ASSUME IInv, [Next]_vars PROVE IInv'
  OBVIOUS
<1>1. CASE Call
  BY <1>1, CallInv
<1>2. CASE ExplicitTarget
  BY <1>2, EnterInv DEF ExplicitTarget
<1>3. CASE UnknownTarget
  BY <1>3, ReturnInv DEF UnknownTarget
<1>4. CASE DetectTargets
  BY <1>4, EnterInv DEF DetectTargets
<1>5. CASE QuerySat
  BY <1>5, QuerySatInv
<1>6. CASE QueryUnsat
  BY <1>6, QueryUnsatInv
<1>7. CASE QueryUnknown
  BY <1>7, ReturnInv DEF QueryUnknown
<1>8. CASE UNCHANGED vars
  BY <1>8, StutterInv
<1> QED BY <1>1, <1>2, <1>3, <1>4, <1>5, <1>6, <1>7, <1>8 DEF Next

-----------------------------------------------------------------------------
(* The invariant holds in every reachable state of every instance.         *)
THEOREM InvariantHolds == Spec => []IInv
BY InitInv, NextInv, PTL DEF Spec

(* Every state is well typed, and the model a SAT result is built from     *)
(* satisfies the formula of the bound it was found at.                     *)
THEOREM TypeCorrect == Spec => []TypeOK
BY InvariantHolds, PTL DEF IInv

(* UNSAT is a complete proof, whatever the graph: searching as many hops   *)
(* as there are roles excludes every escalation path of any length.        *)
THEOREM UnsatIsComplete == Spec => []CompleteProof
BY InvariantHolds, PTL DEF IInv

(* UNSAT_BOUNDED excludes every path within the bound it names.            *)
THEOREM BoundedIsHonest == Spec => []BoundedProof
BY InvariantHolds, PTL DEF IInv

(* The path reported with SAT is a shortest one, without repeated nodes in *)
(* a row.                                                                  *)
THEOREM WitnessIsShortest == Spec => []ShortestWitness
BY InvariantHolds, PTL DEF IInv
=============================================================================
