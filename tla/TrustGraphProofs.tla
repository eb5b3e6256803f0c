-------------------------- MODULE TrustGraphProofs --------------------------
(***************************************************************************)
(* Proofs, for every configuration that is well formed, of the invariants  *)
(* of module TrustGraph.  IInv is the inductive invariant: it says of each *)
(* pass what it has put into the graph so far, as a function of the        *)
(* elements visited and not of the order they were visited in.             *)
(*                                                                         *)
(* And, for any conditions, definitions and assignments, that the verdict  *)
(* on a resource under Azure policies agrees with the conditions' possible *)
(* truth values.  PolicyInv is the inductive invariant of the loop over    *)
(* the assignments; ReadAsMeant, about the encoder, is by induction on the *)
(* depth of a condition.                                                   *)
(***************************************************************************)
EXTENDS AzurePolicy, OrderLemmas

-----------------------------------------------------------------------------
(* The inductive invariant.                                                *)

(* The roles whose policies have been collected.                           *)
Visited ==
  IF phase = "register" THEN {}
  ELSE IF phase = "collect" THEN Roles \ left ELSE Roles

Registered == IF phase = "register" THEN Roles \ left ELSE Roles

(* What the trust policy of t lets in, what the identity policies of r      *)
(* let out.                                                                *)
TrustedBy(t) == MatchAll(Principals(t)) \cup AccountsIn(Principals(t))

GrantedTo(r) ==
  MatchAll(Permitted(r)) \cup (IF Star \in Permitted(r) THEN Roles \ {r} ELSE {})

(* The node of an assignment's principal, whatever nodes there are.         *)
Holder(a) ==
  LET p == cfg.assigns[a].principal IN
  IF IsRef(p) THEN p.ref
  ELSE IF IdentityKey(p.lit) # {} THEN CHOOSE i \in IdentityKey(p.lit) : TRUE
  ELSE AccountNode[p.lit]

Admin(a) ==
  cfg.assigns[a].role # Absent /\ IsHighPrivRole(cfg.assigns[a].role, cfg.defs)

Direct(a) == Admin(a) /\ Holder(a) \in Accounts /\ Hosts = {}

AddedBy(a) ==
  {<<Holder(a), x>> : x \in {y \in {a} : Direct(a)}}
    \cup EdgesOf(Holder(a), cfg.assigns[a])

Decidable == {a \in Assigns : ~Undecidable(cfg.assigns[a])}

(* The assignments that were taken into account.                            *)
Decided == Decidable \ left

RoleEdges == {e \in trust : e[1] \in Accounts \/ e \in identity}

(* Everything an edge of the Azure part can end in, but for assignments.    *)
Reachable == Identities \cup UNION {AttachedTo(w) : w \in Hosts}

Built == phase \in {"assign", "done"}

PhaseInv ==
  /\ cfg \in Configs
  /\ phase \in {"register", "collect", "assign", "done"}
  /\ left \subseteq IF Built THEN Assigns ELSE Roles
  /\ phase = "done" => left = {}

OwnerInv ==
  /\ owner \in [DOMAIN owner -> Roles]
  /\ DOMAIN owner = UNION {NamesOf(r) : r \in Registered}
  /\ \A n \in DOMAIN owner : n \in NamesOf(owner[n])

TrustInv ==
  /\ trust \subseteq (Roles \cup Accounts) \X Roles
  /\ identity \subseteq Roles \X Roles
  /\ \A t \in Roles, f \in Roles \cup Accounts :
       /\ <<f, t>> \in trust <=> t \in Visited /\ f \in TrustedBy(t)
       /\ <<f, t>> \in identity <=> f \in Visited /\ t \in GrantedTo(f)
  /\ \A t \in Visited : AccountsIn(Principals(t)) \subseteq entries
  /\ \A r \in Visited : HasUnresolved(r) => r \in unresolvable

NodesInv ==
  /\ entries = nodes \cap Accounts
  /\ Roles \subseteq nodes
  /\ Built => Reachable \subseteq nodes
  /\ nodes \subseteq Roles \cup Accounts \cup AzureNodes(cfg) \cup Decidable
  /\ unresolvable \subseteq Roles \cup (Assigns \ Decidable)
  /\ Built => Assigns \ (left \cup Decidable) \subseteq unresolvable

EdgesInv ==
  /\ targets \subseteq nodes \ Accounts
  /\ ~Built => edges = {}
  /\ Built =>
       /\ RoleEdges \subseteq edges
       /\ \A a \in Decided : AddedBy(a) \subseteq edges
       /\ \A e \in edges : e \in RoleEdges \/ \E a \in Decided : e \in AddedBy(a)
       /\ \A a \in Decided : Holder(a) \in nodes /\ (Direct(a) => a \in nodes)

IInv == PhaseInv /\ OwnerInv /\ TrustInv /\ NodesInv /\ EdgesInv

-----------------------------------------------------------------------------
(* What items denote.                                                      *)

(* The facts about a configuration that the proofs use.                    *)
LEMMA Wellformed ==
  ASSUME cfg \in Configs
  PROVE  WellFormed(cfg)
BY TrustGraphAssumption

(* A role's principals and resources are items of the configuration.       *)
LEMMA ItemsOfRole ==
  ASSUME NEW r \in Roles
  PROVE  Principals(r) \subseteq Items(cfg) /\ Permitted(r) \subseteq Items(cfg)
<1>1. \A s \in AssumeRules(r) :
        s.principals \subseteq Items(cfg) /\ s.resources \subseteq Items(cfg)
  BY DEF AssumeRules, Statements, Items, Roles
<1> QED BY <1>1 DEF Principals, Permitted

(* What is matched is a role that the item denotes.                        *)
LEMMA MatchDenotes ==
  ASSUME OwnerInv, NEW x, Shaped(x), Match(x) # None
  PROVE  Match(x) \in Roles /\ Denotes(x, Match(x))
<1>1. CASE IsRef(x)
  <2>1. x.ref \in Roles /\ Match(x) = x.ref
    BY <1>1 DEF Match
  <2>2. x = Ref(x.ref)
    BY <1>1 DEF Shaped, IsRef, IsLit, IsPath, Lit, Path, Gone, Absent
  <2> QED BY <2>1, <2>2 DEF Denotes
<1>2. CASE ~IsRef(x) /\ IsLit(x)
  <2>1. x = Lit(x.lit)
    BY <1>2 DEF Shaped, IsRef, IsLit, IsPath, Ref, Path, Gone, Absent
  <2>2. CASE x.lit \in Roles
    BY <1>2, <2>1, <2>2 DEF Match, Denotes
  <2>3. CASE x.lit \notin Roles
    <3>1. x.lit \in DOMAIN owner /\ Match(x) = owner[x.lit]
      BY <1>2, <2>3 DEF Match
    <3>2. owner[x.lit] \in Roles /\ x.lit \in NamesOf(owner[x.lit])
      BY <3>1 DEF OwnerInv
    <3> QED BY <1>2, <3>1, <3>2 DEF Denotes
  <2> QED BY <2>2, <2>3
<1> QED BY <1>1, <1>2 DEF Match

(* "*" is no role.                                                         *)
LEMMA StarMatches ==
  ASSUME cfg \in Configs, OwnerInv
  PROVE  Match(Star) = None
<1>1. "*" \notin Roles /\ \A r \in Roles : "*" \notin NamesOf(r)
  BY Wellformed DEF WellFormed, RoleNames, Roles, NamesOf
<1>2. "*" \notin DOMAIN owner
  BY <1>1 DEF OwnerInv, Registered
<1>3. ~IsRef(Star) /\ IsLit(Star) /\ Star.lit = "*"
  BY DEF Star, IsRef, IsLit, Lit
<1> QED BY <1>1, <1>2, <1>3 DEF Match

(* Where no two roles share a name, every item is matched with the role it  *)
(* denotes once all are registered.                                        *)
LEMMA DenotesMatch ==
  ASSUME cfg \in Configs, OwnerInv, phase # "register", NoSharedNames,
         NEW x \in Items(cfg), NEW f \in Roles, Denotes(x, f)
  PROVE  Match(x) = f
<1>1. f \notin Accounts
  BY Wellformed DEF WellFormed, Roles
<1>2. CASE x = Ref(f)
  BY <1>2 DEF Match, IsRef, Ref
<1>3. CASE x = Lit(f)
  BY <1>3 DEF Match, IsRef, IsLit, Lit
<1>4. CASE x # Ref(f) /\ x # Lit(f)
  <2>1. IsLit(x) /\ x.lit \in NamesOf(f)
    BY <1>1, <1>4 DEF Denotes
  <2>2. ~IsRef(x)
    BY <2>1, Wellformed
    DEF WellFormed, Shaped, IsRef, IsLit, IsPath, Lit, Path, Ref, Gone, Absent
  <2>3. x.lit \notin Roles
    BY <2>1, Wellformed DEF WellFormed, RoleNames, Roles, NamesOf
  <2>4. x.lit \in DOMAIN owner
    BY <2>1 DEF OwnerInv, Registered
  <2>5. owner[x.lit] = f
    BY <2>1, <2>4 DEF OwnerInv, NoSharedNames
  <2> QED BY <2>1, <2>2, <2>3, <2>4, <2>5 DEF Match
<1> QED BY <1>2, <1>3, <1>4

(* The accounts taken from a set of items are those its items denote.      *)
LEMMA AccountsDenoted ==
  ASSUME cfg \in Configs, OwnerInv, NEW S \in SUBSET Items(cfg),
         NEW f \in Accounts
  PROVE  f \in AccountsIn(S) <=> \E x \in S : Denotes(x, f)
<1>1. f \notin Roles /\ \A x \in S : x # Ref(f) /\ x # Lit(f)
  <2>1. ASSUME NEW x \in S, x = Ref(f) PROVE FALSE
    <3>1. IsRef(x) /\ x.ref = f
      BY <2>1 DEF IsRef, Ref
    <3>2. f \in RefsIn(Items(cfg))
      BY <2>1, <3>1 DEF RefsIn
    <3> QED BY <3>2, Wellformed DEF WellFormed
  <2>2. ASSUME NEW x \in S, x = Lit(f) PROVE FALSE
    <3>1. IsLit(x) /\ x.lit = f
      BY <2>2 DEF IsLit, Lit
    <3>2. f \in TextsIn(Items(cfg))
      BY <2>2, <3>1 DEF TextsIn
    <3> QED BY <3>2, Wellformed DEF WellFormed
  <2> QED BY <2>1, <2>2, Wellformed DEF WellFormed, Roles
<1>2. \A x \in S : Denotes(x, f) <=>
        IsLit(x) /\ x.lit \in AccountId /\ f = AccountNode[x.lit]
  BY <1>1 DEF Denotes
<1>3. ASSUME NEW x \in S, IsLit(x), x.lit \in AccountId
      PROVE  Match(x) = None
  <2>1. ~IsRef(x)
    BY <1>3, Wellformed
    DEF WellFormed, Shaped, IsRef, IsLit, IsPath, Lit, Path, Ref, Gone, Absent
  <2>2. x.lit \notin Roles /\ \A r \in Roles : x.lit \notin NamesOf(r)
    BY <1>3, Wellformed DEF WellFormed, RoleNames, Roles, NamesOf
  <2>3. x.lit \notin DOMAIN owner
    BY <2>2 DEF OwnerInv, Registered
  <2> QED BY <1>3, <2>1, <2>2, <2>3 DEF Match
<1> QED BY <1>2, <1>3 DEF AccountsIn

(* Accounts and the matched roles are what their names say.                *)
LEMMA MatchTypes ==
  ASSUME cfg \in Configs, OwnerInv, NEW S \in SUBSET Items(cfg)
  PROVE  MatchAll(S) \subseteq Roles /\ AccountsIn(S) \subseteq Accounts
<1>1. \A x \in S : Shaped(x)
  BY Wellformed DEF WellFormed
<1>2. MatchAll(S) \subseteq Roles
  BY <1>1, MatchDenotes DEF MatchAll
<1>3. AccountsIn(S) \subseteq Accounts
  BY TrustGraphAssumption DEF AccountsIn, Accounts
<1> QED BY <1>2, <1>3

-----------------------------------------------------------------------------
(* The passes keep the invariant.                                          *)

LEMMA InitInv == Init => IInv
<1> SUFFICES ASSUME Init PROVE IInv
  OBVIOUS
<1> USE DEF Init, Start
<1>1. PhaseInv
  BY DEF PhaseInv, Built
<1>2. OwnerInv
  BY DEF OwnerInv, Registered
<1>3. TrustInv
  BY DEF TrustInv, Visited
<1>4. NodesInv
  <2>1. Roles \cap Accounts = {}
    BY Wellformed DEF WellFormed, Roles
  <2> QED BY <2>1 DEF NodesInv, Built
<1>5. EdgesInv
  BY DEF EdgesInv, Built
<1> QED BY <1>1, <1>2, <1>3, <1>4, <1>5 DEF IInv

(* What depends on the configuration alone, or on the names as well, stays  *)
(* when they do.                                                            *)
LEMMA CfgFrame ==
  ASSUME cfg' = cfg
  PROVE  /\ Roles' = Roles /\ Assigns' = Assigns /\ Decidable' = Decidable
         /\ Reachable' = Reachable /\ Hosts' = Hosts
         /\ AzureNodes(cfg)' = AzureNodes(cfg)
         /\ \A r : /\ NamesOf(r)' = NamesOf(r)
                   /\ Principals(r)' = Principals(r)
                   /\ Permitted(r)' = Permitted(r)
                   /\ HasUnresolved(r)' = HasUnresolved(r)
         /\ \A a : /\ Holder(a)' = Holder(a) /\ Direct(a)' = Direct(a)
                   /\ AddedBy(a)' = AddedBy(a)
<1>1. Roles' = Roles /\ Assigns' = Assigns
  BY DEF Roles, Assigns
<1>2. \A r : /\ NamesOf(r)' = NamesOf(r)
             /\ Principals(r)' = Principals(r)
             /\ Permitted(r)' = Permitted(r)
             /\ HasUnresolved(r)' = HasUnresolved(r)
  BY DEF NamesOf, Principals, Permitted, AssumeRules, Statements, HasUnresolved, Roles
<1>3. Hosts' = Hosts /\ Reachable' = Reachable
  BY DEF Hosts, Reachable, Identities, AttachedTo, IdentityKey
<1>4. Decidable' = Decidable
  BY DEF Decidable, Undecidable, IsGroup, Assigns
<1>5. \A a : Holder(a)' = Holder(a)
  BY DEF Holder, IdentityKey, Identities
<1>6. \A a : Direct(a)' = Direct(a)
  BY <1>3, <1>5 DEF Direct, Admin
<1>7. \A n, g : EdgesOf(n, g)' = EdgesOf(n, g)
  BY <1>3 DEF EdgesOf, Reaches, AttachedTo, IdentityKey, Identities
<1>8. \A a : AddedBy(a)' = AddedBy(a)
  BY <1>5, <1>6, <1>7 DEF AddedBy
<1> QED BY <1>1, <1>2, <1>3, <1>4, <1>5, <1>6, <1>8 DEF AzureNodes

LEMMA NamesFrame ==
  ASSUME cfg' = cfg, owner' = owner
  PROVE  \A r : TrustedBy(r)' = TrustedBy(r) /\ GrantedTo(r)' = GrantedTo(r)
                /\ AccountsIn(Principals(r))' = AccountsIn(Principals(r))
<1>1. \A x : Match(x)' = Match(x)
  BY DEF Match, Roles
<1>2. \A r : Principals(r)' = Principals(r) /\ Permitted(r)' = Permitted(r)
  BY CfgFrame
<1>3. Roles' = Roles
  BY CfgFrame
<1> QED BY <1>1, <1>2, <1>3 DEF TrustedBy, GrantedTo, MatchAll, AccountsIn

(* Sources and grants are roles or accounts.                               *)
LEMMA SourceTypes ==
  ASSUME cfg \in Configs, OwnerInv, NEW r \in Roles
  PROVE  /\ TrustedBy(r) \subseteq Roles \cup Accounts
         /\ GrantedTo(r) \subseteq Roles
         /\ AccountsIn(Principals(r)) \subseteq Accounts
         /\ TrustedBy(r) \cap Accounts = AccountsIn(Principals(r))
<1>1. Roles \cap Accounts = {}
  BY Wellformed DEF WellFormed, Roles
<1>2. /\ MatchAll(Principals(r)) \subseteq Roles
      /\ MatchAll(Permitted(r)) \subseteq Roles
      /\ AccountsIn(Principals(r)) \subseteq Accounts
  BY ItemsOfRole, MatchTypes
<1> QED BY <1>1, <1>2 DEF TrustedBy, GrantedTo

LEMMA RegisterInv ==
  ASSUME IInv, NEW r \in Roles, Register(r)
  PROVE  IInv'
<1> USE DEF IInv, Register
<1>0. phase = "register" /\ phase' = "register" /\ cfg' = cfg /\ ~Built /\ ~Built'
  BY DEF Built
<1>1. PhaseInv'
  BY <1>0, CfgFrame DEF PhaseInv
<1>2. OwnerInv'
  <2>1. Registered' = Registered \cup {r}
    BY <1>0, CfgFrame DEF PhaseInv, Registered
  <2>2. owner' = [n \in DOMAIN owner \cup NamesOf(r) |->
                    IF n \in NamesOf(r) THEN r ELSE owner[n]]
    OBVIOUS
  <2>3. owner' \in [DOMAIN owner' -> Roles']
    BY <1>0, <2>2, CfgFrame DEF OwnerInv
  <2>4. DOMAIN owner' = UNION {NamesOf(t) : t \in Registered'}
    BY <2>1, <2>2 DEF OwnerInv
  <2>5. \A n \in DOMAIN owner' : n \in NamesOf(owner'[n])
    BY <2>2 DEF OwnerInv
  <2> QED BY <1>0, <2>3, <2>4, <2>5, CfgFrame DEF OwnerInv
<1>3. TrustInv'
  BY <1>0, CfgFrame DEF TrustInv, Visited
<1>4. NodesInv'
  BY <1>0, CfgFrame DEF NodesInv
<1>5. EdgesInv'
  BY <1>0, CfgFrame DEF EdgesInv
<1> QED BY <1>1, <1>2, <1>3, <1>4, <1>5

LEMMA StartCollectInv ==
  ASSUME IInv, StartCollect
  PROVE  IInv'
<1> USE DEF IInv, StartCollect
<1>0. cfg' = cfg /\ owner' = owner /\ ~Built /\ ~Built'
  BY DEF Built
<1>1. PhaseInv'
  BY <1>0, CfgFrame DEF PhaseInv
<1>2. OwnerInv'
  <2>1. Registered' = Registered
    BY <1>0, CfgFrame DEF Registered
  <2> QED BY <1>0, <2>1, CfgFrame DEF OwnerInv
<1>3. TrustInv'
  <2>1. Visited = {} /\ Visited' = {}
    BY <1>0, CfgFrame DEF Visited
  <2> QED BY <1>0, <2>1, CfgFrame DEF TrustInv
<1>4. NodesInv'
  BY <1>0, CfgFrame DEF NodesInv
<1>5. EdgesInv'
  BY <1>0, CfgFrame DEF EdgesInv
<1> QED BY <1>1, <1>2, <1>3, <1>4, <1>5

LEMMA CollectInv ==
  ASSUME IInv, NEW r \in Roles, Collect(r)
  PROVE  IInv'
<1> DEFINE accounts == AccountsIn(Principals(r))
<1>0. /\ cfg' = cfg /\ owner' = owner /\ phase' = phase /\ phase = "collect"
      /\ ~Built /\ ~Built' /\ edges' = edges /\ targets' = targets
      /\ left' = left \ {r}
      /\ nodes' = nodes \cup accounts /\ entries' = entries \cup accounts
      /\ unresolvable' = unresolvable \cup {x \in {r} : HasUnresolved(x)}
  BY DEF Collect, Built
<1>1. /\ trust' = trust \cup {<<f, r>> : f \in TrustedBy(r)}
      /\ identity' = identity \cup {<<r, t>> : t \in GrantedTo(r)}
  BY StarMatches DEF Collect, TrustedBy, GrantedTo, IInv, PhaseInv
<1>2. Visited' = Visited \cup {r} /\ Registered' = Registered
  BY <1>0, CfgFrame DEF Visited, Registered
<1>3. accounts \subseteq Accounts
  BY SourceTypes DEF IInv, PhaseInv
<1>4. PhaseInv'
  BY <1>0, CfgFrame DEF IInv, PhaseInv
<1>5. OwnerInv'
  BY <1>0, <1>2, CfgFrame DEF IInv, OwnerInv
<1>6. TrustInv'
  <2>1. TrustedBy(r) \subseteq Roles \cup Accounts /\ GrantedTo(r) \subseteq Roles
    BY SourceTypes DEF IInv, PhaseInv
  <2>2. /\ trust' \subseteq (Roles' \cup Accounts) \X Roles'
        /\ identity' \subseteq Roles' \X Roles'
    BY <1>0, <1>1, <2>1, CfgFrame DEF IInv, TrustInv
  <2>3. ASSUME NEW t \in Roles, NEW f \in Roles \cup Accounts
        PROVE  /\ <<f, t>> \in trust' <=> t \in Visited' /\ f \in TrustedBy(t)
               /\ <<f, t>> \in identity' <=> f \in Visited' /\ t \in GrantedTo(f)
    BY <1>1, <1>2 DEF IInv, TrustInv
  <2>4. \A t \in Visited' : AccountsIn(Principals(t)) \subseteq entries'
    BY <1>0, <1>2 DEF IInv, TrustInv
  <2>5. \A t \in Visited' : HasUnresolved(t) => t \in unresolvable'
    BY <1>0, <1>2 DEF IInv, TrustInv
  <2> QED BY <1>0, <2>2, <2>3, <2>4, <2>5, CfgFrame, NamesFrame DEF TrustInv
<1>7. NodesInv'
  BY <1>0, <1>3, CfgFrame DEF IInv, NodesInv
<1>8. EdgesInv'
  BY <1>0, <1>3, CfgFrame DEF IInv, EdgesInv
<1> QED BY <1>4, <1>5, <1>6, <1>7, <1>8 DEF IInv

(* Hosts and identities are resources of the configuration.                *)
LEMMA ReachableNodes == Reachable \subseteq AzureNodes(cfg)
<1>1. \A w \in Hosts : AttachedTo(w) \subseteq RefsIn(Hosted(cfg)) \cup Identities
  BY DEF Hosts, AttachedTo, Hosted, RefsIn, IdentityKey
<1> QED BY <1>1 DEF Reachable, AzureNodes, Identities

(* Whose assignment it is does not depend on the nodes found before.       *)
LEMMA HolderStable ==
  ASSUME cfg \in Configs, NodesInv, NEW a \in Decidable
  PROVE  /\ PrincipalNode(cfg.assigns[a].principal) = Holder(a)
         /\ Holder(a) \in AzureNodes(cfg) \cup Accounts
         /\ Holder(a) \in Accounts => IsLit(cfg.assigns[a].principal)
<1> DEFINE p == cfg.assigns[a].principal
<1>1. a \in Assigns /\ p # Gone /\ p # Absent
  BY DEF Decidable, Undecidable
<1>2. p \in Holders(cfg)
  BY <1>1 DEF Holders, Assigns
<1>3. CASE IsRef(p)
  <2>1. Holder(a) = p.ref /\ PrincipalNode(p) = p.ref
    BY <1>3 DEF Holder, PrincipalNode
  <2>2. p.ref \in AzureNodes(cfg)
    BY <1>2, <1>3 DEF AzureNodes, RefsIn
  <2> QED BY <2>1, <2>2, Wellformed DEF WellFormed
<1>4. CASE ~IsRef(p)
  <2>1. IsLit(p) /\ KnownHolder(cfg, p)
    BY <1>1, <1>2, <1>4, Wellformed DEF WellFormed, Shaped
  <2>2. CASE IdentityKey(p.lit) # {}
    <3> DEFINE i == CHOOSE j \in IdentityKey(p.lit) : TRUE
    <3>1. i \in IdentityKey(p.lit)
      BY <2>2
    <3>2. Holder(a) = i /\ PrincipalNode(p) = i
      BY <1>4, <2>2 DEF Holder, PrincipalNode
    <3>3. i \in AzureNodes(cfg)
      BY <3>1 DEF IdentityKey, Identities, AzureNodes
    <3> QED BY <2>1, <3>2, <3>3
  <2>3. CASE IdentityKey(p.lit) = {}
    <3>1. /\ p.lit \in DOMAIN AccountNode
          /\ p.lit \notin Accounts \cup AzureNodes(cfg) \cup Roles \cup Assigns
      BY <2>1, <2>3 DEF KnownHolder, IdentityKey, Identities, Roles, Assigns
    <3>2. p.lit \notin nodes
      BY <3>1 DEF NodesInv, Decidable
    <3>3. Holder(a) = AccountNode[p.lit] /\ PrincipalNode(p) = AccountNode[p.lit]
      BY <1>4, <2>3, <3>2 DEF Holder, PrincipalNode
    <3> QED BY <2>1, <3>1, <3>3 DEF Accounts
  <2> QED BY <2>2, <2>3
<1> QED BY <1>3, <1>4

LEMMA IntersectInv ==
  ASSUME IInv, Intersect
  PROVE  IInv'
<1>0. /\ cfg' = cfg /\ owner' = owner /\ phase = "collect" /\ left = {}
      /\ phase' = "assign" /\ left' = Assigns /\ ~Built /\ Built'
      /\ entries' = entries /\ trust' = trust /\ identity' = identity
      /\ unresolvable' = unresolvable /\ targets' = targets
      /\ nodes' = nodes \cup Reachable
  BY DEF Intersect, Built, Reachable
<1>1. PhaseInv'
  BY <1>0, CfgFrame DEF IInv, PhaseInv
<1>2. Visited = Roles /\ Visited' = Roles /\ Registered' = Registered
  BY <1>0, CfgFrame DEF Visited, Registered
<1>3. OwnerInv'
  BY <1>0, <1>2, CfgFrame DEF IInv, OwnerInv
<1>4. TrustInv'
  BY <1>0, <1>2, CfgFrame, NamesFrame DEF IInv, TrustInv
<1>5. NodesInv'
  <2>1. Reachable \subseteq AzureNodes(cfg) /\ Reachable \cap Accounts = {}
    BY ReachableNodes, Wellformed DEF IInv, PhaseInv, WellFormed
  <2> QED BY <1>0, <2>1, CfgFrame DEF IInv, NodesInv
<1>6. EdgesInv'
  <2>1. ASSUME NEW e \in trust
        PROVE  Joined(e[1], e[2]) <=> e[1] \in Accounts \/ e \in identity
    <3>1. PICK f \in Roles \cup Accounts, t \in Roles : e = <<f, t>>
      BY DEF IInv, TrustInv
    <3>2. f \in Accounts => f \in entries
      BY <1>2, <3>1, SourceTypes DEF IInv, PhaseInv, TrustInv
    <3>3. entries \subseteq Accounts
      BY DEF IInv, NodesInv
    <3> QED BY <3>1, <3>2, <3>3 DEF Joined
  <2>2. edges' = RoleEdges
    BY <2>1 DEF Intersect, RoleEdges
  <2>3. RoleEdges' = RoleEdges /\ Decided' = {}
    BY <1>0, CfgFrame DEF RoleEdges, Decided, Decidable
  <2>4. targets' \subseteq nodes' \ Accounts
    BY <1>0 DEF IInv, EdgesInv
  <2> QED BY <1>0, <2>2, <2>3, <2>4 DEF EdgesInv
<1> QED BY <1>1, <1>3, <1>4, <1>5, <1>6 DEF IInv

LEMMA RejectAssignInv ==
  ASSUME IInv, NEW a \in Assigns, RejectAssign(a)
  PROVE  IInv'
<1>0. /\ cfg' = cfg /\ owner' = owner /\ phase = "assign" /\ phase' = phase
      /\ left' = left \ {a} /\ Built /\ Built' /\ a \notin Decidable
      /\ entries' = entries /\ trust' = trust /\ identity' = identity
      /\ unresolvable' = unresolvable \cup {a} /\ targets' = targets
      /\ nodes' = nodes /\ edges' = edges
  BY DEF RejectAssign, Built, Decidable
<1>1. PhaseInv'
  BY <1>0, CfgFrame DEF IInv, PhaseInv
<1>2. Visited = Roles /\ Visited' = Roles /\ Registered' = Registered
  BY <1>0, CfgFrame DEF Visited, Registered
<1>3. OwnerInv'
  BY <1>0, <1>2, CfgFrame DEF IInv, OwnerInv
<1>4. TrustInv'
  BY <1>0, <1>2, CfgFrame, NamesFrame DEF IInv, TrustInv
<1>5. NodesInv'
  BY <1>0, CfgFrame DEF IInv, NodesInv
<1>6. EdgesInv'
  <2>1. RoleEdges' = RoleEdges /\ Decided' = Decided
    BY <1>0, CfgFrame DEF RoleEdges, Decided
  <2> QED BY <1>0, <2>1, CfgFrame DEF IInv, EdgesInv
<1> QED BY <1>1, <1>3, <1>4, <1>5, <1>6 DEF IInv

LEMMA AssignInv ==
  ASSUME IInv, NEW a \in Assigns, Assign(a)
  PROVE  IInv'
<1>0. /\ cfg' = cfg /\ owner' = owner /\ phase = "assign" /\ phase' = phase
      /\ left' = left \ {a} /\ a \in left /\ Built /\ Built' /\ a \in Decidable
      /\ trust' = trust /\ identity' = identity /\ unresolvable' = unresolvable
  BY DEF Assign, Built, Decidable
<1>1. /\ PrincipalNode(cfg.assigns[a].principal) = Holder(a)
      /\ Holder(a) \in AzureNodes(cfg) \cup Accounts
      /\ Holder(a) \in Accounts => IsLit(cfg.assigns[a].principal)
  BY <1>0, HolderStable DEF IInv, PhaseInv
<1>2. /\ nodes' = nodes \cup {Holder(a)} \cup {x \in {a} : Direct(a)}
      /\ entries' = entries \cup {x \in {Holder(a)} : x \in Accounts}
      /\ targets' = targets \cup {x \in {a} : Direct(a)}
                     \cup {x \in {Holder(a)} : Admin(a) /\ x \notin Accounts}
      /\ edges' = edges \cup AddedBy(a)
  BY <1>1 DEF Assign, WithPrincipal, Direct, Admin, AddedBy
<1>3. a \notin Accounts
  BY Wellformed DEF IInv, PhaseInv, WellFormed, Assigns
<1>4. PhaseInv'
  BY <1>0, CfgFrame DEF IInv, PhaseInv
<1>5. Visited = Roles /\ Visited' = Roles /\ Registered' = Registered
  BY <1>0, CfgFrame DEF Visited, Registered
<1>6. OwnerInv'
  BY <1>0, <1>5, CfgFrame DEF IInv, OwnerInv
<1>7. TrustInv'
  <2>1. entries \subseteq entries'
    BY <1>2
  <2> QED BY <1>0, <1>5, <2>1, CfgFrame, NamesFrame DEF IInv, TrustInv
<1>8. NodesInv'
  BY <1>0, <1>1, <1>2, <1>3, CfgFrame DEF IInv, NodesInv
<1>9. EdgesInv'
  <2>1. RoleEdges' = RoleEdges /\ Decided' = Decided \cup {a}
    BY <1>0, CfgFrame DEF RoleEdges, Decided
  <2>2. targets' \subseteq nodes' \ Accounts
    BY <1>2, <1>3 DEF IInv, EdgesInv
  <2>3. RoleEdges' \subseteq edges' /\ \A b \in Decided' : AddedBy(b) \subseteq edges'
    BY <1>0, <1>2, <2>1 DEF IInv, EdgesInv
  <2>4. \A e \in edges' :
          e \in RoleEdges' \/ \E b \in Decided' : e \in AddedBy(b)
    BY <1>0, <1>2, <2>1 DEF IInv, EdgesInv
  <2>5. \A b \in Decided' :
          Holder(b) \in nodes' /\ (Direct(b) => b \in nodes')
    BY <1>0, <1>2, <2>1 DEF IInv, EdgesInv
  <2> QED BY <1>0, <2>2, <2>3, <2>4, <2>5, CfgFrame DEF EdgesInv
<1> QED BY <1>4, <1>6, <1>7, <1>8, <1>9 DEF IInv

LEMMA FinishInv ==
  ASSUME IInv, Finish
  PROVE  IInv'
<1>0. /\ cfg' = cfg /\ owner' = owner /\ phase = "assign" /\ phase' = "done"
      /\ left = {} /\ left' = {} /\ Built /\ Built'
      /\ entries' = entries /\ trust' = trust /\ identity' = identity
      /\ unresolvable' = unresolvable /\ targets' = targets
      /\ nodes' = nodes /\ edges' = edges
  BY DEF Finish, Built
<1>1. Visited = Roles /\ Visited' = Roles /\ Registered' = Registered
  BY <1>0, CfgFrame DEF Visited, Registered
<1>2. RoleEdges' = RoleEdges /\ Decided' = Decided
  BY <1>0, CfgFrame DEF RoleEdges, Decided
<1>3. PhaseInv' /\ OwnerInv'
  BY <1>0, <1>1, CfgFrame DEF IInv, PhaseInv, OwnerInv
<1>4. TrustInv'
  BY <1>0, <1>1, CfgFrame, NamesFrame DEF IInv, TrustInv
<1>5. NodesInv'
  BY <1>0, CfgFrame DEF IInv, NodesInv
<1>6. EdgesInv'
  BY <1>0, <1>2, CfgFrame DEF IInv, EdgesInv
<1> QED BY <1>3, <1>4, <1>5, <1>6 DEF IInv

LEMMA StepInv == IInv /\ [Next]_vars => IInv'
<1> SUFFICES ASSUME IInv, [Next]_vars PROVE IInv'
  OBVIOUS
<1>1. ASSUME NEW r \in Roles, Register(r) PROVE IInv'
  BY <1>1, RegisterInv
<1>2. ASSUME NEW r \in Roles, Collect(r) PROVE IInv'
  BY <1>2, CollectInv
<1>3. CASE StartCollect
  BY <1>3, StartCollectInv
<1>4. CASE Intersect
  BY <1>4, IntersectInv
<1>5. CASE Finish
  BY <1>5, FinishInv
<1>6. ASSUME NEW a \in Assigns, RejectAssign(a) PROVE IInv'
  BY <1>6, RejectAssignInv
<1>7. ASSUME NEW a \in Assigns, Assign(a) PROVE IInv'
  BY <1>7, AssignInv
<1>8. CASE UNCHANGED vars
  <2>1. /\ cfg' = cfg /\ owner' = owner /\ phase' = phase /\ left' = left
        /\ entries' = entries /\ trust' = trust /\ identity' = identity
        /\ unresolvable' = unresolvable /\ targets' = targets
        /\ nodes' = nodes /\ edges' = edges
    BY <1>8 DEF vars
  <2>2. Built' = Built /\ Visited' = Visited /\ Registered' = Registered
        /\ RoleEdges' = RoleEdges /\ Decided' = Decided
    BY <2>1, CfgFrame DEF Built, Visited, Registered, RoleEdges, Decided
  <2>3. PhaseInv' /\ OwnerInv'
    BY <2>1, <2>2, CfgFrame DEF IInv, PhaseInv, OwnerInv
  <2>4. TrustInv'
    BY <2>1, <2>2, CfgFrame, NamesFrame DEF IInv, TrustInv
  <2>5. NodesInv' /\ EdgesInv'
    BY <2>1, <2>2, CfgFrame DEF IInv, NodesInv, EdgesInv
  <2> QED BY <2>3, <2>4, <2>5 DEF IInv
<1> QED BY <1>1, <1>2, <1>3, <1>4, <1>5, <1>6, <1>7, <1>8 DEF Next

(* Every state of a construction satisfies the inductive invariant.        *)
THEOREM GraphInvariant == Spec => []IInv
BY InitInv, StepInv, PTL DEF Spec

-----------------------------------------------------------------------------
(* What follows from it.                                                   *)

(* The variables keep their types: names lead to roles that bear them,      *)
(* candidates to roles.                                                    *)
THEOREM GraphTypes == Spec => []TypeOK
<1>1. IInv => TypeOK
  <2> SUFFICES ASSUME IInv PROVE TypeOK
    OBVIOUS
  <2>1. trust \subseteq (Roles \cup entries) \X Roles
    <3>1. ASSUME NEW e \in trust PROVE e \in (Roles \cup entries) \X Roles
      <4>1. PICK f \in Roles \cup Accounts, t \in Roles : e = <<f, t>>
        BY <3>1 DEF IInv, TrustInv
      <4>2. t \in Visited /\ f \in TrustedBy(t)
        BY <3>1, <4>1 DEF IInv, TrustInv
      <4>3. f \in Accounts => f \in entries
        BY <4>2, SourceTypes DEF IInv, PhaseInv, TrustInv
      <4> QED BY <4>1, <4>3
    <3> QED BY <3>1
  <2>2. DOMAIN owner \subseteq UNION {NamesOf(r) : r \in Roles}
    BY DEF IInv, OwnerInv, Registered
  <2>3. \A n \in DOMAIN owner : n \in NamesOf(owner[n])
    BY DEF IInv, OwnerInv
  <2> QED BY <2>1, <2>2, <2>3 DEF TypeOK, IInv, PhaseInv, TrustInv, NodesInv, Built
<1> QED BY <1>1, GraphInvariant, PTL

(* An assignment reaches an identity at one of its places.                  *)
LEMMA ReachesWhere ==
  ASSUME NEW g, NEW i
  PROVE  i \in Reaches(g) <=>
           \E w \in PlacesOf(i) : IsScopeSubsumed(g.scope, Ref(w), cfg.res)
<1> DEFINE H == {w \in Hosts : IsScopeSubsumed(g.scope, Ref(w), cfg.res)}
           J == {j \in Identities : IsScopeSubsumed(g.scope, Ref(j), cfg.res)}
           U == UNION {AttachedTo(w) : w \in H}
<1>1. Reaches(g) = J \cup U
  BY DEF Reaches
<1>2. \A w : w \in H <=> w \in Hosts /\ IsScopeSubsumed(g.scope, Ref(w), cfg.res)
  OBVIOUS
<1>3. i \in J <=> i \in Identities /\ IsScopeSubsumed(g.scope, Ref(i), cfg.res)
  OBVIOUS
<1>4. \A w : w \in PlacesOf(i) <=>
        (w \in Hosts /\ i \in AttachedTo(w)) \/ (w = i /\ i \in Identities)
  BY DEF PlacesOf
<1> HIDE DEF H, J
<1>5. i \in U <=> \E w \in H : i \in AttachedTo(w)
  OBVIOUS
<1> QED BY <1>1, <1>2, <1>3, <1>4, <1>5

(* Every edge of the finished graph leads from a node to a node.            *)
LEMMA EdgeEnds ==
  ASSUME IInv, NEW e \in edges
  PROVE  /\ Built
         /\ \/ /\ e \in RoleEdges
               /\ \E f \in nodes, t \in Roles : e = <<f, t>>
            \/ \E a \in Decided :
                 /\ e \in AddedBy(a) /\ Holder(a) \in nodes
                 /\ \/ e = <<Holder(a), a>> /\ a \in nodes
                    \/ \E i \in Reachable : e = <<Holder(a), i>> /\ i # Holder(a)
<1>1. Built
  BY DEF IInv, EdgesInv
<1>2. CASE e \in RoleEdges
  <2>1. PICK f \in Roles \cup Accounts, t \in Roles : e = <<f, t>>
    BY <1>2 DEF RoleEdges, IInv, TrustInv
  <2>2. t \in Visited /\ f \in TrustedBy(t)
    BY <1>2, <2>1 DEF RoleEdges, IInv, TrustInv
  <2>3. f \in Accounts => f \in entries
    BY <2>2, SourceTypes DEF IInv, PhaseInv, TrustInv
  <2> QED BY <1>1, <1>2, <2>1, <2>3 DEF IInv, NodesInv
<1>3. CASE e \notin RoleEdges
  <2>1. PICK a \in Decided : e \in AddedBy(a)
    BY <1>1, <1>3 DEF IInv, EdgesInv
  <2>2. Holder(a) \in nodes /\ (Direct(a) => a \in nodes)
    BY <1>1 DEF IInv, EdgesInv
  <2>3. Reaches(cfg.assigns[a]) \subseteq Reachable
    BY ReachesWhere DEF Reachable, PlacesOf
  <2> QED BY <1>1, <2>1, <2>2, <2>3 DEF AddedBy, EdgesOf
<1> QED BY <1>2, <1>3

(* The search is given what it takes for granted: an external entry point   *)
(* is a node, an edge ends in a node that is no account, a target is one.   *)
THEOREM GraphFeedsSearch == Spec => []FeedsReachability
<1>1. IInv => FeedsReachability
  <2> SUFFICES ASSUME IInv PROVE FeedsReachability
    OBVIOUS
  <2>1. Roles \cap Accounts = {} /\ Assigns \cap Accounts = {}
    BY Wellformed DEF IInv, PhaseInv, WellFormed, Roles, Assigns
  <2>2. Reachable \cap Accounts = {}
    BY ReachableNodes, Wellformed DEF IInv, PhaseInv, WellFormed
  <2>3. ASSUME NEW e \in edges PROVE e[1] \in nodes /\ e[2] \in nodes \ Accounts
    <3>1. Built /\ Roles \subseteq nodes /\ Reachable \subseteq nodes
      BY EdgeEnds DEF IInv, NodesInv
    <3>2. CASE \E f \in nodes, t \in Roles : e = <<f, t>>
      BY <2>1, <3>1, <3>2
    <3>3. CASE \E a \in Decided :
                 /\ Holder(a) \in nodes
                 /\ \/ e = <<Holder(a), a>> /\ a \in nodes
                    \/ \E i \in Reachable : e = <<Holder(a), i>>
      BY <2>1, <2>2, <3>1, <3>3 DEF Decided, Decidable
    <3> QED BY <3>2, <3>3, EdgeEnds
  <2> QED BY <2>3 DEF FeedsReachability, IInv, NodesInv, EdgesInv
<1> QED BY <1>1, GraphInvariant, PTL

(* An edge into a role is one of the AWS part.                             *)
LEMMA EdgeIntoRole ==
  ASSUME IInv, Built, NEW t \in Roles, NEW f \in Roles \cup Accounts
  PROVE  <<f, t>> \in edges <=> <<f, t>> \in RoleEdges
<1>1. RoleEdges \subseteq edges
  BY DEF IInv, EdgesInv
<1>2. ASSUME <<f, t>> \in edges PROVE <<f, t>> \in RoleEdges
  <2>1. Roles \cap Assigns = {} /\ Roles \cap Reachable = {}
    BY ReachableNodes, Wellformed DEF IInv, PhaseInv, WellFormed, Roles, Assigns
  <2>2. Decided \subseteq Assigns
    BY DEF Decided, Decidable
  <2>3. ASSUME NEW a \in Decided,
               \/ <<f, t>> = <<Holder(a), a>>
               \/ \E i \in Reachable : <<f, t>> = <<Holder(a), i>>
        PROVE  FALSE
    BY <2>1, <2>2, <2>3
  <2> QED BY <1>2, <2>3, EdgeEnds
<1> QED BY <1>1, <1>2

(* An edge between roles has both policies behind it, whatever the order of *)
(* the files; where no two roles share a name, both policies make an edge.  *)
THEOREM GraphIsIntersection == Spec => []BothSidesAgree
<1>1. IInv => BothSidesAgree
  <2> SUFFICES ASSUME IInv, Built, NEW t \in Roles, NEW f \in Roles \cup Accounts
               PROVE  LET allowed == Trusts(t, f) /\ (f \in Accounts \/ Permits(f, t))
                      IN  /\ <<f, t>> \in edges => allowed
                          /\ allowed /\ NoSharedNames => <<f, t>> \in edges
    BY DEF BothSidesAgree, Built
  <2>1. cfg \in Configs /\ OwnerInv /\ phase # "register" /\ Visited = Roles
    BY DEF IInv, PhaseInv, Built, Visited
  <2>2. Roles \cap Accounts = {} /\ None \notin Roles
    BY <2>1, Wellformed DEF WellFormed, Roles
  <2>3. \A x \in Items(cfg) : Shaped(x)
    BY <2>1, Wellformed DEF WellFormed
  <2>4. <<f, t>> \in edges <=>
          f \in TrustedBy(t) /\ (f \in Accounts \/ t \in GrantedTo(f))
    <3>1. <<f, t>> \in edges <=> <<f, t>> \in RoleEdges
      BY EdgeIntoRole
    <3>2. <<f, t>> \in trust <=> f \in TrustedBy(t)
      BY <2>1 DEF IInv, TrustInv
    <3>3. f \in Roles => (<<f, t>> \in identity <=> t \in GrantedTo(f))
      BY <2>1 DEF IInv, TrustInv
    <3> QED BY <3>1, <3>2, <3>3 DEF RoleEdges
  <2>5. f \in Accounts => (f \in TrustedBy(t) <=> Trusts(t, f))
    BY <2>1, AccountsDenoted, ItemsOfRole, SourceTypes DEF Trusts
  <2>6. ASSUME NEW r \in Roles, NEW S \in SUBSET Items(cfg), r \in MatchAll(S)
        PROVE  \E x \in S : Denotes(x, r)
    <3>1. PICK x \in S : r = Match(x)
      BY <2>6 DEF MatchAll
    <3>2. Shaped(x) /\ Match(x) # None
      BY <2>2, <2>3, <3>1
    <3> QED BY <2>1, <3>1, <3>2, MatchDenotes
  <2>7. ASSUME NEW r \in Roles, NEW S \in SUBSET Items(cfg), NoSharedNames,
               NEW x \in S, Denotes(x, r)
        PROVE  r \in MatchAll(S)
    <3>1. Match(x) = r
      BY <2>1, <2>7, DenotesMatch
    <3> QED BY <2>2, <3>1 DEF MatchAll
  <2>8. /\ Principals(t) \in SUBSET Items(cfg)
        /\ f \in Roles => Permitted(f) \in SUBSET Items(cfg)
    BY ItemsOfRole
  <2>9. CASE f \in Accounts
    BY <2>4, <2>5, <2>9
  <2>10. CASE f \in Roles
    <3>1. f \in TrustedBy(t) <=> f \in MatchAll(Principals(t))
      BY <2>1, <2>2, <2>10, SourceTypes DEF TrustedBy
    <3>2. f \in TrustedBy(t) => Trusts(t, f)
      BY <2>6, <2>8, <2>10, <3>1 DEF Trusts
    <3>3. NoSharedNames /\ Trusts(t, f) => f \in TrustedBy(t)
      BY <2>7, <2>8, <2>10, <3>1 DEF Trusts
    <3>4. t \in GrantedTo(f) <=>
            t \in MatchAll(Permitted(f)) \/ (Star \in Permitted(f) /\ f # t)
      BY DEF GrantedTo
    <3>5. t \in GrantedTo(f) => Permits(f, t)
      BY <2>6, <2>8, <2>10, <3>4 DEF Permits
    <3>6. NoSharedNames /\ Permits(f, t) => t \in GrantedTo(f)
      BY <2>7, <2>8, <2>10, <3>4 DEF Permits
    <3> QED BY <2>2, <2>4, <2>10, <3>2, <3>3, <3>5, <3>6
  <2> QED BY <2>9, <2>10
<1> QED BY <1>1, GraphInvariant, PTL

(* Whatever has no value is reported by the end, and an assignment with such *)
(* data is no node.                                                         *)
THEOREM GraphReportsUnresolved == Spec => []UnresolvedIsReported
<1>1. IInv => UnresolvedIsReported
  <2> SUFFICES ASSUME IInv, phase = "done" PROVE UnresolvedIsReported
    BY DEF UnresolvedIsReported
  <2>1. Visited = Roles /\ Built /\ left = {}
    BY DEF Visited, Built, IInv, PhaseInv
  <2>2. ASSUME NEW r \in Roles, RoleIsUnresolved(r) PROVE r \in unresolvable
    <3>1. Gone \in cfg.roles[r].rules \cup Principals(r) \cup Permitted(r)
      <4>1. CASE Gone \in cfg.roles[r].rules
        BY <4>1
      <4>2. CASE Gone \notin cfg.roles[r].rules
        <5>1. PICK s \in AssumeRules(r) :
                Gone \in s.principals \/ (s.principals = {} /\ Gone \in s.resources)
          BY <2>2, <4>2 DEF RoleIsUnresolved, AssumeRules
        <5>2. Gone \in s.principals => Gone \in Principals(r)
          BY <5>1 DEF Principals
        <5>3. s.principals = {} /\ Gone \in s.resources => Gone \in Permitted(r)
          <6>1. ASSUME s.principals = {}
                PROVE  s.resources \in
                         {u.resources : u \in {v \in AssumeRules(r) : v.principals = {}}}
            BY <5>1, <6>1
          <6> QED BY <6>1 DEF Permitted
        <5> QED BY <5>1, <5>2, <5>3
      <4> QED BY <4>1, <4>2
    <3>2. HasUnresolved(r)
      BY <3>1 DEF HasUnresolved
    <3> QED BY <2>1, <3>2 DEF IInv, TrustInv
  <2>3. ASSUME NEW a \in Assigns,
               Gone \in {cfg.assigns[a].principal, cfg.assigns[a].scope,
                         cfg.assigns[a].role}
        PROVE  a \in unresolvable /\ a \notin nodes
    <3>1. a \notin Decidable
      BY <2>3 DEF Decidable, Undecidable
    <3>2. a \notin Roles \cup Accounts \cup AzureNodes(cfg)
      BY Wellformed DEF IInv, PhaseInv, WellFormed, Roles, Assigns
    <3> QED BY <2>1, <3>1, <3>2 DEF IInv, NodesInv
  <2> QED BY <2>2, <2>3 DEF UnresolvedIsReported
<1> QED BY <1>1, GraphInvariant, PTL

-----------------------------------------------------------------------------
(* Scopes.                                                                 *)

(* A resource without a scope attribute that a scope covers is not          *)
(* elsewhere.                                                              *)
LEMMA CoveredIsNotElsewhere ==
  ASSUME NEW s, NEW w \in DOMAIN cfg.res, Shaped(s), IsPath(s),
         cfg.res[w].scope = Absent,
         ManagementOf(s.path) # None => GroupOf(s.path) = None,
         IsScopeSubsumed(s, Ref(w), cfg.res)
  PROVE  ~Elsewhere(s.path, cfg.res[w])
<1> DEFINE r == cfg.res[w]
           p == s.path
<1>1. PathCovers(p, Ref(w), cfg.res)
  <2>1. ~IsPath(Ref(w)) /\ ~IsRef(s) /\ ~IsLit(s)
    BY DEF Shaped, IsPath, IsRef, IsLit, Ref, Lit, Path, Gone, Absent
  <2> QED BY <2>1 DEF IsScopeSubsumed
<1>2. \/ GroupOf(p) # None /\ r.rg # Absent /\ GroupCovers(p, r)
      \/ /\ GroupOf(p) = None \/ r.rg = Absent
         /\ \/ SubOf(p) # None /\ SubscriptionCovers(p, r)
            \/ ManagementOf(p) # None /\ ManagementCovers(p, r)
  <2>1. ~IsPath(Ref(w)) /\ Ref(w).ref = w /\ ~IsRef(Absent) /\ ~IsPath(Absent)
    BY DEF IsPath, IsRef, Ref, Absent
  <2>2. ~ScopeAttrCovered(p, r, cfg.res)
    BY <2>1 DEF ScopeAttrCovered
  <2> QED BY <1>1, <2>1, <2>2 DEF PathCovers
<1>3. ~(SubOf(p) # None /\ ManagementOf(p) # None)
  BY DEF SubOf, ManagementOf
<1>4. IsLit(r.rg) => r.rg # Absent
  BY DEF IsLit, Absent
<1> HIDE DEF r, p
<1>5. ~Elsewhere(p, r)
  BY <1>2, <1>3, <1>4 DEF GroupCovers, SubscriptionCovers, ManagementCovers, Elsewhere, p
<1> QED BY <1>5 DEF p, r

(* What the reading of the properties finds inside a scope, the code covers. *)
LEMMA InsideIsCovered ==
  ASSUME NEW s, NEW w \in DOMAIN cfg.res, Shaped(s), Inside(s, cfg.res[w])
  PROVE  IsScopeSubsumed(s, Ref(w), cfg.res)
<1> DEFINE r == cfg.res[w]
           p == s.path
<1>1. IsRef(Ref(w)) /\ Ref(w).ref = w
  BY DEF IsRef, Ref
<1>2. CASE IsPath(s) /\ SubOf(p) # None /\ r.sub = Lit(SubOf(p))
           /\ (GroupOf(p) # None => r.rg = Lit(GroupOf(p)))
  <2>1. IsLit(r.sub) /\ r.sub.lit = SubOf(p)
    BY <1>2 DEF IsLit, Lit
  <2>2. GroupOf(p) # None =>
          IsLit(r.rg) /\ r.rg.lit = GroupOf(p) /\ r.rg # Absent
    BY <1>2 DEF IsLit, Lit, Absent
  <2>3. GroupOf(p) # None => GroupCovers(p, r)
    BY <2>1, <2>2 DEF GroupCovers
  <2>4. SubscriptionCovers(p, r)
    BY <2>1 DEF SubscriptionCovers
  <2>5. PathCovers(p, Ref(w), cfg.res)
    BY <1>1, <1>2, <2>2, <2>3, <2>4 DEF PathCovers
  <2> QED BY <1>2, <2>5 DEF IsScopeSubsumed
<1>3. CASE IsRef(s) /\ r.rg = s
  <2>1. s = Ref(s.ref)
    BY <1>3 DEF Shaped, IsRef, IsLit, IsPath, Lit, Path, Gone, Absent
  <2>2. AddressCovers(s.ref, Ref(w), cfg.res)
    BY <1>1, <1>3, <2>1 DEF AddressCovers
  <2> QED BY <1>3, <2>2 DEF IsScopeSubsumed
<1> QED BY <1>2, <1>3 DEF Inside

LEMMA ScopeShapes ==
  ASSUME cfg \in Configs, NEW a \in Assigns
  PROVE  LET s == cfg.assigns[a].scope
         IN  /\ Shaped(s)
             /\ IsPath(s) => (ManagementOf(s.path) # None => GroupOf(s.path) = None)
<1> DEFINE WF(s) == /\ Shaped(s)
                    /\ IsPath(s) /\ ManagementOf(s.path) # None => GroupOf(s.path) = None
<1>1. WF(cfg.assigns[a].scope)
  BY Wellformed DEF WellFormed, Assigns
<1> QED BY <1>1

(* An edge to an identity has an assignment behind it whose scope no         *)
(* attribute of one of its places contradicts.                             *)
THEOREM GraphIsolatesScopes == Spec => []ScopesIsolate
<1>1. IInv => ScopesIsolate
  <2> SUFFICES ASSUME IInv, NEW e \in edges, e[2] \in nodes \ (Roles \cup Assigns)
               PROVE  \E a \in Assigns \ left, w \in PlacesOf(e[2]) :
                        /\ GivesControl(a, e[1])
                        /\ LET s == cfg.assigns[a].scope IN
                           IsPath(s) /\ w \in DOMAIN cfg.res /\ cfg.res[w].scope = Absent
                             => ~Elsewhere(s.path, cfg.res[w])
    BY DEF ScopesIsolate
  <2>1. Built /\ cfg \in Configs
    BY EdgeEnds DEF IInv, PhaseInv
  <2>2. PICK a \in Decided :
          e \in AddedBy(a) /\ \E i \in Reachable : e = <<Holder(a), i>> /\ i # Holder(a)
    <3>1. ~(\E f \in nodes, t \in Roles : e = <<f, t>>)
      OBVIOUS
    <3>2. \A a \in Decided : e # <<Holder(a), a>>
      BY DEF Decided, Decidable
    <3> QED BY <3>1, <3>2, EdgeEnds
  <2>3. a \in Assigns /\ a \notin left /\ a \in Decidable
    BY DEF Decided, Decidable
  <2> DEFINE g == cfg.assigns[a]
  <2>4. /\ g.scope # Absent /\ g.role # Absent /\ IsControlRole(g.role, cfg.defs)
        /\ e[1] = Holder(a) /\ e[2] \in Reaches(g)
    <3>1. e[1] = Holder(a) /\ e[2] # a
      BY <2>2, <2>3
    <3>2. e \in EdgesOf(Holder(a), g)
      BY <2>2, <3>1 DEF AddedBy
    <3> QED BY <3>1, <3>2 DEF EdgesOf
  <2>5. a \notin unresolvable
    <3>1. a \notin Roles
      BY <2>1, <2>3, Wellformed DEF WellFormed, Roles, Assigns
    <3> QED BY <2>3, <3>1 DEF IInv, NodesInv
  <2>6. GivesControl(a, e[1])
    BY <2>1, <2>3, <2>4, <2>5, HolderStable DEF GivesControl, IInv
  <2>7. PICK w \in PlacesOf(e[2]) : IsScopeSubsumed(g.scope, Ref(w), cfg.res)
    BY <2>4, ReachesWhere
  <2>8. Shaped(g.scope)
        /\ (IsPath(g.scope) =>
              (ManagementOf(g.scope.path) # None => GroupOf(g.scope.path) = None))
    BY <2>1, <2>3, ScopeShapes
  <2>9. IsPath(g.scope) /\ w \in DOMAIN cfg.res /\ cfg.res[w].scope = Absent
          => ~Elsewhere(g.scope.path, cfg.res[w])
    BY <2>7, <2>8, CoveredIsNotElsewhere
  <2> QED BY <2>3, <2>6, <2>7, <2>9
<1> QED BY <1>1, GraphInvariant, PTL

(* No control over a place is missed where its attributes are literal.      *)
THEOREM GraphFindsControl == Spec => []ControlIsFound
<1>1. IInv => ControlIsFound
  <2> SUFFICES ASSUME IInv, phase = "done", NEW a \in Assigns,
                      NEW i \in nodes \ (Roles \cup Assigns), NEW w \in PlacesOf(i),
                      GivesControl(a, PrincipalNode(cfg.assigns[a].principal)),
                      PrincipalNode(cfg.assigns[a].principal) # i,
                      w \in DOMAIN cfg.res, cfg.assigns[a].scope # Absent,
                      Inside(cfg.assigns[a].scope, cfg.res[w])
               PROVE  <<PrincipalNode(cfg.assigns[a].principal), i>> \in edges
    BY DEF ControlIsFound
  <2> DEFINE g == cfg.assigns[a]
  <2>1. Built /\ cfg \in Configs /\ left = {}
    BY DEF Built, IInv, PhaseInv
  <2>2. a \in Decided
    BY <2>1 DEF GivesControl, IInv, NodesInv, Decided
  <2>3. PrincipalNode(g.principal) = Holder(a)
    BY <2>1, <2>2, HolderStable DEF IInv, Decided
  <2>4. i \in Reaches(g)
    BY <2>1, ScopeShapes, InsideIsCovered, ReachesWhere
  <2>5. <<Holder(a), i>> \in AddedBy(a)
    BY <2>3, <2>4 DEF AddedBy, EdgesOf, GivesControl
  <2> QED BY <2>1, <2>2, <2>3, <2>5 DEF IInv, EdgesInv
<1> QED BY <1>1, GraphInvariant, PTL

-----------------------------------------------------------------------------
(* Azure policies.                                                          *)

(* The loop: what was considered so far left the result open, and a result   *)
(* is that of the last assignment considered.                               *)
PolicyInv ==
  /\ policy # "none" => cfg \in Governed
  /\ policy \in {"none", "open", "SAT", "UNSAT", "UNRESOLVABLE"}
  /\ at \in Nat \ {0}
  /\ policy \in {"open", "UNSAT"} =>
       \A i \in DOMAIN cfg.policies : i < at => Outcome(cfg.policies[i]) = "open"
  /\ policy = "UNSAT" => \A i \in DOMAIN cfg.policies : i < at
  /\ policy = "SAT" => at - 1 \in DOMAIN cfg.policies
                       /\ Outcome(cfg.policies[at - 1]) = "SAT"

-----------------------------------------------------------------------------
(* The recursive definitions, one step unfolded.                            *)

Answers == [holds : BOOLEAN, lost : BOOLEAN]

(* The places of the parts, as a function.                                  *)
Parts == [c \in Conditions |-> PartsOf(c)]

EncodeOf(g, c) ==
  IF "field" \in DOMAIN c
    THEN IF Looked(c.field) = Gone \/ (c.op \in Supported /\ HasGone(c.value))
           THEN Lost
           ELSE Known(Test(c.op, Looked(c.field), c.value))
    ELSE LET parts == {g[s] : s \in PartsOf(c)} IN
         [holds |-> IF "all" \in DOMAIN c THEN \A p \in parts : p.holds
                    ELSE IF "any" \in DOMAIN c THEN \E p \in parts : p.holds
                    ELSE \A p \in parts : ~p.holds,
          lost |-> Reasons(parts)]

MayBeOf(g, c) ==
  IF "field" \in DOMAIN c THEN MayTest(c.op, Value(c.field), c.value)
  ELSE IF "all" \in DOMAIN c
    THEN {b \in BOOLEAN : IF b THEN \A s \in c.all : TRUE \in g[s]
                              ELSE \E s \in c.all : FALSE \in g[s]}
  ELSE IF "any" \in DOMAIN c
    THEN {b \in BOOLEAN : IF b THEN \E s \in c.any : TRUE \in g[s]
                              ELSE \A s \in c.any : FALSE \in g[s]}
  ELSE {~b : b \in g[c.neg]}

TestsOf(g, c) ==
  IF "field" \in DOMAIN c THEN {c} ELSE UNION {g[s] : s \in PartsOf(c)}

LEMMA DepthFalls ==
  /\ Depth \in [Conditions -> Nat]
  /\ \A c \in Conditions : \A s \in PartsOf(c) : s \in Conditions /\ Depth[s] < Depth[c]
BY PolicyAssumption

LEMMA TestIsBoolean == \A op, v, w : Test(op, v, w) \in BOOLEAN
BY Zenon DEF Test

LEMMA EncodeIs ==
  /\ Encode \in [Conditions -> Answers]
  /\ \A c \in Conditions : Encode[c] = EncodeOf(Encode, c)
<1> DEFINE F == [Conditions -> Answers]
           B == [x \in Conditions \X F |-> EncodeOf(x[2], x[1])]
           Body(g) == [c \in Conditions |-> EncodeOf(g, c)]
<1>1. ASSUME NEW c \in Conditions, NEW g PROVE EncodeOf(g, c) \in Answers
  <2>1. Lost \in Answers
    BY DEF Lost, Answers
  <2>2. \A op, v, w : Known(Test(op, v, w)) \in Answers
    BY TestIsBoolean DEF Known, Answers
  <2>3. \A b, r : b \in BOOLEAN /\ r \in BOOLEAN => [holds |-> b, lost |-> r] \in Answers
    BY DEF Answers
  <2>4. \A P : /\ (\A p \in P : p.holds) \in BOOLEAN
               /\ (\E p \in P : p.holds) \in BOOLEAN
               /\ (\A p \in P : ~p.holds) \in BOOLEAN
               /\ Reasons(P) \in BOOLEAN
    BY Zenon DEF Reasons
  <2>5. CASE "field" \in DOMAIN c
    BY <2>1, <2>2, <2>5 DEF EncodeOf
  <2>6. CASE "field" \notin DOMAIN c
    <3> DEFINE P == {g[s] : s \in PartsOf(c)}
               H == IF "all" \in DOMAIN c THEN \A p \in P : p.holds
                    ELSE IF "any" \in DOMAIN c THEN \E p \in P : p.holds
                    ELSE \A p \in P : ~p.holds
    <3>1. EncodeOf(g, c) = [holds |-> H, lost |-> Reasons(P)]
      BY <2>6 DEF EncodeOf
    <3>2. H \in BOOLEAN
      <4> HIDE DEF P
      <4> QED BY Zenon, <2>4
    <3>3. Reasons(P) \in BOOLEAN
      <4> HIDE DEF P
      <4> QED BY <2>4
    <3> HIDE DEF H, P
    <3> QED BY <2>3, <3>1, <3>2, <3>3
  <2> QED BY <2>5, <2>6
<1>2. ASSUME NEW c \in Conditions, NEW g \in F, NEW h \in F,
             \A s \in PartsOf(c) : g[s] = h[s]
      PROVE  EncodeOf(g, c) = EncodeOf(h, c)
  <2>1. {g[s] : s \in PartsOf(c)} = {h[s] : s \in PartsOf(c)}
    BY <1>2
  <2> QED BY <2>1 DEF EncodeOf
<1>3. B \in [Conditions \X F -> Answers]
  BY <1>1
<1>4. \A c \in Conditions : \A g, h \in F :
        (\A s \in Parts[c] : g[s] = h[s]) => B[<<c, g>>] = B[<<c, h>>]
  BY <1>2 DEF Parts
<1>5. Descends(Conditions, Answers, Depth, Parts, B)
  <2>1. \A c \in Conditions : \A s \in Parts[c] : s \in Conditions /\ Depth[s] < Depth[c]
    BY DepthFalls DEF Parts
  <2>2. Answers # {}
    BY [holds |-> TRUE, lost |-> TRUE] \in Answers DEF Answers
  <2> HIDE DEF B
  <2> QED BY <1>3, <1>4, <2>1, <2>2, DepthFalls DEF Descends
<1>6. PICK f \in F : \A c \in Conditions : f[c] = B[<<c, f>>]
  <2> HIDE DEF B
  <2> QED BY <1>5, RecursionHolds
<1>7. f = Body(f)
  <2>1. \A c \in Conditions : f[c] = EncodeOf(f, c)
    <3>1. \A c \in Conditions : <<c, f>> \in Conditions \X F
      BY <1>6
    <3>2. \A c \in Conditions : B[<<c, f>>] = EncodeOf(f, c)
      BY <3>1
    <3> HIDE DEF B
    <3> QED BY <1>6, <3>2
  <2> QED BY <2>1
<1>8. Encode = CHOOSE g : g = Body(g)
  BY DEF Encode, EncodeOf
<1>9. Encode = Body(Encode)
  <2> HIDE DEF Body
  <2> QED BY <1>7, <1>8
<1>10. ASSUME NEW c \in Conditions PROVE Encode[c] = EncodeOf(Encode, c)
  <2>1. Body(Encode)[c] = EncodeOf(Encode, c)
    OBVIOUS
  <2> HIDE DEF Body
  <2> QED BY <1>9, <2>1
<1>11. Encode \in F
  <2>1. Body(Encode) \in F
    BY <1>1
  <2> HIDE DEF Body
  <2> QED BY <1>9, <2>1
<1> QED BY <1>10, <1>11

LEMMA MayTestIsBoolean == \A op, v, w : MayTest(op, v, w) \subseteq BOOLEAN
<1> SUFFICES ASSUME NEW op, NEW v, NEW w, NEW b \in MayTest(op, v, w) PROVE b \in BOOLEAN
  OBVIOUS
<1>1. \/ b \in BOOLEAN
      \/ b = (IsLit(v) /\ v.lit = w.lit)
      \/ b = (IsLit(v) => v.lit # w.lit)
      \/ b = (IsLit(v) /\ v.lit \in TextsIn(Listed(w)))
      \/ b = (IsLit(v) => v.lit \notin TextsIn(Listed(w)))
      \/ b = (v # Absent /\ \E x \in Texts(v) : <<w.lit, x>> \in Occurs)
      \/ b = ((v # Absent) = (w.lit # "false"))
  BY DEF MayTest
<1> QED BY Zenon, <1>1

LEMMA MayBeIs ==
  /\ MayBe \in [Conditions -> SUBSET BOOLEAN]
  /\ \A c \in Conditions : MayBe[c] = MayBeOf(MayBe, c)
<1> DEFINE F == [Conditions -> SUBSET BOOLEAN]
           B == [x \in Conditions \X F |-> MayBeOf(x[2], x[1])]
           Body(g) == [c \in Conditions |-> MayBeOf(g, c)]
<1>1. ASSUME NEW c \in Conditions, NEW g PROVE MayBeOf(g, c) \in SUBSET BOOLEAN
  <2>1. \A S : {~b : b \in S} \subseteq BOOLEAN
    BY Zenon
  <2> QED BY <2>1, MayTestIsBoolean DEF MayBeOf
<1>2. ASSUME NEW c \in Conditions, NEW g \in F, NEW h \in F,
             \A s \in PartsOf(c) : g[s] = h[s]
      PROVE  MayBeOf(g, c) = MayBeOf(h, c)
  BY <1>2 DEF MayBeOf, PartsOf
<1>3. B \in [Conditions \X F -> SUBSET BOOLEAN]
  BY <1>1
<1>4. \A c \in Conditions : \A g, h \in F :
        (\A s \in Parts[c] : g[s] = h[s]) => B[<<c, g>>] = B[<<c, h>>]
  BY <1>2 DEF Parts
<1>5. Descends(Conditions, SUBSET BOOLEAN, Depth, Parts, B)
  <2>1. \A c \in Conditions : \A s \in Parts[c] : s \in Conditions /\ Depth[s] < Depth[c]
    BY DepthFalls DEF Parts
  <2> HIDE DEF B
  <2> QED BY <1>3, <1>4, <2>1, DepthFalls DEF Descends
<1>6. PICK f \in F : \A c \in Conditions : f[c] = B[<<c, f>>]
  <2> HIDE DEF B
  <2> QED BY <1>5, RecursionHolds
<1>7. f = Body(f)
  <2>1. \A c \in Conditions : <<c, f>> \in Conditions \X F
    BY <1>6
  <2>2. \A c \in Conditions : B[<<c, f>>] = MayBeOf(f, c)
    BY <2>1
  <2> HIDE DEF B
  <2>3. f = [c \in Conditions |-> f[c]]
    BY <1>6
  <2> QED BY <1>6, <2>2, <2>3
<1>8. MayBe = CHOOSE g : g = Body(g)
  BY DEF MayBe, MayBeOf
<1>9. MayBe = Body(MayBe)
  <2> HIDE DEF Body
  <2> QED BY <1>7, <1>8
<1>10. ASSUME NEW c \in Conditions PROVE MayBe[c] = MayBeOf(MayBe, c)
  <2>1. Body(MayBe)[c] = MayBeOf(MayBe, c)
    OBVIOUS
  <2> HIDE DEF Body
  <2> QED BY <1>9, <2>1
<1>11. MayBe \in F
  <2>1. Body(MayBe) \in F
    BY <1>1
  <2> HIDE DEF Body
  <2> QED BY <1>9, <2>1
<1> QED BY <1>10, <1>11

LEMMA TestsIs == \A c \in Conditions : Tests[c] = TestsOf(Tests, c)
<1> DEFINE F == [Conditions -> SUBSET Conditions]
           B == [x \in Conditions \X F |-> TestsOf(x[2], x[1])]
           Body(g) == [c \in Conditions |-> TestsOf(g, c)]
<1>1. ASSUME NEW c \in Conditions, NEW g \in F PROVE TestsOf(g, c) \in SUBSET Conditions
  <2>1. \A s \in PartsOf(c) : g[s] \subseteq Conditions
    BY DepthFalls
  <2> QED BY <2>1 DEF TestsOf
<1>2. ASSUME NEW c \in Conditions, NEW g \in F, NEW h \in F,
             \A s \in PartsOf(c) : g[s] = h[s]
      PROVE  TestsOf(g, c) = TestsOf(h, c)
  <2>1. {g[s] : s \in PartsOf(c)} = {h[s] : s \in PartsOf(c)}
    BY <1>2
  <2> QED BY <2>1 DEF TestsOf
<1>3. B \in [Conditions \X F -> SUBSET Conditions]
  BY <1>1
<1>4. \A c \in Conditions : \A g, h \in F :
        (\A s \in Parts[c] : g[s] = h[s]) => B[<<c, g>>] = B[<<c, h>>]
  BY <1>2 DEF Parts
<1>5. Descends(Conditions, SUBSET Conditions, Depth, Parts, B)
  <2>1. \A c \in Conditions : \A s \in Parts[c] : s \in Conditions /\ Depth[s] < Depth[c]
    BY DepthFalls DEF Parts
  <2> HIDE DEF B
  <2> QED BY <1>3, <1>4, <2>1, DepthFalls DEF Descends
<1>6. PICK f \in F : \A c \in Conditions : f[c] = B[<<c, f>>]
  <2> HIDE DEF B
  <2> QED BY <1>5, RecursionHolds
<1>7. f = Body(f)
  <2>1. \A c \in Conditions : <<c, f>> \in Conditions \X F
    BY <1>6
  <2>2. \A c \in Conditions : B[<<c, f>>] = TestsOf(f, c)
    BY <2>1
  <2> HIDE DEF B
  <2>3. f = [c \in Conditions |-> f[c]]
    BY <1>6
  <2> QED BY <1>6, <2>2, <2>3
<1>8. Tests = CHOOSE g : g = Body(g)
  BY DEF Tests, TestsOf
<1>9. Tests = Body(Tests)
  <2> HIDE DEF Body
  <2> QED BY <1>7, <1>8
<1>10. ASSUME NEW c \in Conditions PROVE Tests[c] = TestsOf(Tests, c)
  <2>1. Body(Tests)[c] = TestsOf(Tests, c)
    OBVIOUS
  <2> HIDE DEF Body
  <2> QED BY <1>9, <2>1
<1> QED BY <1>10

-----------------------------------------------------------------------------
(* The encoder reads a condition as it is meant: where it tells what it is,  *)
(* and misreads none of its tests, the condition can have no other truth    *)
(* value than the one it tells.                                             *)

LEMMA TestAsMeant ==
  ASSUME NEW c \in Conditions, "field" \in DOMAIN c, ~Misread(c),
         ~Encode[c].lost
  PROVE  MayBe[c] = {Encode[c].holds}
<1> DEFINE v == Value(c.field)
           w == c.value
<1>1. /\ Looked(c.field) = v /\ c.op \in Supported
      /\ ~IsRef(v) /\ (v # Gone => ~HasGone(v))
      /\ ~(c.op \in {"notEquals", "notIn"} /\ IsFalsy(w))
      /\ ~(c.op = "exists" /\ w = Lit("false"))
  BY DEF Misread
<1>2. v # Gone /\ ~HasGone(w) /\ Encode[c].holds = Test(c.op, v, w)
  <2>1. Encode[c] = IF v = Gone \/ (c.op \in Supported /\ HasGone(w))
                      THEN Lost ELSE Known(Test(c.op, v, w))
    BY <1>1, EncodeIs DEF EncodeOf
  <2>2. Lost.lost /\ \A b : Known(b).holds = b
    BY DEF Lost, Known
  <2> HIDE DEF v, w
  <2>3. ~(v = Gone \/ (c.op \in Supported /\ HasGone(w)))
    BY <2>1, <2>2
  <2> QED BY <1>1, <2>1, <2>2, <2>3
<1>3. MayBe[c] = MayTest(c.op, v, w)
  BY MayBeIs DEF MayBeOf
<1>4. ~HasGone(v) /\ ~IsRef(v)
  BY <1>1, <1>2
<1>5. ComparesWell(c)
  BY PolicyAssumption
<1> HIDE DEF v
<1>6. c.op \notin {"in", "notIn"} => IsLit(w) /\ (w = False <=> w.lit = "false" /\ w # Lit("false"))
  <2>1. w # Gone
    BY <1>2 DEF HasGone
  <2>2. w = False \/ w = Lit(w.lit) \/ c.op \in {"in", "notIn"}
    BY <1>5, <2>1 DEF ComparesWell
  <2> QED BY <2>2 DEF IsLit, Lit, False
<1>7. IsLit(v) => v # Absent
  BY DEF IsLit, Absent
<1> HIDE DEF w
<1>8. ASSUME NEW P, P \in BOOLEAN, MayTest(c.op, v, w) = {P}, Test(c.op, v, w) <=> P
      PROVE  MayBe[c] = {Encode[c].holds}
  BY Zenon, <1>2, <1>3, <1>8, TestIsBoolean
<1>9. CASE c.op = "equals"
  <2>1. MayTest(c.op, v, w) = {IsLit(v) /\ v.lit = w.lit}
    BY <1>2, <1>4, <1>9 DEF MayTest
  <2>2. Test(c.op, v, w) <=> IsLit(v) /\ v.lit = w.lit
    BY <1>6, <1>9 DEF Test, Same
  <2> QED BY Zenon, <1>8, <2>1, <2>2
<1>10. CASE c.op = "notEquals"
  <2>1. MayTest(c.op, v, w) = {IsLit(v) => v.lit # w.lit}
    BY <1>2, <1>4, <1>10 DEF MayTest
  <2>2. Negated(w) = w
    BY <1>1, <1>10 DEF Negated, w
  <2>3. Test(c.op, v, w) <=> (IsLit(v) => v.lit # w.lit)
    BY <1>6, <1>7, <1>10, <2>2 DEF Test, Same
  <2> QED BY Zenon, <1>8, <2>1, <2>3
<1>11. CASE c.op \in {"in", "notIn"}
  <2>1. Member(v, w) <=> IsLit(v) /\ v.lit \in TextsIn(Listed(w))
    BY DEF Member, Same, TextsIn
  <2>2. CASE c.op = "in"
    <3>1. MayTest(c.op, v, w) = {IsLit(v) /\ v.lit \in TextsIn(Listed(w))}
      BY <1>2, <1>4, <2>2 DEF MayTest
    <3>2. Test(c.op, v, w) <=> IsLit(v) /\ v.lit \in TextsIn(Listed(w))
      BY <1>7, <2>1, <2>2 DEF Test
    <3> QED BY Zenon, <1>8, <3>1, <3>2
  <2>3. CASE c.op = "notIn"
    <3>1. MayTest(c.op, v, w) = {IsLit(v) => v.lit \notin TextsIn(Listed(w))}
      BY <1>2, <1>4, <2>3 DEF MayTest
    <3>2. Negated(w) = w
      BY <1>1, <2>3 DEF Negated, w
    <3>3. Test(c.op, v, w) <=> (IsLit(v) => v.lit \notin TextsIn(Listed(w)))
      BY <1>7, <2>1, <2>3, <3>2 DEF Test
    <3> QED BY Zenon, <1>8, <3>1, <3>3
  <2> QED BY <1>11, <2>2, <2>3
<1>12. CASE c.op = "contains"
  <2>1. MayTest(c.op, v, w) = {v # Absent /\ \E x \in Texts(v) : <<w.lit, x>> \in Occurs}
    BY <1>2, <1>4, <1>12 DEF MayTest
  <2>2. Texts(Absent) = {}
    BY DEF Texts, TextsIn, IsLit, Absent
  <2>3. Test(c.op, v, w) <=> v # Absent /\ \E x \in Texts(v) : <<w.lit, x>> \in Occurs
    BY <1>12, <2>2 DEF Test
  <2> QED BY Zenon, <1>8, <2>1, <2>3
<1>13. CASE c.op = "exists"
  <2>1. MayTest(c.op, v, w) = {(v # Absent) = (w.lit # "false")}
    BY <1>2, <1>4, <1>13 DEF MayTest
  <2>2. w # Lit("false")
    BY <1>1, <1>13 DEF w
  <2>3. w = False <=> w.lit = "false"
    BY <1>6, <1>13, <2>2
  <2>4. Test(c.op, v, w) <=> ((v # Absent) = (w.lit # "false"))
    BY <1>13, <2>3 DEF Test
  <2> QED BY Zenon, <1>8, <2>1, <2>4
<1>14. c.op \in Supported
  BY <1>1
<1> QED BY <1>9, <1>10, <1>11, <1>12, <1>13, <1>14 DEF Supported

LEMMA OneBoolean ==
  ASSUME NEW M \in SUBSET BOOLEAN, NEW b \in BOOLEAN, TRUE \in M <=> b, FALSE \in M <=> ~b
  PROVE  M = {b}
<1>1. CASE b = TRUE
  BY <1>1
<1>2. CASE b = FALSE
  BY <1>2
<1> QED BY <1>1, <1>2

LEMMA ReadAsMeant ==
  ASSUME NEW c \in Conditions, ~Encode[c].lost, \A t \in Tests[c] : ~Misread(t)
  PROVE  MayBe[c] = {Encode[c].holds}
<1> DEFINE Fine(x) == ~Encode[x].lost /\ (\A t \in Tests[x] : ~Misread(t))
                        => MayBe[x] = {Encode[x].holds}
           S == {n \in Nat : \A x \in Conditions : Depth[x] < n => Fine(x)}
<1>1. 0 \in S
  <2>1. \A x \in Conditions : ~(Depth[x] < 0)
    BY DepthFalls
  <2> QED BY <2>1
<1>2. ASSUME NEW n \in Nat, n \in S PROVE n + 1 \in S
  <2> SUFFICES ASSUME NEW x \in Conditions, Depth[x] < n + 1, ~Encode[x].lost,
                      \A t \in Tests[x] : ~Misread(t)
               PROVE  MayBe[x] = {Encode[x].holds}
    OBVIOUS
  <2>1. CASE "field" \in DOMAIN x
    <3>1. x \in Tests[x]
      BY <2>1, TestsIs DEF TestsOf
    <3> QED BY <2>1, <3>1, TestAsMeant
  <2>2. CASE "field" \notin DOMAIN x
    <3> DEFINE E == {Encode[s] : s \in PartsOf(x)}
               H == IF "all" \in DOMAIN x THEN \A p \in E : p.holds
                    ELSE IF "any" \in DOMAIN x THEN \E p \in E : p.holds
                    ELSE \A p \in E : ~p.holds
    <3>1. Encode[x] = [holds |-> H, lost |-> Reasons(E)]
      BY <2>2, EncodeIs DEF EncodeOf
    <3>2. ASSUME NEW s \in PartsOf(x)
          PROVE  /\ TRUE \in MayBe[s] <=> Encode[s].holds
                 /\ FALSE \in MayBe[s] <=> ~Encode[s].holds
      <4>1. s \in Conditions /\ Depth[s] \in Nat /\ Depth[x] \in Nat /\ Depth[s] < Depth[x]
        BY DepthFalls
      <4>2. Depth[s] < n
        BY <4>1
      <4>3. ~Encode[s].lost
        BY <3>1 DEF Reasons
      <4>4. Tests[s] \subseteq Tests[x]
        BY <2>2, TestsIs DEF TestsOf
      <4>5. Encode[s].holds \in BOOLEAN
        BY <4>1, EncodeIs DEF Answers
      <4>6. MayBe[s] = {Encode[s].holds}
        BY <1>2, <4>1, <4>2, <4>3, <4>4
      <4> QED BY <4>5, <4>6
    <3>3. MayBe[x] = MayBeOf(MayBe, x) /\ MayBe[x] \in SUBSET BOOLEAN
      BY MayBeIs
    <3>4. Encode[x].holds = H /\ Encode[x].holds \in BOOLEAN
      BY <3>1, EncodeIs DEF Answers
    <3>5. CASE "all" \in DOMAIN x
      <4>1. PartsOf(x) = x.all
        BY <2>2, <3>5 DEF PartsOf
      <4>2. H <=> \A s \in x.all : Encode[s].holds
        BY <3>5, <4>1
      <4>3. MayBe[x] = {b \in BOOLEAN : IF b THEN \A s \in x.all : TRUE \in MayBe[s]
                                            ELSE \E s \in x.all : FALSE \in MayBe[s]}
        BY <2>2, <3>3, <3>5 DEF MayBeOf
      <4> HIDE DEF H, E
      <4>4. /\ TRUE \in MayBe[x] <=> \A s \in x.all : TRUE \in MayBe[s]
            /\ FALSE \in MayBe[x] <=> \E s \in x.all : FALSE \in MayBe[s]
        BY <4>3
      <4> QED BY <3>2, <3>3, <3>4, <4>1, <4>2, <4>4, OneBoolean
    <3>6. CASE "all" \notin DOMAIN x /\ "any" \in DOMAIN x
      <4>1. PartsOf(x) = x.any
        BY <2>2, <3>6 DEF PartsOf
      <4>2. H <=> \E s \in x.any : Encode[s].holds
        BY <3>6, <4>1
      <4>3. MayBe[x] = {b \in BOOLEAN : IF b THEN \E s \in x.any : TRUE \in MayBe[s]
                                            ELSE \A s \in x.any : FALSE \in MayBe[s]}
        BY <2>2, <3>3, <3>6 DEF MayBeOf
      <4> HIDE DEF H, E
      <4>4. /\ TRUE \in MayBe[x] <=> \E s \in x.any : TRUE \in MayBe[s]
            /\ FALSE \in MayBe[x] <=> \A s \in x.any : FALSE \in MayBe[s]
        BY <4>3
      <4> QED BY <3>2, <3>3, <3>4, <4>1, <4>2, <4>4, OneBoolean
    <3>7. CASE "all" \notin DOMAIN x /\ "any" \notin DOMAIN x
      <4>1. PartsOf(x) = {x.neg}
        BY <2>2, <3>7 DEF PartsOf
      <4>2. H <=> ~Encode[x.neg].holds
        BY <3>7, <4>1
      <4>3. MayBe[x] = {~b : b \in MayBe[x.neg]}
        BY <2>2, <3>3, <3>7 DEF MayBeOf
      <4>4. MayBe[x.neg] \subseteq BOOLEAN
        BY <4>1, DepthFalls, MayBeIs
      <4> HIDE DEF H, E
      <4>5. /\ TRUE \in MayBe[x] <=> FALSE \in MayBe[x.neg]
            /\ FALSE \in MayBe[x] <=> TRUE \in MayBe[x.neg]
        BY <4>3, <4>4
      <4> QED BY <3>2, <3>3, <3>4, <4>1, <4>2, <4>5, OneBoolean
    <3> QED BY <3>5, <3>6, <3>7
  <2> QED BY <2>1, <2>2
<1> HIDE DEF S
<1>3. \A n \in Nat : n \in S
  BY <1>1, <1>2, Induction
<1>4. Depth[c] \in Nat /\ Depth[c] + 1 \in Nat /\ Depth[c] < Depth[c] + 1
  BY DepthFalls
<1> QED BY <1>3, <1>4 DEF S

-----------------------------------------------------------------------------
(* The loop over the assignments.                                          *)

LEMMA OutcomeFrame ==
  ASSUME cfg' = cfg
  PROVE  \A k : Outcome(k)' = Outcome(k)
<1>1. Encode' = Encode
  BY DEF Encode, Looked
<1>2. \A k : Found(k)' = Found(k) /\ Definition(k)' = Definition(k)
  BY DEF Found, Definition
<1>3. \A k : Applies(k)' = Applies(k)
  BY DEF Applies, ScopeGiven, Place
<1>4. \A k, d : Judged(k, d)' = Judged(k, d)
  BY <1>1, <1>3 DEF Judged
<1> QED BY <1>2, <1>4 DEF Outcome

LEMMA NextKeepsCfg == Next => cfg' = cfg
BY DEF Next, Register, StartCollect, Collect, Intersect, RejectAssign, Assign, Finish

LEMMA OutcomeIs == \A k : Outcome(k) \in {"open", "SAT", "UNRESOLVABLE"}
BY DEF Outcome, Judged

LEMMA PoliciesAreListed ==
  ASSUME cfg \in Governed
  PROVE  Len(cfg.policies) \in Nat /\ DOMAIN cfg.policies = 1..Len(cfg.policies)
<1>1. cfg.policies \in Seq({cfg.policies[i] : i \in DOMAIN cfg.policies})
  BY PolicyAssumption DEF GovernedWell
<1> QED BY <1>1

(* The result comes of the assignments in their order: an open one is passed *)
(* over, the first other decides.                                           *)
THEOREM PolicyInvariant == CheckSpec => []PolicyInv
<1>1. CheckInit => PolicyInv
  <2> SUFFICES ASSUME CheckInit PROVE PolicyInv
    OBVIOUS
  <2>1. at = 1 /\ (policy = "none" \/ (cfg \in Governed /\ policy = "open"))
    BY DEF CheckInit
  <2>2. policy = "open" => \A i \in DOMAIN cfg.policies : ~(i < 1)
    BY <2>1, PoliciesAreListed
  <2> QED BY <2>1, <2>2 DEF PolicyInv
<1>2. PolicyInv /\ [CheckNext]_checkVars => PolicyInv'
  <2> SUFFICES ASSUME PolicyInv, [CheckNext]_checkVars PROVE PolicyInv'
    OBVIOUS
  <2>1. CASE ConsiderAssignment
    <3>1. /\ policy = "open" /\ cfg' = cfg /\ at' = at + 1 /\ cfg \in Governed
          /\ policy' = Outcome(cfg.policies[at]) /\ at \in Nat \ {0}
          /\ at <= Len(cfg.policies)
      BY <2>1 DEF ConsiderAssignment, vars, PolicyInv
    <3>2. DOMAIN cfg.policies = 1..Len(cfg.policies) /\ Len(cfg.policies) \in Nat
      BY <3>1, PoliciesAreListed
    <3>3. at \in DOMAIN cfg.policies /\ at' - 1 = at /\ at' \in Nat \ {0}
      BY <3>1, <3>2
    <3>4. policy' \in {"open", "SAT", "UNRESOLVABLE"}
      BY <3>1, OutcomeIs
    <3>5. ASSUME policy' = "open", NEW i \in DOMAIN cfg.policies, i < at'
          PROVE  Outcome(cfg.policies[i]) = "open"
      <4>1. i < at \/ i = at
        BY <3>1, <3>2, <3>5
      <4> QED BY <3>1, <3>5, <4>1 DEF PolicyInv
    <3> QED BY <3>1, <3>3, <3>4, <3>5, OutcomeFrame DEF PolicyInv
  <2>2. CASE Comply
    <3>1. /\ policy = "open" /\ cfg' = cfg /\ at' = at /\ cfg \in Governed
          /\ policy' = "UNSAT" /\ at \in Nat \ {0} /\ at > Len(cfg.policies)
      BY <2>2 DEF Comply, vars, PolicyInv
    <3>2. \A i \in DOMAIN cfg.policies : i < at
      BY <3>1, PoliciesAreListed
    <3> QED BY <3>1, <3>2, OutcomeFrame DEF PolicyInv
  <2>3. CASE BuildGraph
    <3>1. cfg' = cfg /\ at' = at /\ policy' = policy
      BY <2>3, NextKeepsCfg DEF BuildGraph
    <3> QED BY <3>1, OutcomeFrame DEF PolicyInv
  <2>4. CASE UNCHANGED checkVars
    <3>1. cfg' = cfg /\ at' = at /\ policy' = policy
      BY <2>4 DEF checkVars, vars
    <3> QED BY <3>1, OutcomeFrame DEF PolicyInv
  <2> QED BY <2>1, <2>2, <2>3, <2>4 DEF CheckNext
<1> QED BY <1>1, <1>2, PTL DEF CheckSpec

-----------------------------------------------------------------------------
(* What the verdict says.                                                  *)

LEMMA GovernedScope ==
  ASSUME cfg \in Governed, NEW i \in DOMAIN cfg.policies
  PROVE  /\ cfg.target \in DOMAIN cfg.res
         /\ Shaped(cfg.policies[i].scope)
         /\ IsPath(cfg.policies[i].scope) =>
              (ManagementOf(cfg.policies[i].scope.path) # None =>
                 GroupOf(cfg.policies[i].scope.path) = None)
<1> DEFINE WF(s) == /\ Shaped(s)
                    /\ IsPath(s) /\ ManagementOf(s.path) # None => GroupOf(s.path) = None
<1>1. WF(cfg.policies[i].scope) /\ cfg.target \in DOMAIN cfg.res
  BY PolicyAssumption DEF GovernedWell
<1> QED BY <1>1

(* A resource that its own attributes place in the scope is covered.        *)
LEMMA InScopeApplies ==
  ASSUME cfg \in Governed, NEW i \in DOMAIN cfg.policies, InScope(cfg.policies[i].scope)
  PROVE  Applies(cfg.policies[i])
<1> DEFINE k == cfg.policies[i]
           s == k.scope
           r == cfg.res[cfg.target]
<1>1. r.scope = Absent /\ Place = Ref(cfg.target)
  BY DEF InScope, Place
<1>2. Shaped(s) /\ cfg.target \in DOMAIN cfg.res
  BY GovernedScope
<1>3. CASE Inside(s, r) /\ IsPath(s)
  <2>1. ~IsRef(s) /\ s # Absent
    BY <1>2, <1>3 DEF Shaped, IsPath, IsRef, IsLit, Lit, Ref, Path, Gone, Absent
  <2>2. ScopeGiven(k) = s
    BY <2>1 DEF ScopeGiven
  <2>3. IsScopeSubsumed(s, Ref(cfg.target), cfg.res)
    BY <1>2, <1>3, InsideIsCovered
  <2> HIDE DEF s
  <2> QED BY <1>1, <2>2, <2>3 DEF Applies
<1>4. CASE IsRef(s) /\ s.ref \in DOMAIN cfg.res /\ IsLit(r.rg) /\ cfg.res[s.ref].name = r.rg
  <2>1. s # Absent /\ r.rg # Absent
    BY <1>4 DEF IsRef, IsLit, Absent
  <2>2. ScopeGiven(k) = r.rg
    BY <1>4, <2>1 DEF ScopeGiven
  <2>3. AddressCovers(r.rg.lit, Ref(cfg.target), cfg.res)
    BY <1>2, <1>4 DEF AddressCovers, IsRef, Ref
  <2>4. IsScopeSubsumed(r.rg, Ref(cfg.target), cfg.res)
    BY <1>4, <2>3 DEF IsScopeSubsumed
  <2> HIDE DEF r, k, s
  <2> QED BY <1>1, <2>2, <2>4 DEF Applies, k
<1> QED BY <1>3, <1>4 DEF InScope

(* The definition of an assignment that is not blind to it: the one it names, *)
(* read as it is meant.                                                     *)
LEMMA NamedIsRead ==
  ASSUME cfg \in Governed, NEW k, ~Blind(k)
  PROVE  /\ Found(k) # {} /\ Named(k) = {Definition(k)}
         /\ LET d == Definition(k) IN
            Denies(d) /\ ~Encode[d.rule.cond].lost =>
              MayBe[d.rule.cond] = {Encode[d.rule.cond].holds}
<1> DEFINE d == Definition(k)
<1>1. Found(k) # {} /\ Named(k) = {d}
  BY DEF Blind, MisNamed
<1>2. ASSUME Denies(d), ~Encode[d.rule.cond].lost
      PROVE  MayBe[d.rule.cond] = {Encode[d.rule.cond].holds}
  <2>1. PICK i \in DOMAIN cfg.policyDefs : d = cfg.policyDefs[i]
    <3> HIDE DEF d
    <3> QED BY <1>1 DEF Named
  <2>2. d.rule.cond \in Conditions
    <3>1. d.rule \notin {Absent, Gone}
      BY <1>2 DEF Denies
    <3> HIDE DEF d
    <3> QED BY <2>1, <3>1, PolicyAssumption DEF GovernedWell
  <2>3. \A t \in Tests[d.rule.cond] : ~Misread(t)
    <3> HIDE DEF d
    <3> QED BY <1>1, <1>2 DEF Blind
  <2> HIDE DEF d
  <2> QED BY <1>2, <2>2, <2>3, ReadAsMeant
<1> QED BY <1>1, <1>2

(* verify_azure_policy answers UNSAT only if no assignment in force where   *)
(* the resource is can be violated, whatever the unresolved values are and  *)
(* however its condition is nested.                                         *)
THEOREM PolicyViolationsAreFound == CheckSpec => []ViolationsAreFound
<1>1. PolicyInv => ViolationsAreFound
  <2> SUFFICES ASSUME PolicyInv, policy = "UNSAT", NEW i \in DOMAIN cfg.policies
               PROVE  LET k == cfg.policies[i] IN
                      /\ k.def # Gone
                      /\ ~Blind(k) =>
                           /\ k.scope # Gone
                           /\ InScope(k.scope) =>
                                \A d \in Named(k) : Denies(d) => TRUE \notin MayBe[d.rule.cond]
    BY DEF ViolationsAreFound
  <2> DEFINE k == cfg.policies[i]
  <2>1. cfg \in Governed /\ Outcome(k) = "open"
    BY DEF PolicyInv
  <2>2. k.def # Gone
    BY <2>1 DEF Outcome
  <2>3. ASSUME ~Blind(k)
        PROVE  /\ k.scope # Gone
               /\ InScope(k.scope) =>
                    \A d \in Named(k) : Denies(d) => TRUE \notin MayBe[d.rule.cond]
    <3> DEFINE d == Definition(k)
    <3>1. /\ Found(k) # {} /\ Named(k) = {d}
          /\ Denies(d) /\ ~Encode[d.rule.cond].lost =>
               MayBe[d.rule.cond] = {Encode[d.rule.cond].holds}
      BY <2>1, <2>3, NamedIsRead
    <3>2. Judged(k, d) = "open"
      BY <2>1, <2>2, <3>1 DEF Outcome
    <3>3. k.scope # Gone
      BY <3>2 DEF Judged
    <3>4. ASSUME InScope(k.scope), Denies(d) PROVE TRUE \notin MayBe[d.rule.cond]
      <4>1. Applies(k)
        BY <2>1, <3>4, InScopeApplies
      <4>2. ~Encode[d.rule.cond].lost /\ ~Encode[d.rule.cond].holds
        <5> HIDE DEF k, d
        <5> QED BY <3>2, <3>3, <3>4, <4>1 DEF Judged, Denies
      <4> QED BY <3>1, <3>4, <4>2
    <3> HIDE DEF d
    <3> QED BY <3>1, <3>3, <3>4
  <2> QED BY <2>2, <2>3
<1> QED BY <1>1, PolicyInvariant, PTL

(* SAT names an assignment that is not for elsewhere, whose definition       *)
(* denies and whose condition is true for certain.                          *)
THEOREM PolicyAlarmIsTrue == CheckSpec => []NoFalseViolation
<1>1. PolicyInv => NoFalseViolation
  <2> SUFFICES ASSUME PolicyInv, policy = "SAT"
               PROVE  LET k == cfg.policies[at - 1] r == cfg.res[cfg.target] IN
                      /\ IsPath(k.scope) /\ r.scope = Absent => ~Elsewhere(k.scope.path, r)
                      /\ ~Blind(k) =>
                           \A d \in Named(k) : Denies(d) /\ MayBe[d.rule.cond] = {TRUE}
    BY DEF NoFalseViolation
  <2> DEFINE k == cfg.policies[at - 1]
             d == Definition(k)
  <2>1. cfg \in Governed /\ at - 1 \in DOMAIN cfg.policies /\ Outcome(k) = "SAT"
    BY DEF PolicyInv
  <2>2. Judged(k, d) = "SAT"
    BY <2>1 DEF Outcome
  <2>3. /\ Applies(k) /\ k.scope # Gone /\ Denies(d)
        /\ ~Encode[d.rule.cond].lost /\ Encode[d.rule.cond].holds
    <3> HIDE DEF k, d
    <3> QED BY <2>2 DEF Judged, Denies
  <2>4. ASSUME IsPath(k.scope), cfg.res[cfg.target].scope = Absent
        PROVE  ~Elsewhere(k.scope.path, cfg.res[cfg.target])
    <3>1. /\ Shaped(k.scope) /\ cfg.target \in DOMAIN cfg.res
          /\ ManagementOf(k.scope.path) # None => GroupOf(k.scope.path) = None
      BY <2>1, <2>4, GovernedScope
    <3>2. ~IsRef(k.scope) /\ k.scope # Absent
      BY <2>4, <3>1 DEF Shaped, IsPath, IsRef, IsLit, Lit, Ref, Path, Gone, Absent
    <3>3. ScopeGiven(k) = k.scope /\ Place = Ref(cfg.target)
      BY <2>4, <3>2 DEF ScopeGiven, Place
    <3> HIDE DEF k, d
    <3>4. IsScopeSubsumed(k.scope, Ref(cfg.target), cfg.res)
      BY <2>3, <3>3 DEF Applies
    <3> QED BY <2>4, <3>1, <3>4, CoveredIsNotElsewhere
  <2>5. ASSUME ~Blind(k) PROVE \A x \in Named(k) : Denies(x) /\ MayBe[x.rule.cond] = {TRUE}
    <3>1. /\ Named(k) = {d}
          /\ MayBe[d.rule.cond] = {Encode[d.rule.cond].holds}
      BY <2>1, <2>3, <2>5, NamedIsRead
    <3>2. Encode[d.rule.cond].holds = TRUE
      <4>1. d.rule.cond \in Conditions
        <5>1. PICK i \in DOMAIN cfg.policyDefs : d = cfg.policyDefs[i]
          <6> HIDE DEF d
          <6> QED BY <3>1 DEF Named
        <5>2. d.rule \notin {Absent, Gone}
          BY <2>3 DEF Denies
        <5> HIDE DEF d
        <5> QED BY <2>1, <5>1, <5>2, PolicyAssumption DEF GovernedWell
      <4>2. Encode[d.rule.cond].holds \in BOOLEAN
        BY <4>1, EncodeIs DEF Answers
      <4> QED BY <2>3, <4>2
    <3> HIDE DEF d
    <3> QED BY <2>3, <3>1, <3>2
  <2> QED BY <2>4, <2>5
<1> QED BY <1>1, PolicyInvariant, PTL
=============================================================================
