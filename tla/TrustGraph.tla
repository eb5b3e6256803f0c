----------------------------- MODULE TrustGraph -----------------------------
(***************************************************************************)
(* build_trust_graph and build_azure_trust_graph: from the resources of a  *)
(* configuration to the nodes, entry points, edges and targets that        *)
(* verify_privilege_escalation searches (module Reachability).             *)
(*                                                                         *)
(* The loops run in the order of the resource graph's dictionary, that is  *)
(* of the files: each pass here takes its elements in any order.           *)
(***************************************************************************)
EXTENDS AzureScope, FiniteSets

CONSTANTS
  Configs,      \* the configurations to build a graph from
  AccountId,    \* principal texts that are an account id or its root ARN
  AccountNode   \* principal text -> the node "account:<text>"

VARIABLES
  cfg,          \* the resources, see below
  phase,        \* the pass that is running
  left,         \* addresses that pass has still to visit
  nodes,        \* trust_graph.nodes
  entries,      \* trust_graph.external_entry_points
  owner,        \* name_to_role
  trust,        \* candidate_trust
  identity,     \* candidate_identity
  edges,        \* trust_graph.edges, without their statements
  unresolvable, \* trust_graph.unresolvable_roles
  targets       \* trust_graph.target_roles, the Azure ones

vars == <<cfg, phase, left, nodes, entries, owner, trust, identity, edges,
          unresolvable, targets>>

(* A configuration has                                                      *)
(*   roles      aws_iam_role address -> its "name" attributes and rules; a   *)
(*              rule is Gone (an Unresolved rule source), a reference (one   *)
(*              whose text names a resource of the graph) or a statement     *)
(*              [assume, effect, principals, resources]                      *)
(*   assigns    azurerm_role_assignment address -> [principal, role, scope]  *)
(*   defs       address or name of a custom role definition -> its actions   *)
(*   identities address of a user-assigned identity -> its name              *)
(*   workloads  address of a compute resource -> its identity_ids            *)
(*   res        address -> attributes, for everything scopes are asked about *)
Roles == DOMAIN cfg.roles
Assigns == DOMAIN cfg.assigns
Identities == DOMAIN cfg.identities
Accounts == {AccountNode[x] : x \in DOMAIN AccountNode}

(* The resources that the references, and the texts that the literals, of a *)
(* set of values name.                                                      *)
RefsIn(S) == {x.ref : x \in {y \in S : IsRef(y)}}
TextsIn(S) == {x.lit : x \in {y \in S : IsLit(y)}}

(* The items of a configuration's statements, the identities and principals *)
(* of its Azure part and the names of its roles.                            *)
Items(c) ==
  UNION {s.principals \cup s.resources :
           s \in {t \in UNION {c.roles[r].rules : r \in DOMAIN c.roles} :
                    "assume" \in DOMAIN t}}
Hosted(c) == UNION {c.workloads[w] : w \in DOMAIN c.workloads}
Holders(c) == {c.assigns[a].principal : a \in DOMAIN c.assigns}
RoleNames(c) ==
  UNION {c.roles[r].names \cup {Short[r]} : r \in DOMAIN c.roles}

(* The nodes of the Azure part that are resources.                          *)
AzureNodes(c) ==
  DOMAIN c.identities \cup RefsIn(Hosted(c)) \cup RefsIn(Holders(c))

(* A principal given as text is an identity or the object id of something   *)
(* outside the configuration, not the address of another resource.          *)
KnownHolder(c, x) ==
  \/ \E i \in DOMAIN c.identities : x.lit = i \/ Lit(x.lit) = c.identities[i]
  \/ /\ x.lit \in DOMAIN AccountNode
     /\ x.lit \notin Accounts \cup AzureNodes(c) \cup DOMAIN c.roles
                     \cup DOMAIN c.assigns

(* Configurations are made of values; the addresses of roles, assignments   *)
(* and other resources and the nodes "account:..." are different texts, and *)
(* so are names of roles, their addresses, account ids and "*"; a           *)
(* management group contains no resource group.                             *)
WellFormed(c) ==
  /\ \A x \in Items(c) \cup Holders(c) : Shaped(x)
  /\ \A a \in DOMAIN c.assigns :
       LET s == c.assigns[a].scope IN
       /\ Shaped(s)
       /\ IsPath(s) /\ ManagementOf(s.path) # None => GroupOf(s.path) = None
  /\ \A x \in Holders(c) : ~IsPath(x) /\ (IsLit(x) => KnownHolder(c, x))
  /\ None \notin DOMAIN c.roles
  /\ Accounts \cap (RefsIn(Items(c)) \cup TextsIn(Items(c)) \cup AzureNodes(c)
                     \cup DOMAIN c.roles \cup DOMAIN c.assigns) = {}
  /\ DOMAIN c.roles \cap (DOMAIN c.assigns \cup AzureNodes(c)) = {}
  /\ DOMAIN c.assigns \cap AzureNodes(c) = {}
  /\ (AccountId \cup {"*"}) \cap (DOMAIN c.roles \cup RoleNames(c)) = {}
  /\ RoleNames(c) \cap DOMAIN c.roles = {}

ASSUME TrustGraphAssumption ==
  /\ AccountId \subseteq DOMAIN AccountNode
  /\ \A c \in Configs : WellFormed(c)

-----------------------------------------------------------------------------
(* AWS.                                                                     *)

NamesOf(r) == cfg.roles[r].names \cup {Short[r]}

Statements(r) == {s \in cfg.roles[r].rules : "assume" \in DOMAIN s}

(* Allow statements on sts:AssumeRole, sts:* or *.                          *)
AssumeRules(r) == {s \in Statements(r) : s.assume /\ s.effect = "allow"}

(* _extract_principal_strings over those with a principal: the trust policy. *)
Principals(r) == UNION {s.principals : s \in AssumeRules(r)}

(* The resources of those without one: the identity policies.               *)
Permitted(r) ==
  UNION {s.resources : s \in {t \in AssumeRules(r) : t.principals = {}}}

Star == Lit("*")

(* Faulty variants: a reference taken for a role unseen, a lookup that       *)
(* ignores names, unresolved data that only the trust policy can have, a     *)
(* principal that is not made a node, control that stops at the identities   *)
(* themselves.                                                               *)
MatchUnseen(x) == IF IsRef(x) THEN x.ref ELSE None
MatchAddress(x) == IF IsRef(x) /\ x.ref \in Roles THEN x.ref ELSE None
UnresolvedTrustOnly(r) == Gone \in Principals(r)
WithPrincipalEntry(n) == nodes
ReachesIdentity(g) ==
  {i \in Identities : IsScopeSubsumed(g.scope, Ref(i), cfg.res)}

(* match_target, and the reference to a node: the role an item denotes.  A  *)
(* name that several roles bear belongs to the one registered last.         *)
Match(x) ==
  IF IsRef(x) THEN IF x.ref \in Roles THEN x.ref ELSE None
  ELSE IF ~IsLit(x) THEN None
  ELSE IF x.lit \in Roles THEN x.lit
  ELSE IF x.lit \in DOMAIN owner THEN owner[x.lit] ELSE None

MatchAll(items) == {Match(x) : x \in items} \ {None}

(* Principals that are no role but an account: entry points.  Everything    *)
(* else ("*", services, users) is dropped without a trace.                  *)
AccountsIn(items) ==
  {AccountNode[x.lit] :
     x \in {y \in items : Match(y) = None /\ IsLit(y) /\ y.lit \in AccountId}}

(* What puts a role in unresolvable_roles.  "$[...]" text counts as Gone.    *)
HasUnresolved(r) ==
  \/ Gone \in cfg.roles[r].rules \cup Principals(r) \cup Permitted(r)
  \/ \E p \in Principals(r) : IsRef(p) /\ p.ref \notin Roles

(* The intersection of both sides: an account needs the trust policy only.  *)
Joined(f, t) ==
  <<f, t>> \in trust /\ (f \in entries \/ <<f, t>> \in identity)

-----------------------------------------------------------------------------
(* Azure.                                                                   *)

(* The keys of "identities": addresses and names.                           *)
IdentityKey(x) ==
  {i \in Identities : x = i \/ Lit(x) = cfg.identities[i]}

(* compute_attached_identities: a literal id that no identity of the        *)
(* configuration bears is dropped, a reference is kept whatever it names.   *)
AttachedTo(w) ==
  RefsIn(cfg.workloads[w])
    \cup UNION {IdentityKey(x) : x \in TextsIn(cfg.workloads[w])}

Hosts == {w \in DOMAIN cfg.workloads : AttachedTo(w) # {}}

IsGroup(a) == a \in DOMAIN cfg.res /\ cfg.res[a].type = "azuread_group"

(* The early "continue"s: data that cannot be resolved, a directory group,  *)
(* no principal at all.                                                     *)
Undecidable(g) ==
  \/ Gone \in {g.principal, g.scope, g.role}
  \/ g.principal = Absent
  \/ IsRef(g.principal) /\ IsGroup(g.principal.ref)
  \/ IsLit(g.principal) /\ IsGroup(g.principal.lit)

(* principal_node: a reference is taken as it is; a text is an identity, a  *)
(* node, or else an external principal.                                     *)
PrincipalNode(p) ==
  IF IsRef(p) THEN p.ref
  ELSE IF IdentityKey(p.lit) # {} THEN CHOOSE i \in IdentityKey(p.lit) : TRUE
  ELSE IF p.lit \in nodes THEN p.lit
  ELSE AccountNode[p.lit]

(* Control of a host is control of its identities; so is control of the     *)
(* identity itself.                                                         *)
Reaches(g) ==
  {i \in Identities : IsScopeSubsumed(g.scope, Ref(i), cfg.res)}
    \cup UNION {AttachedTo(w) : w \in {h \in Hosts :
                                 IsScopeSubsumed(g.scope, Ref(h), cfg.res)}}

EdgesOf(n, g) ==
  IF g.scope = Absent \/ g.role = Absent \/ ~IsControlRole(g.role, cfg.defs)
    THEN {}
    ELSE {<<n, i>> : i \in Reaches(g) \ {n}}

WithPrincipal(n) == nodes \cup {n}

-----------------------------------------------------------------------------
Start ==
  /\ phase = "register" /\ left = Roles
  /\ nodes = Roles /\ entries = {}
  /\ owner = [n \in {} |-> None]
  /\ trust = {} /\ identity = {} /\ edges = {}
  /\ unresolvable = {} /\ targets = {}

Init == cfg \in Configs /\ Start

(* name_to_role[...] = address, for the name attribute and the short name.  *)
Register(r) ==
  /\ phase = "register" /\ r \in left
  /\ left' = left \ {r}
  /\ owner' = [n \in DOMAIN owner \cup NamesOf(r) |->
                 IF n \in NamesOf(r) THEN r ELSE owner[n]]
  /\ UNCHANGED <<cfg, phase, nodes, entries, trust, identity, edges,
                 unresolvable, targets>>

StartCollect ==
  /\ phase = "register" /\ left = {}
  /\ phase' = "collect" /\ left' = Roles
  /\ UNCHANGED <<cfg, nodes, entries, owner, trust, identity, edges,
                 unresolvable, targets>>

(* One role's rule sources: its trust policy, then its identity policies,   *)
(* where "*" stands for every other role.                                   *)
Collect(r) ==
  /\ phase = "collect" /\ r \in left
  /\ left' = left \ {r}
  /\ LET accounts == AccountsIn(Principals(r))
         others == IF Star \in Permitted(r) /\ Match(Star) = None
                     THEN Roles \ {r} ELSE {}
         granted == MatchAll(Permitted(r)) \cup others
     IN
     /\ nodes' = nodes \cup accounts
     /\ entries' = entries \cup accounts
     /\ trust' = trust \cup
          {<<f, r>> : f \in MatchAll(Principals(r)) \cup accounts}
     /\ identity' = identity \cup {<<r, t>> : t \in granted}
  /\ unresolvable' = unresolvable \cup {x \in {r} : HasUnresolved(x)}
  /\ UNCHANGED <<cfg, phase, owner, edges, targets>>

(* The edges between roles, then the nodes of the Azure part.               *)
Intersect ==
  /\ phase = "collect" /\ left = {}
  /\ edges' = {e \in trust : Joined(e[1], e[2])}
  /\ nodes' = nodes \cup Identities \cup UNION {AttachedTo(w) : w \in Hosts}
  /\ phase' = "assign" /\ left' = Assigns
  /\ UNCHANGED <<cfg, entries, owner, trust, identity, unresolvable, targets>>

RejectAssign(a) ==
  /\ phase = "assign" /\ a \in left
  /\ Undecidable(cfg.assigns[a])
  /\ left' = left \ {a}
  /\ unresolvable' = unresolvable \cup {a}
  /\ UNCHANGED <<cfg, phase, nodes, entries, owner, trust, identity, edges,
                 targets>>

(* One role assignment.  An administrator that is one of the configuration's *)
(* identities is a target itself; for an external one the assignment is the  *)
(* target, but only in a configuration without hosts.                        *)
Assign(a) ==
  /\ phase = "assign" /\ a \in left
  /\ ~Undecidable(cfg.assigns[a])
  /\ left' = left \ {a}
  /\ LET g == cfg.assigns[a]
         n == PrincipalNode(g.principal)
         admin == g.role # Absent /\ IsHighPrivRole(g.role, cfg.defs)
         direct == admin /\ n \in Accounts /\ Hosts = {}
     IN
     /\ nodes' = WithPrincipal(n) \cup {x \in {a} : direct}
     /\ entries' = entries \cup
          {x \in {n} : IsLit(g.principal) /\ n \in Accounts}
     /\ targets' = targets \cup {x \in {a} : direct}
                           \cup {x \in {n} : admin /\ n \notin Accounts}
     /\ edges' = edges \cup {<<n, x>> : x \in {y \in {a} : direct}}
                       \cup EdgesOf(n, g)
  /\ UNCHANGED <<cfg, phase, owner, trust, identity, unresolvable>>

Finish ==
  /\ phase = "assign" /\ left = {}
  /\ phase' = "done"
  /\ UNCHANGED <<cfg, left, nodes, entries, owner, trust, identity, edges,
                 unresolvable, targets>>

Next ==
  \/ \E r \in Roles : Register(r) \/ Collect(r)
  \/ StartCollect \/ Intersect \/ Finish
  \/ \E a \in Assigns : RejectAssign(a) \/ Assign(a)

Spec == Init /\ [][Next]_vars

-----------------------------------------------------------------------------
TypeOK ==
  /\ phase \in {"register", "collect", "assign", "done"}
  /\ left \subseteq Roles \cup Assigns
  /\ DOMAIN owner \subseteq UNION {NamesOf(r) : r \in Roles}
  /\ \A n \in DOMAIN owner : n \in NamesOf(owner[n])
  /\ entries \subseteq Accounts
  /\ trust \subseteq (Roles \cup entries) \X Roles
  /\ identity \subseteq Roles \X Roles
  /\ unresolvable \subseteq Roles \cup Assigns

(* What Reachability takes for granted of its input: the entry points are   *)
(* nodes, every edge leads from a node to a node that is no account, and    *)
(* every target is such a node.                                             *)
FeedsReachability ==
  /\ entries = nodes \cap Accounts
  /\ \A e \in edges : e[1] \in nodes /\ e[2] \in nodes \ Accounts
  /\ targets \subseteq nodes \ Accounts

(* Item x of a policy denotes node f: by reference, by address, by a name   *)
(* or as an account.                                                        *)
Denotes(x, f) ==
  \/ x = Ref(f) \/ x = Lit(f)
  \/ f \in Roles /\ IsLit(x) /\ x.lit \in NamesOf(f)
  \/ f \in Accounts /\ IsLit(x) /\ x.lit \in AccountId
       /\ f = AccountNode[x.lit]

Trusts(t, f) == \E p \in Principals(t) : Denotes(p, f)

Permits(f, t) ==
  \E x \in Permitted(f) : Denotes(x, t) \/ (x = Star /\ f # t)

NoSharedNames ==
  \A r, s \in Roles : r # s => NamesOf(r) \cap NamesOf(s) = {}

(* README: the graph is the "intersection of target role trust policies and *)
(* source role identity policies".  An edge needs both policies (an account *)
(* only the first), and both suffice unless two roles share a name, whatever *)
(* the order of the files.                                                  *)
BothSidesAgree ==
  phase \in {"assign", "done"} =>
    \A t \in Roles, f \in Roles \cup Accounts :
      LET allowed == Trusts(t, f) /\ (f \in Accounts \/ Permits(f, t)) IN
      /\ <<f, t>> \in edges => allowed
      /\ allowed /\ NoSharedNames => <<f, t>> \in edges

(* A rule of the role, or an item of one of its AssumeRole statements, has   *)
(* no value.                                                                *)
RoleIsUnresolved(r) ==
  \/ Gone \in cfg.roles[r].rules
  \/ \E s \in Statements(r) :
       /\ s.assume /\ s.effect = "allow"
       /\ Gone \in s.principals \/ (s.principals = {} /\ Gone \in s.resources)

(* master_plan.md: unresolved trust data makes the query UNRESOLVABLE.  A   *)
(* role or assignment with such data is reported by the end, and its        *)
(* assignment leaves no edge, node or target behind.  A policy that became   *)
(* a ResourceReference is no such data for the code: it is passed over.     *)
UnresolvedIsReported ==
  phase = "done" =>
    /\ \A r \in Roles :
         RoleIsUnresolved(r) => r \in unresolvable
    /\ \A a \in Assigns :
         Gone \in {cfg.assigns[a].principal, cfg.assigns[a].scope,
                   cfg.assigns[a].role}
           => a \in unresolvable /\ a \notin nodes

(* The assignment gives node n a control role.                               *)
GivesControl(a, n) ==
  /\ a \notin unresolvable
  /\ cfg.assigns[a].role # Absent
  /\ IsControlRole(cfg.assigns[a].role, cfg.defs)
  /\ n = PrincipalNode(cfg.assigns[a].principal)

(* The places identity i can be used from: itself and the hosts it is on.   *)
PlacesOf(i) == {w \in Hosts : i \in AttachedTo(w)} \cup ({i} \cap Identities)

(* A literal attribute of the resource contradicts the scope.               *)
Elsewhere(p, r) ==
  \/ SubOf(p) # None /\ IsLit(r.sub) /\ r.sub.lit # SubOf(p)
  \/ /\ GroupOf(p) # None /\ IsLit(r.rg)
     /\ r.rg.lit \notin {GroupOf(p)} \cup DOMAIN Short
  \/ ManagementOf(p) # None /\ IsLit(r.mg) /\ r.mg.lit # ManagementOf(p)

(* PROJECT_STATUS.md: "strict isolation between distinct Azure              *)
(* subscriptions".  An edge to an identity is justified by an assignment    *)
(* whose scope no literal attribute of one of the identity's places         *)
(* contradicts.  A "scope" attribute of the place is left out: the code     *)
(* compares it as text, so that one group's id covers another's whose name  *)
(* it starts.                                                               *)
ScopesIsolate ==
  \A e \in edges :
    e[2] \in nodes \ (Roles \cup Assigns) =>
      \E a \in Assigns \ left, w \in PlacesOf(e[2]) :
        /\ GivesControl(a, e[1])
        /\ LET s == cfg.assigns[a].scope IN
           IsPath(s) /\ w \in DOMAIN cfg.res /\ cfg.res[w].scope = Absent
             => ~Elsewhere(s.path, cfg.res[w])

(* The resource is in the scope by its literal attributes, or by a          *)
(* reference to the very group the scope refers to.                         *)
Inside(s, r) ==
  \/ /\ IsPath(s) /\ SubOf(s.path) # None
     /\ r.sub = Lit(SubOf(s.path))
     /\ GroupOf(s.path) # None => r.rg = Lit(GroupOf(s.path))
  \/ IsRef(s) /\ r.rg = s

(* No control is missed where the attributes are literal: whoever holds a   *)
(* control role over the subscription or group of a host or identity has an *)
(* edge to what it can use there, in whatever order the assignments come.   *)
(* A host that names its group by reference is not covered by the group's   *)
(* id: the code takes the reference for another name.                       *)
ControlIsFound ==
  phase = "done" =>
    \A a \in Assigns, i \in nodes \ (Roles \cup Assigns) : \A w \in PlacesOf(i) :
      LET n == PrincipalNode(cfg.assigns[a].principal) IN
        /\ GivesControl(a, n) /\ n # i
        /\ w \in DOMAIN cfg.res
        /\ cfg.assigns[a].scope # Absent /\ Inside(cfg.assigns[a].scope, cfg.res[w])
        => <<n, i>> \in edges
=============================================================================
