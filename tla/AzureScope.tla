----------------------------- MODULE AzureScope -----------------------------
(***************************************************************************)
(* Azure scopes and role definitions as graph/azure_trust_graph.py reads   *)
(* them: is_scope_subsumed and the classification of role definitions.     *)
(*                                                                         *)
(* A scope is [path |-> p], the segments of an id such as                  *)
(* /subscriptions/<id>/resourceGroups/<name>, or [ref |-> a], a reference  *)
(* to resource a or a's address.  Case and quotes are left out: the code   *)
(* folds them away before every comparison.                                *)
(***************************************************************************)
EXTENDS Naturals, Sequences

CONSTANTS
  StartsWith,   \* the pairs <<s, t>> of names such that text s starts text t
  Short,        \* address -> its last segment, the name of the HCL block
  None          \* no name, no match

(* Attribute values: a literal, a ResourceReference, the id of a scope, a   *)
(* value that stayed Unresolved, or Absent.  A resource has the attributes   *)
(* type, name, scope, rg (resource_group_name), sub (subscription_id), mg   *)
(* (management_group_id).                                                   *)
Lit(x) == [lit |-> x]
Ref(a) == [ref |-> a]
Path(p) == [path |-> p]
Gone == [gone |-> TRUE]
Absent == [absent |-> TRUE]

IsLit(v) == "lit" \in DOMAIN v
IsRef(v) == "ref" \in DOMAIN v
IsPath(v) == "path" \in DOMAIN v

(* v is nothing but one of these.                                           *)
Shaped(v) ==
  \/ v \in {Gone, Absent}
  \/ IsLit(v) /\ v = Lit(v.lit)
  \/ IsRef(v) /\ v = Ref(v.ref)
  \/ IsPath(v) /\ v = Path(v.path)

(* The segments "/subscriptions/<x>", "/resourcegroups/<x>" and             *)
(* "/providers/microsoft.management/managementgroups/<x>" of a path.        *)
SubOf(p) == IF Len(p) >= 2 /\ p[1] = "sub" THEN p[2] ELSE None
GroupOf(p) == IF Len(p) >= 4 /\ p[3] = "rg" THEN p[4] ELSE None
ManagementOf(p) == IF Len(p) >= 2 /\ p[1] = "mg" THEN p[2] ELSE None

(* str.startswith on the two ids: every segment but the last agrees, and    *)
(* the last one is only a textual prefix, so that .../rg1 starts .../rg10.  *)
RawPrefix(p, q) ==
  /\ Len(p) <= Len(q)
  /\ \A i \in 1..(Len(p) - 1) : p[i] = q[i]
  /\ <<p[Len(p)], q[Len(p)]>> \in StartsWith

(* The "scope" attribute of the child, its own or that of the resource it   *)
(* refers to, starts with the id of the parent.                             *)
ScopeAttrCovered(p, r, res) ==
  LET s == IF IsRef(r.scope)
             THEN IF r.scope.ref \in DOMAIN res THEN res[r.scope.ref].scope
                                                ELSE Absent
             ELSE r.scope
  IN IsPath(s) /\ RawPrefix(p, s.path)

(* Faulty variant: a subscription scope that covers every subscription.     *)
SubscriptionCoversAny(p, r) == TRUE

(* A path with a resource group, against a child with a                     *)
(* resource_group_name: anything but the text of the group's name or of an  *)
(* address that ends in it, a reference or an unresolved value included, is *)
(* a mismatch.                                                              *)
GroupCovers(p, r) ==
  /\ IsLit(r.rg)
  /\ \/ r.rg.lit = GroupOf(p)
     \/ r.rg.lit \in DOMAIN Short /\ Short[r.rg.lit] = GroupOf(p)
  /\ IsLit(r.sub) /\ SubOf(p) # None => r.sub.lit = SubOf(p)

(* A path with a subscription: a child that names none is in the default    *)
(* subscription, which every subscription scope is taken to be.             *)
SubscriptionCovers(p, r) == IsLit(r.sub) => r.sub.lit = SubOf(p)

ManagementCovers(p, r) == IsLit(r.mg) => r.mg.lit = ManagementOf(p)

(* Branch 1: the parent is the text of an id.                               *)
PathCovers(p, child, res) ==
  \/ IsPath(child) /\ RawPrefix(p, child.path)
  \/ /\ IsRef(child) /\ child.ref \in DOMAIN res
     /\ LET r == res[child.ref] IN
        \/ ScopeAttrCovered(p, r, res)
        \/ GroupOf(p) # None /\ r.rg # Absent /\ GroupCovers(p, r)
        \/ /\ GroupOf(p) = None \/ r.rg = Absent
           /\ \/ SubOf(p) # None /\ SubscriptionCovers(p, r)
              \/ ManagementOf(p) # None /\ ManagementCovers(p, r)

(* Branch 2: the parent is a resource, in practice a resource group, or a    *)
(* text that is no id: the child refers to it, or names its address, its    *)
(* short name or its "name".                                                *)
AddressCovers(a, child, res) ==
  /\ IsRef(child) /\ child.ref \in DOMAIN res
  /\ LET g == res[child.ref].rg IN
     \/ g = Ref(a)
     \/ /\ IsLit(g)
        /\ \/ g.lit = a
           \/ a \in DOMAIN Short /\ g.lit = Short[a]
           \/ a \in DOMAIN res /\ res[a].type = "group" /\ res[a].name = g

IsScopeSubsumed(parent, child, res) ==
  \/ parent = child
  \/ IsPath(parent) /\ PathCovers(parent.path, child, res)
  \/ IsRef(parent) /\ AddressCovers(parent.ref, child, res)
  \/ /\ IsLit(parent)
     /\ child = Ref(parent.lit) \/ AddressCovers(parent.lit, child, res)

-----------------------------------------------------------------------------
(* Role definitions.  A role is [lit |-> name] for role_definition_name or   *)
(* a built-in GUID, or [ref |-> a].  defs maps addresses and names of custom *)
(* definitions to the set of their actions.                                  *)

HighPrivBuiltin == {"owner", "contributor", "user access administrator",
                    "role based access control administrator"}

ControlBuiltin == HighPrivBuiltin \cup {"virtual machine contributor"}

(* A custom role counts as administrative as soon as it has an action: the   *)
(* first pattern is "*", and every action starts with its empty stem.        *)
IsCustomRoleAdmin(actions) == actions # {}

IsRoleIn(role, builtin, defs) ==
  LET key == IF IsRef(role) THEN role.ref ELSE role.lit IN
  \/ IsLit(role) /\ role.lit \in builtin
  \/ key \in DOMAIN defs /\ IsCustomRoleAdmin(defs[key])

IsControlRole(role, defs) == IsRoleIn(role, ControlBuiltin, defs)

IsHighPrivRole(role, defs) == IsRoleIn(role, HighPrivBuiltin, defs)
=============================================================================
