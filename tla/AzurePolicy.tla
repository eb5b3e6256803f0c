----------------------------- MODULE AzurePolicy -----------------------------
(***************************************************************************)
(* The part of verify_graph that looks at a graph of Azure resources: for  *)
(* a resource, the loop of verify_azure_policy over the policy assignments *)
(* with encode_policy_violation and encode_policy_condition, and then the  *)
(* construction of module TrustGraph.                                      *)
(*                                                                         *)
(* The formula of an assignment has no variable: Z3 decides it as soon as  *)
(* it is built.  Queries that are cut off are in module Admission.         *)
(***************************************************************************)
EXTENDS TrustGraph

CONSTANTS
  Governed, \* configurations with policy assignments
  Keys,     \* field of a condition -> the attributes it is looked up under
  Meant,    \* field of a condition -> the attribute it names
  Occurs,   \* the pairs <<s, t>> of texts such that s occurs in t
  Depth     \* condition -> how deep it is nested, for those of the rules and
            \* their parts

VARIABLES
  at,       \* place in the list of policy assignments
  policy    \* the result: "none" without assignments, "open" during the loop

checkVars == <<vars, at, policy>>

(* A configuration has, besides the fields of TrustGraph,                   *)
(*   policies    the policy assignments in the order of the graph: the       *)
(*               definition's id and the first of the scope attributes       *)
(*   policyDefs  the policy definitions, in the order of the graph: address, *)
(*               short name, "name" and rule, which is Absent, Gone or a     *)
(*               record of the effect and the condition                      *)
(*   target      the address of the resource that is checked                 *)
(*   attrs       its attributes, as conditions see them                      *)
(* A condition is [all |-> S], [any |-> S], [neg |-> c] or a test            *)
(* [field |-> f, op |-> o, value |-> v].                                     *)

Conditions == DOMAIN Depth

PartsOf(c) ==
  IF "field" \in DOMAIN c THEN {}
  ELSE IF "all" \in DOMAIN c THEN c.all
  ELSE IF "any" \in DOMAIN c THEN c.any ELSE {c.neg}

(* JSON's false, as opposed to the text "false".                            *)
False == [lit |-> "false", json |-> TRUE]
ItemsOf(S) == [items |-> S]

(* What a test compares with: text, false, something unresolved or, for "in" *)
(* and "notIn", as Azure demands, a list.                                   *)
ComparesWell(c) ==
  \/ c.value \in {Gone, False}
  \/ IsLit(c.value) /\ c.value = Lit(c.value.lit)
  \/ c.op \in {"in", "notIn"} /\ "items" \in DOMAIN c.value

(* A scope is a value, a management group's path contains no resource group. *)
GovernedWell(c) ==
  /\ c.target \in DOMAIN c.res
  /\ c.policies \in Seq({c.policies[i] : i \in DOMAIN c.policies})
  /\ \A i \in DOMAIN c.policies :
       LET s == c.policies[i].scope IN
       /\ Shaped(s)
       /\ IsPath(s) /\ ManagementOf(s.path) # None => GroupOf(s.path) = None
  /\ \A i \in DOMAIN c.policyDefs :
       LET rule == c.policyDefs[i].rule IN
       rule \notin {Absent, Gone} => rule.cond \in Conditions

(* Conditions are finite trees.                                             *)
ASSUME PolicyAssumption ==
  /\ Depth \in [Conditions -> Nat]
  /\ \A c \in Conditions :
       /\ \A s \in PartsOf(c) : s \in Conditions /\ Depth[s] < Depth[c]
       /\ "field" \in DOMAIN c => ComparesWell(c)
  /\ \A c \in Governed : GovernedWell(c)

Supported == {"equals", "notEquals", "in", "notIn", "contains", "exists"}

(* The first of the places found in a list.                                 *)
First(found) == CHOOSE i \in found : \A j \in found : i <= j

(* _resolve_attribute_val.                                                  *)
Looked(f) ==
  LET found == {i \in DOMAIN Keys[f] : Keys[f][i] \in DOMAIN cfg.attrs}
  IN  IF found = {} THEN Absent ELSE cfg.attrs[Keys[f][First(found)]]

Same(v, w) == IsLit(v) /\ IsLit(w) /\ v.lit = w.lit

(* A target that is no list is a list of one.                               *)
Listed(w) == IF "items" \in DOMAIN w THEN w.items ELSE {w}

Member(v, w) == \E x \in Listed(w) : Same(v, x)

Texts(v) == IF "items" \in DOMAIN v THEN TextsIn(v.items) ELSE TextsIn({v})

(* cond_dict.get("notEquals") or ..., and "notIn" likewise: false and the    *)
(* empty list are taken for a missing value, whose text is "none".          *)
IsFalsy(w) == w \in {False, ItemsOf({})}
Negated(w) == IF IsFalsy(w) THEN Lit("none") ELSE w

(* A test of value v with v and w resolved; "exists" takes every text for   *)
(* true, and an operator that is not supported is false.                    *)
Test(op, v, w) ==
  \/ op = "equals" /\ Same(v, w)
  \/ op = "notEquals" /\ (v = Absent \/ ~Same(v, Negated(w)))
  \/ op = "in" /\ v # Absent /\ Member(v, w)
  \/ op = "notIn" /\ (v = Absent \/ ~Member(v, Negated(w)))
  \/ op = "contains" /\ \E t \in Texts(v) : <<w.lit, t>> \in Occurs
  \/ op = "exists" /\ (v = Absent <=> w = False)

HasGone(w) == w = Gone \/ ("items" \in DOMAIN w /\ Gone \in w.items)

Known(b) == [holds |-> b, lost |-> FALSE]
Lost == [holds |-> FALSE, lost |-> TRUE]

(* Faulty variants: the reasons of the parts forgotten, an assignment that   *)
(* applies everywhere.                                                      *)
ReasonsForgotten(parts) == FALSE
AppliesAnywhere(k) == TRUE

Reasons(parts) == \E p \in parts : p.lost

(* encode_policy_condition: the formula's value, and whether it cannot be    *)
(* told.  A reason in any part counts, whatever the others say.             *)
Encode[c \in Conditions] ==
  IF "field" \in DOMAIN c
    THEN IF Looked(c.field) = Gone \/ (c.op \in Supported /\ HasGone(c.value))
           THEN Lost
           ELSE Known(Test(c.op, Looked(c.field), c.value))
    ELSE LET parts == {Encode[s] : s \in PartsOf(c)} IN
         [holds |-> IF "all" \in DOMAIN c THEN \A p \in parts : p.holds
                    ELSE IF "any" \in DOMAIN c THEN \E p \in parts : p.holds
                    ELSE \A p \in parts : ~p.holds,
          lost |-> Reasons(parts)]

-----------------------------------------------------------------------------
(* One assignment.                                                          *)

IdText(v) == IF IsRef(v) THEN {v.ref} ELSE TextsIn({v})

(* The definitions whose address, "name" or short name occurs in the text of *)
(* the assignment's policy_definition_id; the first one is taken.           *)
Found(k) ==
  {i \in DOMAIN cfg.policyDefs :
     LET d == cfg.policyDefs[i] IN
     \E t \in IdText(k.def) :
       \/ <<d.at, t>> \in Occurs \/ <<d.short, t>> \in Occurs
       \/ IsLit(d.name) /\ <<d.name.lit, t>> \in Occurs}

Definition(k) == cfg.policyDefs[First(Found(k))]

(* The scope as encode_policy_violation passes it on: the default            *)
(* subscription when there is none; a reference becomes the "name" of the   *)
(* resource, or its address.                                                *)
ScopeGiven(k) ==
  IF k.scope = Absent THEN Path(<<"sub", "zero">>)
  ELSE IF IsRef(k.scope)
    THEN IF k.scope.ref \in DOMAIN cfg.res /\ cfg.res[k.scope.ref].name # Absent
           THEN cfg.res[k.scope.ref].name ELSE Lit(k.scope.ref)
  ELSE k.scope

Place ==
  LET s == cfg.res[cfg.target].scope IN IF s = Absent THEN Ref(cfg.target) ELSE s

Applies(k) == IsScopeSubsumed(ScopeGiven(k), Place, cfg.res)

(* encode_policy_violation and the query of its formula: what the            *)
(* assignment with the definition d makes of the result.                    *)
Judged(k, d) ==
  IF k.scope = Gone THEN "UNRESOLVABLE"
  ELSE IF ~Applies(k) THEN "open"
  ELSE IF d.rule \in {Absent, Gone} THEN "UNRESOLVABLE"
  ELSE IF d.rule.effect \notin {Absent, Lit("deny")} THEN "open"
  ELSE LET e == Encode[d.rule.cond] IN
       IF e.lost THEN "UNRESOLVABLE" ELSE IF e.holds THEN "SAT" ELSE "open"

Outcome(k) ==
  IF k.def = Gone THEN "UNRESOLVABLE"
  ELSE IF Found(k) = {} THEN "open"
  ELSE Judged(k, Definition(k))

-----------------------------------------------------------------------------
CheckInit ==
  /\ \/ cfg \in Configs /\ policy = "none"
     \/ cfg \in Governed /\ policy = "open"
  /\ Start /\ at = 1

ConsiderAssignment ==
  /\ policy = "open" /\ at <= Len(cfg.policies)
  /\ at' = at + 1
  /\ policy' = Outcome(cfg.policies[at])
  /\ UNCHANGED vars

Comply ==
  /\ policy = "open" /\ at > Len(cfg.policies)
  /\ policy' = "UNSAT"
  /\ UNCHANGED <<vars, at>>

(* Pattern 5 comes after the loop over the resources, where there are roles *)
(* or role assignments.                                                     *)
BuildGraph ==
  /\ policy # "open" /\ Roles \cup Assigns # {}
  /\ Next
  /\ UNCHANGED <<at, policy>>

CheckNext == ConsiderAssignment \/ Comply \/ BuildGraph

CheckSpec == CheckInit /\ [][CheckNext]_checkVars

-----------------------------------------------------------------------------
(* What the assignments say, apart from the encoder.                        *)

(* The definition the id names.                                             *)
Named(k) ==
  {d \in {cfg.policyDefs[i] : i \in DOMAIN cfg.policyDefs} :
     d.at \in IdText(k.def) \/ (IsLit(k.def) /\ d.name = k.def)}

Denies(d) ==
  d.rule \notin {Absent, Gone} /\ d.rule.effect \in {Absent, Lit("deny")}

(* The attribute a field names, however it is spelled.                      *)
Value(f) == IF Meant[f] \in DOMAIN cfg.attrs THEN cfg.attrs[Meant[f]] ELSE Absent

(* The truth values a test may turn out to have: both where a value is known *)
(* only when the resource exists.                                           *)
MayTest(op, v, w) ==
  IF HasGone(v) \/ IsRef(v) \/ HasGone(w) THEN BOOLEAN
  ELSE CASE op = "equals" -> {IsLit(v) /\ v.lit = w.lit}
         [] op = "notEquals" -> {IsLit(v) => v.lit # w.lit}
         [] op = "in" -> {IsLit(v) /\ v.lit \in TextsIn(Listed(w))}
         [] op = "notIn" -> {IsLit(v) => v.lit \notin TextsIn(Listed(w))}
         [] op = "contains" ->
              {v # Absent /\ \E x \in Texts(v) : <<w.lit, x>> \in Occurs}
         [] op = "exists" -> {(v # Absent) = (w.lit # "false")}
         [] OTHER -> BOOLEAN

MayBe[c \in Conditions] ==
  IF "field" \in DOMAIN c THEN MayTest(c.op, Value(c.field), c.value)
  ELSE IF "all" \in DOMAIN c
    THEN {b \in BOOLEAN : IF b THEN \A s \in c.all : TRUE \in MayBe[s]
                              ELSE \E s \in c.all : FALSE \in MayBe[s]}
  ELSE IF "any" \in DOMAIN c
    THEN {b \in BOOLEAN : IF b THEN \E s \in c.any : TRUE \in MayBe[s]
                              ELSE \A s \in c.any : FALSE \in MayBe[s]}
  ELSE {~b : b \in MayBe[c.neg]}

Tests[c \in Conditions] ==
  IF "field" \in DOMAIN c THEN {c} ELSE UNION {Tests[s] : s \in PartsOf(c)}

(* Where the encoder is known to read a test otherwise than it is meant: an  *)
(* alias it does not resolve or a type by another name, an operator it does *)
(* not support, a reference, an unresolved item of a list, notEquals or      *)
(* notIn false or of nothing, exists "false".                               *)
Misread(t) ==
  \/ Looked(t.field) # Value(t.field)
  \/ t.op \notin Supported
  \/ IsRef(Value(t.field)) \/ (Value(t.field) # Gone /\ HasGone(Value(t.field)))
  \/ t.op \in {"notEquals", "notIn"} /\ IsFalsy(t.value)
  \/ t.op = "exists" /\ t.value = Lit("false")

(* The definition is another one, or none is found.                         *)
MisNamed(k) == Found(k) = {} \/ Named(k) # {Definition(k)}

Blind(k) ==
  \/ MisNamed(k)
  \/ \E d \in Named(k) : Denies(d) /\ \E t \in Tests[d.rule.cond] : Misread(t)

(* The target is in the scope as its own attributes say it.                 *)
InScope(s) ==
  LET r == cfg.res[cfg.target] IN
  /\ r.scope = Absent
  /\ \/ Inside(s, r) /\ IsPath(s)
     \/ /\ IsRef(s) /\ s.ref \in DOMAIN cfg.res
        /\ IsLit(r.rg) /\ cfg.res[s.ref].name = r.rg

(* azure_governance_benchmark_design.md: "Deny enforcement" and "dynamic     *)
(* expression fail-closed".  A resource that is said to comply violates no  *)
(* policy that is in force where it is, whatever its unresolved values turn *)
(* out to be and in whatever order the assignments are: neither does a part *)
(* without a value hide behind "not" or "anyOf", nor an assignment behind   *)
(* one that is passed over.                                                 *)
ViolationsAreFound ==
  policy = "UNSAT" =>
    \A i \in DOMAIN cfg.policies :
      LET k == cfg.policies[i] IN
      /\ k.def # Gone
      /\ ~Blind(k) =>
           /\ k.scope # Gone
           /\ InScope(k.scope) =>
                \A d \in Named(k) : Denies(d) => TRUE \notin MayBe[d.rule.cond]

(* A violation is reported of a policy that is in force and is violated for *)
(* certain: the assignment it is found at is not for elsewhere.             *)
NoFalseViolation ==
  policy = "SAT" =>
    LET k == cfg.policies[at - 1] r == cfg.res[cfg.target] IN
    /\ IsPath(k.scope) /\ r.scope = Absent => ~Elsewhere(k.scope.path, r)
    /\ ~Blind(k) =>
         \A d \in Named(k) : Denies(d) /\ MayBe[d.rule.cond] = {TRUE}
=============================================================================
