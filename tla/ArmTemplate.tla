---------------------------- MODULE ArmTemplate ----------------------------
(***************************************************************************)
(* How parser/arm_parser.py reads an ARM template: the static evaluation   *)
(* of expressions and the rules of network security groups.                *)
(*                                                                         *)
(* An expression is a literal, a list, a rule, "[parameters('x')]",        *)
(* "[variables('x')]", "[concat(a, b)]" or a call of any other function.   *)
(* toLower and toUpper are left out.                                       *)
(*                                                                         *)
(* A template has a schema or not, resources in some form ("list",         *)
(* "object", "absent"), parameters (name -> default, Absent without,      *)
(* [boxed |-> e] for an object whose "value" is e) and variables.  A       *)
(* resource has a type, copy, name, other (any other property), rules (the *)
(* value of securityRules, or the one rule that it is), children (the      *)
(* rules among its own resources) and parent (the group its name begins    *)
(* with, which the parser does not look at).                               *)
(***************************************************************************)
EXTENDS Encoders, TLC

CONSTANTS
  ArmExprs, \* the expressions in templates, and their parts
  Joined,   \* pair of texts -> the text concat makes of them
  Clean,    \* name -> identifier, as _sanitize_identifier makes it
  RecursionLimit \* how deep the evaluation of an expression may go

IsList(s) == s \in Seq(ToSet(s))

RuleFields == {"prio", "access", "from", "to", "port"}

Parts(e) ==
  IF Is(e, "items") THEN ToSet(e.items)
  ELSE IF Is(e, "concat") THEN {e.concat[1], e.concat[2]}
  ELSE IF Has(e, "prio") THEN {e[f] : f \in DOMAIN e} ELSE {}

ASSUME ArmAssumption ==
  /\ RecursionLimit \in Nat
  /\ \A e \in ArmExprs :
       /\ Parts(e) \subseteq ArmExprs
       /\ \/ DOMAIN e \in {{"lit"}, {"call"}, {"param"}, {"variable"}, {"concat"}, {"items"}}
          \/ DOMAIN e = RuleFields
          \/ e = Absent
       /\ Is(e, "items") => IsList(e.items)

(* The rules of a group are a list of rules or an expression for one, and a  *)
(* rule that is a resource is one rule.                                     *)
IsArmEntry(r) ==
  /\ {r.name, r.other, r.rules} \cup ToSet(r.children) \subseteq ArmExprs
  /\ IsList(r.children)
  /\ \A e \in ToSet(r.children) \cup (IF Is(r.rules, "items") THEN Parts(r.rules) ELSE {}) :
       Has(e, "prio")
  /\ r.type = "nsgrule" => Is(r.rules, "items") /\ r.children = <<>>

IsTemplate(t) ==
  /\ \A n \in DOMAIN t.parameters :
       LET p == t.parameters[n] IN p \in ArmExprs \/ (Is(p, "boxed") /\ p.boxed \in ArmExprs)
  /\ \A n \in DOMAIN t.variables : t.variables[n] \in ArmExprs /\ t.variables[n] # Absent
  /\ IsList(t.resources) /\ \A r \in ToSet(t.resources) : IsArmEntry(r)
  /\ t.form # "list" => t.resources = <<>>

ParamOf(n) == [param |-> n]
VariableOf(n) == [variable |-> n]
Concat(a, b) == [concat |-> <<a, b>>]
Call == [call |-> TRUE]
Boxed(e) == [boxed |-> e]
Endless == [endless |-> TRUE]

(* str() of an argument of concat, of a list too.                           *)
Concatenated(a, b) ==
  IF Is(a, "lit") /\ Is(b, "lit") /\ Lit(ListText) \notin {a, b}
    THEN Lit(Joined[<<a.lit, b.lit>>]) ELSE Lit(ListText)

(* The "value" of a default that is an object is taken as it is written.    *)
Written(e) ==
  IF Is(e, "lit") THEN e
  ELSE IF Is(e, "items")
    THEN Items([i \in DOMAIN e.items |->
                  IF Is(e.items[i], "lit") THEN e.items[i] ELSE Lit(ListText)])
    ELSE Lit(ListText)

(* What a list or a rule comes to: one part that has no end, and it has none. *)
Ended(parts, v) == IF \E x \in DOMAIN parts : parts[x] = Endless THEN Endless ELSE v

(* One call of _eval_arm_expr, of[x] being what the calls it makes return.  *)
EvalStep(e, of, t) ==
  LET Follow(n, values) ==
        IF n \notin DOMAIN values \/ values[n] = Absent THEN Gone
        ELSE IF Is(values[n], "boxed") THEN Written(values[n].boxed)
        ELSE of[values[n]]
      items == [i \in DOMAIN e.items |-> of[e.items[i]]]
      rule == [f \in DOMAIN e |-> of[e[f]]]
  IN CASE Is(e, "param") -> Follow(e.param, t.parameters)
       [] Is(e, "variable") -> Follow(e.variable, t.variables)
       [] Is(e, "concat") ->
            LET a == of[e.concat[1]] b == of[e.concat[2]] IN
            IF IsUnresolved(a) \/ a = Endless THEN a
            ELSE IF IsUnresolved(b) \/ b = Endless THEN b
            ELSE Concatenated(a, b)
       [] Is(e, "items") -> Ended(items, Items(items))
       [] Has(e, "prio") -> Ended(rule, rule)
       [] Is(e, "call") -> Gone
       [] OTHER -> e

(* It follows names without end: Python's recursion limit ends a cycle.     *)
EvalArm(e, t) ==
  LET Eval[n \in Nat] ==
        [x \in ArmExprs |-> IF n = 0 THEN Endless ELSE EvalStep(x, Eval[n - 1], t)]
  IN Eval[RecursionLimit][e]

(* What a value consists of; a list of rules with lists of lists as sources  *)
(* is the deepest there is.                                                 *)
Opened(S) ==
  UNION {IF Is(v, "items") THEN ToSet(v.items)
         ELSE IF Has(v, "prio") THEN {v[f] : f \in DOMAIN v} ELSE {v} : v \in S}

Leaves(v) == Opened(Opened(Opened(Opened({v}))))

-----------------------------------------------------------------------------
(* _extract_arm_nsg_rule: a port, an access or a priority without a value    *)
(* is absent; a source or destination keeps it, and so does a list of ports. *)
ArmRule(r, t) ==
  LET v == EvalArm(r, t) prio == PortOf(v.prio) IN
  [prio |-> IF prio = Absent THEN None ELSE Number[prio.lit],
   access |-> IF Is(v.access, "lit") THEN v.access ELSE Absent,
   from |-> v.from, to |-> v.to,
   port |-> IF IsUnresolved(v.port) THEN Absent ELSE v.port]

ArmRuleList(rs, t) == [i \in DOMAIN rs |-> ArmRule(rs[i], t)]

(* Faulty variant: rules that are resources of the group are not read.      *)
ArmRulesInline(r, t) ==
  IF r.type \in {"nsg", "nsgrule"} /\ Is(r.rules, "items")
    THEN ArmRuleList(r.rules.items, t) ELSE <<>>

(* securityRules that is no list, but an expression, says nothing.          *)
ArmRules(r, t) ==
  CASE r.type = "nsg" ->
         (IF Is(r.rules, "items") THEN ArmRuleList(r.rules.items, t) ELSE <<>>)
           \o ArmRuleList(r.children, t)
    [] r.type = "nsgrule" -> ArmRuleList(r.rules.items, t)
    [] OTHER -> <<>>

(* What becomes an attribute; the rules among the resources of a group do    *)
(* not.                                                                     *)
ArmAttributes(r, t) ==
  UNION {Leaves(EvalArm(e, t)) : e \in {r.name, r.other, r.rules}}

NeverReturns(r, t) ==
  \E e \in {r.name, r.other, r.rules} \cup
            IF r.type = "nsg" THEN ToSet(r.children) ELSE {} : EvalArm(e, t) = Endless

(* The address in the graph: of the cleaned name, or of the place in the     *)
(* list when the name is no text.                                           *)
ArmAddress(i, t) ==
  LET r == t.resources[i] name == EvalArm(r.name, t) IN
  IF r.copy THEN <<r.type, "res_copy", ToString(i)>>
  ELSE IF Is(name, "lit") THEN <<r.type, Clean[name.lit], "">>
  ELSE <<r.type, "res", ToString(i)>>

(* A resource as it is in the graph; unresolved says that                   *)
(* unresolved_resources finds something in it.                              *)
ArmResource(r, t) ==
  IF r.copy
    THEN [type |-> r.type, merged |-> None, rules |-> <<Gone>>, unresolved |-> TRUE]
  ELSE LET rules == ArmRules(r, t)
           prefixes == UNION {Leaves(rules[i].from) \cup Leaves(rules[i].to) :
                                 i \in DOMAIN rules} IN
       [type |-> r.type, merged |-> None, rules |-> rules,
        unresolved |-> \E v \in ArmAttributes(r, t) \cup prefixes : IsUnresolved(v)]

(* parse_arm_dict's test for what is no template.                           *)
Recognized == {"nsg", "nsgrule", "other"}

ValidTemplate(t) ==
  \/ t.form = "absent" /\ t.schema
  \/ /\ t.form = "list"
     /\ \/ t.schema \/ t.resources = <<>>
        \/ \E i \in DOMAIN t.resources : t.resources[i].type \in Recognized

NoTemplate ==
  Single(<<"unresolved_json", "invalid", "">>,
         [type |-> "unresolved_json", merged |-> None, rules |-> <<Gone>>,
          unresolved |-> TRUE])
=============================================================================
