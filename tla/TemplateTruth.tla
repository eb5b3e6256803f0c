--------------------------- MODULE TemplateTruth ---------------------------
(***************************************************************************)
(* What an ARM template declares, by the meaning of its expressions, and   *)
(* the properties that hold the verdicts against it.                       *)
(***************************************************************************)
EXTENDS PipelineTruth

(* The value of an expression, of[x] being that of a part or of what it      *)
(* names: concat of lists is a list.                                        *)
MeansStep(e, of, t) ==
  LET Named(n, values) ==
        IF n \notin DOMAIN values \/ values[n] = Absent THEN Gone
        ELSE of[IF Is(values[n], "boxed") THEN values[n].boxed ELSE values[n]]
  IN CASE Is(e, "param") -> Named(e.param, t.parameters)
       [] Is(e, "variable") -> Named(e.variable, t.variables)
       [] Is(e, "concat") ->
            LET a == of[e.concat[1]] b == of[e.concat[2]] IN
            IF Is(a, "lit") /\ Is(b, "lit") THEN Lit(Joined[<<a.lit, b.lit>>])
            ELSE IF Is(a, "items") /\ Is(b, "items") THEN Items(a.items \o b.items)
            ELSE Gone
       [] Is(e, "items") -> Items([i \in DOMAIN e.items |-> of[e.items[i]]])
       [] Is(e, "call") -> Gone
       [] OTHER -> e

(* What goes round in a circle, or deeper than the parser can follow, has no *)
(* value; the inside of a default that is an object takes two steps.        *)
Means(e) ==
  LET Meant[n \in Nat] ==
        [x \in ArmExprs |->
          IF n = 0 THEN Gone ELSE MeansStep(x, Meant[n - 1], cfg.template)]
  IN Meant[RecursionLimit + 2][e]

(* The declared resources, by their places in the list.                     *)
Declared == DOMAIN cfg.template.resources
Entry(i) == cfg.template.resources[i]

(* A network security group, or a rule, with what declares rules of it: its  *)
(* own properties and resources, and rules named after it.                  *)
RuleExprs(i) ==
  LET own == Means(Entry(i).rules) IN
  ToSet(Entry(i).children) \cup
    IF Is(own, "items") THEN ToSet(own.items)
    ELSE {[prio |-> Call, access |-> Call, from |-> Call, to |-> Call, port |-> Call]}

ArmGroup(i) ==
  {i} \cup {j \in Declared : /\ Entry(i).type = "nsg" /\ Entry(j).type = "nsgrule"
                             /\ Entry(j).parent = Means(Entry(i).name)}

DeclaredRules(is) ==
  {[prio |-> PortOf(Means(r.prio)), access |-> Means(r.access),
    from |-> Means(r.from), to |-> Means(r.to), port |-> Means(r.port)] :
     r \in UNION {RuleExprs(i) : i \in is}}

ArmHarmful(i) ==
  Entry(i).type \in {"nsg", "nsgrule"} /\ RulesHarm(DeclaredRules(ArmGroup(i)))

-----------------------------------------------------------------------------
(* Where the parser is known to lose what is declared.                       *)

(* A later resource has the same address.                                   *)
Overwritten(i) ==
  \E j \in Declared : j > i /\ ArmAddress(j, cfg.template) = ArmAddress(i, cfg.template)

(* securityRules is an expression.                                          *)
RulesByExpression(i) == Entry(i).type = "nsg" /\ ~Is(Entry(i).rules, "items")

(* A list, or an object, that became text: concat of lists, an expression in *)
(* the "value" of a default.                                                *)
MadeText(i) ==
  LET t == cfg.template IN
  Lit(ListText) \in ArmAttributes(Entry(i), t) \cup
    UNION {Leaves(EvalArm(c, t)) : c \in ToSet(Entry(i).children)}

(* A rule among the resources of a group whose access or port has no value:  *)
(* it is no attribute, and the field is absent from the rule.               *)
ChildUnknown(i) ==
  \E c \in ToSet(Entry(i).children) :
    \/ IsUnresolved(EvalArm(c.port, cfg.template))
    \/ \E v \in Leaves(EvalArm(c.access, cfg.template)) : IsUnresolved(v)

(* The others are those of PipelineTruth.                                    *)
ArmBlind(i) ==
  \/ Overwritten(i) \/ RulesByExpression(i) \/ MadeText(i) \/ ChildUnknown(i)
  \/ PriorityUnknown(ArmAddress(i, cfg.template))
  \/ RulesRefused(DeclaredRules({i})) \/ RulesAside(DeclaredRules({i}))

(* run_verify exits 0: nothing in the graph is unresolved and every verdict  *)
(* is UNSAT.                                                                *)
AllClear ==
  /\ phase = "done" /\ cfg.entry = "arm"
  /\ \A a \in DOMAIN graph : ~graph[a].unresolved
  /\ \A a \in DOMAIN verdicts : verdicts[a] = "unsat"

(* PROJECT_STATUS.md: templates with parameters that cannot be resolved,     *)
(* dynamic functions or copy loops yield UNRESOLVABLE.  When the CLI passes a *)
(* template, no group or rule it declares is harmful, a value that is not    *)
(* known being any value, outside the cases named above.                    *)
TemplateNoFalseSafe ==
  AllClear => \A i \in Declared :
                ArmHarmful(i) => \E j \in ArmGroup(i) : ArmBlind(j)

(* A SAT on a group or a rule is real when its rules are all in it and were  *)
(* not distorted; a group's own verdict does not see rules named after it.  *)
TemplateNoFalseAlarm ==
  phase = "done" /\ cfg.entry = "arm" /\ ValidTemplate(cfg.template) =>
    \A i \in Declared :
      LET a == ArmAddress(i, cfg.template) IN
      /\ a \in DOMAIN verdicts /\ verdicts[a] = "sat"
      /\ ~Overwritten(i) /\ ~RulesByExpression(i) /\ ~MadeText(i) /\ ArmGroup(i) = {i}
      /\ ~RuleTie(DeclaredRules({i}))
      => ArmHarmful(i)
=============================================================================
