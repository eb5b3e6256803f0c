------------------------------ MODULE Pipeline ------------------------------
(***************************************************************************)
(* From a configuration to its verdicts: variables and locals, expansion   *)
(* of count and for_each, local modules, references, attachment of rules,  *)
(* verification.  The entry is "cli" (parse_iac_file: no names, no         *)
(* expansion), "webhook" (build_graph_with_expansion and the two passes),   *)
(* "modules" (build_graph_with_modules) or "arm" (parse_iac_file on JSON).  *)
(*                                                                         *)
(* Locals are visited in the order of the file, which is chosen once;      *)
(* blocks, module calls and attachments in any order.                      *)
(***************************************************************************)
EXTENDS ArmTemplate

CONSTANTS
  Configs,      \* the configurations, see below
  Short,        \* address in a module -> the name of the HCL block
  ManagedArns   \* texts that start with arn:aws:iam::aws:policy/

VARIABLES
  cfg, phase,
  order,        \* the locals in the order of the file
  at, moved,    \* place in the running pass, made_progress
  known,        \* resolved_locals
  left,         \* what the phase has still to visit
  graph,        \* address -> resource
  verdicts      \* address -> verdict, of the resources that were verified

vars == <<cfg, phase, order, at, moved, known, left, graph, verdicts>>

(* A configuration has an entry, the layers declared, tfvars and json of    *)
(* variable values, locals, blocks (address -> block) and modules.  A block *)
(* has a type, count and forEach, name, parent (the group or role it        *)
(* attaches to), arn (of the policy it attaches), within (what the text of  *)
(* its policy contains) and rules.  A module call has a source, count,      *)
(* forEach, args, the defaults and blocks of the module, and the names of   *)
(* the modules that one calls.  For "arm" there is a template and no more.  *)
NoNames == [n \in {} |-> None]

(* The rules of a block are a list, of statements in a policy.  No resource  *)
(* of an ARM template is of AWS.                                            *)
(* "module" is no resource's address.                                       *)
StatementFields == {"effect", "actions", "notActions", "resources", "notResources"}

AreBlocks(bs) ==
  \A a \in DOMAIN bs :
    /\ IsList(bs[a].rules)
    /\ bs[a].type \in IamTypes =>
         \A k \in DOMAIN bs[a].rules : DOMAIN bs[a].rules[k] = StatementFields
    /\ bs[a].type # "module"

AreCalls(ms) ==
  \A n \in DOMAIN ms :
    /\ AreBlocks(ms[n].blocks)
    /\ (ms[n].calls \cup {"module"}) \cap DOMAIN ms[n].blocks = {}

(* What a name stands for is there, and so are the items of a list.         *)
HaveValues(f) == \A n \in DOMAIN f : Absent \notin Entries(f[n])

ASSUME ConfigAssumption ==
  \A c \in Configs :
    /\ c.entry \in {"cli", "webhook", "modules", "arm"}
    /\ IsFiniteSet(DOMAIN c.locals)
    /\ HaveValues(c.locals)
    /\ HaveValues(c.declared) /\ HaveValues(c.tfvars) /\ HaveValues(c.json)
    /\ AreBlocks(c.blocks) /\ AreCalls(c.modules)
    /\ c.entry = "arm" =>
         /\ c.locals = NoNames /\ c.blocks = NoNames /\ c.modules = NoNames
         /\ IsTemplate(c.template)
         /\ \A i \in DOMAIN c.template.resources :
              c.template.resources[i].type \notin SgTypes \cup IamTypes

Vars == LoadVariables(cfg.declared, cfg.tfvars, cfg.json)

Locals == DOMAIN cfg.locals

(* parse_iac_file resolves no name at all.                                  *)
Env(vs, ls) == IF cfg.entry = "cli" THEN [vars |-> NoNames, locals |-> NoNames]
                                    ELSE [vars |-> vs, locals |-> ls]

Value(e, env) == Resolve(Unwrap(e), env.vars, env.locals)

-----------------------------------------------------------------------------
(* ARM templates: the resources in the order of the list, a later one in the *)
(* place of an earlier one of the same address; no references are resolved   *)
(* and no rules attached.                                                   *)
ReadResource ==
  /\ phase = "arm" /\ ValidTemplate(cfg.template)
  /\ at <= Len(cfg.template.resources)
  /\ at' = at + 1
  /\ LET t == cfg.template r == t.resources[at] IN
     IF r.type = "" /\ ~r.copy THEN UNCHANGED <<phase, graph>>
     ELSE IF ~r.copy /\ NeverReturns(r, t) THEN phase' = "failed" /\ UNCHANGED graph
     ELSE /\ graph' = Overlay(Single(ArmAddress(at, t), ArmResource(r, t)), graph)
          /\ UNCHANGED phase
  /\ UNCHANGED <<cfg, order, moved, known, left, verdicts>>

EndTemplate ==
  /\ phase = "arm"
  /\ ValidTemplate(cfg.template) => at > Len(cfg.template.resources)
  /\ graph' = IF ValidTemplate(cfg.template) THEN graph ELSE NoTemplate
  /\ phase' = "attach"
  /\ UNCHANGED <<cfg, order, at, moved, known, left, verdicts>>

-----------------------------------------------------------------------------
(* Locals.                                                                  *)

(* Faulty variant: one pass is enough.                                      *)
AgainNever == FALSE

(* Another pass: the last one resolved something and something is left.     *)
Again == moved /\ DOMAIN known # Locals

LocalValue(n, ls) == Resolve(OnlyItem(cfg.locals[n]), Vars, ls)

TryLocal ==
  /\ phase = "locals" /\ at <= Len(order)
  /\ at' = at + 1
  /\ LET n == order[at] v == LocalValue(n, known) IN
     IF n \in DOMAIN known \/ IsUnresolved(v)
       THEN UNCHANGED <<known, moved>>
       ELSE known' = Overlay(known, Single(n, v)) /\ moved' = TRUE
  /\ UNCHANGED <<cfg, phase, order, left, graph, verdicts>>

NextPass ==
  /\ phase = "locals" /\ at > Len(order) /\ Again
  /\ at' = 1 /\ moved' = FALSE
  /\ UNCHANGED <<cfg, phase, order, known, left, graph, verdicts>>

(* The first local that is left when a pass resolves none stays Unresolved, *)
(* for the reason found now: a local that names one given up before it takes *)
(* over that one's reason.                                                  *)
GiveUp ==
  /\ phase = "locals" /\ at > Len(order) /\ ~Again
  /\ \E i \in DOMAIN order :
       LET n == order[i] v == LocalValue(n, known) IN
       /\ n \notin DOMAIN known /\ \A j \in 1..(i - 1) : order[j] \in DOMAIN known
       /\ known' = Overlay(known, Single(n, IF IsUnresolved(v) THEN v ELSE Gone))
  /\ UNCHANGED <<cfg, phase, order, at, moved, left, graph, verdicts>>

EndLocals ==
  /\ phase = "locals" /\ at > Len(order) /\ DOMAIN known = Locals
  /\ phase' = "expand" /\ left' = DOMAIN cfg.blocks
  /\ UNCHANGED <<cfg, order, at, moved, known, graph, verdicts>>

-----------------------------------------------------------------------------
(* Expansion.                                                               *)

(* An instance has its key in a tuple, or none, and what its loop was lost to. *)
Plain == [each |-> <<>>, lost |-> Absent]
Lost(v) == [each |-> <<>>, lost |-> v]

(* expand_count with index texts; a number below one makes no instance.     *)
Counted(n) == {[each |-> <<Lit(t)>>, lost |-> Absent] :
                 t \in {x \in DOMAIN Number : 0 <= Number[x] /\ Number[x] < n}}

(* expand_for_each; the text of an item is its key, so that two equal items  *)
(* make one address.                                                        *)
Keyed(s) == {[each |-> <<v>>, lost |-> Absent] : v \in ToSet(s)}

(* An expression as an instance has it.                                     *)
ForInstance(e, i) == IF i.each = <<>> THEN e ELSE Substitute(e, i.each[1])

(* The instances of a block.  A loop over what is Unresolved or no number   *)
(* or list leaves one placeholder that carries the reason.                  *)
Instances(b, env) ==
  LET n == Value(b.count, env) s == Value(b.forEach, env) IN
  IF b.count # Absent THEN
    IF IsUnresolved(n) THEN {Lost(n)}
    ELSE IF Is(n, "lit") /\ n.lit \in DOMAIN Number THEN Counted(Number[n.lit])
    ELSE {Lost(Gone)}
  ELSE IF b.forEach = Absent THEN {Plain}
  ELSE IF IsUnresolved(s) THEN {Lost(s)}
  ELSE IF Is(s, "items") THEN Keyed(s.items) ELSE {Lost(Gone)}

ListOf(v) == IF v = Absent THEN <<>> ELSE IF Is(v, "items") THEN v.items ELSE <<v>>

(* _resolve_rule_source copies a statement without its NotAction and         *)
(* NotResource.                                                             *)
Copied(s) ==
  IF cfg.entry = "cli" THEN s
                       ELSE [s EXCEPT !.notActions = {}, !.notResources = {}]

(* Attribute e of instance i of a block.                                    *)
AttrOf(e, i, env) ==
  IF e = Absent THEN Absent
  ELSE IF i.lost # Absent THEN i.lost
  ELSE Value(ForInstance(e, i), env)

SgRule(r, i, env) ==
  [port |-> PortOf(AttrOf(r.port, i, env)), cidr |-> ListOf(AttrOf(r.cidr, i, env))]

NsgRule(r, i, env) ==
  LET p == PortOf(AttrOf(r.prio, i, env)) IN
  [prio |-> IF p = Absent THEN None ELSE Number[p.lit],
   access |-> AttrOf(r.access, i, env), from |-> AttrOf(r.from, i, env),
   to |-> AttrOf(r.to, i, env), port |-> AttrOf(r.port, i, env)]

(* _walk_iam_policy_dict: one statement with a part that has no value, or    *)
(* that is malformed, and the whole policy has none.                        *)
Statements(b, within) ==
  IF IsUnresolved(within) THEN <<within>>
                          ELSE [k \in DOMAIN b.rules |-> Copied(b.rules[k])]

(* extract_rule_sources.                                                    *)
Extract(b, i, env) ==
  CASE b.type \in SgTypes -> [k \in DOMAIN b.rules |-> SgRule(b.rules[k], i, env)]
    [] b.type \in NsgTypes -> [k \in DOMAIN b.rules |-> NsgRule(b.rules[k], i, env)]
    [] b.type \in IamTypes -> Statements(b, AttrOf(b.within, i, env))
    [] OTHER -> <<>>

(* The rules of a placeholder: rule blocks inside the resource are no        *)
(* blocks any more and are gone.                                            *)
Unknown(b, u) ==
  CASE b.type = "sgrule" -> <<[port |-> u, cidr |-> <<u>>]>>
    [] b.type = "nsgrule" ->
         <<[prio |-> None, access |-> u, from |-> u, to |-> u, port |-> u]>>
    [] b.type \in IamTypes /\ (b.rules # <<>> \/ b.within # Absent) -> <<u>>
    [] OTHER -> <<>>

Built(b, i, env) ==
  [type |-> b.type, name |-> AttrOf(b.name, i, env),
   parent |-> AttrOf(b.parent, i, env), arn |-> AttrOf(b.arn, i, env),
   merged |-> None,
   rules |-> IF i.lost # Absent THEN Unknown(b, i.lost) ELSE Extract(b, i, env)]

(* The resources of a set of blocks under a module prefix.  build_graph      *)
(* takes every block as it stands.                                          *)
BuiltFrom(bs, prefix, env) ==
  LET Of(a) == IF cfg.entry = "cli" THEN {Plain} ELSE Instances(bs[a], env) IN
  [x \in UNION {{<<prefix, a, i.each>> : i \in Of(a)} : a \in DOMAIN bs} |->
     Built(bs[x[2]], CHOOSE i \in Of(x[2]) : i.each = x[3], env)]

Expand(a) ==
  /\ phase = "expand" /\ a \in left
  /\ left' = left \ {a}
  /\ graph' = Overlay(graph, BuiltFrom(Single(a, cfg.blocks[a]), <<>>,
                                       Env(Vars, known)))
  /\ UNCHANGED <<cfg, phase, order, at, moved, known, verdicts>>

-----------------------------------------------------------------------------
(* Modules.                                                                 *)

EndExpand ==
  /\ phase = "expand" /\ left = {}
  /\ phase' = "modules"
  /\ left' = IF cfg.entry = "modules" THEN DOMAIN cfg.modules ELSE {}
  /\ UNCHANGED <<cfg, order, at, moved, known, graph, verdicts>>

OutOfScope == [type |-> "module", name |-> Absent, parent |-> Absent, arn |-> Absent,
               merged |-> None, rules |-> <<>>]

(* _expand_single_module_block: as for resources, but a loop that is         *)
(* neither resolved nor Unresolved is ignored.                              *)
Calls(m, env) ==
  {IF i.lost = Gone /\ ~IsUnresolved(Value(m.count, env))
                    /\ ~IsUnresolved(Value(m.forEach, env))
     THEN Plain ELSE i : i \in Instances(m, env)}

(* inline_module and merge_into_parent: the module's blocks with the         *)
(* arguments over the defaults; a nested, remote or missing module or an    *)
(* unresolved loop leaves a resource without rules.                         *)
Inlined(n, i) ==
  LET m == cfg.modules[n]
      env == Env(Vars, known)
      prefix == <<n, i.each>>
      args == [x \in DOMAIN m.args |-> Value(ForInstance(m.args[x], i), env)]
      inside == Env(Overlay(args, m.defaults), NoNames)
  IN IF i.lost # Absent \/ m.source # "local"
       THEN Single(<<prefix, "module", <<>>>>, OutOfScope)
       ELSE Overlay(BuiltFrom(m.blocks, prefix, inside),
                    [x \in {<<prefix, c, <<>>>> : c \in m.calls} |-> OutOfScope])

InlineModule(n) ==
  /\ phase = "modules" /\ n \in left
  /\ left' = left \ {n}
  /\ LET made == {Inlined(n, i) : i \in Calls(cfg.modules[n], Env(Vars, known))}
     IN graph' = [a \in DOMAIN graph \cup UNION {DOMAIN f : f \in made} |->
                    IF a \in DOMAIN graph THEN graph[a]
                    ELSE (CHOOSE f \in made : a \in DOMAIN f)[a]]
  /\ UNCHANGED <<cfg, phase, order, at, moved, known, verdicts>>

-----------------------------------------------------------------------------
(* References and attachments.                                              *)

(* _resolve_value_references on a rule source of each kind, the item itself *)
(* included when it is Unresolved.                                          *)
RuleReferTo(s, a) ==
  LET To(v) == ReferTo(v, a, DOMAIN graph) IN
  IF Has(s, "cidr") THEN [port |-> To(s.port), cidr |-> To(Items(s.cidr)).items]
  ELSE IF Has(s, "prio")
    THEN [s EXCEPT !.access = To(@), !.from = To(@), !.to = To(@), !.port = To(@)]
  ELSE To(s)

Referred(r, a) ==
  [r EXCEPT !.name = ReferTo(@, a, DOMAIN graph),
            !.parent = ReferTo(@, a, DOMAIN graph),
            !.arn = ReferTo(@, a, DOMAIN graph),
            !.rules = [i \in DOMAIN r.rules |-> RuleReferTo(r.rules[i], a)]]

ResolveReferences ==
  /\ phase = "modules" /\ left = {}
  /\ graph' = [a \in DOMAIN graph |-> Referred(graph[a], a)]
  /\ phase' = "attach" /\ left' = DOMAIN graph
  /\ UNCHANGED <<cfg, order, at, moved, known, verdicts>>

ParentType(t) ==
  CASE t = "sgrule" -> "sg" [] t = "nsgrule" -> "nsg"
    [] t \in {"rolepolicy", "attachment"} -> "role" [] OTHER -> None

(* _find_tier_b_candidates: by the short name in the address or by "name".   *)
Candidates(type, text) ==
  {a \in DOMAIN graph :
     /\ graph[a].type = type
     /\ \/ a[3] = <<>> /\ a[2] \in DOMAIN Short /\ Short[a[2]] = text
        \/ graph[a].name = Lit(text)}

Unique(S) == IF \E a \in S : S = {a} THEN CHOOSE a \in S : TRUE ELSE None

(* Tier A: the target of a reference; only a security group's rule does not *)
(* look at its type.                                                        *)
TierA(r) ==
  IF /\ r.parent.ref \in DOMAIN graph
     /\ r.type = "sgrule" \/ graph[r.parent.ref].type = ParentType(r.type)
    THEN r.parent.ref ELSE None

Target(r) ==
  IF ParentType(r.type) = None THEN None
  ELSE IF Is(r.parent, "ref") THEN TierA(r)
  ELSE IF Is(r.parent, "lit")
    THEN Unique(Candidates(ParentType(r.type), r.parent.lit))
  ELSE None

(* The policy an attachment names, which for a reference may be any resource; *)
(* None where there is nothing to attach.                                   *)
IsManaged(v) == Is(v, "lit") /\ v.lit \in ManagedArns

PolicyFound(r) ==
  IF Is(r.arn, "ref") /\ r.arn.ref \in DOMAIN graph THEN r.arn.ref
  ELSE IF Is(r.arn, "lit") /\ ~IsManaged(r.arn)
    THEN Unique(Candidates("policy", r.arn.lit))
  ELSE None

PolicyRules(r) ==
  IF IsManaged(r.arn) THEN <<Managed>>
  ELSE IF PolicyFound(r) # None THEN graph[PolicyFound(r)].rules ELSE None

Added(r) == IF r.type = "attachment" THEN PolicyRules(r) ELSE r.rules

(* Faulty variant: the rules replace those the target has.                  *)
MergedInstead(a, t, rules) ==
  [graph EXCEPT ![t].rules = rules, ![a].merged = t]

Merged(a, t, rules) ==
  [graph EXCEPT ![t].rules = @ \o rules, ![a].merged = t]

Attach(a) ==
  /\ phase = "attach" /\ a \in left
  /\ left' = left \ {a}
  /\ LET r == graph[a] t == Target(r) IN
     IF t = None \/ Added(r) = None THEN UNCHANGED graph
     ELSE graph' = Merged(a, t, Added(r))
  /\ UNCHANGED <<cfg, phase, order, at, moved, known, verdicts>>

(* Faulty variant: what was merged is verified too.                         *)
ToVerifyAll == {a \in DOMAIN graph : graph[a].type \in Verified}

(* verify_graph: resources that were merged into another are skipped.       *)
ToVerify ==
  {a \in DOMAIN graph : graph[a].merged = None /\ graph[a].type \in Verified}

Verify ==
  /\ phase = "attach" /\ left = {}
  /\ phase' = "done"
  /\ verdicts' = [a \in ToVerify |-> Verdict(graph[a])]
  /\ UNCHANGED <<cfg, order, at, moved, known, left, graph>>

Init ==
  /\ cfg \in Configs
  /\ order \in SetToSeqs(Locals)
  /\ phase = CASE cfg.entry = "cli" -> "expand" [] cfg.entry = "arm" -> "arm"
               [] OTHER -> "locals"
  /\ left = IF cfg.entry = "cli" THEN DOMAIN cfg.blocks ELSE {}
  /\ at = 1 /\ moved = FALSE /\ known = NoNames
  /\ graph = [a \in {} |-> None] /\ verdicts = [a \in {} |-> None]

Next ==
  \/ ReadResource \/ EndTemplate
  \/ TryLocal \/ NextPass \/ GiveUp \/ EndLocals
  \/ \E a \in DOMAIN cfg.blocks : Expand(a)
  \/ EndExpand
  \/ \E n \in DOMAIN cfg.modules : InlineModule(n)
  \/ ResolveReferences
  \/ \E a \in DOMAIN graph : Attach(a)
  \/ Verify

Spec == Init /\ [][Next]_vars
=============================================================================
