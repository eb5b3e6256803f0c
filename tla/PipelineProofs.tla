--------------------------- MODULE PipelineProofs ---------------------------
(***************************************************************************)
(* Proofs, for any configurations, of the parts of PipelineTruth that are  *)
(* about the passes: what the locals come to (LocalsSettle), that attached  *)
(* rules are kept (RulesAreKept), and TypeOK.  IInv is the inductive        *)
(* invariant: LocalsInv is about the passes over the locals, GraphInv about *)
(* the graph and the attachments.  Then the encoders: the priority chain of *)
(* a network security group is its first match, and the verdicts of groups  *)
(* are those of the rules they are given.  The last part is about ARM       *)
(* templates (TemplateTruth): what the evaluation of an expression tells of *)
(* its meaning, ArmInv, which says that the graph is what was read, and the *)
(* two properties of the verdicts.                                          *)
(***************************************************************************)
EXTENDS TemplateTruth, OrderLemmas, SequenceTheorems

Fields == {"type", "name", "parent", "arn", "merged", "rules"}

Terraform == cfg.entry # "arm"

TypeInv ==
  /\ cfg \in Configs
  /\ phase \in {"arm", "locals", "expand", "modules", "attach", "done", "failed"}
  /\ at \in Nat \ {0}
  /\ phase \in {"arm", "failed"} => ~Terraform
  /\ phase \in {"locals", "expand", "modules"} => Terraform
  /\ phase = "locals" => cfg.entry # "cli"
  /\ left \subseteq CASE phase = "expand" -> DOMAIN cfg.blocks
                       [] phase = "modules" -> DOMAIN cfg.modules
                       [] phase = "attach" -> DOMAIN graph
                       [] OTHER -> {}
  /\ ~Terraform => left = {}

(* A resource in the graph.                                                 *)
IsResource(r) == DOMAIN r = Fields /\ IsList(r.rules)

IsTarget(a) == \E b \in DOMAIN graph : graph[b].merged = a

(* Where a merged rule is, and what of it is there.                         *)
RefersToGroup(r) ==
  r.type = "sgrule" /\ Is(r.parent, "ref") => graph[r.parent.ref].type = "sg"

KeptOf(a) ==
  LET r == graph[a] IN
  r.merged # None =>
    /\ r.merged \in DOMAIN graph
    /\ ParentType(r.type) # None
    /\ Is(r.parent, "ref") => r.parent.ref \in DOMAIN graph
    /\ RefersToGroup(r) =>
         /\ graph[r.merged].type = ParentType(r.type)
         /\ r.type \in Verified /\ ~IsTarget(a) =>
              ToSet(r.rules) \subseteq ToSet(graph[r.merged].rules)

GraphInv ==
  /\ Terraform => \A a \in DOMAIN graph : IsResource(graph[a])
  /\ ~Terraform => \A a \in DOMAIN graph : graph[a].merged = None /\ graph[a].type \notin SgTypes
  /\ phase \notin {"attach", "done"} => \A a \in DOMAIN graph : graph[a].merged = None
  /\ phase = "attach" => \A a \in left \cap DOMAIN graph : graph[a].merged = None
  /\ \A a \in DOMAIN graph : KeptOf(a)
  /\ phase = "done" => verdicts = [a \in ToVerify |-> Verdict(graph[a])]
  /\ phase # "done" => verdicts = [a \in {} |-> None]

IsScalar(n) == ~Is(OnlyItem(cfg.locals[n]), "items")

(* What is whole is what some round made of it: of the first rounds, as many *)
(* as names are known.                                                      *)
WholeIsMeant ==
  \A n \in DOMAIN known : Whole(known[n]) =>
    \E k \in 0..Cardinality(DOMAIN known) :
      n \in DOMAIN Round[k] /\ Round[k][n] = known[n]

(* No scalar was looked up too early or given up too early.                 *)
ScalarIsValue ==
  \A n \in DOMAIN known : IsScalar(n) =>
    IF IsUnresolved(known[n]) THEN IsUnresolved(LocalValue(n, known))
                              ELSE known[n] = LocalValue(n, known)

(* A local is given up only after a pass that resolved none, and what such a *)
(* pass has seen is known or has no value.                                  *)
PassInv ==
  /\ phase = "locals" =>
       \/ \A n \in DOMAIN known : ~IsUnresolved(known[n])
       \/ ~moved /\ at > Len(order)
  /\ phase = "locals" /\ ~moved =>
       \A i \in DOMAIN order : i < at =>
         order[i] \in DOMAIN known \/ IsUnresolved(LocalValue(order[i], known))

LocalsInv ==
  /\ order \in SetToSeqs(Locals)
  /\ DOMAIN known \subseteq Locals
  /\ WholeIsMeant /\ ScalarIsValue /\ PassInv
  /\ phase # "locals" /\ Terraform /\ cfg.entry # "cli" => DOMAIN known = Locals

IInv == TypeInv /\ GraphInv /\ LocalsInv

-----------------------------------------------------------------------------
(* Lists.                                                                   *)

LEMMA ListDomain ==
  ASSUME NEW s, IsList(s)
  PROVE  /\ Len(s) \in Nat /\ DOMAIN s = 1..Len(s)
         /\ \A i \in DOMAIN s : s[i] \in ToSet(s)
BY DEF IsList, ToSet

LEMMA ListMade ==
  ASSUME NEW n \in Nat, NEW s, DOMAIN s = 1..n, s = [i \in 1..n |-> s[i]]
  PROVE  IsList(s) /\ Len(s) = n
<1>1. s \in [1..n -> ToSet(s)]
  BY DEF ToSet
<1>2. s \in Seq(ToSet(s))
  BY <1>1, SeqDef
<1>3. Len(s) = n
  BY <1>1, <1>2, LenProperties
<1> QED BY <1>2, <1>3 DEF IsList

LEMMA ListOver ==
  ASSUME NEW s, IsList(s), NEW t, DOMAIN t = DOMAIN s,
         t = [i \in DOMAIN s |-> t[i]]
  PROVE  IsList(t)
BY ListDomain, ListMade

LEMMA ShortLists ==
  /\ IsList(<<>>)
  /\ \A x : IsList(<<x>>)
<1>1. \A x : <<x>> \in Seq({x}) /\ ToSet(<<x>>) = {x}
  BY DEF ToSet
<1>2. <<>> \in Seq(ToSet(<<>>))
  OBVIOUS
<1> QED BY <1>1, <1>2 DEF IsList

LEMMA Concatenation ==
  ASSUME NEW s, NEW t, IsList(s), IsList(t)
  PROVE  /\ IsList(s \o t)
         /\ ToSet(s \o t) = ToSet(s) \cup ToSet(t)
<1> DEFINE A == ToSet(s) \cup ToSet(t)
<1>1. s \in Seq(A) /\ t \in Seq(A)
  <2>1. \A S, T, u : u \in Seq(S) /\ S \subseteq T => u \in Seq(T)
    BY SeqDef
  <2> QED BY <2>1 DEF IsList
<1>2. /\ s \o t \in Seq(A)
      /\ Len(s \o t) = Len(s) + Len(t)
      /\ \A i \in 1..(Len(s) + Len(t)) :
           (s \o t)[i] = IF i <= Len(s) THEN s[i] ELSE t[i - Len(s)]
  BY <1>1, ConcatProperties
<1>3. /\ Len(s) \in Nat /\ DOMAIN s = 1..Len(s)
      /\ Len(t) \in Nat /\ DOMAIN t = 1..Len(t)
      /\ DOMAIN (s \o t) = 1..(Len(s) + Len(t))
  BY <1>1, <1>2, LenProperties
<1>4. ASSUME NEW i \in DOMAIN (s \o t) PROVE (s \o t)[i] \in A
  BY <1>2, <1>3
<1>5. ASSUME NEW i \in DOMAIN s
      PROVE  i \in DOMAIN (s \o t) /\ (s \o t)[i] = s[i]
  BY <1>2, <1>3
<1>6. ASSUME NEW i \in DOMAIN t
      PROVE  i + Len(s) \in DOMAIN (s \o t) /\ (s \o t)[i + Len(s)] = t[i]
  BY <1>2, <1>3
<1> HIDE DEF A
<1>7. ToSet(s \o t) \subseteq A
  BY <1>4 DEF ToSet
<1>8. ToSet(s) \subseteq ToSet(s \o t)
  BY <1>5 DEF ToSet
<1>9. ToSet(t) \subseteq ToSet(s \o t)
  BY <1>6 DEF ToSet
<1>10. ToSet(s \o t) = ToSet(s) \cup ToSet(t)
  BY <1>7, <1>8, <1>9 DEF A
<1> QED BY <1>2, <1>10 DEF IsList, A

-----------------------------------------------------------------------------
(* Resources as they are made.                                              *)

LEMMA OverlayFacts ==
  ASSUME NEW f, NEW g
  PROVE  /\ DOMAIN Overlay(f, g) = DOMAIN f \cup DOMAIN g
         /\ \A x \in DOMAIN f : Overlay(f, g)[x] = f[x]
         /\ \A x \in DOMAIN g \ DOMAIN f : Overlay(f, g)[x] = g[x]
BY DEF Overlay

LEMMA SingleFacts ==
  \A x, v : DOMAIN Single(x, v) = {x} /\ Single(x, v)[x] = v
BY DEF Single

(* A resource before anything is merged.                                    *)
IsFresh(r) == IsResource(r) /\ r.merged = None

LEMMA ExtractIsList ==
  ASSUME NEW b, IsList(b.rules), NEW i, NEW env
  PROVE  IsList(Extract(b, i, env))
<1>1. IsList([k \in DOMAIN b.rules |-> SgRule(b.rules[k], i, env)])
  BY ListOver
<1>2. IsList([k \in DOMAIN b.rules |-> NsgRule(b.rules[k], i, env)])
  BY ListOver
<1>3. IsList([k \in DOMAIN b.rules |-> Copied(b.rules[k])])
  BY ListOver
<1>4. ASSUME NEW w PROVE IsList(Statements(b, w))
  BY <1>3, ShortLists DEF Statements
<1> QED BY <1>1, <1>2, <1>4, ShortLists DEF Extract

LEMMA BuiltIsFresh ==
  ASSUME NEW b, IsList(b.rules), NEW i, NEW env
  PROVE  IsFresh(Built(b, i, env))
<1>1. IsList(Unknown(b, i.lost))
  BY ShortLists DEF Unknown
<1>2. IsList(Extract(b, i, env))
  BY ExtractIsList
<1>3. /\ DOMAIN Built(b, i, env) = Fields
      /\ Built(b, i, env).merged = None
      /\ Built(b, i, env).rules \in {Unknown(b, i.lost), Extract(b, i, env)}
  BY DEF Built, Fields
<1> QED BY <1>1, <1>2, <1>3 DEF IsFresh, IsResource

LEMMA BuiltFromFresh ==
  ASSUME NEW bs, AreBlocks(bs), NEW prefix, NEW env
  PROVE  \A x \in DOMAIN BuiltFrom(bs, prefix, env) :
           IsFresh(BuiltFrom(bs, prefix, env)[x])
<1> DEFINE Of(a) == IF cfg.entry = "cli" THEN {Plain} ELSE Instances(bs[a], env)
<1> DEFINE instance(x) == CHOOSE i \in Of(x[2]) : i.each = x[3]
<1>1. \A x \in DOMAIN BuiltFrom(bs, prefix, env) :
        \E a \in DOMAIN bs : \E i \in Of(a) : x = <<prefix, a, i.each>>
  BY DEF BuiltFrom
<1>2. \A x \in DOMAIN BuiltFrom(bs, prefix, env) : x[2] \in DOMAIN bs
  <2> HIDE DEF Of
  <2> QED BY <1>1
<1>3. \A x \in DOMAIN BuiltFrom(bs, prefix, env) :
        BuiltFrom(bs, prefix, env)[x] = Built(bs[x[2]], instance(x), env)
  BY DEF BuiltFrom
<1>4. \A a \in DOMAIN bs : IsList(bs[a].rules)
  BY DEF AreBlocks
<1> HIDE DEF instance, Of
<1> QED BY <1>2, <1>3, <1>4, BuiltIsFresh

LEMMA InlinedFresh ==
  ASSUME NEW n, AreBlocks(cfg.modules[n].blocks), NEW i
  PROVE  \A x \in DOMAIN Inlined(n, i) : IsFresh(Inlined(n, i)[x])
<1>1. IsFresh(OutOfScope)
  BY ShortLists DEF IsFresh, IsResource, OutOfScope, Fields
<1>2. \A x, y : y \in DOMAIN Single(x, OutOfScope) => IsFresh(Single(x, OutOfScope)[y])
  BY <1>1 DEF Single
<1>3. ASSUME NEW prefix, NEW env, NEW D
      PROVE  LET r == Overlay(BuiltFrom(cfg.modules[n].blocks, prefix, env),
                              [x \in D |-> OutOfScope])
             IN \A x \in DOMAIN r : IsFresh(r[x])
  <2> DEFINE f == BuiltFrom(cfg.modules[n].blocks, prefix, env)
  <2> DEFINE g == [x \in D |-> OutOfScope]
  <2>1. \A x \in DOMAIN f : IsFresh(f[x])
    BY BuiltFromFresh
  <2>2. \A x \in DOMAIN g : IsFresh(g[x])
    BY <1>1
  <2> HIDE DEF f, g
  <2>3. \A x \in DOMAIN Overlay(f, g) : IsFresh(Overlay(f, g)[x])
    BY <2>1, <2>2 DEF Overlay
  <2> QED BY <2>3 DEF f, g
<1> QED BY <1>2, <1>3 DEF Inlined

(* Merging changes the rules of the target and the mark of what is merged.  *)
LEMMA MergedGraph ==
  ASSUME NEW a \in DOMAIN graph, NEW t \in DOMAIN graph, NEW rules,
         \A b \in DOMAIN graph : IsResource(graph[b])
  PROVE  LET g == Merged(a, t, rules) IN
         /\ DOMAIN g = DOMAIN graph
         /\ \A b \in DOMAIN graph :
              /\ DOMAIN g[b] = Fields
              /\ g[b].type = graph[b].type /\ g[b].parent = graph[b].parent
              /\ g[b].name = graph[b].name /\ g[b].arn = graph[b].arn
              /\ g[b].merged = IF b = a THEN t ELSE graph[b].merged
              /\ g[b].rules = IF b = t THEN graph[b].rules \o rules ELSE graph[b].rules
<1> DEFINE h == [graph EXCEPT ![t].rules = @ \o rules]
<1> DEFINE g == [h EXCEPT ![a].merged = t]
<1>1. g = Merged(a, t, rules)
  BY DEF Merged
<1>2. \A b \in DOMAIN graph : DOMAIN graph[b] = Fields
  BY DEF IsResource
<1>3. /\ DOMAIN h = DOMAIN graph
      /\ \A b \in DOMAIN graph :
           /\ DOMAIN h[b] = Fields
           /\ h[b].type = graph[b].type /\ h[b].parent = graph[b].parent
           /\ h[b].name = graph[b].name /\ h[b].arn = graph[b].arn
           /\ h[b].merged = graph[b].merged
           /\ h[b].rules = IF b = t THEN graph[b].rules \o rules ELSE graph[b].rules
  BY <1>2 DEF Fields
<1> HIDE DEF h
<1>4. /\ DOMAIN g = DOMAIN graph
      /\ \A b \in DOMAIN graph :
           /\ DOMAIN g[b] = Fields
           /\ g[b].type = h[b].type /\ g[b].parent = h[b].parent
           /\ g[b].name = h[b].name /\ g[b].arn = h[b].arn
           /\ g[b].merged = IF b = a THEN t ELSE h[b].merged
           /\ g[b].rules = h[b].rules
  BY <1>3 DEF Fields
<1> HIDE DEF g
<1> QED BY <1>1, <1>3, <1>4

-----------------------------------------------------------------------------
(* The steps, as to the graph.                                              *)

LEMMA NothingMerged ==
  (\A a \in DOMAIN graph : graph[a].merged = None) => \A a \in DOMAIN graph : KeptOf(a)
BY DEF KeptOf

LEMMA InitGraph == Init => TypeInv /\ GraphInv
<1> SUFFICES ASSUME Init PROVE TypeInv /\ GraphInv
  OBVIOUS
<1>1. cfg \in Configs /\ cfg.entry \in {"cli", "webhook", "modules", "arm"}
  BY ConfigAssumption DEF Init
<1>2. TypeInv
  <2>1. at \in Nat \ {0}
    BY DEF Init
  <2>2. CASE cfg.entry = "cli"
    <3>1. phase = "expand" /\ left = DOMAIN cfg.blocks
      BY <2>2 DEF Init
    <3> QED BY <1>1, <2>1, <2>2, <3>1 DEF TypeInv, Terraform
  <2>3. CASE cfg.entry = "arm"
    <3>1. phase = "arm" /\ left = {}
      BY <2>3 DEF Init
    <3> QED BY <1>1, <2>1, <2>3, <3>1 DEF TypeInv, Terraform
  <2>4. CASE cfg.entry \notin {"cli", "arm"}
    <3>1. phase = "locals" /\ left = {}
      BY <2>4 DEF Init
    <3> QED BY <1>1, <2>1, <2>4, <3>1 DEF TypeInv, Terraform
  <2> QED BY <2>2, <2>3, <2>4
<1>3. DOMAIN graph = {} /\ phase \notin {"attach", "done"}
  BY DEF Init
<1>4. GraphInv
  BY <1>3 DEF Init, GraphInv
<1> QED BY <1>2, <1>4

(* A step of the passes before the attachments.                             *)
LEMMA FreshStep ==
  ASSUME GraphInv, phase' # "done", verdicts' = verdicts, cfg' = cfg,
         phase # "done",
         \A a \in DOMAIN graph' : graph'[a].merged = None,
         Terraform => \A a \in DOMAIN graph' : IsResource(graph'[a]),
         ~Terraform => \A a \in DOMAIN graph' : graph'[a].type \notin SgTypes
  PROVE  GraphInv'
<1>1. \A a \in DOMAIN graph' : KeptOf(a)'
  BY DEF KeptOf
<1> QED BY <1>1 DEF GraphInv, Terraform

LEMMA ReadResourceGraph == TypeInv /\ GraphInv /\ ReadResource => TypeInv' /\ GraphInv'
<1> SUFFICES ASSUME TypeInv, GraphInv, ReadResource PROVE TypeInv' /\ GraphInv'
  OBVIOUS
<1> DEFINE t == cfg.template r == t.resources[at]
<1>1. /\ phase = "arm" /\ phase' \in {"arm", "failed"} /\ ~Terraform
      /\ UNCHANGED <<cfg, left, verdicts>> /\ left = {}
  BY DEF ReadResource, TypeInv, Terraform
<1>2. TypeInv'
  <2>1. at' = at + 1 /\ at \in Nat \ {0}
    BY DEF ReadResource, TypeInv
  <2>2. at' \in Nat \ {0}
    BY <2>1
  <2> QED BY <1>1, <2>2 DEF TypeInv, Terraform
<1>3. \A a \in DOMAIN graph : graph[a].merged = None /\ graph[a].type \notin SgTypes
  BY <1>1 DEF GraphInv
<1>4. CASE graph' = graph
  BY <1>1, <1>2, <1>3, <1>4, FreshStep
<1>5. CASE graph' # graph
  <2>1. graph' = Overlay(Single(ArmAddress(at, t), ArmResource(r, t)), graph)
    BY <1>5 DEF ReadResource
  <2>2. ArmResource(r, t).merged = None /\ ArmResource(r, t).type = r.type
    BY DEF ArmResource
  <2>3. r.type \notin SgTypes
    <3>1. at \in DOMAIN t.resources
      <4>1. IsList(t.resources)
        BY <1>1, ConfigAssumption DEF TypeInv, Terraform, IsTemplate
      <4>2. at \in Nat \ {0} /\ at <= Len(t.resources)
        BY DEF ReadResource, TypeInv
      <4> HIDE DEF t
      <4> QED BY <4>1, <4>2, ListDomain
    <3>2. t.resources[at].type \notin SgTypes \cup IamTypes
      BY <1>1, <3>1, ConfigAssumption DEF TypeInv, Terraform
    <3> QED BY <3>2
  <2> DEFINE x == ArmAddress(at, t) v == ArmResource(r, t)
  <2>4. v.merged = None /\ v.type \notin SgTypes
    BY <2>2, <2>3
  <2> HIDE DEF x, v
  <2>5. \A a \in DOMAIN graph' : graph'[a].merged = None /\ graph'[a].type \notin SgTypes
    BY <1>3, <2>1, <2>4 DEF Overlay, Single, x, v
  <2> QED BY <1>1, <1>2, <2>5, FreshStep
<1> QED BY <1>2, <1>4, <1>5

LEMMA EndTemplateGraph == TypeInv /\ GraphInv /\ EndTemplate => TypeInv' /\ GraphInv'
<1> SUFFICES ASSUME TypeInv, GraphInv, EndTemplate PROVE TypeInv' /\ GraphInv'
  OBVIOUS
<1>1. /\ phase = "arm" /\ phase' = "attach" /\ ~Terraform /\ left = {}
      /\ UNCHANGED <<cfg, at, moved, left, verdicts>>
  BY DEF EndTemplate, TypeInv, Terraform
<1>2. TypeInv'
  BY <1>1 DEF TypeInv, Terraform
<1>3. \A a \in DOMAIN graph : graph[a].merged = None /\ graph[a].type \notin SgTypes
  BY <1>1 DEF GraphInv
<1>4. \A a \in DOMAIN NoTemplate :
        NoTemplate[a].merged = None /\ NoTemplate[a].type \notin SgTypes
  BY DEF NoTemplate, Single, SgTypes
<1>5. graph' = graph \/ graph' = NoTemplate
  BY DEF EndTemplate
<1> HIDE DEF NoTemplate
<1>6. \A a \in DOMAIN graph' : graph'[a].merged = None /\ graph'[a].type \notin SgTypes
  BY <1>3, <1>4, <1>5
<1> QED BY <1>1, <1>2, <1>6, FreshStep

(* The steps that leave the graph alone.                                    *)
LEMMA PassesGraph ==
  ASSUME TypeInv, GraphInv, TryLocal \/ NextPass \/ GiveUp \/ EndLocals \/ EndExpand
  PROVE  TypeInv' /\ GraphInv'
<1>1. /\ Terraform /\ phase # "done" /\ phase' \in {"locals", "expand", "modules"}
      /\ phase \in {"locals", "expand", "modules"}
      /\ UNCHANGED <<cfg, graph, verdicts>>
      /\ phase' = "locals" => phase = "locals"
  BY DEF TypeInv, TryLocal, NextPass, GiveUp, EndLocals, EndExpand
<1>2. at' \in Nat \ {0}
  <2>1. at' \in {at, at + 1, 1}
    BY DEF TryLocal, NextPass, GiveUp, EndLocals, EndExpand
  <2> QED BY <2>1 DEF TypeInv
<1>3. left' \subseteq CASE phase' = "expand" -> DOMAIN cfg.blocks
                        [] phase' = "modules" -> DOMAIN cfg.modules
                        [] phase' = "attach" -> DOMAIN graph
                        [] OTHER -> {}
  <2>1. CASE TryLocal \/ NextPass \/ GiveUp
    BY <2>1 DEF TypeInv, TryLocal, NextPass, GiveUp
  <2>2. CASE EndLocals
    BY <2>2 DEF EndLocals
  <2>3. CASE EndExpand
    BY <2>3 DEF EndExpand
  <2> QED BY <2>1, <2>2, <2>3
<1>4. TypeInv'
  BY <1>1, <1>2, <1>3 DEF TypeInv, Terraform
<1>5. \A a \in DOMAIN graph : graph[a].merged = None /\ IsResource(graph[a])
  BY <1>1 DEF GraphInv
<1> QED BY <1>1, <1>4, <1>5, FreshStep

LEMMA ExpandGraph ==
  ASSUME TypeInv, GraphInv, NEW a \in DOMAIN cfg.blocks, Expand(a)
  PROVE  TypeInv' /\ GraphInv'
<1>1. /\ phase = "expand" /\ Terraform /\ left' \subseteq left
      /\ UNCHANGED <<cfg, phase, at, moved, verdicts>>
  BY DEF Expand, TypeInv
<1>2. TypeInv'
  BY <1>1 DEF TypeInv, Terraform
<1> DEFINE bs == Single(a, cfg.blocks[a])
<1> DEFINE f == BuiltFrom(bs, <<>>, Env(Vars, known))
<1>3. AreBlocks(bs)
  <2>1. AreBlocks(cfg.blocks)
    BY ConfigAssumption DEF TypeInv
  <2> QED BY <2>1 DEF AreBlocks, Single
<1>4. \A x \in DOMAIN f : IsFresh(f[x])
  <2> HIDE DEF bs
  <2> QED BY <1>3, BuiltFromFresh
<1>5. graph' = Overlay(graph, f)
  BY DEF Expand
<1>6. \A x \in DOMAIN graph : IsFresh(graph[x])
  BY <1>1 DEF GraphInv, IsFresh
<1> HIDE DEF f
<1>7. \A x \in DOMAIN graph' : IsFresh(graph'[x])
  BY <1>4, <1>5, <1>6 DEF Overlay
<1> QED BY <1>1, <1>2, <1>7, FreshStep DEF IsFresh

LEMMA InlineGraph ==
  ASSUME TypeInv, GraphInv, NEW n \in DOMAIN cfg.modules, InlineModule(n)
  PROVE  TypeInv' /\ GraphInv'
<1>1. /\ phase = "modules" /\ Terraform /\ left' \subseteq left
      /\ UNCHANGED <<cfg, phase, at, moved, verdicts>>
  BY DEF InlineModule, TypeInv
<1>2. TypeInv'
  BY <1>1 DEF TypeInv, Terraform
<1>3. AreBlocks(cfg.modules[n].blocks)
  BY ConfigAssumption DEF TypeInv, AreCalls
<1> DEFINE made == {Inlined(n, i) : i \in Calls(cfg.modules[n], Env(Vars, known))}
<1>4. \A f \in made : \A x \in DOMAIN f : IsFresh(f[x])
  BY <1>3, InlinedFresh
<1>5. graph' = [a \in DOMAIN graph \cup UNION {DOMAIN f : f \in made} |->
                  IF a \in DOMAIN graph THEN graph[a]
                  ELSE (CHOOSE f \in made : a \in DOMAIN f)[a]]
  BY DEF InlineModule
<1>6. \A x \in DOMAIN graph : IsFresh(graph[x])
  BY <1>1 DEF GraphInv, IsFresh
<1> HIDE DEF made
<1>7. ASSUME NEW x \in DOMAIN graph' PROVE IsFresh(graph'[x])
  <2>1. CASE x \in DOMAIN graph
    BY <1>5, <1>6, <2>1
  <2>2. CASE x \notin DOMAIN graph
    <3> DEFINE g == CHOOSE f \in made : x \in DOMAIN f
    <3>1. \E f \in made : x \in DOMAIN f
      BY <1>5, <2>2
    <3>2. g \in made /\ x \in DOMAIN g
      BY <3>1
    <3>3. graph'[x] = g[x]
      BY <1>5, <2>2
    <3> HIDE DEF g
    <3> QED BY <1>4, <3>2, <3>3
  <2> QED BY <2>1, <2>2
<1> QED BY <1>1, <1>2, <1>7, FreshStep DEF IsFresh

LEMMA ResolveGraph == TypeInv /\ GraphInv /\ ResolveReferences => TypeInv' /\ GraphInv'
<1> SUFFICES ASSUME TypeInv, GraphInv, ResolveReferences PROVE TypeInv' /\ GraphInv'
  OBVIOUS
<1>1. /\ phase = "modules" /\ phase' = "attach" /\ Terraform
      /\ UNCHANGED <<cfg, at, moved, verdicts>>
      /\ left' = DOMAIN graph
  BY DEF ResolveReferences, TypeInv
<1>2. graph' = [a \in DOMAIN graph |-> Referred(graph[a], a)]
  BY DEF ResolveReferences
<1>3. ASSUME NEW a, NEW r, IsFresh(r) PROVE IsFresh(Referred(r, a))
  <2>1. DOMAIN r = Fields /\ IsList(r.rules) /\ r.merged = None
    BY <1>3 DEF IsFresh, IsResource
  <2>2. /\ DOMAIN Referred(r, a) = Fields /\ Referred(r, a).merged = None
        /\ Referred(r, a).rules = [i \in DOMAIN r.rules |-> RuleReferTo(r.rules[i], a)]
    BY <2>1 DEF Fields, Referred
  <2>3. IsList([i \in DOMAIN r.rules |-> RuleReferTo(r.rules[i], a)])
    BY <2>1, ListOver
  <2> QED BY <2>2, <2>3 DEF IsFresh, IsResource
<1>4. \A a \in DOMAIN graph : IsFresh(graph[a])
  BY <1>1 DEF GraphInv, IsFresh
<1>5. DOMAIN graph' = DOMAIN graph /\ \A a \in DOMAIN graph' : IsFresh(graph'[a])
  BY <1>2, <1>3, <1>4
<1>6. TypeInv'
  BY <1>1, <1>5 DEF TypeInv, Terraform
<1> QED BY <1>1, <1>5, <1>6, FreshStep DEF IsFresh

LEMMA TargetFacts ==
  ASSUME NEW r, Target(r) # None
  PROVE  /\ Target(r) \in DOMAIN graph
         /\ ParentType(r.type) # None
         /\ Is(r.parent, "ref") => r.parent.ref \in DOMAIN graph
         /\ RefersToGroup(r) => graph[Target(r)].type = ParentType(r.type)
<1>1. ParentType(r.type) # None
  BY DEF Target
<1>2. CASE Is(r.parent, "ref")
  <2>1. Target(r) = TierA(r)
    BY <1>1, <1>2 DEF Target
  <2>2. /\ r.parent.ref \in DOMAIN graph /\ TierA(r) = r.parent.ref
        /\ r.type = "sgrule" \/ graph[r.parent.ref].type = ParentType(r.type)
    BY <2>1 DEF TierA
  <2>3. r.type = "sgrule" => ParentType(r.type) = "sg"
    BY DEF ParentType
  <2> QED BY <1>1, <1>2, <2>1, <2>2, <2>3 DEF RefersToGroup
<1>3. CASE ~Is(r.parent, "ref")
  <2> DEFINE S == Candidates(ParentType(r.type), r.parent.lit)
  <2>1. Target(r) = Unique(S)
    BY <1>1, <1>3 DEF Target
  <2>2. Unique(S) \in S
    BY <2>1 DEF Unique
  <2> QED BY <1>1, <1>3, <2>1, <2>2 DEF Candidates
<1> QED BY <1>2, <1>3

LEMMA AddedIsList ==
  ASSUME \A b \in DOMAIN graph : IsResource(graph[b]),
         NEW a \in DOMAIN graph, Added(graph[a]) # None
  PROVE  IsList(Added(graph[a]))
<1>1. \A b \in DOMAIN graph : IsList(graph[b].rules)
  BY DEF IsResource
<1>2. ASSUME NEW S, S \subseteq DOMAIN graph, Unique(S) # None
      PROVE  Unique(S) \in DOMAIN graph
  BY <1>2 DEF Unique
<1>3. \A x, y : Candidates(x, y) \subseteq DOMAIN graph
  BY DEF Candidates
<1>4. ASSUME NEW r, PolicyRules(r) # None PROVE IsList(PolicyRules(r))
  <2>1. PolicyFound(r) # None => PolicyFound(r) \in DOMAIN graph
    BY <1>2, <1>3 DEF PolicyFound
  <2> QED BY <1>1, <1>4, <2>1, ShortLists DEF PolicyRules
<1> QED BY <1>1, <1>4 DEF Added

(* What the target of a rule is of is not merged itself.                    *)
LEMMA ParentsHaveNone == \A t : ParentType(t) # None => ParentType(ParentType(t)) = None
BY DEF ParentType

LEMMA AttachGraph ==
  ASSUME TypeInv, GraphInv, NEW a \in DOMAIN graph, Attach(a)
  PROVE  TypeInv' /\ GraphInv'
<1> DEFINE r == graph[a] t == Target(r)
<1>1. /\ phase = "attach" /\ phase' = "attach" /\ a \in left /\ Terraform
      /\ left' = left \ {a} /\ UNCHANGED <<cfg, at, verdicts>>
  BY DEF Attach, TypeInv
<1>2. r.merged = None
  BY <1>1 DEF GraphInv
<1>3. CASE graph' = graph
  <2>1. TypeInv'
    BY <1>1, <1>3 DEF TypeInv, Terraform
  <2>2. \A b \in DOMAIN graph : KeptOf(b)'
    BY <1>3 DEF GraphInv, KeptOf, IsTarget, RefersToGroup
  <2> QED BY <1>1, <1>3, <2>1, <2>2 DEF GraphInv, Terraform
<1>4. CASE graph' # graph
  <2>1. t # None /\ Added(r) # None /\ graph' = Merged(a, t, Added(r))
    BY <1>4 DEF Attach
  <2>2. /\ t \in DOMAIN graph /\ ParentType(r.type) # None
        /\ Is(r.parent, "ref") => r.parent.ref \in DOMAIN graph
        /\ RefersToGroup(r) => graph[t].type = ParentType(r.type)
    BY <2>1, TargetFacts
  <2>3. \A b \in DOMAIN graph : IsResource(graph[b])
    BY <1>1 DEF GraphInv
  <2>4. IsList(Added(r))
    BY <2>1, <2>3, AddedIsList
  <2> DEFINE added == Added(r)
  <2>5. /\ DOMAIN graph' = DOMAIN graph
        /\ \A b \in DOMAIN graph :
              /\ DOMAIN graph'[b] = Fields
              /\ graph'[b].type = graph[b].type /\ graph'[b].parent = graph[b].parent
              /\ graph'[b].merged = IF b = a THEN t ELSE graph[b].merged
              /\ graph'[b].rules = IF b = t THEN graph[b].rules \o added
                                            ELSE graph[b].rules
    BY <2>1, <2>2, <2>3, MergedGraph
  <2>6. TypeInv'
    BY <1>1, <2>5 DEF TypeInv, Terraform
  <2>7. \A b \in DOMAIN graph : ToSet(graph[b].rules) \subseteq ToSet(graph'[b].rules)
    BY <2>3, <2>4, <2>5, Concatenation DEF IsResource
  <2>8. \A b \in DOMAIN graph' : IsResource(graph'[b])
    BY <2>3, <2>4, <2>5, Concatenation DEF IsResource
  <2>9. \A b \in left' : b \in DOMAIN graph' => graph'[b].merged = None
    BY <1>1, <2>5 DEF GraphInv
  <2> HIDE DEF added, r, t
  <2>10. ASSUME NEW b \in DOMAIN graph, graph'[b].merged # None
         PROVE  KeptOf(b)'
    <3> DEFINE s == graph[b] m == graph'[b].merged
    <3>1. /\ m \in DOMAIN graph /\ ParentType(s.type) # None
          /\ Is(s.parent, "ref") => s.parent.ref \in DOMAIN graph
          /\ RefersToGroup(s) => graph[m].type = ParentType(s.type)
      <4>1. CASE b = a
        BY <2>2, <2>5, <4>1 DEF r
      <4>2. CASE b # a
        BY <2>5, <2>10, <4>2 DEF GraphInv, KeptOf
      <4> QED BY <4>1, <4>2
    <3>2. (s.type = "sgrule" /\ Is(s.parent, "ref") => graph'[s.parent.ref].type = "sg")
            <=> RefersToGroup(s)
      <4>1. Is(s.parent, "ref") => graph'[s.parent.ref].type = graph[s.parent.ref].type
        BY <2>5, <3>1
      <4> HIDE DEF s
      <4> QED BY <4>1 DEF RefersToGroup
    <3>3. ASSUME RefersToGroup(s), s.type \in Verified, ~IsTarget(b)'
          PROVE  ToSet(graph'[b].rules) \subseteq ToSet(graph'[m].rules)
      <4>1. b # t
        <5>1. graph'[a].merged = t /\ a \in DOMAIN graph'
          BY <2>5
        <5> QED BY <3>3, <5>1 DEF IsTarget
      <4>2. graph'[b].rules = s.rules
        BY <2>5, <4>1
      <4>3. CASE b = a
        <5>1. added = s.rules /\ m = t
          BY <2>5, <3>3, <4>3 DEF added, Added, Verified, SgTypes, NsgTypes, IamTypes, r
        <5>2. graph'[t].rules = graph[t].rules \o added
          BY <2>2, <2>5
        <5> QED BY <2>2, <2>3, <2>4, <4>2, <5>1, <5>2, Concatenation DEF IsResource, added
      <4>4. CASE b # a
        <5>1. m = s.merged /\ m # None
          BY <2>5, <2>10, <4>4
        <5>2. ~IsTarget(b)
          <6> SUFFICES ASSUME NEW c \in DOMAIN graph, graph[c].merged = b PROVE FALSE
            BY DEF IsTarget
          <6>1. c = a
            BY <2>5, <3>3 DEF IsTarget
          <6>2. b = None
            BY <1>2, <6>1 DEF r
          <6>3. graph[m].type = ParentType(s.type)
            BY <3>1, <3>3
          <6>4. graph[m].merged = None
            BY <3>1, <6>3, ParentsHaveNone DEF GraphInv, KeptOf
          <6>5. m # a
            BY <2>2, <3>1, <6>3, ParentsHaveNone DEF r
          <6>6. graph'[m].merged = b /\ m \in DOMAIN graph'
            BY <2>5, <3>1, <6>2, <6>4, <6>5
          <6> QED BY <3>3, <6>6 DEF IsTarget
        <5>3. ToSet(s.rules) \subseteq ToSet(graph[m].rules)
          BY <3>3, <5>1, <5>2 DEF GraphInv, KeptOf
        <5> QED BY <2>7, <3>1, <4>2, <5>3
      <4> QED BY <4>3, <4>4
    <3>4. graph'[b].type = s.type /\ graph'[b].parent = s.parent /\ graph'[m].type = graph[m].type
      BY <2>5, <3>1
    <3> HIDE DEF s
    <3>5. RefersToGroup(s) =>
            /\ graph'[m].type = ParentType(s.type)
            /\ s.type \in Verified /\ ~IsTarget(b)' =>
                 ToSet(graph'[b].rules) \subseteq ToSet(graph'[m].rules)
      BY <3>1, <3>3, <3>4
    <3> HIDE DEF m
    <3> DEFINE q == graph'[b]
    <3>6. /\ q.merged # None => m \in DOMAIN graph' /\ ParentType(q.type) # None
          /\ Is(q.parent, "ref") => q.parent.ref \in DOMAIN graph'
          /\ (q.type = "sgrule" /\ Is(q.parent, "ref") => graph'[q.parent.ref].type = "sg") =>
                /\ graph'[m].type = ParentType(q.type)
                /\ q.type \in Verified /\ ~IsTarget(b)' =>
                     ToSet(q.rules) \subseteq ToSet(graph'[m].rules)
      BY <2>5, <3>1, <3>2, <3>4, <3>5
    <3> QED BY <3>6 DEF KeptOf, RefersToGroup, m
  <2>11. \A b \in DOMAIN graph' : KeptOf(b)'
    <3>1. ASSUME NEW b \in DOMAIN graph, graph'[b].merged = None PROVE KeptOf(b)'
      BY <3>1 DEF KeptOf
    <3> QED BY <2>5, <2>10, <3>1
  <2> QED BY <1>1, <2>6, <2>8, <2>9, <2>11 DEF GraphInv, Terraform
<1> QED BY <1>3, <1>4

LEMMA VerifyGraph == TypeInv /\ GraphInv /\ Verify => TypeInv' /\ GraphInv'
<1> SUFFICES ASSUME TypeInv, GraphInv, Verify PROVE TypeInv' /\ GraphInv'
  OBVIOUS
<1>1. /\ phase = "attach" /\ phase' = "done" /\ left = {}
      /\ UNCHANGED <<cfg, at, left, graph>>
      /\ verdicts' = [a \in ToVerify |-> Verdict(graph[a])]
  BY DEF Verify
<1>2. TypeInv'
  BY <1>1 DEF TypeInv, Terraform
<1>3. \A b \in DOMAIN graph : KeptOf(b)'
  BY <1>1 DEF GraphInv, KeptOf, IsTarget, RefersToGroup
<1>4. verdicts' = [a \in ToVerify' |-> Verdict(graph'[a])]
  BY <1>1 DEF ToVerify
<1> QED BY <1>1, <1>2, <1>3, <1>4 DEF GraphInv, Terraform

LEMMA StepGraph == TypeInv /\ GraphInv /\ [Next]_vars => TypeInv' /\ GraphInv'
<1> SUFFICES ASSUME TypeInv, GraphInv, [Next]_vars PROVE TypeInv' /\ GraphInv'
  OBVIOUS
<1>1. CASE UNCHANGED vars
  <2>1. TypeInv'
    BY <1>1 DEF TypeInv, Terraform, vars
  <2>2. \A b \in DOMAIN graph : KeptOf(b)'
    BY <1>1 DEF GraphInv, KeptOf, IsTarget, RefersToGroup, vars
  <2>3. ToVerify' = ToVerify
    BY <1>1 DEF ToVerify, vars
  <2> QED BY <1>1, <2>1, <2>2, <2>3 DEF GraphInv, Terraform, vars
<1>2. CASE ReadResource
  BY <1>2, ReadResourceGraph
<1>3. CASE EndTemplate
  BY <1>3, EndTemplateGraph
<1>4. CASE TryLocal \/ NextPass \/ GiveUp \/ EndLocals \/ EndExpand
  BY <1>4, PassesGraph
<1>5. ASSUME NEW a \in DOMAIN cfg.blocks, Expand(a) PROVE TypeInv' /\ GraphInv'
  BY <1>5, ExpandGraph
<1>6. ASSUME NEW n \in DOMAIN cfg.modules, InlineModule(n) PROVE TypeInv' /\ GraphInv'
  BY <1>6, InlineGraph
<1>7. CASE ResolveReferences
  BY <1>7, ResolveGraph
<1>8. ASSUME NEW a \in DOMAIN graph, Attach(a) PROVE TypeInv' /\ GraphInv'
  BY <1>8, AttachGraph
<1>9. CASE Verify
  BY <1>9, VerifyGraph
<1> QED BY <1>1, <1>2, <1>3, <1>4, <1>5, <1>6, <1>7, <1>8, <1>9 DEF Next

-----------------------------------------------------------------------------
(* The verdicts.                                                            *)

LEMMA VerdictOf ==
  ASSUME NEW r, r.type \in Verified, r.type \in SgTypes => IsList(r.rules)
  PROVE  Verdict(r) \in {"sat", "unsat", "unresolvable", "crash"}
<1>1. CASE r.type \in SgTypes
  <2> DEFINE rules == r.rules
  <2> DEFINE stops == {i \in 1..Len(rules) : SgStop(rules[i]) # "none"}
  <2>1. \A x : SgStop(x) \in {"none", "unresolvable", "crash"}
    BY DEF SgStop
  <2>2. stops # {} => Min(stops) \in stops
    <3>1. stops \in SUBSET Nat
      BY <1>1, ListDomain
    <3> HIDE DEF stops
    <3> QED BY <3>1, LeastElement DEF Min
  <2>3. VerifySecurityGroup(rules) \in {"sat", "unsat", "unresolvable", "crash"}
    BY <2>1, <2>2 DEF VerifySecurityGroup
  <2>4. Verdict(r) = VerifySecurityGroup(rules)
    BY <1>1 DEF Verdict, SgTypes, NsgTypes, IamTypes
  <2> QED BY <2>3, <2>4
<1>2. CASE r.type \in NsgTypes
  <2>1. Verdict(r) = VerifyAzureNsg(r.rules)
    BY <1>2 DEF Verdict, SgTypes, NsgTypes, IamTypes
  <2> QED BY <2>1 DEF VerifyAzureNsg
<1>3. CASE r.type \in IamTypes
  <2>1. Verdict(r) = VerifyIamPolicy(r.rules)
    BY <1>3 DEF Verdict, SgTypes, NsgTypes, IamTypes
  <2> QED BY <2>1 DEF VerifyIamPolicy
<1> QED BY <1>1, <1>2, <1>3 DEF Verified

LEMMA GraphKeepsRules == TypeInv /\ GraphInv => RulesAreKept
<1> SUFFICES ASSUME TypeInv, GraphInv, phase = "done",
                    NEW a \in DOMAIN graph,
                    graph[a].type \in Verified, graph[a].merged # None,
                    ~\E b \in DOMAIN graph : graph[b].merged = a,
                    graph[a].type = "sgrule" =>
                      (Is(graph[a].parent, "ref") => graph[graph[a].parent.ref].type = "sg")
             PROVE  /\ graph[a].merged \in DOMAIN verdicts
                    /\ graph[graph[a].merged].type = ParentType(graph[a].type)
                    /\ ToSet(graph[a].rules) \subseteq ToSet(graph[graph[a].merged].rules)
  BY DEF RulesAreKept
<1> DEFINE r == graph[a] m == r.merged
<1>1. /\ m \in DOMAIN graph /\ graph[m].type = ParentType(r.type)
      /\ ParentType(r.type) # None
      /\ ToSet(r.rules) \subseteq ToSet(graph[m].rules)
  BY DEF GraphInv, KeptOf, IsTarget, RefersToGroup
<1>2. graph[m].merged = None
  BY <1>1, ParentsHaveNone DEF GraphInv, KeptOf
<1>3. graph[m].type \in Verified
  BY <1>1 DEF ParentType, Verified, SgTypes, NsgTypes, IamTypes
<1>4. m \in DOMAIN verdicts
  BY <1>1, <1>2, <1>3 DEF GraphInv, ToVerify
<1> QED BY <1>1, <1>4

LEMMA GraphTypes ==
  TypeInv /\ GraphInv =>
    /\ \A a \in DOMAIN graph : graph[a].merged \in {None} \cup DOMAIN graph
    /\ \A a \in DOMAIN verdicts :
         /\ graph[a].merged = None
         /\ verdicts[a] \in {"sat", "unsat", "unresolvable", "crash"}
<1> SUFFICES ASSUME TypeInv, GraphInv
             PROVE  /\ \A a \in DOMAIN graph : graph[a].merged \in {None} \cup DOMAIN graph
                    /\ \A a \in DOMAIN verdicts :
                         /\ graph[a].merged = None
                         /\ verdicts[a] \in {"sat", "unsat", "unresolvable", "crash"}
  OBVIOUS
<1>1. \A a \in DOMAIN graph : graph[a].merged \in {None} \cup DOMAIN graph
  BY DEF GraphInv, KeptOf
<1>2. ASSUME NEW a \in DOMAIN verdicts
      PROVE  graph[a].merged = None /\ verdicts[a] \in {"sat", "unsat", "unresolvable", "crash"}
  <2>1. /\ a \in DOMAIN graph /\ graph[a].merged = None /\ graph[a].type \in Verified
        /\ verdicts[a] = Verdict(graph[a])
    BY DEF GraphInv, ToVerify
  <2>2. graph[a].type \in SgTypes => IsList(graph[a].rules)
    BY <2>1 DEF GraphInv, IsResource
  <2> QED BY <2>1, <2>2, VerdictOf
<1> QED BY <1>1, <1>2

-----------------------------------------------------------------------------
(* Values: when a name more, or one that has another value, makes a          *)
(* difference.                                                              *)

LEMMA SourcesFacts ==
  /\ \A v : ~Is(v, "items") => Sources(v) = {v}
  /\ \A s : Sources(Items(s)) = UNION {Entries(x) : x \in ToSet(s)}
<1>1. \A v : ~Is(v, "items") => Sources(v) = {v}
  BY DEF Sources, Entries
<1>2. ASSUME NEW s PROVE Sources(Items(s)) = UNION {Entries(x) : x \in ToSet(s)}
  <2>1. Is(Items(s), "items")
    BY DEF Is, Items
  <2>2. Items(s).items = s
    BY DEF Items
  <2> QED BY <2>1, <2>2 DEF Sources, Entries
<1> QED BY <1>1, <1>2

LEMMA UnresolvedFacts ==
  /\ IsUnresolved(Gone) /\ ~IsUnresolved(Absent)
  /\ \A x : ~IsUnresolved(Lit(x)) /\ ~IsUnresolved(Items(x))
  /\ \A v : Whole(v) => ~IsUnresolved(v) /\ v # Absent
  /\ ~Whole(Lit(ListText))
<1>1. IsUnresolved(Gone) /\ ~IsUnresolved(Absent)
  BY DEF IsUnresolved, Is, Gone, Absent
<1>2. \A x : ~IsUnresolved(Lit(x)) /\ ~IsUnresolved(Items(x))
  BY DEF IsUnresolved, Is, Lit, Items
<1>3. ASSUME NEW v, Whole(v) PROVE ~IsUnresolved(v) /\ v # Absent
  <2>1. CASE Is(v, "items")
    BY <2>1 DEF IsUnresolved, Is, Absent
  <2>2. CASE ~Is(v, "items")
    BY <1>3, <2>2, SourcesFacts DEF Whole, IsKnown
  <2> QED BY <2>1, <2>2
<1>4. ~Whole(Lit(ListText))
  <2>1. ~Is(Lit(ListText), "items")
    BY DEF Is, Lit
  <2> QED BY <2>1, SourcesFacts DEF Whole, IsKnown
<1> QED BY <1>1, <1>2, <1>3, <1>4

(* The items of a whole list are whole.                                     *)
LEMMA WholeItems ==
  ASSUME NEW s, Whole(Items(s)), NEW i \in DOMAIN s
  PROVE  Whole(s[i])
<1> DEFINE v == s[i]
<1>1. Entries(v) \subseteq Sources(Items(s))
  BY SourcesFacts DEF ToSet
<1>2. CASE ~Is(v, "items")
  BY <1>1, <1>2, SourcesFacts DEF Whole, IsKnown, Entries
<1>3. CASE Is(v, "items")
  <2>1. Entries(v) = ToSet(v.items)
    BY <1>3 DEF Entries
  <2>2. \A x \in ToSet(v.items) : ~Is(x, "items")
    BY <1>1, <2>1 DEF Whole, IsKnown
  <2>3. Sources(v) = ToSet(v.items)
    BY <2>1, <2>2 DEF Sources, Entries
  <2> QED BY <1>1, <2>1, <2>3 DEF Whole, IsKnown
<1> QED BY <1>2, <1>3

Extends(g, f) == \A x \in DOMAIN f : x \in DOMAIN g /\ g[x] = f[x]

AgreesOnWhole(g, f) ==
  \A x \in DOMAIN f : Whole(f[x]) => x \in DOMAIN g /\ g[x] = f[x]

LEMMA InterpolateFacts ==
  \A v : /\ IsUnresolved(Interpolate(v)) <=> IsUnresolved(v)
         /\ Whole(Interpolate(v)) => Whole(v)
<1> SUFFICES ASSUME NEW v
             PROVE  /\ IsUnresolved(Interpolate(v)) <=> IsUnresolved(v)
                    /\ Whole(Interpolate(v)) => Whole(v)
  OBVIOUS
<1>1. CASE IsUnresolved(v)
  BY <1>1 DEF Interpolate
<1>2. CASE ~IsUnresolved(v) /\ Is(v, "lit")
  <2>1. Interpolate(v) = Lit(Around[v.lit])
    BY <1>2 DEF Interpolate
  <2>2. v.lit = ListText => ~Whole(Interpolate(v))
    BY <2>1, UnresolvedFacts, TruthAssumption
  <2>3. v.lit # ListText => Whole(v)
    <3>1. v # Absent /\ ~Is(v, "items")
      BY <1>2 DEF Is, Absent
    <3>2. v.lit # ListText => v # Lit(ListText)
      BY DEF Lit
    <3> QED BY <1>2, <3>1, <3>2, SourcesFacts DEF Whole, IsKnown
  <2> QED BY <1>2, <2>1, <2>2, <2>3, UnresolvedFacts
<1>3. CASE ~IsUnresolved(v) /\ ~Is(v, "lit")
  BY <1>3, UnresolvedFacts DEF Interpolate
<1> QED BY <1>1, <1>2, <1>3

(* What has a value keeps it when names are added.                          *)
LEMMA ScalarStays ==
  ASSUME NEW e, NEW vs, NEW f, NEW g, Extends(g, f),
         ~IsUnresolved(ResolveScalar(e, vs, f))
  PROVE  ResolveScalar(e, vs, g) = ResolveScalar(e, vs, f)
<1>1. ASSUME NEW x, ~IsUnresolved(Lookup(x, vs, f))
      PROVE  Lookup(x, vs, g) = Lookup(x, vs, f)
  BY <1>1, UnresolvedFacts DEF Lookup, Extends
<1> QED BY <1>1, InterpolateFacts DEF ResolveScalar

(* What is unresolved stays so when a name is added that is unresolved.     *)
LEMMA ScalarStuck ==
  ASSUME NEW e, NEW vs, NEW f, NEW n, NEW v, IsUnresolved(v),
         IsUnresolved(ResolveScalar(e, vs, f))
  PROVE  IsUnresolved(ResolveScalar(e, vs, Overlay(f, Single(n, v))))
<1> DEFINE g == Overlay(f, Single(n, v))
<1>1. /\ DOMAIN g = DOMAIN f \cup {n}
      /\ \A x \in DOMAIN f : g[x] = f[x]
      /\ n \notin DOMAIN f => g[n] = v
  BY DEF Overlay, Single
<1> HIDE DEF g
<1>2. ASSUME NEW x, IsUnresolved(Lookup(x, vs, f))
      PROVE  IsUnresolved(Lookup(x, vs, g))
  BY <1>1, <1>2, UnresolvedFacts DEF Lookup
<1>3. IsUnresolved(ResolveScalar(e, vs, g))
  BY <1>2, InterpolateFacts DEF ResolveScalar
<1> QED BY <1>3 DEF g

(* What is whole came from whole values only.                               *)
LEMMA ScalarWhole ==
  ASSUME NEW e, NEW vs, NEW f, NEW g, AgreesOnWhole(g, f),
         Whole(ResolveScalar(e, vs, f))
  PROVE  ResolveScalar(e, vs, g) = ResolveScalar(e, vs, f)
<1>1. ASSUME NEW x, Whole(Lookup(x, vs, f))
      PROVE  Lookup(x, vs, g) = Lookup(x, vs, f)
  BY <1>1, UnresolvedFacts DEF Lookup, AgreesOnWhole
<1> QED BY <1>1, InterpolateFacts DEF ResolveScalar

LEMMA ResolveWhole ==
  ASSUME NEW e, NEW vs, NEW f, NEW g, AgreesOnWhole(g, f),
         Whole(Resolve(e, vs, f))
  PROVE  Resolve(e, vs, g) = Resolve(e, vs, f)
<1>1. CASE ~Is(e, "items")
  BY <1>1, ScalarWhole DEF Resolve
<1>2. CASE Is(e, "items")
  <2> DEFINE ItemsOf(h) == [i \in DOMAIN e.items |-> ResolveScalar(e.items[i], vs, h)]
  <2>1. \A h : Resolve(e, vs, h) = Items(ItemsOf(h))
    BY <1>2 DEF Resolve
  <2>2. Whole(Items(ItemsOf(f)))
    <3> HIDE DEF ItemsOf
    <3> QED BY <2>1
  <2>3. ASSUME NEW i \in DOMAIN e.items PROVE Whole(ResolveScalar(e.items[i], vs, f))
    <3>1. i \in DOMAIN ItemsOf(f) /\ ItemsOf(f)[i] = ResolveScalar(e.items[i], vs, f)
      OBVIOUS
    <3> HIDE DEF ItemsOf
    <3> QED BY <2>2, <3>1, WholeItems
  <2>4. ItemsOf(f) = ItemsOf(g)
    BY <2>3, ScalarWhole
  <2> HIDE DEF ItemsOf
  <2> QED BY <2>1, <2>4
<1> QED BY <1>1, <1>2

-----------------------------------------------------------------------------
(* The rounds.                                                              *)

LEMMA RoundStays == cfg' = cfg => Round' = Round
BY DEF Round, Locals, LocalValue, Vars

NextRound(f) == [n \in {m \in Locals : Whole(LocalValue(m, f))} |-> LocalValue(n, f)]

(* Functions defined by recursion on a number: the values of a template's    *)
(* expressions, as the parser finds them and as they are meant.             *)
AtFirst(kind) ==
  CASE kind = "round" -> NoNames
    [] kind = "eval" -> [x \in ArmExprs |-> Endless]
    [] OTHER -> [x \in ArmExprs |-> Gone]

Further(kind, f) ==
  CASE kind = "round" -> NextRound(f)
    [] kind = "eval" -> [x \in ArmExprs |-> EvalStep(x, f, cfg.template)]
    [] OTHER -> [x \in ArmExprs |-> MeansStep(x, f, cfg.template)]

(* g holds the levels up to n.                                              *)
LevelsTo(kind, n, g) ==
  /\ g[0] = AtFirst(kind)
  /\ \A k \in 0..n : k # n => g[k + 1] = Further(kind, g[k])

LEMMA LevelsAgree ==
  ASSUME NEW kind, NEW n \in Nat, NEW m \in Nat, NEW f, NEW g,
         LevelsTo(kind, n, f), LevelsTo(kind, m, g)
  PROVE  \A k \in Nat : k <= n /\ k <= m => f[k] = g[k]
<1> DEFINE S == {k \in Nat : k <= n /\ k <= m => f[k] = g[k]}
<1>1. 0 \in S
  BY DEF LevelsTo
<1>2. ASSUME NEW k \in Nat, k \in S PROVE k + 1 \in S
  <2> SUFFICES ASSUME k + 1 <= n, k + 1 <= m PROVE f[k + 1] = g[k + 1]
    OBVIOUS
  <2>1. k \in 0..n /\ k # n /\ k \in 0..m /\ k # m /\ k <= n /\ k <= m
    OBVIOUS
  <2>2. f[k] = g[k]
    BY <1>2, <2>1
  <2> QED BY <2>1, <2>2 DEF LevelsTo
<1> HIDE DEF S
<1>3. \A k \in Nat : k \in S
  BY <1>1, <1>2, Induction
<1> QED BY <1>3 DEF S

LEMMA LevelsExist == \A kind : \A n \in Nat : \E g : LevelsTo(kind, n, g)
<1> SUFFICES ASSUME NEW kind PROVE \A n \in Nat : \E g : LevelsTo(kind, n, g)
  OBVIOUS
<1> DEFINE S == {n \in Nat : \E g : LevelsTo(kind, n, g)}
<1>1. 0 \in S
  <2> DEFINE g == [k \in {0} |-> AtFirst(kind)]
  <2>1. LevelsTo(kind, 0, g)
    BY DEF LevelsTo
  <2> QED BY <2>1
<1>2. ASSUME NEW n \in Nat, n \in S PROVE n + 1 \in S
  <2>1. PICK g : LevelsTo(kind, n, g)
    BY <1>2
  <2> DEFINE h == [k \in 0..(n + 1) |-> IF k = n + 1 THEN Further(kind, g[n]) ELSE g[k]]
  <2>2. h[0] = AtFirst(kind)
    BY <2>1 DEF LevelsTo
  <2>3. ASSUME NEW k \in 0..(n + 1), k # n + 1 PROVE h[k + 1] = Further(kind, h[k])
    <3>1. k \in 0..n /\ h[k] = g[k]
      BY <2>3
    <3>2. CASE k = n
      <4>1. k + 1 \in 0..(n + 1) /\ k + 1 = n + 1
        BY <3>2
      <4> QED BY <3>1, <3>2, <4>1
    <3>3. CASE k # n
      <4>1. k + 1 \in 0..(n + 1) /\ k + 1 # n + 1
        BY <3>1, <3>3
      <4>2. h[k + 1] = g[k + 1]
        BY <4>1
      <4> HIDE DEF h
      <4> QED BY <2>1, <3>1, <3>3, <4>2 DEF LevelsTo
    <3> QED BY <3>2, <3>3
  <2> HIDE DEF h
  <2>4. LevelsTo(kind, n + 1, h)
    BY <2>2, <2>3 DEF LevelsTo
  <2> QED BY <2>4
<1> HIDE DEF S
<1>3. \A n \in Nat : n \in S
  BY <1>1, <1>2, Induction
<1> QED BY <1>3 DEF S

Levelled(kind, F) ==
  F = [k \in Nat |-> IF k = 0 THEN AtFirst(kind) ELSE Further(kind, F[k - 1])]

LEMMA LevelsAre == \A kind : \E F : Levelled(kind, F)
<1> SUFFICES ASSUME NEW kind PROVE \E F : Levelled(kind, F)
  OBVIOUS
<1> DEFINE G(n) == CHOOSE g : LevelsTo(kind, n, g)
<1> DEFINE F == [n \in Nat |-> G(n)[n]]
<1>1. \A n \in Nat : LevelsTo(kind, n, G(n))
  BY LevelsExist
<1> HIDE DEF G
<1>2. F[0] = AtFirst(kind)
  BY <1>1 DEF LevelsTo
<1>3. ASSUME NEW k \in Nat PROVE F[k + 1] = Further(kind, F[k])
  <2>1. /\ k + 1 \in Nat /\ k \in 0..(k + 1) /\ k # k + 1
        /\ F[k] = G(k)[k] /\ F[k + 1] = G(k + 1)[k + 1]
    OBVIOUS
  <2>2. G(k + 1)[k + 1] = Further(kind, G(k + 1)[k])
    BY <1>1, <2>1 DEF LevelsTo
  <2>3. G(k + 1)[k] = G(k)[k]
    <3>1. k <= k /\ k <= k + 1
      OBVIOUS
    <3> QED BY <1>1, <2>1, <3>1, LevelsAgree
  <2> QED BY <2>1, <2>2, <2>3
<1>4. ASSUME NEW k \in Nat
      PROVE  F[k] = IF k = 0 THEN AtFirst(kind) ELSE Further(kind, F[k - 1])
  <2>1. CASE k = 0
    BY <1>2, <2>1
  <2>2. CASE k # 0
    <3>1. k - 1 \in Nat /\ (k - 1) + 1 = k
      BY <2>2
    <3> HIDE DEF F
    <3>2. F[(k - 1) + 1] = Further(kind, F[k - 1])
      BY <1>3, <3>1
    <3> QED BY <2>2, <3>1, <3>2
  <2> QED BY <2>1, <2>2
<1>5. F = [k \in Nat |-> F[k]]
  OBVIOUS
<1> HIDE DEF F
<1>6. Levelled(kind, F)
  BY <1>4, <1>5 DEF Levelled
<1> QED BY <1>6

LEMMA LevelledIs ==
  ASSUME NEW kind, NEW F, Levelled(kind, F)
  PROVE  /\ F[0] = AtFirst(kind)
         /\ \A k \in Nat : F[k + 1] = Further(kind, F[k])
<1>1. F = [k \in Nat |-> IF k = 0 THEN AtFirst(kind) ELSE Further(kind, F[k - 1])]
  BY DEF Levelled
<1>2. F[0] = AtFirst(kind)
  BY <1>1
<1>3. ASSUME NEW k \in Nat PROVE F[k + 1] = Further(kind, F[k])
  <2>1. k + 1 \in Nat /\ k + 1 # 0 /\ (k + 1) - 1 = k
    OBVIOUS
  <2> QED BY <1>1, <2>1
<1> QED BY <1>2, <1>3

LEMMA RoundIs ==
  /\ Round[0] = NoNames
  /\ \A k \in Nat : Round[k + 1] = NextRound(Round[k])
<1>1. \A f : AtFirst("round") = NoNames /\ Further("round", f) = NextRound(f)
  BY DEF AtFirst, Further
<1> DEFINE Body(g) == [k \in Nat |-> IF k = 0 THEN NoNames
                         ELSE LET before == g[k - 1] IN
                              [n \in {m \in Locals : Whole(LocalValue(m, before))} |->
                                 LocalValue(n, before)]]
<1>2. \A g : Levelled("round", g) <=> g = Body(g)
  BY <1>1 DEF Levelled, NextRound
<1>3. Round = CHOOSE g : g = Body(g)
  BY DEF Round
<1> HIDE DEF Body
<1>4. PICK F : F = Body(F)
  BY <1>2, LevelsAre
<1>5. Round = Body(Round)
  BY <1>3, <1>4
<1> QED BY <1>1, <1>2, <1>5, LevelledIs

(* Each round keeps the last one.                                           *)
LEMMA RoundGrows ==
  /\ \A k \in Nat : DOMAIN Round[k] \subseteq Locals
  /\ \A k \in Nat : \A n \in DOMAIN Round[k] : Whole(Round[k][n])
  /\ \A k \in Nat : Extends(Round[k + 1], Round[k])
<1>1. \A f : /\ DOMAIN NextRound(f) = {m \in Locals : Whole(LocalValue(m, f))}
             /\ \A n \in DOMAIN NextRound(f) : NextRound(f)[n] = LocalValue(n, f)
  BY DEF NextRound
<1>2. DOMAIN Round[0] = {}
  BY RoundIs DEF NoNames
<1>3. ASSUME NEW k \in Nat
      PROVE  /\ DOMAIN Round[k] \subseteq Locals
             /\ \A n \in DOMAIN Round[k] : Whole(Round[k][n])
  <2>1. CASE k = 0
    BY <1>2, <2>1
  <2>2. CASE k # 0
    <3>1. k - 1 \in Nat /\ (k - 1) + 1 = k
      BY <2>2
    <3> DEFINE f == Round[k - 1]
    <3>2. Round[k] = NextRound(f)
      BY <3>1, RoundIs
    <3> HIDE DEF f
    <3>3. \A n \in DOMAIN NextRound(f) : n \in Locals /\ Whole(NextRound(f)[n])
      BY <1>1
    <3> QED BY <3>2, <3>3
  <2> QED BY <2>1, <2>2
<1> DEFINE S == {k \in Nat : Extends(Round[k + 1], Round[k])}
<1>4. 0 \in S
  BY <1>2 DEF Extends
<1>5. ASSUME NEW k \in Nat, k \in S PROVE k + 1 \in S
  <2>1. AgreesOnWhole(Round[k + 1], Round[k])
    BY <1>5 DEF Extends, AgreesOnWhole
  <2>2. ASSUME NEW n \in DOMAIN Round[k + 1]
        PROVE  n \in DOMAIN Round[(k + 1) + 1] /\ Round[(k + 1) + 1][n] = Round[k + 1][n]
    <3>1. /\ n \in Locals /\ Whole(LocalValue(n, Round[k]))
          /\ Round[k + 1][n] = LocalValue(n, Round[k])
      BY <1>1, RoundIs
    <3>2. LocalValue(n, Round[k + 1]) = LocalValue(n, Round[k])
      BY <2>1, <3>1, ResolveWhole DEF LocalValue
    <3>3. Round[(k + 1) + 1] = NextRound(Round[k + 1])
      BY RoundIs
    <3> QED BY <1>1, <3>1, <3>2, <3>3
  <2>3. Extends(Round[(k + 1) + 1], Round[k + 1])
    BY <2>2 DEF Extends
  <2> QED BY <2>3
<1>6. \A k \in Nat : k \in S
  <2> HIDE DEF S
  <2> QED BY <1>4, <1>5, Induction
<1> QED BY <1>3, <1>6

LEMMA RoundKeeps ==
  \A k, m \in Nat : k <= m => Extends(Round[m], Round[k])
<1> SUFFICES ASSUME NEW k \in Nat PROVE \A m \in Nat : k <= m => Extends(Round[m], Round[k])
  OBVIOUS
<1> DEFINE S == {d \in Nat : Extends(Round[k + d], Round[k])}
<1>1. 0 \in S
  BY DEF Extends
<1>2. ASSUME NEW d \in Nat, d \in S PROVE d + 1 \in S
  <2>1. k + d \in Nat /\ (k + d) + 1 = k + (d + 1)
    OBVIOUS
  <2>2. Extends(Round[(k + d) + 1], Round[k + d])
    BY <2>1, RoundGrows
  <2> QED BY <1>2, <2>1, <2>2 DEF Extends
<1>3. \A d \in Nat : d \in S
  <2> HIDE DEF S
  <2> QED BY <1>1, <1>2, Induction
<1>4. ASSUME NEW m \in Nat, k <= m PROVE Extends(Round[m], Round[k])
  <2>1. m - k \in Nat /\ k + (m - k) = m
    BY <1>4
  <2> QED BY <1>3, <2>1
<1> QED BY <1>4

-----------------------------------------------------------------------------
(* The steps, as to the locals.                                             *)

(* The order of the file has every local.                                   *)
LEMMA OrderFacts ==
  ASSUME cfg \in Configs, order \in SetToSeqs(Locals)
  PROVE  /\ Len(order) \in Nat /\ DOMAIN order = 1..Len(order)
         /\ \A i \in DOMAIN order : order[i] \in Locals
         /\ \A n \in Locals : \E i \in DOMAIN order : order[i] = n
<1> DEFINE c == Cardinality(Locals)
<1>1. IsFiniteSet(Locals) /\ c \in Nat
  BY ConfigAssumption, FS_CardinalityType DEF Locals
<1>2. /\ order \in [1..c -> Locals]
      /\ \A i, j \in 1..c : i # j => order[i] # order[j]
  BY DEF SetToSeqs
<1>3. Len(order) = c
  <2> HIDE DEF c
  <2>1. order \in Seq(Locals)
    BY <1>1, <1>2, SeqDef
  <2> QED BY <1>1, <1>2, <2>1, LenProperties
<1>4. ASSUME NEW n \in Locals, \A i \in 1..c : order[i] # n PROVE FALSE
  <2> DEFINE T == Locals \ {n}
  <2>1. IsFiniteSet(T) /\ Cardinality(T) = c - 1
    BY <1>1, FS_RemoveElement
  <2>2. IsFiniteSet(1..c) /\ Cardinality(1..c) = c
    <3> HIDE DEF c
    <3>1. 1 \in Int /\ c \in Int /\ ~(1 > c) => c - 1 + 1 = c
      BY <1>1
    <3> QED BY <1>1, FS_Interval
  <2>3. order \in [1..c -> T]
    BY <1>2, <1>4
  <2>4. Cardinality(T) < Cardinality(1..c)
    <3> HIDE DEF c, T
    <3> QED BY <1>1, <2>1, <2>2
  <2>5. \E i, j \in 1..c : i # j /\ order[i] = order[j]
    <3> HIDE DEF c, T
    <3> QED BY <2>1, <2>2, <2>3, <2>4, FS_PigeonHole
  <2> QED BY <1>2, <2>5
<1> HIDE DEF c
<1> QED BY <1>1, <1>2, <1>3, <1>4

(* Every name is known as some round knows it, if it is whole.              *)
LEMMA KnownAgrees ==
  ASSUME IsFiniteSet(DOMAIN known), WholeIsMeant
  PROVE  AgreesOnWhole(Round[Cardinality(DOMAIN known)], known)
<1> DEFINE c == Cardinality(DOMAIN known)
<1>1. c \in Nat
  BY FS_CardinalityType
<1>2. ASSUME NEW n \in DOMAIN known, Whole(known[n])
      PROVE  n \in DOMAIN Round[c] /\ Round[c][n] = known[n]
  <2>1. PICK k \in 0..c : n \in DOMAIN Round[k] /\ Round[k][n] = known[n]
    BY <1>2 DEF WholeIsMeant
  <2>2. k \in Nat /\ k <= c
    BY <1>1, <2>1
  <2>3. Extends(Round[c], Round[k])
    <3> HIDE DEF c
    <3> QED BY <1>1, <2>2, RoundKeeps
  <2> QED BY <2>1, <2>3 DEF Extends
<1> QED BY <1>2 DEF AgreesOnWhole

(* A name is added, with the value that it has now or one that is not whole. *)
LEMMA AddKeepsMeaning ==
  ASSUME IsFiniteSet(Locals), DOMAIN known \subseteq Locals, WholeIsMeant,
         NEW n \in Locals \ DOMAIN known, NEW v,
         Whole(v) => v = LocalValue(n, known),
         known' = Overlay(known, Single(n, v)), cfg' = cfg
  PROVE  WholeIsMeant'
<1> DEFINE c == Cardinality(DOMAIN known)
<1>1. /\ DOMAIN known' = DOMAIN known \cup {n} /\ known'[n] = v
      /\ \A x \in DOMAIN known : known'[x] = known[x]
  BY DEF Overlay, Single
<1>2. IsFiniteSet(DOMAIN known) /\ c \in Nat
  BY FS_Subset, FS_CardinalityType
<1>3. Cardinality(DOMAIN known') = c + 1
  BY <1>1, <1>2, FS_AddElement
<1>4. Round' = Round
  BY RoundStays
<1> HIDE DEF c
<1>5. ASSUME NEW x \in DOMAIN known', Whole(known'[x])
      PROVE  \E k \in 0..(c + 1) : x \in DOMAIN Round[k] /\ Round[k][x] = known'[x]
  <2>1. CASE x \in DOMAIN known
    <3>1. known'[x] = known[x]
      BY <1>1, <2>1
    <3>2. PICK k \in 0..c : x \in DOMAIN Round[k] /\ Round[k][x] = known[x]
      BY <1>5, <2>1, <3>1 DEF WholeIsMeant, c
    <3>3. k \in 0..(c + 1)
      BY <1>2, <3>2
    <3> QED BY <3>1, <3>2, <3>3
  <2>2. CASE x \notin DOMAIN known
    <3>1. x = n /\ v = LocalValue(n, known) /\ Whole(v) /\ known'[x] = v
      BY <1>1, <1>5, <2>2
    <3>2. AgreesOnWhole(Round[c], known)
      BY <1>2, KnownAgrees DEF c
    <3>3. LocalValue(n, Round[c]) = v
      BY <3>1, <3>2, ResolveWhole DEF LocalValue
    <3>4. Round[c + 1] = NextRound(Round[c])
      BY <1>2, RoundIs
    <3>5. n \in DOMAIN NextRound(Round[c]) /\ NextRound(Round[c])[n] = v
      BY <3>1, <3>3 DEF NextRound
    <3>6. c + 1 \in 0..(c + 1)
      BY <1>2
    <3> QED BY <3>1, <3>4, <3>5, <3>6
  <2> QED BY <2>1, <2>2
<1> QED BY <1>3, <1>4, <1>5 DEF WholeIsMeant

(* The value of a local, by the form of its expression.                     *)
LEMMA ValueIsScalar ==
  \A n, f : /\ IsScalar(n) => LocalValue(n, f) = ResolveScalar(OnlyItem(cfg.locals[n]), Vars, f)
            /\ ~IsScalar(n) => ~IsUnresolved(LocalValue(n, f))
BY UnresolvedFacts DEF IsScalar, LocalValue, Resolve

LEMMA AddResolved ==
  ASSUME ScalarIsValue, \A m \in DOMAIN known : ~IsUnresolved(known[m]),
         NEW n, n \notin DOMAIN known, ~IsUnresolved(LocalValue(n, known)),
         known' = Overlay(known, Single(n, LocalValue(n, known))), cfg' = cfg
  PROVE  /\ ScalarIsValue'
         /\ \A m \in DOMAIN known' : ~IsUnresolved(known'[m])
<1> DEFINE v == LocalValue(n, known)
<1>1. /\ DOMAIN known' = DOMAIN known \cup {n} /\ known'[n] = v
      /\ \A x \in DOMAIN known : known'[x] = known[x]
  BY DEF Overlay, Single
<1>2. Extends(known', known)
  BY <1>1 DEF Extends
<1>3. \A m : LocalValue(m, known)' = LocalValue(m, known')
  BY DEF LocalValue, Vars
<1>4. \A m : IsScalar(m)' <=> IsScalar(m)
  BY DEF IsScalar
<1>5. ASSUME NEW m, IsScalar(m), ~IsUnresolved(LocalValue(m, known))
      PROVE  LocalValue(m, known') = LocalValue(m, known)
  BY <1>2, <1>5, ValueIsScalar, ScalarStays
<1>6. ASSUME NEW m \in DOMAIN known' PROVE ~IsUnresolved(known'[m])
  BY <1>1
<1>7. ASSUME NEW m \in DOMAIN known', IsScalar(m) PROVE known'[m] = LocalValue(m, known')
  <2>1. CASE m \in DOMAIN known
    BY <1>1, <1>5, <1>7, <2>1 DEF ScalarIsValue
  <2>2. CASE m \notin DOMAIN known
    BY <1>1, <1>5, <1>7, <2>2
  <2> QED BY <2>1, <2>2
<1> HIDE DEF v
<1> QED BY <1>3, <1>4, <1>6, <1>7 DEF ScalarIsValue

LEMMA AddUnresolved ==
  ASSUME ScalarIsValue,
         NEW n, n \notin DOMAIN known, IsUnresolved(LocalValue(n, known)),
         known' = Overlay(known, Single(n, LocalValue(n, known))), cfg' = cfg
  PROVE  /\ ScalarIsValue'
         /\ \A m : IsUnresolved(LocalValue(m, known)) => IsUnresolved(LocalValue(m, known)')
<1> DEFINE v == LocalValue(n, known)
<1>1. /\ DOMAIN known' = DOMAIN known \cup {n} /\ known'[n] = v
      /\ \A x \in DOMAIN known : known'[x] = known[x]
  BY DEF Overlay, Single
<1>2. \A m : LocalValue(m, known)' = LocalValue(m, known')
  BY DEF LocalValue, Vars
<1>3. \A m : IsScalar(m)' <=> IsScalar(m)
  BY DEF IsScalar
<1>4. Extends(known', known)
  BY <1>1 DEF Extends
<1>5. ASSUME NEW m, IsScalar(m), ~IsUnresolved(LocalValue(m, known))
      PROVE  LocalValue(m, known') = LocalValue(m, known)
  BY <1>4, <1>5, ValueIsScalar, ScalarStays
<1>6. ASSUME NEW m, IsUnresolved(LocalValue(m, known))
      PROVE  IsUnresolved(LocalValue(m, known'))
  <2>1. IsScalar(m)
    BY <1>6, ValueIsScalar
  <2> HIDE DEF v
  <2> QED BY <1>6, <2>1, ValueIsScalar, ScalarStuck
<1>7. ASSUME NEW m \in DOMAIN known', IsScalar(m)
      PROVE  IF IsUnresolved(known'[m]) THEN IsUnresolved(LocalValue(m, known'))
                                        ELSE known'[m] = LocalValue(m, known')
  <2>1. CASE m \in DOMAIN known
    BY <1>1, <1>5, <1>6, <1>7, <2>1 DEF ScalarIsValue
  <2>2. CASE m \notin DOMAIN known
    BY <1>1, <1>6, <1>7, <2>2
  <2> QED BY <2>1, <2>2
<1> HIDE DEF v
<1> QED BY <1>2, <1>3, <1>6, <1>7 DEF ScalarIsValue

LEMMA InitLocals == Init => LocalsInv
<1> SUFFICES ASSUME Init PROVE LocalsInv
  OBVIOUS
<1>1. /\ order \in SetToSeqs(Locals) /\ DOMAIN known = {} /\ at = 1
      /\ cfg \in Configs
  BY DEF Init, NoNames
<1>2. phase # "locals" /\ Terraform => cfg.entry = "cli"
  BY DEF Init, Terraform
<1>3. PassInv
  <2>1. Len(order) \in Nat /\ DOMAIN order = 1..Len(order)
    BY <1>1, OrderFacts
  <2> QED BY <1>1, <2>1 DEF PassInv
<1> QED BY <1>1, <1>2, <1>3 DEF LocalsInv, WholeIsMeant, ScalarIsValue

(* The steps that leave the locals alone.                                   *)
LEMMA LocalsStay ==
  ASSUME LocalsInv, UNCHANGED <<cfg, order, known>>,
         phase' = "locals" => UNCHANGED <<phase, at, moved>>,
         phase' # "locals" /\ Terraform /\ cfg.entry # "cli" => DOMAIN known = Locals
  PROVE  LocalsInv'
<1>1. Round' = Round
  BY RoundStays
<1>2. \A m : /\ LocalValue(m, known)' = LocalValue(m, known)
             /\ IsScalar(m)' <=> IsScalar(m)
  BY DEF LocalValue, Vars, IsScalar
<1>3. Locals' = Locals /\ (Terraform' <=> Terraform)
  BY DEF Locals, Terraform
<1>4. WholeIsMeant'
  BY <1>1 DEF LocalsInv, WholeIsMeant
<1>5. ScalarIsValue'
  BY <1>2 DEF LocalsInv, ScalarIsValue
<1>6. PassInv'
  BY <1>2 DEF LocalsInv, PassInv
<1> QED BY <1>3, <1>4, <1>5, <1>6 DEF LocalsInv

LEMMA TryLocalStep == TypeInv /\ LocalsInv /\ TryLocal => LocalsInv'
<1> SUFFICES ASSUME TypeInv, LocalsInv, TryLocal PROVE LocalsInv'
  OBVIOUS
<1> DEFINE n == order[at] v == LocalValue(n, known)
<1>1. /\ phase = "locals" /\ at <= Len(order) /\ at' = at + 1
      /\ UNCHANGED <<cfg, phase, order>>
      /\ at \in Nat \ {0}
  BY DEF TryLocal, TypeInv
<1>2. /\ Len(order) \in Nat /\ DOMAIN order = 1..Len(order)
      /\ \A i \in DOMAIN order : order[i] \in Locals
      /\ IsFiniteSet(Locals)
  BY OrderFacts, ConfigAssumption DEF LocalsInv, TypeInv, Locals
<1>3. n \in Locals
  BY <1>1, <1>2
<1>4. ~(at > Len(order))
  BY <1>1, <1>2
<1>5. \A m \in DOMAIN known : ~IsUnresolved(known[m])
  BY <1>1, <1>4 DEF LocalsInv, PassInv
<1>6. Locals' = Locals /\ (Terraform' <=> Terraform) /\ Round' = Round
  BY <1>1, RoundStays DEF Locals, Terraform
<1>7. CASE n \in DOMAIN known \/ IsUnresolved(v)
  <2>1. known' = known /\ moved' = moved
    BY <1>7 DEF TryLocal
  <2>2. \A m : /\ LocalValue(m, known)' = LocalValue(m, known)
               /\ IsScalar(m)' <=> IsScalar(m)
    BY <1>1, <2>1 DEF LocalValue, Vars, IsScalar
  <2>3. WholeIsMeant' /\ ScalarIsValue'
    BY <1>6, <2>1, <2>2 DEF LocalsInv, WholeIsMeant, ScalarIsValue
  <2>4. ASSUME ~moved, NEW i \in DOMAIN order, i < at'
        PROVE  order[i] \in DOMAIN known \/ IsUnresolved(LocalValue(order[i], known))
    <3>1. i = at \/ i < at
      BY <1>1, <1>2, <2>4
    <3> QED BY <1>1, <1>7, <2>4, <3>1 DEF LocalsInv, PassInv
  <2>5. PassInv'
    BY <1>1, <1>5, <2>1, <2>2, <2>4 DEF PassInv
  <2> QED BY <1>1, <1>6, <2>1, <2>3, <2>5 DEF LocalsInv
<1>8. CASE n \notin DOMAIN known /\ ~IsUnresolved(v)
  <2>1. known' = Overlay(known, Single(n, v)) /\ moved' = TRUE
    BY <1>8 DEF TryLocal
  <2>2. DOMAIN known' = DOMAIN known \cup {n}
    BY <2>1 DEF Overlay, Single
  <2> HIDE DEF n
  <2>3. WholeIsMeant'
    BY <1>1, <1>2, <1>3, <1>8, <2>1, AddKeepsMeaning DEF LocalsInv
  <2>4. ScalarIsValue' /\ \A m \in DOMAIN known' : ~IsUnresolved(known'[m])
    BY <1>1, <1>5, <1>8, <2>1, AddResolved DEF LocalsInv
  <2> HIDE DEF v
  <2>5. PassInv'
    BY <2>1, <2>4 DEF PassInv
  <2> QED BY <1>1, <1>3, <1>6, <2>2, <2>3, <2>4, <2>5 DEF LocalsInv
<1> QED BY <1>7, <1>8

LEMMA NextPassStep == TypeInv /\ LocalsInv /\ NextPass => LocalsInv'
<1> SUFFICES ASSUME TypeInv, LocalsInv, NextPass PROVE LocalsInv'
  OBVIOUS
<1>1. /\ phase = "locals" /\ moved /\ at' = 1 /\ moved' = FALSE
      /\ UNCHANGED <<cfg, phase, order, known>>
  BY DEF NextPass, Again
<1>2. Len(order) \in Nat /\ DOMAIN order = 1..Len(order)
  BY OrderFacts DEF LocalsInv, TypeInv
<1>3. \A m \in DOMAIN known : ~IsUnresolved(known[m])
  BY <1>1 DEF LocalsInv, PassInv
<1>4. Locals' = Locals /\ (Terraform' <=> Terraform) /\ Round' = Round
  BY <1>1, RoundStays DEF Locals, Terraform
<1>5. \A m : /\ LocalValue(m, known)' = LocalValue(m, known)
             /\ IsScalar(m)' <=> IsScalar(m)
  BY <1>1 DEF LocalValue, Vars, IsScalar
<1>6. WholeIsMeant' /\ ScalarIsValue'
  BY <1>1, <1>4, <1>5 DEF LocalsInv, WholeIsMeant, ScalarIsValue
<1>7. PassInv'
  <2>1. \A i \in DOMAIN order : ~(i < at')
    BY <1>1, <1>2
  <2> QED BY <1>1, <1>3, <2>1 DEF PassInv
<1> QED BY <1>1, <1>4, <1>6, <1>7 DEF LocalsInv

LEMMA GiveUpStep == TypeInv /\ LocalsInv /\ GiveUp => LocalsInv'
<1> SUFFICES ASSUME TypeInv, LocalsInv, GiveUp PROVE LocalsInv'
  OBVIOUS
<1>1. /\ phase = "locals" /\ at > Len(order) /\ ~Again
      /\ UNCHANGED <<cfg, phase, order, at, moved>>
  BY DEF GiveUp
<1>2. PICK i \in DOMAIN order :
        /\ order[i] \notin DOMAIN known
        /\ known' = Overlay(known, Single(order[i],
                       IF IsUnresolved(LocalValue(order[i], known))
                         THEN LocalValue(order[i], known) ELSE Gone))
  BY DEF GiveUp
<1> DEFINE n == order[i] v == LocalValue(n, known)
<1>3. /\ Len(order) \in Nat /\ DOMAIN order = 1..Len(order)
      /\ \A j \in DOMAIN order : order[j] \in Locals
      /\ IsFiniteSet(Locals) /\ at \in Nat
  BY OrderFacts, ConfigAssumption DEF LocalsInv, TypeInv, Locals
<1>4. ~moved
  BY <1>1, <1>2, <1>3 DEF Again
<1>5. \A j \in DOMAIN order : j < at
  BY <1>1, <1>3
<1>6. IsUnresolved(v)
  BY <1>1, <1>2, <1>4, <1>5 DEF LocalsInv, PassInv
<1>7. known' = Overlay(known, Single(n, v)) /\ n \in Locals \ DOMAIN known
  BY <1>2, <1>3, <1>6
<1>8. DOMAIN known' = DOMAIN known \cup {n}
  BY <1>7 DEF Overlay, Single
<1>9. Locals' = Locals /\ (Terraform' <=> Terraform) /\ Round' = Round
  BY <1>1, RoundStays DEF Locals, Terraform
<1> HIDE DEF n
<1>10. WholeIsMeant'
  BY <1>1, <1>3, <1>7, AddKeepsMeaning DEF LocalsInv
<1>11. /\ ScalarIsValue'
       /\ \A m : IsUnresolved(LocalValue(m, known)) => IsUnresolved(LocalValue(m, known)')
  BY <1>1, <1>6, <1>7, AddUnresolved DEF LocalsInv
<1>12. PassInv'
  <2>1. ASSUME NEW j \in DOMAIN order, order[j] \notin DOMAIN known'
        PROVE  IsUnresolved(LocalValue(order[j], known)')
    BY <1>1, <1>4, <1>5, <1>8, <1>11, <2>1 DEF LocalsInv, PassInv
  <2>2. ASSUME NEW j \in DOMAIN order, order[j] \notin DOMAIN known'
        PROVE  IsUnresolved(LocalValue(order[j], known))'
    BY <1>1, <2>1, <2>2
  <2> QED BY <1>1, <1>4, <2>2 DEF PassInv
<1> QED BY <1>1, <1>7, <1>8, <1>9, <1>10, <1>11, <1>12 DEF LocalsInv

LEMMA StepLocals == TypeInv /\ LocalsInv /\ [Next]_vars => LocalsInv'
<1> SUFFICES ASSUME TypeInv, LocalsInv, [Next]_vars PROVE LocalsInv'
  OBVIOUS
<1>1. CASE TryLocal
  BY <1>1, TryLocalStep
<1>2. CASE NextPass
  BY <1>2, NextPassStep
<1>3. CASE GiveUp
  BY <1>3, GiveUpStep
<1>4. CASE EndLocals
  <2>1. /\ phase' = "expand" /\ DOMAIN known = Locals
        /\ UNCHANGED <<cfg, order, known>>
    BY <1>4 DEF EndLocals
  <2> QED BY <2>1, LocalsStay
<1>5. CASE UNCHANGED vars
  <2>1. UNCHANGED <<cfg, order, known, phase, at, moved>>
    BY <1>5 DEF vars
  <2> QED BY <2>1, LocalsStay DEF LocalsInv
<1>6. CASE ~(TryLocal \/ NextPass \/ GiveUp \/ EndLocals \/ UNCHANGED vars)
  <2>1. UNCHANGED <<cfg, order, known>> /\ phase # "locals" /\ phase' # "locals"
    BY <1>6 DEF Next, ReadResource, EndTemplate, Expand, EndExpand, InlineModule,
                ResolveReferences, Attach, Verify
  <2> QED BY <2>1, LocalsStay DEF LocalsInv
<1> QED BY <1>1, <1>2, <1>3, <1>4, <1>5, <1>6

-----------------------------------------------------------------------------
(* The results.                                                             *)

THEOREM PipelineInv == Spec => []IInv
<1>1. Init => IInv
  BY InitGraph, InitLocals DEF IInv
<1>2. IInv /\ [Next]_vars => IInv'
  BY StepGraph, StepLocals DEF IInv
<1> QED BY <1>1, <1>2, PTL DEF Spec

(* The state of the pipeline has its types: what is merged is merged into a  *)
(* resource, and what has a verdict was not merged.                         *)
THEOREM PipelineTypes == Spec => []TypeOK
<1>1. IInv => TypeOK
  <2> SUFFICES ASSUME IInv PROVE TypeOK
    OBVIOUS
  <2>1. /\ \A a \in DOMAIN graph : graph[a].merged \in {None} \cup DOMAIN graph
        /\ \A a \in DOMAIN verdicts :
             /\ graph[a].merged = None
             /\ verdicts[a] \in {"sat", "unsat", "unresolvable", "crash"}
    BY GraphTypes DEF IInv
  <2> QED BY <2>1 DEF IInv, TypeInv, LocalsInv, TypeOK
<1> QED BY <1>1, PipelineInv, PTL

(* An attached rule is in a group of the right type that is verified, with   *)
(* all it says, in whatever order _attach_sg_rules, _attach_nsg_rules and    *)
(* the role passes go over the resources (RulesAreKept).                    *)
THEOREM AttachedRulesAreKept == Spec => []RulesAreKept
<1>1. IInv => RulesAreKept
  BY GraphKeepsRules DEF IInv
<1> QED BY <1>1, PipelineInv, PTL

LEMMA WholeLocalsAreMeant ==
  ASSUME IInv, NEW n \in DOMAIN known, Whole(known[n])
  PROVE  n \in DOMAIN Meaning /\ known[n] = Meaning[n]
<1> DEFINE c == Cardinality(DOMAIN known) d == Cardinality(Locals)
<1>1. IsFiniteSet(Locals) /\ DOMAIN known \in SUBSET Locals
  BY ConfigAssumption DEF IInv, TypeInv, LocalsInv, Locals
<1>2. c \in Nat /\ d \in Nat /\ c <= d
  BY <1>1, FS_Subset, FS_CardinalityType
<1>3. PICK k \in 0..c : n \in DOMAIN Round[k] /\ Round[k][n] = known[n]
  BY DEF IInv, LocalsInv, WholeIsMeant
<1>4. k \in Nat /\ k <= d
  BY <1>2, <1>3
<1>5. Extends(Round[d], Round[k])
  <2> HIDE DEF c, d
  <2> QED BY <1>2, <1>4, RoundKeeps
<1> QED BY <1>3, <1>5 DEF Extends, Meaning

LEMMA MeantLocalsAreKnown ==
  ASSUME IInv, phase # "locals", cfg.entry # "cli", ~HasListLocal
  PROVE  \A n \in DOMAIN Meaning : n \in DOMAIN known /\ known[n] = Meaning[n]
<1>1. Locals # {} => Terraform
  BY ConfigAssumption DEF IInv, TypeInv, Terraform, Locals, NoNames
<1>2. DOMAIN known = Locals
  BY <1>1 DEF IInv, LocalsInv
<1>3. \A n \in Locals : IsScalar(n)
  BY DEF HasListLocal, IsScalar
<1> DEFINE S == {k \in Nat : Extends(known, Round[k])}
<1>4. 0 \in S
  BY RoundIs DEF Extends, NoNames
<1>5. ASSUME NEW k \in Nat, k \in S PROVE k + 1 \in S
  <2>1. Extends(known, Round[k]) /\ Round[k + 1] = NextRound(Round[k])
    BY <1>5, RoundIs
  <2>2. ASSUME NEW n \in DOMAIN Round[k + 1]
        PROVE  n \in DOMAIN known /\ known[n] = Round[k + 1][n]
    <3> DEFINE v == LocalValue(n, Round[k])
    <3>1. n \in Locals /\ Whole(v) /\ Round[k + 1][n] = v
      BY <2>1 DEF NextRound
    <3>2. ~IsUnresolved(v)
      BY <3>1, UnresolvedFacts
    <3>3. LocalValue(n, known) = v
      BY <1>3, <2>1, <3>1, <3>2, ValueIsScalar, ScalarStays
    <3> HIDE DEF v
    <3> QED BY <1>2, <1>3, <3>1, <3>2, <3>3 DEF IInv, LocalsInv, ScalarIsValue
  <2> QED BY <2>2 DEF Extends
<1>6. \A k \in Nat : k \in S
  <2> HIDE DEF S
  <2> QED BY <1>4, <1>5, Induction
<1>7. Cardinality(Locals) \in Nat
  BY ConfigAssumption, FS_CardinalityType DEF IInv, TypeInv, Locals
<1>8. Extends(known, Meaning)
  BY <1>6, <1>7 DEF Meaning
<1> QED BY <1>8 DEF Extends

(* load_local_values: the passes over the locals come to the meaning of the  *)
(* declarations, in any order of the file (LocalsSettle).                   *)
THEOREM LocalsComeToTheirMeaning == Spec => []LocalsSettle
<1>1. IInv => LocalsSettle
  BY WholeLocalsAreMeant, MeantLocalsAreKnown DEF LocalsSettle
<1> QED BY <1>1, PipelineInv, PTL

-----------------------------------------------------------------------------
(* The encoders: what their verdicts say of the rules they are given.       *)

Defaults == {AllowVnetInBound, AllowAzureLoadBalancerInBound, DenyAllInBound}

HasPriorities(rules) ==
  /\ IsList(rules)
  /\ \A i \in 1..Len(rules) : rules[i].prio \in Int \cup {None}

(* A list that is made of the rules and of defaults behind them.            *)
RulesFirst(s, rules) ==
  /\ s \in Seq(ToSet(rules) \cup Defaults)
  /\ Len(rules) <= Len(s)
  /\ \A i \in 1..Len(rules) : s[i] = rules[i]
  /\ \A i \in (Len(rules) + 1)..Len(s) : s[i] \in Defaults

LEMMA DefaultAppended ==
  ASSUME NEW rules, IsList(rules), NEW s, RulesFirst(s, rules),
         NEW d \in Defaults, NEW t \in {<<>>, <<d>>}
  PROVE  RulesFirst(s \o t, rules)
<1> DEFINE S == ToSet(rules) \cup Defaults
           m == Len(rules)
<1>1. m \in Nat /\ s \in Seq(S) /\ d \in S
  BY DEF IsList, RulesFirst
<1>2. /\ m <= Len(s) /\ \A i \in 1..m : s[i] = rules[i]
      /\ \A i \in (m + 1)..Len(s) : s[i] \in Defaults
  BY DEF RulesFirst
<1> HIDE DEF m, S
<1>3. CASE t = <<>>
  <2>1. s \o t = s
    BY <1>1, <1>3
  <2> QED BY <2>1
<1>4. CASE t = <<d>>
  <2>1. /\ s \o t \in Seq(S) /\ Len(s \o t) = Len(s) + 1
        /\ \A i \in 1..Len(s) : (s \o t)[i] = s[i]
        /\ (s \o t)[Len(s) + 1] = d
    BY <1>1, <1>4
  <2>2. Len(s) \in Nat
    BY <1>1
  <2>3. ASSUME NEW i \in (m + 1)..Len(s \o t) PROVE (s \o t)[i] \in Defaults
    <3>1. CASE i \in (m + 1)..Len(s)
      <4>1. i \in 1..Len(s)
        BY <1>1, <2>2, <3>1
      <4> QED BY <1>2, <2>1, <3>1, <4>1
    <3>2. CASE i = Len(s) + 1
      BY <2>1, <3>2
    <3> QED BY <1>1, <2>1, <2>2, <3>1, <3>2
  <2>4. \A i \in 1..m : (s \o t)[i] = rules[i]
    <3>1. \A i \in 1..m : i \in 1..Len(s)
      BY <1>1, <1>2, <2>2
    <3> QED BY <1>2, <2>1, <3>1
  <2>5. m <= Len(s \o t)
    BY <1>1, <1>2, <2>1, <2>2
  <2> QED BY <2>1, <2>3, <2>4, <2>5 DEF RulesFirst, m, S
<1> QED BY <1>3, <1>4

LEMMA WithDefaultsIs ==
  ASSUME NEW rules, HasPriorities(rules)
  PROVE  LET all == WithDefaults(rules) IN
         /\ HasPriorities(all) /\ Len(rules) \in Nat /\ Len(all) \in Nat
         /\ Len(rules) <= Len(all)
         /\ \A i \in 1..Len(rules) : all[i] = rules[i]
         /\ \A i \in (Len(rules) + 1)..Len(all) : all[i] \in Defaults
<1> DEFINE taken == {PriorityOf(rules[i]) : i \in {j \in 1..Len(rules) :
                                                     rules[j].prio # None}}
           Default(d) == IF d.prio \in taken THEN <<>> ELSE <<d>>
           m == Len(rules)
           one == rules \o Default(AllowVnetInBound)
           two == one \o Default(AllowAzureLoadBalancerInBound)
           all == two \o Default(DenyAllInBound)
<1>1. IsList(rules) /\ m \in Nat
  BY DEF HasPriorities, IsList
<1>2. \A d : Default(d) \in {<<>>, <<d>>}
  OBVIOUS
<1>3. /\ AllowVnetInBound \in Defaults /\ AllowAzureLoadBalancerInBound \in Defaults
      /\ DenyAllInBound \in Defaults
  BY DEF Defaults
<1>4. all = WithDefaults(rules)
  BY DEF WithDefaults
<1>5. RulesFirst(rules, rules)
  BY <1>1 DEF RulesFirst, IsList
<1> HIDE DEF Default
<1>6. RulesFirst(one, rules)
  BY <1>1, <1>2, <1>3, <1>5, DefaultAppended
<1> HIDE DEF one
<1>7. RulesFirst(two, rules)
  BY <1>1, <1>2, <1>3, <1>6, DefaultAppended
<1> HIDE DEF two
<1>a. RulesFirst(all, rules)
  BY <1>1, <1>2, <1>3, <1>7, DefaultAppended
<1> HIDE DEF all
<1>8. \A d \in Defaults : d.prio \in Int
  BY DEF Defaults, AllowVnetInBound, AllowAzureLoadBalancerInBound, DenyAllInBound,
         DefaultRule
<1>9. /\ Len(all) \in Nat /\ m <= Len(all)
      /\ \A i \in 1..m : all[i] = rules[i]
      /\ \A i \in (m + 1)..Len(all) : all[i] \in Defaults
      /\ all \in [1..Len(all) -> ToSet(rules) \cup Defaults]
      /\ all \in Seq(ToSet(rules) \cup Defaults)
  BY <1>a DEF RulesFirst
<1>10. IsList(all)
  <2>1. \A i \in 1..Len(all) : all[i] \in ToSet(all)
    BY <1>9 DEF ToSet
  <2>2. all \in [1..Len(all) -> ToSet(all)]
    BY <1>9, <2>1
  <2> QED BY <1>9, <2>2 DEF IsList
<1>11. ASSUME NEW i \in 1..Len(all) PROVE all[i].prio \in Int \cup {None}
  <2>1. CASE i \in 1..m
    <3>1. all[i] = rules[i]
      BY <1>9, <2>1
    <3> QED BY <2>1, <3>1 DEF HasPriorities
  <2>2. CASE i \in (m + 1)..Len(all)
    BY <1>8, <1>9, <2>2
  <2> QED BY <1>1, <1>9, <2>1, <2>2
<1> QED BY <1>1, <1>4, <1>9, <1>10, <1>11 DEF HasPriorities

LEMMA BeforeIsOrder ==
  ASSUME NEW all, HasPriorities(all)
  PROVE  LET I == 1..Len(all) IN
         /\ Len(all) \in Nat
         /\ \A x \in I : PriorityOf(all[x]) \in Int
         /\ \A x, y \in I : Before(all, x, y) \in BOOLEAN
         /\ \A x \in I : ~Before(all, x, x)
         /\ \A x, y, z \in I : Before(all, x, y) /\ Before(all, y, z) => Before(all, x, z)
         /\ \A x, y \in I : x = y \/ Before(all, x, y) \/ Before(all, y, x)
<1> DEFINE I == 1..Len(all)
<1>1. Len(all) \in Nat
  BY DEF HasPriorities, IsList
<1>2. \A x \in I : PriorityOf(all[x]) \in Int
  BY DEF HasPriorities, PriorityOf, LastPriority
<1>3. I \subseteq Int
  BY <1>1
<1> DEFINE P == [x \in I |-> PriorityOf(all[x])]
<1>4. \A x, y \in I : Before(all, x, y) <=> P[x] < P[y] \/ (P[x] = P[y] /\ x < y)
  BY DEF Before
<1>5. \A x \in I : P[x] \in Int
  BY <1>2
<1>6. \A x, y \in I : Before(all, x, y) \in BOOLEAN
  BY DEF Before
<1> HIDE DEF P, I
<1>7. \A x \in I : ~Before(all, x, x)
  BY <1>3, <1>4, <1>5
<1>8. \A x, y, z \in I : Before(all, x, y) /\ Before(all, y, z) => Before(all, x, z)
  BY <1>3, <1>4, <1>5
<1>9. \A x, y \in I : x = y \/ Before(all, x, y) \/ Before(all, y, x)
  BY <1>3, <1>4, <1>5
<1> QED BY <1>1, <1>2, <1>6, <1>7, <1>8, <1>9 DEF I

(* The sorted list: every rule has a place of its own, that of the one      *)
(* before is lower.                                                         *)
Sorted(all) == [k \in 1..Len(all) |-> CHOOSE i \in 1..Len(all) : Place(all, i) = k]

LEMMA SortedIs ==
  ASSUME NEW all, HasPriorities(all)
  PROVE  /\ Sorted(all) \in [1..Len(all) -> 1..Len(all)]
         /\ \A i \in 1..Len(all) : \E k \in 1..Len(all) : Sorted(all)[k] = i
         /\ \A k, l \in 1..Len(all) :
              k < l <=> Before(all, Sorted(all)[k], Sorted(all)[l])
<1> DEFINE n == Len(all)
           I == 1..n
           R == {p \in I \X I : Before(all, p[1], p[2])}
           place == Ranks(n, R)
<1>1. /\ n \in Nat
      /\ \A x \in I : ~Before(all, x, x)
      /\ \A x, y, z \in I : Before(all, x, y) /\ Before(all, y, z) => Before(all, x, z)
      /\ \A x, y \in I : x = y \/ Before(all, x, y) \/ Before(all, y, x)
  BY BeforeIsOrder
<1>2. \A x, y \in I : <<x, y>> \in R <=> Before(all, x, y)
  OBVIOUS
<1>3. \A i \in I : Place(all, i) = place[i]
  <2>1. \A i \in I : {j \in I : <<j, i>> \in R} = {j \in I : Before(all, j, i)}
    BY <1>2
  <2> QED BY <2>1 DEF Place, Ranks
<1>4. IsOrder(n, R)
  BY <1>1, <1>2 DEF IsOrder
<1>5. /\ place \in [I -> I]
      /\ \A i, j \in I : <<i, j>> \in R <=> place[i] < place[j]
      /\ \A k \in I : \E i \in I : place[i] = k
  <2>1. n \in Nat
    BY <1>1
  <2> HIDE DEF R, n
  <2> QED BY <2>1, <1>4, Places
<1> HIDE DEF place, R
<1>6. ASSUME NEW k \in I
      PROVE  Sorted(all)[k] \in I /\ place[Sorted(all)[k]] = k
  <2>1. \E i \in I : Place(all, i) = k
    BY <1>3, <1>5
  <2>2. Sorted(all)[k] = CHOOSE i \in I : Place(all, i) = k
    BY DEF Sorted
  <2>3. Sorted(all)[k] \in I /\ Place(all, Sorted(all)[k]) = k
    BY <2>1, <2>2
  <2> QED BY <1>3, <2>3
<1> HIDE DEF place, R
<1>7. \A i, j \in I : place[i] = place[j] => i = j
  <2> SUFFICES ASSUME NEW i \in I, NEW j \in I, place[i] = place[j], i # j PROVE FALSE
    OBVIOUS
  <2>1. place[i] < place[j] \/ place[j] < place[i]
    BY <1>1, <1>2, <1>5
  <2>2. place[i] \in Int
    <3>1. place[i] \in I
      BY <1>5
    <3> QED BY <1>1, <3>1
  <2> QED BY <2>1, <2>2
<1>8. ASSUME NEW i \in I PROVE \E k \in I : Sorted(all)[k] = i
  <2>1. place[i] \in I
    BY <1>5
  <2> QED BY <1>6, <1>7, <2>1
<1>9. Sorted(all) \in [I -> I]
  <2>1. Sorted(all) = [k \in I |-> Sorted(all)[k]]
    BY DEF Sorted
  <2> QED BY <1>6, <2>1
<1>10. ASSUME NEW k \in I, NEW l \in I
       PROVE  k < l <=> Before(all, Sorted(all)[k], Sorted(all)[l])
  <2>1. Sorted(all)[k] \in I /\ Sorted(all)[l] \in I
    BY <1>6
  <2> QED BY <1>2, <1>5, <1>6, <2>1
<1> QED BY <1>8, <1>9, <1>10

(* The recursive function of the chain solves its equations.               *)
IsChain(c, rules, packet, port) ==
  LET all == WithDefaults(rules)
      n == Len(all)
      o == Sorted(all)
  IN  /\ c \in [1..(n + 1) -> BOOLEAN]
      /\ c[n + 1] = FALSE
      /\ \A k \in 1..n :
           c[k] = IF RuleMatches(all[o[k]], packet, port)
                    THEN all[o[k]].access = Lit("Allow") ELSE c[k + 1]
      /\ ChainAllows(rules, packet, port) = c[1]

LEMMA ChainIs ==
  ASSUME NEW rules, HasPriorities(rules), NEW packet, NEW port
  PROVE  \E c : IsChain(c, rules, packet, port)
<1> DEFINE all == WithDefaults(rules)
           n == Len(all)
           X == 1..(n + 1)
           F == [X -> BOOLEAN]
           Of(g, k) == IF k > n THEN FALSE
                       ELSE IF RuleMatches(all[Sorted(all)[k]], packet, port)
                         THEN all[Sorted(all)[k]].access = Lit("Allow") ELSE g[k + 1]
           B == [x \in X \X F |-> Of(x[2], x[1])]
           D == [k \in X |-> (n + 1) - k]
           Sub == [k \in X |-> IF k > n THEN {} ELSE {k + 1}]
           Body(g) == [k \in X |-> Of(g, k)]
<1>1. n \in Nat
  BY WithDefaultsIs
<1> HIDE DEF n
<1>2. ASSUME NEW k \in X, NEW g \in F PROVE Of(g, k) \in BOOLEAN
  <2>1. CASE k > n
    BY <2>1
  <2>2. CASE ~(k > n)
    <3>1. k + 1 \in X
      BY <1>1, <2>2
    <3>2. g[k + 1] \in BOOLEAN
      BY <3>1
    <3> QED BY <2>2, <3>2
  <2> QED BY <2>1, <2>2
<1>3. ASSUME NEW k \in X, NEW g \in F, NEW h \in F, \A m \in Sub[k] : g[m] = h[m]
      PROVE  Of(g, k) = Of(h, k)
  BY <1>3
<1>4. \A k \in X : \A m \in Sub[k] : m \in X /\ D[m] < D[k]
  BY <1>1
<1>5. Descends(X, BOOLEAN, D, Sub, B)
  <2>1. B \in [X \X F -> BOOLEAN]
    <3> HIDE DEF Of, F, X
    <3> QED BY <1>2
  <2>2. ASSUME NEW k \in X, NEW g \in F, NEW h \in F, \A m \in Sub[k] : g[m] = h[m]
        PROVE  B[<<k, g>>] = B[<<k, h>>]
    <3>1. B[<<k, g>>] = Of(g, k) /\ B[<<k, h>>] = Of(h, k)
      OBVIOUS
    <3> HIDE DEF B, Of, Sub, F, X
    <3> QED BY <1>3, <2>2, <3>1
  <2>3. D \in [X -> Nat]
    BY <1>1
  <2> HIDE DEF B, Of, Sub, D, X
  <2> QED BY <1>4, <2>1, <2>2, <2>3 DEF Descends
<1>6. PICK c \in F : \A k \in X : c[k] = B[<<k, c>>]
  <2> HIDE DEF B, D, Sub, X
  <2> QED BY <1>5, RecursionHolds
<1>7. c = Body(c)
  <2>1. \A k \in X : B[<<k, c>>] = Of(c, k)
    BY <1>6
  <2> HIDE DEF B, Of, X
  <2>2. c = [k \in X |-> c[k]]
    BY <1>6
  <2> QED BY <1>6, <2>1, <2>2
<1>8. ChainAllows(rules, packet, port) = (CHOOSE h : h = Body(h))[1]
  BY DEF ChainAllows, Sorted, n
<1> DEFINE chain == CHOOSE h : h = Body(h)
<1>9. chain = Body(chain)
  <2> HIDE DEF Body
  <2> QED BY <1>7
<1> HIDE DEF chain
<1>10. ASSUME NEW k \in X PROVE chain[k] = Of(chain, k)
  <2>1. Body(chain)[k] = Of(chain, k)
    OBVIOUS
  <2> HIDE DEF Body, Of
  <2> QED BY <1>9, <2>1
<1>11. chain[n + 1] = FALSE
  <2>1. n + 1 \in X /\ n + 1 > n
    BY <1>1
  <2> QED BY <1>10, <2>1
<1>12. chain \in F
  <2> DEFINE S == {d \in Nat : \A k \in X : k + d = n + 1 => chain[k] \in BOOLEAN}
  <2>1. 0 \in S
    <3>1. n + 1 \in X /\ \A k \in X : k + 0 = n + 1 => k = n + 1
      BY <1>1
    <3> QED BY <1>11, <3>1
  <2>2. ASSUME NEW d \in Nat, d \in S PROVE d + 1 \in S
    <3> SUFFICES ASSUME NEW k \in X, k + (d + 1) = n + 1 PROVE chain[k] \in BOOLEAN
      OBVIOUS
    <3>1. k + 1 \in X /\ (k + 1) + d = n + 1 /\ ~(k > n)
      BY <1>1
    <3>2. chain[k + 1] \in BOOLEAN
      BY <2>2, <3>1
    <3>3. chain[k] = Of(chain, k)
      BY <1>10
    <3> QED BY <3>1, <3>2, <3>3
  <2>3. \A d \in Nat : d \in S
    <3> HIDE DEF S
    <3> QED BY <2>1, <2>2, Induction
  <2>4. ASSUME NEW k \in X PROVE chain[k] \in BOOLEAN
    <3>1. (n + 1) - k \in Nat /\ k + ((n + 1) - k) = n + 1
      BY <1>1
    <3>2. (n + 1) - k \in S
      BY <2>3, <3>1
    <3> QED BY <3>1, <3>2
  <2>5. chain = [k \in X |-> chain[k]]
    <3>1. Body(chain) = [k \in X |-> Body(chain)[k]]
      OBVIOUS
    <3> HIDE DEF Body, X
    <3> QED BY <1>9, <3>1
  <2> HIDE DEF X
  <2> QED BY <2>4, <2>5
<1>13. ASSUME NEW k \in 1..n
       PROVE  chain[k] = IF RuleMatches(all[Sorted(all)[k]], packet, port)
                           THEN all[Sorted(all)[k]].access = Lit("Allow") ELSE chain[k + 1]
  <2>1. k \in X /\ ~(k > n)
    BY <1>1
  <2> QED BY <1>10, <2>1
<1>14. ChainAllows(rules, packet, port) = chain[1]
  BY <1>8 DEF chain
<1> QED BY <1>11, <1>12, <1>13, <1>14 DEF IsChain, n

(* encode_nsg_rules builds a nested If; what it comes to is the first rule   *)
(* of the sorted list that matches.                                         *)
First(all, packet, port, i) ==
  /\ RuleMatches(all[i], packet, port)
  /\ \A j \in 1..Len(all) : Before(all, j, i) => ~RuleMatches(all[j], packet, port)

LEMMA ChainIsFirstMatch ==
  ASSUME NEW rules, HasPriorities(rules), NEW packet, NEW port
  PROVE  LET all == WithDefaults(rules)
         IN ChainAllows(rules, packet, port) <=>
              \E i \in 1..Len(all) :
                First(all, packet, port, i) /\ all[i].access = Lit("Allow")
<1> DEFINE all == WithDefaults(rules)
           n == Len(all)
           o == Sorted(all)
           M(k) == RuleMatches(all[o[k]], packet, port)
           A(k) == all[o[k]].access = Lit("Allow")
<1>1. PICK c \in [1..(n + 1) -> BOOLEAN] :
        /\ c[n + 1] = FALSE
        /\ \A k \in 1..n : c[k] = IF M(k) THEN A(k) ELSE c[k + 1]
        /\ ChainAllows(rules, packet, port) = c[1]
  <2>1. PICK c : IsChain(c, rules, packet, port)
    BY ChainIs
  <2> QED BY <2>1 DEF IsChain
<1>2. HasPriorities(all) /\ n \in Nat
  BY WithDefaultsIs
<1>3. /\ o \in [1..n -> 1..n]
      /\ \A i \in 1..n : \E k \in 1..n : o[k] = i
      /\ \A k, l \in 1..n : k < l <=> Before(all, o[k], o[l])
  <2> HIDE DEF all
  <2> QED BY <1>2, SortedIs
<1> HIDE DEF all, n, o, M, A
<1> DEFINE Found(k) == \E l \in k..n : M(l) /\ A(l) /\ \A m \in k..(l - 1) : ~M(m)
           S == {d \in Nat : \A k \in 1..(n + 1) : k + d = n + 1 => (c[k] <=> Found(k))}
<1>4. 0 \in S
  <2>1. \A k \in 1..(n + 1) : k + 0 = n + 1 => k = n + 1
    BY <1>2
  <2>2. ~Found(n + 1)
    BY <1>2
  <2> HIDE DEF Found
  <2> QED BY <1>1, <2>1, <2>2
<1>5. ASSUME NEW d \in Nat, d \in S PROVE d + 1 \in S
  <2> SUFFICES ASSUME NEW k \in 1..(n + 1), k + (d + 1) = n + 1 PROVE c[k] <=> Found(k)
    OBVIOUS
  <2>1. k \in 1..n /\ k + 1 \in 1..(n + 1) /\ (k + 1) + d = n + 1
    BY <1>2
  <2>2. c[k + 1] <=> Found(k + 1)
    BY <1>5, <2>1
  <2>3. c[k] = IF M(k) THEN A(k) ELSE c[k + 1]
    BY <1>1, <2>1
  <2>4. CASE M(k)
    <3>1. Found(k) <=> A(k)
      <4>1. ASSUME Found(k) PROVE A(k)
        <5>1. PICK l \in k..n : M(l) /\ A(l) /\ \A m \in k..(l - 1) : ~M(m)
          BY <4>1
        <5>2. l = k
          <6>1. CASE l > k
            <7>1. k \in k..(l - 1)
              BY <1>2, <6>1
            <7> QED BY <2>4, <5>1, <7>1
          <6> QED BY <1>2, <6>1
        <5> QED BY <5>1, <5>2
      <4>2. ASSUME A(k) PROVE Found(k)
        <5>1. k \in k..n /\ \A m \in k..(k - 1) : ~M(m)
          BY <2>1
        <5> QED BY <2>4, <4>2, <5>1
      <4> QED BY <4>1, <4>2
    <3>2. c[k] = A(k)
      BY <2>3, <2>4
    <3> HIDE DEF Found
    <3> QED BY <3>1, <3>2
  <2>5. CASE ~M(k)
    <3>1. ASSUME Found(k) PROVE Found(k + 1)
      <4>1. PICK l \in k..n : M(l) /\ A(l) /\ \A m \in k..(l - 1) : ~M(m)
        BY <3>1
      <4>2. l # k
        BY <2>5, <4>1
      <4>3. l \in (k + 1)..n /\ \A m \in (k + 1)..(l - 1) : m \in k..(l - 1)
        BY <1>2, <4>2
      <4> QED BY <4>1, <4>3
    <3>2. ASSUME Found(k + 1) PROVE Found(k)
      <4>1. PICK l \in (k + 1)..n : M(l) /\ A(l) /\ \A m \in (k + 1)..(l - 1) : ~M(m)
        BY <3>2
      <4>2. l \in k..n /\ \A m \in k..(l - 1) : m = k \/ m \in (k + 1)..(l - 1)
        BY <1>2, <2>1
      <4> QED BY <2>5, <4>1, <4>2
    <3>3. c[k] = c[k + 1]
      BY <2>3, <2>5
    <3> HIDE DEF Found
    <3> QED BY <2>2, <3>1, <3>2, <3>3
  <2> QED BY <2>4, <2>5
<1>6. \A d \in Nat : d \in S
  <2> HIDE DEF S
  <2> QED BY <1>4, <1>5, Induction
<1>7. c[1] <=> Found(1)
  <2>1. n \in S /\ 1 \in 1..(n + 1) /\ 1 + n = n + 1
    BY <1>2, <1>6
  <2> HIDE DEF Found
  <2> QED BY <2>1
<1>8. ASSUME NEW l \in 1..n
      PROVE  First(all, packet, port, o[l]) <=> M(l) /\ \A m \in 1..(l - 1) : ~M(m)
  <2>1. o[l] \in 1..n
    BY <1>3
  <2>2. ASSUME First(all, packet, port, o[l]) PROVE M(l) /\ \A m \in 1..(l - 1) : ~M(m)
    <3>1. M(l)
      BY <2>2 DEF First, M
    <3>2. ASSUME NEW m \in 1..(l - 1) PROVE ~M(m)
      <4>1. m \in 1..n /\ m < l
        BY <1>2
      <4>2. o[m] \in 1..n /\ Before(all, o[m], o[l])
        BY <1>3, <4>1
      <4> QED BY <2>2, <4>2 DEF First, M, n
    <3> QED BY <3>1, <3>2
  <2>3. ASSUME M(l), \A m \in 1..(l - 1) : ~M(m) PROVE First(all, packet, port, o[l])
    <3>1. ASSUME NEW j \in 1..n, Before(all, j, o[l]) PROVE ~RuleMatches(all[j], packet, port)
      <4>1. PICK k \in 1..n : o[k] = j
        BY <1>3
      <4>2. k < l
        BY <1>3, <3>1, <4>1
      <4>3. k \in 1..(l - 1)
        BY <1>2, <4>2
      <4> QED BY <2>3, <4>1, <4>3 DEF M
    <3> QED BY <2>3, <3>1 DEF First, M, n
  <2> QED BY <2>2, <2>3
<1>9. Found(1) <=> \E i \in 1..n : First(all, packet, port, i) /\ all[i].access = Lit("Allow")
  <2>1. ASSUME Found(1)
        PROVE  \E i \in 1..n : First(all, packet, port, i) /\ all[i].access = Lit("Allow")
    <3>1. PICK l \in 1..n : M(l) /\ A(l) /\ \A m \in 1..(l - 1) : ~M(m)
      BY <2>1
    <3>2. o[l] \in 1..n /\ First(all, packet, port, o[l]) /\ all[o[l]].access = Lit("Allow")
      BY <1>3, <1>8, <3>1 DEF A
    <3> QED BY <3>2
  <2>2. ASSUME NEW i \in 1..n, First(all, packet, port, i), all[i].access = Lit("Allow")
        PROVE  Found(1)
    <3>1. PICK l \in 1..n : o[l] = i
      BY <1>3
    <3>2. M(l) /\ A(l) /\ \A m \in 1..(l - 1) : ~M(m)
      BY <1>8, <2>2, <3>1 DEF A
    <3> QED BY <3>2
  <2> QED BY <2>1, <2>2
<1> QED BY <1>1, <1>7, <1>9 DEF n, all

(* The recursive function that picks the rules out of the sources.          *)
LEMMA RulesAmongIs ==
  ASSUME NEW sources, IsList(sources)
  PROVE  LET rules == RulesAmong(sources) IN
         /\ IsList(rules)
         /\ \A v : (\E i \in 1..Len(rules) : rules[i] = v) <=>
                   Has(v, "prio") /\ \E i \in 1..Len(sources) : sources[i] = v
<1> DEFINE n == Len(sources)
           X == 0..n
           S == ToSet(sources)
           K == Seq(S)
           F == [X -> K]
           Of(g, i) == IF i = 0 THEN <<>>
                       ELSE IF Has(sources[i], "prio") THEN Append(g[i - 1], sources[i])
                       ELSE g[i - 1]
           B == [x \in X \X F |-> Of(x[2], x[1])]
           D == [i \in X |-> i]
           Sub == [i \in X |-> IF i = 0 THEN {} ELSE {i - 1}]
           Body(g) == [i \in X |-> Of(g, i)]
<1>1. n \in Nat /\ \A i \in 1..n : sources[i] \in S
  BY DEF IsList
<1> HIDE DEF n, S
<1>2. ASSUME NEW i \in X, NEW g \in F PROVE Of(g, i) \in K
  <2>1. CASE i = 0
    BY <2>1
  <2>2. CASE i # 0
    <3>1. i \in 1..n /\ i - 1 \in X
      BY <1>1, <2>2
    <3>2. g[i - 1] \in K /\ sources[i] \in S
      BY <1>1, <3>1
    <3>3. Append(g[i - 1], sources[i]) \in K
      BY <3>2
    <3> QED BY <2>2, <3>2, <3>3
  <2> QED BY <2>1, <2>2
<1>3. ASSUME NEW i \in X, NEW g \in F, NEW h \in F, \A m \in Sub[i] : g[m] = h[m]
      PROVE  Of(g, i) = Of(h, i)
  BY <1>3
<1>4. \A i \in X : \A m \in Sub[i] : m \in X /\ D[m] < D[i]
  BY <1>1
<1>5. Descends(X, K, D, Sub, B)
  <2>1. B \in [X \X F -> K]
    <3> HIDE DEF Of, F, X, K
    <3> QED BY <1>2
  <2>2. ASSUME NEW i \in X, NEW g \in F, NEW h \in F, \A m \in Sub[i] : g[m] = h[m]
        PROVE  B[<<i, g>>] = B[<<i, h>>]
    <3>1. B[<<i, g>>] = Of(g, i) /\ B[<<i, h>>] = Of(h, i)
      OBVIOUS
    <3> HIDE DEF B, Of, Sub, F, X
    <3> QED BY <1>3, <2>2, <3>1
  <2>3. D \in [X -> Nat]
    BY <1>1
  <2>4. <<>> \in K
    OBVIOUS
  <2> HIDE DEF B, Of, Sub, D, X, K
  <2> QED BY <1>4, <2>1, <2>2, <2>3, <2>4 DEF Descends
<1>6. PICK f \in F : \A i \in X : f[i] = B[<<i, f>>]
  <2> HIDE DEF B, D, Sub, X, K
  <2> QED BY <1>5, RecursionHolds
<1>7. f = Body(f)
  <2>1. \A i \in X : B[<<i, f>>] = Of(f, i)
    BY <1>6
  <2> HIDE DEF B, Of, X, K
  <2>2. f = [i \in X |-> f[i]]
    BY <1>6
  <2> QED BY <1>6, <2>1, <2>2
<1> DEFINE found == CHOOSE h : h = Body(h)
<1>8. RulesAmong(sources) = found[n]
  BY DEF RulesAmong, n
<1>9. found = Body(found)
  <2> HIDE DEF Body
  <2> QED BY <1>7
<1> HIDE DEF found
<1>10. ASSUME NEW i \in X PROVE found[i] = Of(found, i)
  <2>1. Body(found)[i] = Of(found, i)
    OBVIOUS
  <2> HIDE DEF Body, Of
  <2> QED BY <1>9, <2>1
<1> DEFINE Among(s, i) ==
             /\ s \in Seq(S)
             /\ \A v : (\E j \in 1..Len(s) : s[j] = v) <=>
                       Has(v, "prio") /\ \E j \in 1..i : sources[j] = v
           T == {i \in Nat : i \in X => Among(found[i], i)}
<1>11. 0 \in T
  <2>1. 0 \in X /\ found[0] = <<>>
    BY <1>1, <1>10
  <2>2. Among(<<>>, 0)
    OBVIOUS
  <2> HIDE DEF Among
  <2> QED BY <2>1, <2>2
<1>12. ASSUME NEW i \in Nat, i \in T PROVE i + 1 \in T
  <2> SUFFICES ASSUME i + 1 \in X PROVE Among(found[i + 1], i + 1)
    OBVIOUS
  <2>1. i \in X /\ i + 1 # 0 /\ (i + 1) - 1 = i /\ i + 1 \in 1..n
    BY <1>1
  <2>2. Among(found[i], i)
    <3> HIDE DEF Among
    <3> QED BY <1>12, <2>1
  <2>3. \A v : (\E j \in 1..(i + 1) : sources[j] = v) <=>
               (\E j \in 1..i : sources[j] = v) \/ v = sources[i + 1]
    <3>1. \A j : j \in 1..(i + 1) <=> j \in 1..i \/ j = i + 1
      OBVIOUS
    <3> QED BY <3>1
  <2>4. CASE Has(sources[i + 1], "prio")
    <3> DEFINE s == found[i]
               t == Append(s, sources[i + 1])
    <3>1. found[i + 1] = t
      <4>1. found[i + 1] = Of(found, i + 1)
        BY <1>10
      <4> QED BY <2>1, <2>4, <4>1
    <3>2. s \in Seq(S) /\ sources[i + 1] \in S
      BY <1>1, <2>1, <2>2
    <3> HIDE DEF s
    <3>3. /\ t \in Seq(S) /\ Len(t) = Len(s) + 1 /\ Len(s) \in Nat
          /\ \A j \in 1..Len(s) : t[j] = s[j]
          /\ t[Len(s) + 1] = sources[i + 1]
      BY <3>2
    <3> HIDE DEF t
    <3>4. \A j : j \in 1..Len(t) <=> j \in 1..Len(s) \/ j = Len(s) + 1
      BY <3>3
    <3>5. \A v : (\E j \in 1..Len(t) : t[j] = v) <=>
                 (\E j \in 1..Len(s) : s[j] = v) \/ v = sources[i + 1]
      BY <3>3, <3>4
    <3>6. \A v : (\E j \in 1..Len(s) : s[j] = v) <=>
                 Has(v, "prio") /\ \E j \in 1..i : sources[j] = v
      BY <2>2 DEF s
    <3>7. \A v : (\E j \in 1..Len(t) : t[j] = v) <=>
                 Has(v, "prio") /\ \E j \in 1..(i + 1) : sources[j] = v
      BY <2>3, <2>4, <3>5, <3>6
    <3> QED BY <3>1, <3>3, <3>7
  <2>5. CASE ~Has(sources[i + 1], "prio")
    <3>1. found[i + 1] = found[i]
      <4>1. found[i + 1] = Of(found, i + 1)
        BY <1>10
      <4> QED BY <2>1, <2>5, <4>1
    <3>2. Among(found[i], i + 1)
      BY <2>2, <2>3, <2>5
    <3> HIDE DEF Among
    <3> QED BY <3>1, <3>2
  <2> QED BY <2>4, <2>5
<1>13. Among(found[n], n)
  <2>1. n \in T
    <3> HIDE DEF T
    <3> QED BY <1>1, <1>11, <1>12, Induction
  <2>2. n \in X
    BY <1>1
  <2> HIDE DEF Among
  <2> QED BY <2>1, <2>2
<1>14. IsList(found[n])
  <2> DEFINE s == found[n]
  <2>1. s \in Seq(S)
    BY <1>13
  <2> HIDE DEF s
  <2>2. Len(s) \in Nat /\ s \in [1..Len(s) -> S] /\ DOMAIN s = 1..Len(s)
    BY <2>1
  <2>3. \A j \in 1..Len(s) : s[j] \in ToSet(s)
    BY <2>2 DEF ToSet
  <2>4. s \in [1..Len(s) -> ToSet(s)]
    BY <2>2, <2>3
  <2>5. s \in Seq(ToSet(s))
    BY <2>2, <2>4
  <2> QED BY <2>5 DEF IsList, s
<1>15. \A v : (\E j \in 1..Len(found[n]) : found[n][j] = v) <=>
              Has(v, "prio") /\ \E j \in 1..n : sources[j] = v
  BY <1>13
<1> QED BY <1>8, <1>14, <1>15 DEF n

(* Where a rule matches there is a first one that does.                     *)
LEMMA FirstExists ==
  ASSUME NEW all, HasPriorities(all), NEW packet, NEW port,
         NEW i \in 1..Len(all), RuleMatches(all[i], packet, port)
  PROVE  \E f \in 1..Len(all) :
           First(all, packet, port, f) /\ (f = i \/ Before(all, f, i))
<1> DEFINE I == 1..Len(all)
           X == {j \in I : RuleMatches(all[j], packet, port)}
           R == {p \in I \X I : Before(all, p[1], p[2])}
<1>1. /\ Len(all) \in Nat
      /\ \A x \in I : ~Before(all, x, x)
      /\ \A x, y, z \in I : Before(all, x, y) /\ Before(all, y, z) => Before(all, x, z)
      /\ \A x, y \in I : x = y \/ Before(all, x, y) \/ Before(all, y, x)
  BY BeforeIsOrder
<1>2. \A x, y \in I : <<x, y>> \in R <=> Before(all, x, y)
  OBVIOUS
<1>3. X \subseteq I /\ i \in X
  OBVIOUS
<1>4. IsFiniteSet(X)
  <2>1. IsFiniteSet(I)
    BY <1>1, FS_Interval
  <2> HIDE DEF X, I
  <2> QED BY <1>3, <2>1, FS_Subset
<1> HIDE DEF R
<1>5. /\ \A x \in X : <<x, x>> \notin R
      /\ \A x, y, z \in X : <<x, y>> \in R /\ <<y, z>> \in R => <<x, z>> \in R
  <2> HIDE DEF X, I
  <2> QED BY <1>1, <1>2, <1>3
<1>6. PICK f \in X : \A y \in X : <<y, f>> \notin R
  <2> HIDE DEF X
  <2> QED BY <1>3, <1>4, <1>5, MinimalElement
<1>7. ASSUME NEW j \in I, Before(all, j, f) PROVE ~RuleMatches(all[j], packet, port)
  <2>1. <<j, f>> \in R
    BY <1>2, <1>3, <1>7
  <2>2. j \notin X
    BY <1>6, <2>1
  <2> QED BY <2>2
<1>8. First(all, packet, port, f)
  BY <1>6, <1>7 DEF First
<1>9. f = i \/ Before(all, f, i)
  <2>1. ~Before(all, i, f)
    BY <1>7
  <2> QED BY <1>1, <1>3, <2>1
<1> QED BY <1>3, <1>8, <1>9

-----------------------------------------------------------------------------
(* The rules of a group as they are declared, and as the encoder reads them. *)
Read(d) ==
  [prio |-> Number[d.prio.lit], access |-> d.access, from |-> d.from, to |-> d.to,
   port |-> d.port]

HasNumber(d) == Is(d.prio, "lit") /\ d.prio.lit \in DOMAIN Number

IsRule(d) ==
  /\ HasNumber(d)
  /\ Number[d.prio.lit] < DenyAllInBound.prio
  /\ NsgUnknown(d) \/ d.access \in {Lit("Allow"), Lit("Deny")}

Gives(sources, D) ==
  /\ IsList(sources)
  /\ \A v : Has(v, "prio") /\ (\E i \in 1..Len(sources) : sources[i] = v)
               <=> \E d \in D : v = Read(d)

LEMMA ReadIs ==
  ASSUME NEW d, HasNumber(d)
  PROVE  /\ Read(d).prio = Number[d.prio.lit] /\ Read(d).prio \in Int
         /\ Read(d).access = d.access
         /\ PriorityOf(Read(d)) = Number[d.prio.lit]
         /\ d.prio # Absent
         /\ NsgUnknown(Read(d)) <=> NsgUnknown(d)
         /\ \A packet, port : RuleMatches(Read(d), packet, port) <=> RuleMatches(d, packet, port)
<1>1. Read(d).prio \in Int /\ Read(d).prio # None /\ Read(d).prio = Number[d.prio.lit]
  BY NumberAssumption DEF Read, HasNumber
<1>2. PriorityOf(Read(d)) = Number[d.prio.lit]
  BY <1>1 DEF PriorityOf
<1>3. /\ Read(d).access = d.access /\ Read(d).from = d.from /\ Read(d).port = d.port
      /\ Read(d).to = d.to
  BY DEF Read
<1>4. NsgUnknown(Read(d)) <=> NsgUnknown(d)
  BY <1>3 DEF NsgUnknown
<1>5. \A packet, port : RuleMatches(Read(d), packet, port) <=> RuleMatches(d, packet, port)
  BY <1>3 DEF RuleMatches
<1>6. d.prio # Absent
  BY DEF HasNumber, Is, Absent
<1> QED BY <1>1, <1>2, <1>3, <1>4, <1>5, <1>6

(* The defaults that allow are about addresses that no verdict looks at.    *)
LEMMA DefaultsDeny ==
  ASSUME NEW r \in Defaults, NEW packet \in Packets, NEW port,
         RuleMatches(r, packet, port)
  PROVE  r = DenyAllInBound
<1> DEFINE ip == packet[1]
<1>a. ip \in PublicIps /\ ~InAny(ip, ProbeNets)
  BY DEF Packets
<1>b. ip \in SourceIps(r.from)
  BY DEF RuleMatches
<1> HIDE DEF ip
<1>1. r.from # Lit("VirtualNetwork")
  <2> SUFFICES ASSUME r.from = Lit("VirtualNetwork") PROVE FALSE
    OBVIOUS
  <2>1. ip \in SourceIps(Lit("VirtualNetwork"))
    BY <1>b
  <2>2. ~Is(Lit("VirtualNetwork"), "items")
    BY DEF Is, Lit
  <2>3. ip \in PrefixIps(Lit("VirtualNetwork"))
    BY <2>1, <2>2, SourcesFacts DEF SourceIps
  <2>4. PrefixIps(Lit("VirtualNetwork")) = {x \in Ips : InAny(x, PrivateNets)}
    BY DEF PrefixIps, Lit
  <2>5. InAny(ip, PrivateNets)
    BY <2>3, <2>4
  <2> QED BY <1>a, <2>5 DEF PublicIps
<1>2. r.from # Lit("AzureLoadBalancer")
  <2> SUFFICES ASSUME r.from = Lit("AzureLoadBalancer") PROVE FALSE
    OBVIOUS
  <2>1. ip \in SourceIps(Lit("AzureLoadBalancer"))
    BY <1>b
  <2>2. ~Is(Lit("AzureLoadBalancer"), "items")
    BY DEF Is, Lit
  <2>3. ip \in PrefixIps(Lit("AzureLoadBalancer"))
    BY <2>1, <2>2, SourcesFacts DEF SourceIps
  <2>4. PrefixIps(Lit("AzureLoadBalancer")) = {x \in Ips : InAny(x, ProbeNets)}
    BY DEF PrefixIps, Lit
  <2>5. InAny(ip, ProbeNets)
    BY <2>3, <2>4
  <2> QED BY <1>a, <2>5
<1> QED BY <1>1, <1>2 DEF Defaults, AllowVnetInBound, AllowAzureLoadBalancerInBound,
                          DefaultRule

(* What the rules among the sources are, one for one, and where the chain    *)
(* has them.                                                                *)
LEMMA GivenRules ==
  ASSUME NEW sources, NEW D, Gives(sources, D), \A d \in D : HasNumber(d)
  PROVE  LET rules == RulesAmong(sources)
             all == WithDefaults(rules)
         IN  /\ HasPriorities(rules) /\ HasPriorities(all)
             /\ Len(rules) \in Nat /\ Len(all) \in Nat /\ Len(rules) <= Len(all)
             /\ \A i \in 1..Len(rules) : all[i] = rules[i] /\ \E d \in D : rules[i] = Read(d)
             /\ \A d \in D : \E i \in 1..Len(rules) : rules[i] = Read(d)
             /\ \A i \in 1..Len(all) : i \notin 1..Len(rules) => all[i] \in Defaults
<1> DEFINE rules == RulesAmong(sources)
           all == WithDefaults(rules)
<1>1. /\ IsList(rules)
      /\ \A v : (\E i \in 1..Len(rules) : rules[i] = v) <=>
                Has(v, "prio") /\ \E i \in 1..Len(sources) : sources[i] = v
  BY RulesAmongIs DEF Gives
<1> HIDE DEF rules
<1>2. \A v : (\E i \in 1..Len(rules) : rules[i] = v) <=> \E d \in D : v = Read(d)
  BY <1>1 DEF Gives
<1>3. \A i \in 1..Len(rules) : \E d \in D : rules[i] = Read(d)
  BY <1>2
<1>4. \A d \in D : \E i \in 1..Len(rules) : rules[i] = Read(d)
  BY <1>2
<1>5. \A i \in 1..Len(rules) : rules[i].prio \in Int
  BY <1>3, ReadIs
<1>6. HasPriorities(rules)
  BY <1>1, <1>5 DEF HasPriorities
<1>7. /\ HasPriorities(all) /\ Len(rules) \in Nat /\ Len(all) \in Nat
      /\ Len(rules) <= Len(all)
      /\ \A i \in 1..Len(rules) : all[i] = rules[i]
      /\ \A i \in (Len(rules) + 1)..Len(all) : all[i] \in Defaults
  BY <1>6, WithDefaultsIs
<1>8. \A i \in 1..Len(all) : i \notin 1..Len(rules) => i \in (Len(rules) + 1)..Len(all)
  BY <1>7
<1> QED BY <1>3, <1>4, <1>6, <1>7, <1>8 DEF rules

(* "unsat" says that the rules as declared do no harm, whatever their order  *)
(* in the file and the sources they came from: a rule that allows a public   *)
(* address on a sensitive port has a Deny before it.                        *)
THEOREM NsgUnsatIsHarmless ==
  ASSUME NEW sources, NEW D, Gives(sources, D), \A d \in D : IsRule(d) /\ ~IsAside(d),
         VerifyAzureNsg(sources) = "unsat"
  PROVE  ~RulesHarm(D)
<1> DEFINE rules == RulesAmong(sources)
           all == WithDefaults(rules)
<1>1. /\ HasPriorities(rules) /\ HasPriorities(all)
      /\ Len(rules) \in Nat /\ Len(all) \in Nat /\ Len(rules) <= Len(all)
      /\ \A i \in 1..Len(rules) : all[i] = rules[i] /\ \E d \in D : rules[i] = Read(d)
      /\ \A d \in D : \E i \in 1..Len(rules) : rules[i] = Read(d)
      /\ \A i \in 1..Len(all) : i \notin 1..Len(rules) => all[i] \in Defaults
  BY GivenRules DEF IsRule
<1>2. /\ \A i \in 1..Len(rules) : ~NsgUnknown(rules[i])
      /\ \A packet \in Packets, port \in SensitivePorts :
           ~ChainAllows(rules, packet, port)
  BY DEF VerifyAzureNsg
<1>3. \A packet, port : ChainAllows(rules, packet, port) <=>
        \E i \in 1..Len(all) : First(all, packet, port, i) /\ all[i].access = Lit("Allow")
  BY <1>1, ChainIsFirstMatch
<1> HIDE DEF rules, all
<1>4. ASSUME NEW d \in D PROVE ~NsgUnknown(d) /\ d.prio # Absent
  <2>1. PICK i \in 1..Len(rules) : rules[i] = Read(d)
    BY <1>1
  <2> QED BY <1>2, <2>1, ReadIs DEF IsRule
<1>5. ASSUME NEW packet \in Packets, NEW p \in SensitivePorts,
             NEW r \in D, RuleMatches(r, packet, p), r.access = Lit("Allow"),
             \A d \in D : RuleMatches(d, packet, p) /\ d.access = Lit("Deny") =>
                          Number[d.prio.lit] > Number[r.prio.lit]
      PROVE  FALSE
  <2>1. PICK i \in 1..Len(rules) : rules[i] = Read(r)
    BY <1>1
  <2>2. i \in 1..Len(all) /\ all[i] = Read(r) /\ RuleMatches(all[i], packet, p)
    BY <1>1, <1>5, <2>1, ReadIs DEF IsRule
  <2>3. PICK f \in 1..Len(all) : First(all, packet, p, f) /\ (f = i \/ Before(all, f, i))
    BY <1>1, <2>2, FirstExists
  <2>4. all[f].access # Lit("Allow")
    BY <1>2, <1>3, <2>3
  <2>5. f # i
    BY <1>5, <2>2, <2>4, ReadIs DEF IsRule
  <2>6. PriorityOf(all[f]) <= PriorityOf(all[i])
    <3>1. \A j \in 1..Len(all) : PriorityOf(all[j]) \in Int
      BY <1>1, BeforeIsOrder
    <3>2. Before(all, f, i) /\ PriorityOf(all[f]) \in Int /\ PriorityOf(all[i]) \in Int
      BY <2>2, <2>3, <2>5, <3>1
    <3> QED BY <3>2 DEF Before
  <2>7. PriorityOf(all[i]) = Number[r.prio.lit] /\ PriorityOf(all[i]) < 65500
        /\ PriorityOf(all[i]) \in Int
    <3>1. HasNumber(r) /\ Number[r.prio.lit] < 65500
      BY DEF IsRule, DenyAllInBound, DefaultRule
    <3>2. PriorityOf(Read(r)) = Number[r.prio.lit] /\ Number[r.prio.lit] \in Int
      BY <3>1, ReadIs
    <3> QED BY <2>2, <3>1, <3>2
  <2>8. RuleMatches(all[f], packet, p)
    BY <2>3 DEF First
  <2>9. CASE f \notin 1..Len(rules)
    <3>1. all[f] = DenyAllInBound
      BY <1>1, <2>8, <2>9, DefaultsDeny
    <3>2. PriorityOf(all[f]) = 65500
      BY <3>1, NumberAssumption DEF DenyAllInBound, DefaultRule, PriorityOf
    <3> QED BY <2>6, <2>7, <3>2
  <2>10. CASE f \in 1..Len(rules)
    <3>1. PICK d \in D : rules[f] = Read(d)
      BY <1>1, <2>10
    <3>2. all[f] = Read(d)
      BY <1>1, <2>10, <3>1
    <3>3. d.access # Lit("Allow") /\ RuleMatches(d, packet, p)
      BY <2>4, <2>8, <3>2, ReadIs DEF IsRule
    <3>4. d.access = Lit("Deny")
      BY <1>4, <3>3 DEF IsRule
    <3>5. Number[d.prio.lit] > Number[r.prio.lit]
      BY <1>5, <3>3, <3>4
    <3>6. PriorityOf(all[f]) = Number[d.prio.lit] /\ PriorityOf(all[f]) \in Int
      <4>1. HasNumber(d)
        BY DEF IsRule
      <4>2. PriorityOf(Read(d)) = Number[d.prio.lit] /\ Number[d.prio.lit] \in Int
        BY <4>1, ReadIs
      <4> QED BY <3>2, <4>2
    <3> QED BY <2>6, <2>7, <3>5, <3>6
  <2> QED BY <2>9, <2>10
<1>6. \A r \in D : \A packet, port :
        MayMatch(r, packet, port) <=> RuleMatches(r, packet, port)
  BY DEF MayMatch
<1> QED BY <1>4, <1>5, <1>6 DEF RulesHarm

(* "sat" says that they do, where no two rules of one priority disagree: the *)
(* rules the encoder adds and the order of the file make no harm.           *)
THEOREM NsgSatIsHarm ==
  ASSUME NEW sources, NEW D, Gives(sources, D), \A d \in D : HasNumber(d),
         VerifyAzureNsg(sources) = "sat", ~RuleTie(D)
  PROVE  RulesHarm(D)
<1> DEFINE rules == RulesAmong(sources)
           all == WithDefaults(rules)
<1>1. /\ HasPriorities(rules) /\ HasPriorities(all)
      /\ Len(rules) \in Nat /\ Len(all) \in Nat /\ Len(rules) <= Len(all)
      /\ \A i \in 1..Len(rules) : all[i] = rules[i] /\ \E d \in D : rules[i] = Read(d)
      /\ \A d \in D : \E i \in 1..Len(rules) : rules[i] = Read(d)
      /\ \A i \in 1..Len(all) : i \notin 1..Len(rules) => all[i] \in Defaults
  BY GivenRules
<1>2. PICK packet \in Packets, p \in SensitivePorts :
        ChainAllows(rules, packet, p)
  BY DEF VerifyAzureNsg
<1>3. PICK i \in 1..Len(all) : First(all, packet, p, i) /\ all[i].access = Lit("Allow")
  BY <1>1, <1>2, ChainIsFirstMatch
<1> HIDE DEF rules, all
<1>4. RuleMatches(all[i], packet, p)
  BY <1>3 DEF First
<1>5. i \in 1..Len(rules)
  <2> SUFFICES ASSUME i \notin 1..Len(rules) PROVE FALSE
    OBVIOUS
  <2>1. all[i] = DenyAllInBound
    BY <1>1, <1>2, <1>4, DefaultsDeny
  <2>2. DenyAllInBound.access # Lit("Allow")
    BY DEF DenyAllInBound, DefaultRule, Lit
  <2> QED BY <1>3, <2>1, <2>2
<1>6. PICK r \in D : rules[i] = Read(r)
  BY <1>1, <1>5
<1>7. all[i] = Read(r)
  BY <1>1, <1>5, <1>6
<1>8. r.access = Lit("Allow") /\ RuleMatches(r, packet, p)
  BY <1>3, <1>4, <1>7, ReadIs
<1>9. ASSUME NEW d \in D, RuleMatches(d, packet, p), d.access = Lit("Deny")
      PROVE  Number[d.prio.lit] > Number[r.prio.lit]
  <2>1. PICK j \in 1..Len(rules) : rules[j] = Read(d)
    BY <1>1
  <2>2. j \in 1..Len(all) /\ all[j] = Read(d) /\ RuleMatches(all[j], packet, p)
    BY <1>1, <1>9, <2>1, ReadIs
  <2>3. ~Before(all, j, i)
    BY <1>3, <2>2 DEF First
  <2>4. /\ PriorityOf(all[j]) = Number[d.prio.lit] /\ PriorityOf(all[j]) \in Int
        /\ PriorityOf(all[i]) = Number[r.prio.lit] /\ PriorityOf(all[i]) \in Int
    <3>1. HasNumber(d) /\ HasNumber(r)
      OBVIOUS
    <3>2. /\ PriorityOf(Read(d)) = Number[d.prio.lit] /\ Number[d.prio.lit] \in Int
          /\ PriorityOf(Read(r)) = Number[r.prio.lit] /\ Number[r.prio.lit] \in Int
      BY <3>1, ReadIs
    <3> QED BY <1>7, <2>2, <3>2
  <2>5. Number[d.prio.lit] >= Number[r.prio.lit]
    BY <2>3, <2>4 DEF Before
  <2>6. Lit("Deny") # Lit("Allow")
    BY DEF Lit
  <2>7. Number[d.prio.lit] # Number[r.prio.lit]
    BY <1>8, <1>9, <2>6, ReadIs DEF RuleTie
  <2> QED BY <2>4, <2>5, <2>7
<1>10. MayMatch(r, packet, p)
  BY <1>8 DEF MayMatch
<1>11. \A d \in D : MayMatch(d, packet, p) /\ d.access = Lit("Deny") =>
                     RuleMatches(d, packet, p)
  <2>1. Lit("Deny") # Lit("Allow")
    BY DEF Lit
  <2> QED BY <2>1 DEF MayMatch, IsAside
<1> QED BY <1>2, <1>8, <1>9, <1>10, <1>11 DEF RulesHarm

-----------------------------------------------------------------------------
(* A list of rules opens a sensitive port to the public: SgHarm of rules     *)
(* whose values are known.                                                  *)
Opens(r) ==
  IsPortSensitive(r.port) /\ \E k \in DOMAIN r.cidr : PublicCidr(r.cidr[k])

LEMMA NotStopped ==
  ASSUME NEW r, SgStop(r) = "none", IsPortSensitive(r.port),
         NEW k \in DOMAIN r.cidr, Is(r.cidr[k], "lit")
  PROVE  r.cidr[k].lit \in DOMAIN Cidr
<1> DEFINE odd == {i \in DOMAIN r.cidr :
                     \/ Is(r.cidr[i], "items")
                     \/ Is(r.cidr[i], "lit") /\ r.cidr[i].lit \notin DOMAIN Cidr}
<1>1. odd = {}
  BY DEF SgStop
<1> QED BY <1>1

(* An entry lets in a public address exactly when it is public.             *)
LEMMA EntryIsPublic ==
  ASSUME NEW v, Is(v, "lit") => v.lit \in DOMAIN Cidr
  PROVE  CidrIps(v) \cap PublicIps # {} <=> PublicCidr(v)
<1>1. PublicIps \subseteq Ips
  BY DEF PublicIps
<1>2. CASE Is(v, "lit")
  <2>1. CidrIps(v) = {ip \in Ips : InCidr(ip, v.lit)}
    BY <1>2 DEF CidrIps
  <2>2. PublicCidr(v) <=> \E ip \in PublicIps : InCidr(ip, v.lit)
    BY <1>2 DEF PublicCidr
  <2> QED BY <1>1, <2>1, <2>2
<1>3. CASE ~Is(v, "lit")
  <2>1. CidrIps(v) = {ip \in Ips : InCidr(ip, Everywhere)}
    BY <1>3 DEF CidrIps
  <2>2. PublicCidr(v)
    BY <1>3 DEF PublicCidr
  <2> QED BY <1>1, <2>1, <2>2, EverywhereAssumption
<1> QED BY <1>2, <1>3

LEMMA RuleOpens ==
  ASSUME NEW r, SgStop(r) = "none"
  PROVE  SgRuleIps(r) \cap PublicIps # {} <=> Opens(r)
<1>1. CASE ~IsPortSensitive(r.port)
  BY <1>1 DEF SgRuleIps, Opens
<1>2. CASE IsPortSensitive(r.port)
  <2>1. \A k \in DOMAIN r.cidr :
          CidrIps(r.cidr[k]) \cap PublicIps # {} <=> PublicCidr(r.cidr[k])
    BY <1>2, NotStopped, EntryIsPublic
  <2>2. SgRuleIps(r) = UNION {CidrIps(r.cidr[k]) : k \in DOMAIN r.cidr}
    BY <1>2 DEF SgRuleIps
  <2>3. SgRuleIps(r) \cap PublicIps # {} <=>
          \E k \in DOMAIN r.cidr : CidrIps(r.cidr[k]) \cap PublicIps # {}
    BY <2>2
  <2> QED BY <1>2, <2>1, <2>3 DEF Opens
<1> QED BY <1>1, <1>2

(* "unsat" and "sat" say that no rule opens a sensitive port to the public,  *)
(* and that one does, unresolved entries being open to everyone; "unsat"     *)
(* says too that nothing in the rules stopped the loop.                     *)
THEOREM SgVerdictIsHarm ==
  ASSUME NEW rules, IsList(rules)
  PROVE  /\ VerifySecurityGroup(rules) = "unsat" =>
              \A i \in 1..Len(rules) : SgStop(rules[i]) = "none" /\ ~Opens(rules[i])
         /\ VerifySecurityGroup(rules) = "sat" =>
              \E i \in 1..Len(rules) : Opens(rules[i])
<1> DEFINE stops == {i \in 1..Len(rules) : SgStop(rules[i]) # "none"}
           hit == \E i \in 1..Len(rules) : SgRuleIps(rules[i]) \cap PublicIps # {}
<1>1. \A r : SgStop(r) \in {"none", "unresolvable", "crash"}
  BY DEF SgStop
<1>2. VerifySecurityGroup(rules) =
        IF stops # {} THEN SgStop(rules[Min(stops)])
        ELSE IF hit THEN "sat" ELSE "unsat"
  BY DEF VerifySecurityGroup
<1>3. CASE stops # {}
  <2>1. VerifySecurityGroup(rules) \notin {"sat", "unsat"}
    <3> HIDE DEF stops
    <3> QED BY <1>1, <1>2, <1>3
  <2> QED BY <2>1
<1>4. CASE stops = {}
  <2>1. \A i \in 1..Len(rules) : SgStop(rules[i]) = "none"
    BY <1>4
  <2>2. hit <=> \E i \in 1..Len(rules) : Opens(rules[i])
    BY <2>1, RuleOpens
  <2>3. VerifySecurityGroup(rules) = IF hit THEN "sat" ELSE "unsat"
    BY <1>2, <1>4
  <2>4. CASE hit
    <3>1. VerifySecurityGroup(rules) = "sat"
      BY <2>3, <2>4
    <3> QED BY <2>2, <2>4, <3>1
  <2>5. CASE ~hit
    <3>1. VerifySecurityGroup(rules) = "unsat"
      BY <2>3, <2>5
    <3> QED BY <2>1, <2>2, <2>5, <3>1
  <2> QED BY <2>4, <2>5
<1> QED BY <1>3, <1>4

-----------------------------------------------------------------------------
(* ARM templates.  The values of expressions.                               *)

(* What x comes to within so many calls, and what it means within as many.   *)
Evals ==
  CHOOSE g : g = [n \in Nat |-> [x \in ArmExprs |->
                    IF n = 0 THEN Endless ELSE EvalStep(x, g[n - 1], cfg.template)]]

Meanings ==
  CHOOSE g : g = [n \in Nat |-> [x \in ArmExprs |->
                    IF n = 0 THEN Gone ELSE MeansStep(x, g[n - 1], cfg.template)]]

LEMMA EvalIs ==
  /\ \A e : EvalArm(e, cfg.template) = Evals[RecursionLimit][e]
  /\ \A x \in ArmExprs : Evals[0][x] = Endless
  /\ \A k \in Nat, x \in ArmExprs : Evals[k + 1][x] = EvalStep(x, Evals[k], cfg.template)
<1>1. \A f : /\ AtFirst("eval") = [x \in ArmExprs |-> Endless]
            /\ Further("eval", f) = [x \in ArmExprs |-> EvalStep(x, f, cfg.template)]
  BY DEF AtFirst, Further
<1> DEFINE Body(g) == [n \in Nat |-> [x \in ArmExprs |->
                         IF n = 0 THEN Endless ELSE EvalStep(x, g[n - 1], cfg.template)]]
<1>2. ASSUME NEW g PROVE Levelled("eval", g) <=> g = Body(g)
  <2> DEFINE L == [k \in Nat |-> IF k = 0 THEN AtFirst("eval") ELSE Further("eval", g[k - 1])]
  <2>1. ASSUME NEW k \in Nat PROVE L[k] = Body(g)[k]
    BY <1>1
  <2>2. L = Body(g)
    BY <2>1
  <2> QED BY <2>2 DEF Levelled
<1>3. Evals = CHOOSE g : g = Body(g)
  BY DEF Evals
<1>4. \A e : EvalArm(e, cfg.template) = Evals[RecursionLimit][e]
  BY DEF EvalArm, Evals
<1> HIDE DEF Body
<1>5. PICK F : F = Body(F)
  BY <1>2, LevelsAre
<1>6. Evals = Body(Evals)
  BY <1>3, <1>5
<1>7. Levelled("eval", Evals)
  BY <1>2, <1>6
<1> QED BY <1>1, <1>4, <1>7, LevelledIs

LEMMA MeansIs ==
  /\ \A e : Means(e) = Meanings[RecursionLimit + 2][e]
  /\ \A x \in ArmExprs : Meanings[0][x] = Gone
  /\ \A k \in Nat, x \in ArmExprs :
       Meanings[k + 1][x] = MeansStep(x, Meanings[k], cfg.template)
<1>1. \A f : /\ AtFirst("means") = [x \in ArmExprs |-> Gone]
            /\ Further("means", f) = [x \in ArmExprs |-> MeansStep(x, f, cfg.template)]
  BY DEF AtFirst, Further
<1> DEFINE Body(g) == [n \in Nat |-> [x \in ArmExprs |->
                         IF n = 0 THEN Gone ELSE MeansStep(x, g[n - 1], cfg.template)]]
<1>2. ASSUME NEW g PROVE Levelled("means", g) <=> g = Body(g)
  <2> DEFINE L == [k \in Nat |-> IF k = 0 THEN AtFirst("means") ELSE Further("means", g[k - 1])]
  <2>1. ASSUME NEW k \in Nat PROVE L[k] = Body(g)[k]
    BY <1>1
  <2>2. L = Body(g)
    BY <2>1
  <2> QED BY <2>2 DEF Levelled
<1>3. Meanings = CHOOSE g : g = Body(g)
  BY DEF Meanings
<1>4. \A e : Means(e) = Meanings[RecursionLimit + 2][e]
  BY DEF Means, Meanings
<1> HIDE DEF Body
<1>5. PICK F : F = Body(F)
  BY <1>2, LevelsAre
<1>6. Meanings = Body(Meanings)
  BY <1>3, <1>5
<1>7. Levelled("means", Meanings)
  BY <1>2, <1>6
<1> QED BY <1>1, <1>4, <1>7, LevelledIs

-----------------------------------------------------------------------------
(* One step of an evaluation.                                               *)
Followed(n, values, f) ==
  IF n \notin DOMAIN values \/ values[n] = Absent THEN Gone
  ELSE IF Is(values[n], "boxed") THEN Written(values[n].boxed) ELSE f[values[n]]

Joint(a, b) ==
  IF IsUnresolved(a) \/ a = Endless THEN a
  ELSE IF IsUnresolved(b) \/ b = Endless THEN b ELSE Concatenated(a, b)

MeantByName(n, values, f) ==
  IF n \notin DOMAIN values \/ values[n] = Absent THEN Gone
  ELSE f[IF Is(values[n], "boxed") THEN values[n].boxed ELSE values[n]]

JointMeaning(a, b) ==
  IF Is(a, "lit") /\ Is(b, "lit") THEN Lit(Joined[<<a.lit, b.lit>>])
  ELSE IF Is(a, "items") /\ Is(b, "items") THEN Items(a.items \o b.items)
  ELSE Gone

IsPlain(v) == Is(v, "lit") \/ v = Absent

LEMMA ArmForms ==
  /\ \A v : IsPlain(v) \/ DOMAIN v = RuleFields =>
       ~Is(v, "items") /\ ~IsUnresolved(v) /\ ~Is(v, "ref") /\ ~Is(v, "concat")
         /\ ~Is(v, "param") /\ ~Is(v, "variable") /\ ~Is(v, "call")
  /\ \A v : IsPlain(v) => ~Has(v, "prio") /\ v # Endless
  /\ \A v : IsUnresolved(v) => ~Is(v, "items") /\ ~Has(v, "prio") /\ ~Is(v, "lit") /\ v # Endless
  /\ \A v : Is(v, "items") => ~Has(v, "prio") /\ ~Is(v, "ref") /\ ~Is(v, "lit") /\ v # Endless
  /\ \A v : Has(v, "prio") => ~Is(v, "ref") /\ ~Is(v, "lit") /\ v # Endless
  /\ \A v : DOMAIN v = RuleFields => Has(v, "prio")
  /\ \A x : IsPlain(Lit(x)) /\ Is(Items(x), "items") /\ Items(x).items = x
  /\ IsUnresolved(Gone)
<1>1. RuleFields = {"prio", "access", "from", "to", "port"}
  BY DEF RuleFields
<1>2. \A x : \A y : RuleFields # {x}
  BY <1>1
<1> QED BY <1>1, <1>2 DEF IsPlain, Is, IsUnresolved, Has, Endless, Absent, Lit, Items, Gone

LEMMA ArmExprIs ==
  ASSUME NEW e \in ArmExprs
  PROVE  /\ Parts(e) \subseteq ArmExprs
         /\ \/ IsPlain(e) \/ Is(e, "call") \/ Is(e, "param") \/ Is(e, "variable")
            \/ Is(e, "concat") \/ Is(e, "items") \/ DOMAIN e = RuleFields
         /\ Is(e, "items") => IsList(e.items) /\ \A i \in DOMAIN e.items : e.items[i] \in ArmExprs
         /\ Is(e, "concat") => e.concat[1] \in ArmExprs /\ e.concat[2] \in ArmExprs
         /\ DOMAIN e = RuleFields => \A f \in DOMAIN e : e[f] \in ArmExprs
<1>1. /\ Parts(e) \subseteq ArmExprs
      /\ \/ DOMAIN e \in {{"lit"}, {"call"}, {"param"}, {"variable"}, {"concat"}, {"items"}}
         \/ DOMAIN e = RuleFields
         \/ e = Absent
      /\ Is(e, "items") => IsList(e.items)
  BY ArmAssumption
<1>2. \/ IsPlain(e) \/ Is(e, "call") \/ Is(e, "param") \/ Is(e, "variable")
      \/ Is(e, "concat") \/ Is(e, "items") \/ DOMAIN e = RuleFields
  BY <1>1 DEF IsPlain, Is
<1>3. Is(e, "items") => Parts(e) = ToSet(e.items)
  BY DEF Parts
<1>4. Is(e, "concat") => Parts(e) = {e.concat[1], e.concat[2]}
  BY DEF Parts, Is
<1>5. DOMAIN e = RuleFields => Parts(e) = {e[f] : f \in DOMAIN e}
  BY ArmForms DEF Parts
<1> QED BY <1>1, <1>2, <1>3, <1>4, <1>5 DEF ToSet

ListAt(f, s) == [i \in DOMAIN s |-> f[s[i]]]
FieldsAt(f, e) == [x \in DOMAIN e |-> f[e[x]]]

LEMMA EvalStepIs ==
  ASSUME NEW e, NEW f
  PROVE  LET t == cfg.template v == EvalStep(e, f, t) IN
         /\ IsPlain(e) => v = e
         /\ Is(e, "call") => v = Gone
         /\ Is(e, "param") => v = Followed(e.param, t.parameters, f)
         /\ Is(e, "variable") => v = Followed(e.variable, t.variables, f)
         /\ Is(e, "concat") => v = Joint(f[e.concat[1]], f[e.concat[2]])
         /\ Is(e, "items") => v = Ended(ListAt(f, e.items), Items(ListAt(f, e.items)))
         /\ DOMAIN e = RuleFields => v = Ended(FieldsAt(f, e), FieldsAt(f, e))
<1>1. IsPlain(e) => EvalStep(e, f, cfg.template) = e
  BY ArmForms DEF EvalStep
<1>2. Is(e, "call") => EvalStep(e, f, cfg.template) = Gone
  BY DEF EvalStep, Is, Has
<1>3. Is(e, "param") =>
        EvalStep(e, f, cfg.template) = Followed(e.param, cfg.template.parameters, f)
  BY DEF EvalStep, Is, Has, Followed
<1>4. Is(e, "variable") =>
        EvalStep(e, f, cfg.template) = Followed(e.variable, cfg.template.variables, f)
  BY DEF EvalStep, Is, Has, Followed
<1>5. Is(e, "concat") => EvalStep(e, f, cfg.template) = Joint(f[e.concat[1]], f[e.concat[2]])
  BY DEF EvalStep, Is, Has, Joint
<1>6. Is(e, "items") =>
        EvalStep(e, f, cfg.template) = Ended(ListAt(f, e.items), Items(ListAt(f, e.items)))
  BY DEF EvalStep, Is, Has, ListAt
<1>7. DOMAIN e = RuleFields =>
        EvalStep(e, f, cfg.template) = Ended(FieldsAt(f, e), FieldsAt(f, e))
  BY ArmForms DEF EvalStep, FieldsAt
<1> QED BY <1>1, <1>2, <1>3, <1>4, <1>5, <1>6, <1>7

LEMMA MeansStepIs ==
  ASSUME NEW e, NEW f
  PROVE  LET t == cfg.template v == MeansStep(e, f, t) IN
         /\ IsPlain(e) \/ DOMAIN e = RuleFields => v = e
         /\ Is(e, "call") => v = Gone
         /\ Is(e, "param") => v = MeantByName(e.param, t.parameters, f)
         /\ Is(e, "variable") => v = MeantByName(e.variable, t.variables, f)
         /\ Is(e, "concat") => v = JointMeaning(f[e.concat[1]], f[e.concat[2]])
         /\ Is(e, "items") => v = Items(ListAt(f, e.items))
<1>1. IsPlain(e) \/ DOMAIN e = RuleFields => MeansStep(e, f, cfg.template) = e
  BY ArmForms DEF MeansStep
<1>2. Is(e, "call") => MeansStep(e, f, cfg.template) = Gone
  BY DEF MeansStep, Is
<1>3. Is(e, "param") =>
        MeansStep(e, f, cfg.template) = MeantByName(e.param, cfg.template.parameters, f)
  BY DEF MeansStep, Is, MeantByName
<1>4. Is(e, "variable") =>
        MeansStep(e, f, cfg.template) = MeantByName(e.variable, cfg.template.variables, f)
  BY DEF MeansStep, Is, MeantByName
<1>5. Is(e, "concat") =>
        MeansStep(e, f, cfg.template) = JointMeaning(f[e.concat[1]], f[e.concat[2]])
  BY DEF MeansStep, Is, JointMeaning
<1>6. Is(e, "items") => MeansStep(e, f, cfg.template) = Items(ListAt(f, e.items))
  BY DEF MeansStep, Is, ListAt
<1> QED BY <1>1, <1>2, <1>3, <1>4, <1>5, <1>6

(* What has come to an end comes to the same with a call more.              *)
LEMMA FollowedStays ==
  ASSUME NEW n, NEW values, NEW f, NEW g,
         n \in DOMAIN values => values[n] \in ArmExprs \/ Is(values[n], "boxed"),
         \A x \in ArmExprs : f[x] # Endless => g[x] = f[x],
         Followed(n, values, f) # Endless
  PROVE  Followed(n, values, g) = Followed(n, values, f)
BY DEF Followed

LEMMA JointStays ==
  ASSUME NEW a, NEW b, NEW c, NEW d, a # Endless => c = a, b # Endless => d = b,
         Joint(a, b) # Endless
  PROVE  Joint(c, d) = Joint(a, b)
BY ArmForms DEF Joint

LEMMA EndedIs ==
  ASSUME NEW p, NEW v, Ended(p, v) # Endless
  PROVE  Ended(p, v) = v /\ \A x \in DOMAIN p : p[x] # Endless
BY DEF Ended

LEMMA EvalStepStays ==
  ASSUME IsTemplate(cfg.template), NEW f, NEW g, NEW e \in ArmExprs,
         \A x \in ArmExprs : f[x] # Endless => g[x] = f[x],
         EvalStep(e, f, cfg.template) # Endless
  PROVE  EvalStep(e, g, cfg.template) = EvalStep(e, f, cfg.template)
<1> DEFINE t == cfg.template
<1>1. CASE IsPlain(e) \/ Is(e, "call")
  BY <1>1, EvalStepIs
<1>2. CASE Is(e, "param")
  <2>1. \A n \in DOMAIN t.parameters :
          t.parameters[n] \in ArmExprs \/ Is(t.parameters[n], "boxed")
    BY DEF IsTemplate
  <2>2. Followed(e.param, t.parameters, f) # Endless
    BY <1>2, EvalStepIs
  <2>3. Followed(e.param, t.parameters, g) = Followed(e.param, t.parameters, f)
    BY <2>1, <2>2, FollowedStays
  <2> QED BY <1>2, <2>3, EvalStepIs
<1>3. CASE Is(e, "variable")
  <2>1. \A n \in DOMAIN t.variables : t.variables[n] \in ArmExprs
    BY DEF IsTemplate
  <2>2. Followed(e.variable, t.variables, f) # Endless
    BY <1>3, EvalStepIs
  <2>3. Followed(e.variable, t.variables, g) = Followed(e.variable, t.variables, f)
    BY <2>1, <2>2, FollowedStays
  <2> QED BY <1>3, <2>3, EvalStepIs
<1>4. CASE Is(e, "concat")
  <2>1. e.concat[1] \in ArmExprs /\ e.concat[2] \in ArmExprs
    BY <1>4, ArmExprIs
  <2>2. Joint(f[e.concat[1]], f[e.concat[2]]) # Endless
    BY <1>4, EvalStepIs
  <2>3. Joint(g[e.concat[1]], g[e.concat[2]]) = Joint(f[e.concat[1]], f[e.concat[2]])
    BY <2>1, <2>2, JointStays
  <2> QED BY <1>4, <2>3, EvalStepIs
<1>5. CASE Is(e, "items")
  <2>1. \A i \in DOMAIN e.items : e.items[i] \in ArmExprs
    BY <1>5, ArmExprIs
  <2>2. \A i \in DOMAIN ListAt(f, e.items) : ListAt(f, e.items)[i] # Endless
    BY <1>5, EvalStepIs, EndedIs
  <2>3. ListAt(g, e.items) = ListAt(f, e.items)
    BY <2>1, <2>2 DEF ListAt
  <2> QED BY <1>5, <2>3, EvalStepIs
<1>6. CASE DOMAIN e = RuleFields
  <2>1. \A x \in DOMAIN e : e[x] \in ArmExprs
    BY <1>6, ArmExprIs
  <2>2. \A x \in DOMAIN FieldsAt(f, e) : FieldsAt(f, e)[x] # Endless
    BY <1>6, EvalStepIs, EndedIs
  <2>3. FieldsAt(g, e) = FieldsAt(f, e)
    BY <2>1, <2>2 DEF FieldsAt
  <2> QED BY <1>6, <2>3, EvalStepIs
<1> QED BY <1>1, <1>2, <1>3, <1>4, <1>5, <1>6, ArmExprIs

LEMMA EvalStays ==
  ASSUME IsTemplate(cfg.template)
  PROVE  \A k \in Nat : \A x \in ArmExprs : Evals[k][x] # Endless => Evals[k + 1][x] = Evals[k][x]
<1> DEFINE S == {k \in Nat : \A x \in ArmExprs :
                               Evals[k][x] # Endless => Evals[k + 1][x] = Evals[k][x]}
<1>1. 0 \in S
  BY EvalIs
<1>2. ASSUME NEW k \in Nat, k \in S PROVE k + 1 \in S
  <2> SUFFICES ASSUME NEW x \in ArmExprs, Evals[k + 1][x] # Endless
               PROVE  Evals[(k + 1) + 1][x] = Evals[k + 1][x]
    OBVIOUS
  <2>1. \A y \in ArmExprs : Evals[k][y] # Endless => Evals[k + 1][y] = Evals[k][y]
    BY <1>2
  <2>2. /\ Evals[k + 1][x] = EvalStep(x, Evals[k], cfg.template)
        /\ Evals[(k + 1) + 1][x] = EvalStep(x, Evals[k + 1], cfg.template)
    BY EvalIs
  <2> QED BY <2>1, <2>2, EvalStepStays
<1> HIDE DEF S
<1>3. \A k \in Nat : k \in S
  BY <1>1, <1>2, Induction
<1> QED BY <1>3 DEF S

-----------------------------------------------------------------------------
(* What a value that the parser found tells of what is meant: it is the      *)
(* same, or a text for a list, or both have no value, or both are lists or  *)
(* rules.  Lists are compared to a depth of two.                            *)
TellsApart(v, m) ==
  \/ v = m /\ IsPlain(v)
  \/ v = Lit(ListText)
  \/ IsUnresolved(v) /\ IsUnresolved(m)
  \/ Has(v, "prio") /\ Has(m, "prio")

AreLists(v, m) == Is(v, "items") /\ Is(m, "items") /\ DOMAIN v.items = DOMAIN m.items

TellsFlat(v, m) == TellsApart(v, m) \/ AreLists(v, m)

TellsItems(v, m) ==
  \/ TellsApart(v, m)
  \/ AreLists(v, m) /\ \A i \in DOMAIN v.items : TellsFlat(v.items[i], m.items[i])

Tells(v, m) ==
  \/ TellsApart(v, m)
  \/ AreLists(v, m) /\ \A i \in DOMAIN v.items : TellsItems(v.items[i], m.items[i])

LEMMA TellsLess ==
  ASSUME NEW v, NEW m
  PROVE  (Tells(v, m) => TellsItems(v, m)) /\ (TellsItems(v, m) => TellsFlat(v, m))
<1>1. \A x, y : TellsItems(x, y) => TellsFlat(x, y)
  BY DEF TellsItems, TellsFlat
<1> QED BY <1>1 DEF TellsItems, Tells

LEMMA JointTells ==
  ASSUME NEW a, NEW b, NEW ma, NEW mb,
         a # Endless => Tells(a, ma), b # Endless => Tells(b, mb), Joint(a, b) # Endless
  PROVE  Tells(Joint(a, b), JointMeaning(ma, mb))
<1> DEFINE w == JointMeaning(ma, mb)
<1>1. a # Endless /\ Tells(a, ma)
  BY DEF Joint
<1>2. CASE IsUnresolved(a)
  <2>1. IsUnresolved(ma)
    BY <1>1, <1>2, ArmForms DEF Tells, TellsApart, AreLists
  <2>2. w = Gone
    BY <2>1, ArmForms DEF JointMeaning
  <2> QED BY <1>2, <2>2, ArmForms DEF Joint, Tells, TellsApart
<1>3. CASE ~IsUnresolved(a)
  <2>1. b # Endless /\ Tells(b, mb)
    BY <1>1, <1>3 DEF Joint
  <2>2. CASE IsUnresolved(b)
    <3>1. IsUnresolved(mb)
      BY <2>1, <2>2, ArmForms DEF Tells, TellsApart, AreLists
    <3>2. w = Gone
      BY <3>1, ArmForms DEF JointMeaning
    <3> QED BY <1>1, <1>3, <2>2, <3>2, ArmForms DEF Joint, Tells, TellsApart
  <2>3. CASE ~IsUnresolved(b)
    <3>1. Joint(a, b) = Concatenated(a, b)
      BY <1>1, <1>3, <2>1, <2>3 DEF Joint
    <3>2. CASE Is(a, "lit") /\ Is(b, "lit") /\ Lit(ListText) \notin {a, b}
      <4>1. ma = a /\ mb = b
        BY <1>1, <2>1, <3>2, ArmForms DEF Tells, TellsApart, AreLists
      <4>2. w = Lit(Joined[<<a.lit, b.lit>>]) /\ Joint(a, b) = w
        BY <3>1, <3>2, <4>1 DEF JointMeaning, Concatenated
      <4>3. IsPlain(w)
        BY <4>2, ArmForms
      <4> QED BY <4>2, <4>3 DEF Tells, TellsApart
    <3>3. CASE ~(Is(a, "lit") /\ Is(b, "lit") /\ Lit(ListText) \notin {a, b})
      <4>1. Joint(a, b) = Lit(ListText)
        BY <3>1, <3>3 DEF Concatenated
      <4> QED BY <4>1 DEF Tells, TellsApart
    <3> QED BY <3>2, <3>3
  <2> QED BY <2>2, <2>3
<1> QED BY <1>2, <1>3

LEMMA WrittenTells ==
  ASSUME NEW b \in ArmExprs, NEW m \in Nat, m >= 2
  PROVE  Tells(Written(b), Meanings[m][b])
<1>1. m - 1 \in Nat /\ m - 2 \in Nat /\ (m - 1) + 1 = m /\ (m - 2) + 1 = m - 1
  OBVIOUS
<1>2. /\ Meanings[m][b] = MeansStep(b, Meanings[m - 1], cfg.template)
      /\ \A x \in ArmExprs : Meanings[m - 1][x] = MeansStep(x, Meanings[m - 2], cfg.template)
  BY <1>1, MeansIs
<1>3. \A x \in ArmExprs : IsPlain(x) => Meanings[m - 1][x] = x
  BY <1>2, MeansStepIs
<1>4. CASE Is(b, "lit")
  <2>1. IsPlain(b)
    BY <1>4 DEF IsPlain
  <2>2. Meanings[m][b] = b /\ Written(b) = b
    BY <1>2, <1>4, <2>1, MeansStepIs DEF Written
  <2> QED BY <2>1, <2>2 DEF Tells, TellsApart
<1>5. CASE Is(b, "items")
  <2> DEFINE s == [i \in DOMAIN b.items |->
                     IF Is(b.items[i], "lit") THEN b.items[i] ELSE Lit(ListText)]
             l == ListAt(Meanings[m - 1], b.items)
  <2>1. Written(b) = Items(s)
    BY <1>5, ArmForms DEF Written
  <2>2. Meanings[m][b] = Items(l)
    BY <1>2, <1>5, MeansStepIs
  <2>3. DOMAIN s = DOMAIN l
    BY DEF ListAt
  <2>4. ASSUME NEW i \in DOMAIN s PROVE TellsItems(s[i], l[i])
    <3>1. CASE Is(b.items[i], "lit")
      <4>1. IsPlain(b.items[i]) /\ b.items[i] \in ArmExprs
        BY <1>5, <3>1, ArmExprIs DEF IsPlain
      <4>2. s[i] = b.items[i] /\ l[i] = Meanings[m - 1][b.items[i]]
        BY <3>1 DEF ListAt
      <4> QED BY <1>3, <4>1, <4>2 DEF TellsItems, TellsApart
    <3>2. CASE ~Is(b.items[i], "lit")
      <4>1. s[i] = Lit(ListText)
        BY <3>2
      <4> QED BY <4>1 DEF TellsItems, TellsApart
    <3> QED BY <3>1, <3>2
  <2> HIDE DEF s, l
  <2> QED BY <2>1, <2>2, <2>3, <2>4, ArmForms DEF Tells, AreLists
<1>6. CASE ~Is(b, "lit") /\ ~Is(b, "items")
  <2>1. Written(b) = Lit(ListText)
    BY <1>6 DEF Written
  <2> QED BY <2>1 DEF Tells, TellsApart
<1> QED BY <1>4, <1>5, <1>6

LEMMA FollowedTells ==
  ASSUME NEW n, NEW values, NEW f, NEW m \in Nat, m >= 2,
         n \in DOMAIN values => \/ values[n] \in ArmExprs
                                \/ Is(values[n], "boxed") /\ values[n].boxed \in ArmExprs,
         \A x \in ArmExprs : f[x] # Endless => Tells(f[x], Meanings[m][x]),
         Followed(n, values, f) # Endless
  PROVE  Tells(Followed(n, values, f), MeantByName(n, values, Meanings[m]))
<1>1. CASE n \notin DOMAIN values \/ values[n] = Absent
  <2>1. Followed(n, values, f) = Gone /\ MeantByName(n, values, Meanings[m]) = Gone
    BY <1>1 DEF Followed, MeantByName
  <2> QED BY <2>1, ArmForms DEF Tells, TellsApart
<1>2. CASE n \in DOMAIN values /\ values[n] # Absent /\ Is(values[n], "boxed")
  <2>1. values[n].boxed \in ArmExprs
    <3>1. ASSUME values[n] \in ArmExprs PROVE FALSE
      BY <1>2, <3>1, ArmExprIs DEF Is, IsPlain, RuleFields
    <3> QED BY <1>2, <3>1
  <2>2. /\ Followed(n, values, f) = Written(values[n].boxed)
        /\ MeantByName(n, values, Meanings[m]) = Meanings[m][values[n].boxed]
    BY <1>2 DEF Followed, MeantByName
  <2> QED BY <2>1, <2>2, WrittenTells
<1>3. CASE n \in DOMAIN values /\ values[n] # Absent /\ ~Is(values[n], "boxed")
  BY <1>3 DEF Followed, MeantByName
<1> QED BY <1>1, <1>2, <1>3

LEMMA StepTells ==
  ASSUME IsTemplate(cfg.template), NEW f, NEW m \in Nat, m >= 2, NEW e \in ArmExprs,
         \A x \in ArmExprs : f[x] # Endless => Tells(f[x], Meanings[m][x]),
         EvalStep(e, f, cfg.template) # Endless
  PROVE  Tells(EvalStep(e, f, cfg.template), MeansStep(e, Meanings[m], cfg.template))
<1> DEFINE t == cfg.template g == Meanings[m]
<1>1. CASE IsPlain(e)
  BY <1>1, EvalStepIs, MeansStepIs DEF Tells, TellsApart
<1>2. CASE Is(e, "call")
  BY <1>2, EvalStepIs, MeansStepIs, ArmForms DEF Tells, TellsApart
<1>3. CASE Is(e, "param")
  <2>1. \A n \in DOMAIN t.parameters :
          \/ t.parameters[n] \in ArmExprs
          \/ Is(t.parameters[n], "boxed") /\ t.parameters[n].boxed \in ArmExprs
    BY DEF IsTemplate
  <2>2. Followed(e.param, t.parameters, f) # Endless
    BY <1>3, EvalStepIs
  <2>3. Tells(Followed(e.param, t.parameters, f), MeantByName(e.param, t.parameters, g))
    BY <2>1, <2>2, FollowedTells
  <2> QED BY <1>3, <2>3, EvalStepIs, MeansStepIs
<1>4. CASE Is(e, "variable")
  <2>1. \A n \in DOMAIN t.variables : t.variables[n] \in ArmExprs
    BY DEF IsTemplate
  <2>2. Followed(e.variable, t.variables, f) # Endless
    BY <1>4, EvalStepIs
  <2>3. Tells(Followed(e.variable, t.variables, f), MeantByName(e.variable, t.variables, g))
    BY <2>1, <2>2, FollowedTells
  <2> QED BY <1>4, <2>3, EvalStepIs, MeansStepIs
<1>5. CASE Is(e, "concat")
  <2>1. e.concat[1] \in ArmExprs /\ e.concat[2] \in ArmExprs
    BY <1>5, ArmExprIs
  <2>2. Joint(f[e.concat[1]], f[e.concat[2]]) # Endless
    BY <1>5, EvalStepIs
  <2>3. Tells(Joint(f[e.concat[1]], f[e.concat[2]]),
              JointMeaning(g[e.concat[1]], g[e.concat[2]]))
    BY <2>1, <2>2, JointTells
  <2> QED BY <1>5, <2>3, EvalStepIs, MeansStepIs
<1>6. CASE Is(e, "items")
  <2>1. \A i \in DOMAIN e.items : e.items[i] \in ArmExprs
    BY <1>6, ArmExprIs
  <2> DEFINE s == ListAt(f, e.items) l == ListAt(g, e.items)
  <2>2. EvalStep(e, f, t) = Items(s) /\ \A i \in DOMAIN s : s[i] # Endless
    BY <1>6, EvalStepIs, EndedIs
  <2>3. MeansStep(e, g, t) = Items(l)
    BY <1>6, MeansStepIs
  <2>4. DOMAIN s = DOMAIN l /\ DOMAIN s = DOMAIN e.items
    BY DEF ListAt
  <2>5. ASSUME NEW i \in DOMAIN s PROVE TellsItems(s[i], l[i])
    <3>1. s[i] = f[e.items[i]] /\ l[i] = g[e.items[i]]
      BY <2>4 DEF ListAt
    <3> QED BY <2>1, <2>2, <2>4, <3>1, TellsLess
  <2> HIDE DEF s, l
  <2> QED BY <2>2, <2>3, <2>4, <2>5, ArmForms DEF Tells, AreLists
<1>7. CASE DOMAIN e = RuleFields
  <2>1. EvalStep(e, f, t) = FieldsAt(f, e)
    BY <1>7, EvalStepIs, EndedIs
  <2>2. MeansStep(e, g, t) = e
    BY <1>7, MeansStepIs
  <2>3. Has(FieldsAt(f, e), "prio") /\ Has(e, "prio")
    BY <1>7, ArmForms DEF FieldsAt, Has
  <2> QED BY <2>1, <2>2, <2>3 DEF Tells, TellsApart
<1> QED BY <1>1, <1>2, <1>3, <1>4, <1>5, <1>6, <1>7, ArmExprIs

(* The meaning may need two steps more, for a default that is an object.     *)
LEMMA EvalTells ==
  ASSUME IsTemplate(cfg.template)
  PROVE  \A k \in Nat : \A m \in Nat : m >= k + 2 =>
           \A x \in ArmExprs : Evals[k][x] # Endless => Tells(Evals[k][x], Meanings[m][x])
<1> DEFINE Tell(k, m) ==
             \A x \in ArmExprs : Evals[k][x] # Endless => Tells(Evals[k][x], Meanings[m][x])
           S == {k \in Nat : \A m \in Nat : m >= k + 2 => Tell(k, m)}
<1>1. 0 \in S
  BY EvalIs
<1>2. ASSUME NEW k \in Nat, k \in S PROVE k + 1 \in S
  <2> SUFFICES ASSUME NEW m \in Nat, m >= (k + 1) + 2 PROVE Tell(k + 1, m)
    OBVIOUS
  <2>1. m - 1 \in Nat /\ m - 1 >= k + 2 /\ m - 1 >= 2 /\ (m - 1) + 1 = m
    OBVIOUS
  <2>2. Tell(k, m - 1)
    BY <1>2, <2>1
  <2>3. ASSUME NEW x \in ArmExprs, Evals[k + 1][x] # Endless
        PROVE  Tells(Evals[k + 1][x], Meanings[m][x])
    <3>1. Evals[k + 1][x] = EvalStep(x, Evals[k], cfg.template)
      BY EvalIs
    <3>2. Meanings[m][x] = MeansStep(x, Meanings[m - 1], cfg.template)
      BY <2>1, MeansIs
    <3> QED BY <2>1, <2>2, <2>3, <3>1, <3>2, StepTells
  <2> QED BY <2>3
<1> HIDE DEF S
<1>3. \A k \in Nat : k \in S
  BY <1>1, <1>2, Induction
<1> QED BY <1>3 DEF S

-----------------------------------------------------------------------------
(* What a source consists of, when no list in it became text.               *)
Twins(x, y) ==
  \/ x = y /\ IsPlain(x)
  \/ IsUnresolved(x) /\ IsUnresolved(y)
  \/ Is(x, "items") /\ Is(y, "items")
  \/ Has(x, "prio") /\ Has(y, "prio")

LEMMA ApartIs ==
  ASSUME NEW v, NEW m, TellsApart(v, m), v # Lit(ListText)
  PROVE  /\ ~Is(v, "items") /\ ~Is(m, "items") /\ Twins(v, m)
         /\ Entries(v) = {v} /\ Entries(m) = {m}
BY ArmForms DEF TellsApart, Twins, Entries

LEMMA EntriesTell ==
  ASSUME NEW v, NEW m, TellsItems(v, m), Lit(ListText) \notin Entries(v)
  PROVE  /\ \A x \in Entries(v) : \E y \in Entries(m) : Twins(x, y)
         /\ \A y \in Entries(m) : \E x \in Entries(v) : Twins(x, y)
<1>1. CASE TellsApart(v, m)
  <2>1. v # Lit(ListText)
    <3>1. ASSUME v = Lit(ListText) PROVE FALSE
      <4>1. ~Is(v, "items")
        BY <3>1, ArmForms
      <4> QED BY <3>1, <4>1 DEF Entries
    <3> QED BY <3>1
  <2> QED BY <1>1, <2>1, ApartIs
<1>2. CASE AreLists(v, m) /\ \A i \in DOMAIN v.items : TellsFlat(v.items[i], m.items[i])
  <2>1. Entries(v) = ToSet(v.items) /\ Entries(m) = ToSet(m.items)
    BY <1>2 DEF AreLists, Entries
  <2>2. ASSUME NEW i \in DOMAIN v.items PROVE Twins(v.items[i], m.items[i])
    <3>1. v.items[i] # Lit(ListText)
      BY <2>1 DEF ToSet
    <3>2. TellsFlat(v.items[i], m.items[i])
      BY <1>2
    <3> QED BY <3>1, <3>2, ApartIs DEF TellsFlat, AreLists, Twins
  <2> QED BY <1>2, <2>1, <2>2 DEF AreLists, ToSet
<1> QED BY <1>1, <1>2 DEF TellsItems

LEMMA SourcesTell ==
  ASSUME NEW v, NEW m, Tells(v, m), Lit(ListText) \notin Sources(v)
  PROVE  /\ \A x \in Sources(v) : \E y \in Sources(m) : Twins(x, y)
         /\ \A y \in Sources(m) : \E x \in Sources(v) : Twins(x, y)
<1>1. Lit(ListText) \notin Entries(v)
  <2>1. Entries(Lit(ListText)) = {Lit(ListText)}
    BY ArmForms DEF Entries
  <2> QED BY <2>1 DEF Sources
<1>2. CASE TellsApart(v, m)
  <2>1. v # Lit(ListText)
    BY <1>1, ArmForms DEF Entries
  <2>2. ~Is(v, "items") /\ ~Is(m, "items") /\ Twins(v, m)
    BY <1>2, <2>1, ApartIs
  <2> QED BY <2>2, SourcesFacts
<1>3. CASE AreLists(v, m) /\ \A i \in DOMAIN v.items : TellsItems(v.items[i], m.items[i])
  <2>1. Entries(v) = ToSet(v.items) /\ Entries(m) = ToSet(m.items)
    BY <1>3 DEF AreLists, Entries
  <2>2. ASSUME NEW i \in DOMAIN v.items
        PROVE  /\ \A x \in Entries(v.items[i]) : \E y \in Entries(m.items[i]) : Twins(x, y)
               /\ \A y \in Entries(m.items[i]) : \E x \in Entries(v.items[i]) : Twins(x, y)
    <3>1. v.items[i] \in Entries(v)
      BY <2>1 DEF ToSet
    <3>2. Lit(ListText) \notin Entries(v.items[i])
      BY <3>1 DEF Sources
    <3> QED BY <1>3, <3>2, EntriesTell
  <2>3. /\ \A x : x \in Sources(v) <=> \E i \in DOMAIN v.items : x \in Entries(v.items[i])
        /\ \A y : y \in Sources(m) <=> \E i \in DOMAIN m.items : y \in Entries(m.items[i])
    BY <2>1 DEF Sources, ToSet
  <2>4. DOMAIN v.items = DOMAIN m.items
    BY <1>3 DEF AreLists
  <2> QED BY <2>2, <2>3, <2>4
<1> QED BY <1>2, <1>3 DEF Tells

LEMMA TwinsMatch ==
  ASSUME NEW x, NEW y, Twins(x, y)
  PROVE  /\ PrefixIps(x) = PrefixIps(y)
         /\ ~Is(x, "ref") /\ ~Is(y, "ref")
         /\ IsUnresolved(x) <=> IsUnresolved(y)
         /\ Is(x, "lit") \/ Is(y, "lit") => x = y
<1>1. CASE x = y /\ IsPlain(x)
  BY <1>1, ArmForms
<1>2. CASE ~IsPlain(x) /\ ~IsPlain(y)
  <2>1. ~Is(x, "lit") /\ ~Is(y, "lit")
    BY <1>2 DEF IsPlain
  <2>2. \A z : Is(Lit(z), "lit")
    BY ArmForms DEF Is, Lit
  <2>3. \A z : x # Lit(z) /\ y # Lit(z)
    BY <2>1, <2>2
  <2>4. \A v : v \in {x, y} => PrefixIps(v) = {}
    BY <2>1, <2>3 DEF PrefixIps
  <2>5. ~Is(x, "ref") /\ ~Is(y, "ref") /\ (IsUnresolved(x) <=> IsUnresolved(y))
    BY <1>2, ArmForms DEF Twins, IsUnresolved, Is
  <2> QED BY <2>1, <2>4, <2>5
<1>3. CASE ~(x = y /\ IsPlain(x))
  <2>1. ~IsPlain(x) /\ ~IsPlain(y)
    BY <1>3, ArmForms DEF Twins
  <2> QED BY <1>2, <2>1
<1> QED BY <1>1, <1>3

LEMMA PortsTell ==
  ASSUME NEW v, NEW m, Tells(v, m), Lit(ListText) \notin Sources(v), NEW p
  PROVE  PortCovers(v, p) <=> PortCovers(m, p)
<1>1. \A x \in Entries(v) : x # Lit(ListText)
  <2>1. Entries(Lit(ListText)) = {Lit(ListText)}
    BY ArmForms DEF Entries
  <2> QED BY <2>1 DEF Sources
<1>2. ASSUME NEW x, NEW y, TellsItems(x, y), x # Lit(ListText) PROVE PortOf(x) = PortOf(y)
  <2>1. TellsApart(x, y) => Twins(x, y)
    BY <1>2, ApartIs
  <2>2. Is(x, "lit") \/ Is(y, "lit") => x = y
    BY <1>2, <2>1, ArmForms DEF TellsItems, AreLists, Twins
  <2> QED BY <2>2 DEF PortOf
<1>3. CASE TellsApart(v, m)
  <2>1. v # Lit(ListText)
    BY <1>1, ArmForms DEF Entries
  <2>2. Entries(v) = {v} /\ Entries(m) = {m}
    BY <1>3, <2>1, ApartIs
  <2>3. PortOf(v) = PortOf(m)
    BY <1>2, <1>3, <2>1 DEF TellsItems
  <2> QED BY <2>2, <2>3 DEF PortCovers
<1>4. CASE AreLists(v, m) /\ \A i \in DOMAIN v.items : TellsItems(v.items[i], m.items[i])
  <2>1. /\ Entries(v) = ToSet(v.items) /\ Entries(m) = ToSet(m.items)
        /\ DOMAIN v.items = DOMAIN m.items
    BY <1>4 DEF AreLists, Entries
  <2>2. \A i \in DOMAIN v.items : PortOf(v.items[i]) = PortOf(m.items[i])
    BY <1>1, <1>2, <1>4, <2>1 DEF ToSet
  <2> QED BY <2>1, <2>2 DEF PortCovers, ToSet
<1> QED BY <1>3, <1>4 DEF Tells

LEMMA AbsentIs ==
  IsPlain(Absent) /\ ~Is(Absent, "items") /\ ~IsUnresolved(Absent) /\ ~Has(Absent, "prio")
BY DEF IsPlain, Is, IsUnresolved, Has, Absent

LEMMA FieldTells ==
  ASSUME NEW v, NEW m, Tells(v, m), Lit(ListText) \notin Sources(v)
  PROVE  /\ SourceIps(v) = SourceIps(m)
         /\ NsgFieldUnknown(v) <=> NsgFieldUnknown(m)
         /\ NsgFieldUnknown(v) <=> \E x \in Sources(v) : IsUnresolved(x)
         /\ Is(v, "lit") \/ Is(m, "lit") => v = m
         /\ IsUnresolved(v) <=> IsUnresolved(m)
         /\ PortOf(v) = PortOf(m)
         /\ \A p : PortCovers(v, p) <=> PortCovers(m, p)
         /\ DestinationIps(v) = DestinationIps(m)
         /\ NamesNoAddress(v) <=> NamesNoAddress(m)
<1>1. /\ \A x \in Sources(v) : \E y \in Sources(m) : Twins(x, y)
      /\ \A y \in Sources(m) : \E x \in Sources(v) : Twins(x, y)
  BY SourcesTell
<1>2. SourceIps(v) = SourceIps(m)
  <2>1. \A x \in Sources(v) : \E y \in Sources(m) : PrefixIps(x) = PrefixIps(y)
    BY <1>1, TwinsMatch
  <2>2. \A y \in Sources(m) : \E x \in Sources(v) : PrefixIps(x) = PrefixIps(y)
    BY <1>1, TwinsMatch
  <2> QED BY <2>1, <2>2 DEF SourceIps
<1>3. NsgFieldUnknown(v) <=> NsgFieldUnknown(m)
  BY <1>1, TwinsMatch DEF NsgFieldUnknown
<1>4. NsgFieldUnknown(v) <=> \E x \in Sources(v) : IsUnresolved(x)
  BY <1>1, TwinsMatch DEF NsgFieldUnknown
<1>5. v # Lit(ListText)
  <2>1. Sources(Lit(ListText)) = {Lit(ListText)}
    BY ArmForms, SourcesFacts
  <2> QED BY <2>1
<1>6. Is(v, "lit") \/ Is(m, "lit") => v = m
  BY <1>5, ArmForms DEF Tells, TellsApart, AreLists, IsUnresolved, Is
<1>7. IsUnresolved(v) <=> IsUnresolved(m)
  BY <1>5, ArmForms DEF Tells, TellsApart, AreLists
<1>8. PortOf(v) = PortOf(m)
  BY <1>6 DEF PortOf
<1>9. NamesNoAddress(v) <=> NamesNoAddress(m)
  <2>1. \A x \in Sources(v) : Is(x, "lit") => x \in Sources(m)
    BY <1>1, TwinsMatch
  <2>2. \A y \in Sources(m) : Is(y, "lit") => y \in Sources(v)
    BY <1>1, TwinsMatch
  <2> QED BY <2>1, <2>2 DEF NamesNoAddress
<1>10. v = Absent <=> m = Absent
  BY <1>5, ArmForms, AbsentIs DEF Tells, TellsApart, AreLists
<1>11. Entries(v) = {} <=> Entries(m) = {}
  <2>1. CASE TellsApart(v, m)
    BY <1>5, <2>1, ApartIs
  <2>2. CASE AreLists(v, m)
    BY <2>2 DEF AreLists, Entries, ToSet
  <2> QED BY <2>1, <2>2 DEF Tells
<1>12. DestinationIps(v) = DestinationIps(m)
  BY <1>2, <1>10, <1>11 DEF DestinationIps
<1> QED BY <1>2, <1>3, <1>4, <1>6, <1>7, <1>8, <1>9, <1>12, PortsTell

-----------------------------------------------------------------------------
(* What becomes an attribute of a resource.                                 *)
IsScalarValue(x) == ~Is(x, "items") /\ ~Has(x, "prio")

LEMMA OpenedIs ==
  ASSUME NEW S, NEW v \in S
  PROVE  /\ IsScalarValue(v) => v \in Opened(S)
         /\ Is(v, "items") => ToSet(v.items) \subseteq Opened(S)
         /\ Has(v, "prio") => \A f \in DOMAIN v : v[f] \in Opened(S)
<1> DEFINE T(u) == IF Is(u, "items") THEN ToSet(u.items)
                   ELSE IF Has(u, "prio") THEN {u[f] : f \in DOMAIN u} ELSE {u}
<1>1. Opened(S) = UNION {T(u) : u \in S}
  BY DEF Opened
<1>2. T(v) \subseteq Opened(S)
  BY <1>1
<1>3. IsScalarValue(v) => T(v) = {v}
  BY DEF IsScalarValue
<1>4. Is(v, "items") => T(v) = ToSet(v.items)
  OBVIOUS
<1>5. Has(v, "prio") => T(v) = {v[f] : f \in DOMAIN v}
  BY ArmForms
<1> HIDE DEF T
<1> QED BY <1>2, <1>3, <1>4, <1>5

LEMMA SourcesOpened ==
  ASSUME NEW S, NEW v \in S, NEW x \in Sources(v), IsScalarValue(x)
  PROVE  x \in Opened(Opened(S))
<1>1. PICK y \in Entries(v) : x \in Entries(y)
  BY DEF Sources
<1>2. IsScalarValue(y) => x = y
  BY <1>1 DEF Entries, IsScalarValue
<1>3. ~Is(y, "items") => x = y
  BY <1>1 DEF Entries
<1>4. Is(y, "items") => x \in ToSet(y.items)
  BY <1>1 DEF Entries
<1>5. Is(v, "items") => y \in ToSet(v.items)
  BY <1>1 DEF Entries
<1>6. ~Is(v, "items") => y = v
  BY <1>1 DEF Entries
<1>7. CASE Is(v, "items")
  <2>1. y \in Opened(S)
    BY <1>5, <1>7, OpenedIs
  <2> QED BY <1>3, <1>4, <2>1, OpenedIs
<1>8. CASE ~Is(v, "items")
  <2>1. x = v
    BY <1>3, <1>6, <1>8
  <2>2. x \in Opened(S)
    BY <2>1, OpenedIs
  <2> QED BY <2>2, OpenedIs
<1> QED BY <1>7, <1>8

LEMMA ScalarOpened ==
  ASSUME NEW S, NEW x \in S, IsScalarValue(x)
  PROVE  x \in Opened(S) /\ x \in Opened(Opened(S))
<1>1. x \in Opened(S)
  BY OpenedIs
<1> QED BY <1>1, OpenedIs

(* A source is deep enough in a field, in a rule and in a list of rules.     *)
LEMMA LeavesAre ==
  ASSUME NEW w, Has(w, "prio"), NEW f \in DOMAIN w, NEW x \in Sources(w[f]), IsScalarValue(x)
  PROVE  /\ x \in Leaves(w[f]) /\ x \in Leaves(w)
         /\ \A s : w \in ToSet(s) => x \in Leaves(Items(s))
<1> DEFINE u == w[f]
<1>1. \A S : u \in S => x \in Opened(Opened(S))
  BY SourcesOpened
<1>2. \A S : x \in S => x \in Opened(S)
  BY ScalarOpened
<1>3. x \in Leaves(u)
  BY <1>1, <1>2 DEF Leaves
<1>4. \A S : w \in S => u \in Opened(S)
  BY OpenedIs
<1>5. x \in Leaves(w)
  BY <1>1, <1>2, <1>4 DEF Leaves
<1>6. ASSUME NEW s, w \in ToSet(s) PROVE x \in Leaves(Items(s))
  <2>1. Is(Items(s), "items") /\ Items(s).items = s
    BY ArmForms
  <2>2. w \in Opened({Items(s)})
    BY <1>6, <2>1, OpenedIs
  <2> QED BY <1>1, <1>4, <2>2 DEF Leaves
<1> QED BY <1>3, <1>5, <1>6

LEMMA OddAreScalar ==
  /\ IsScalarValue(Lit(ListText))
  /\ \A x : IsUnresolved(x) => IsScalarValue(x)
BY ArmForms DEF IsScalarValue

-----------------------------------------------------------------------------
(* Rules that a verdict cannot tell from each other.                         *)
Alike(d, c) ==
  /\ d.prio = c.prio
  /\ \A a \in {"Allow", "Deny"} : d.access = Lit(a) <=> c.access = Lit(a)
  /\ NsgUnknown(d) <=> NsgUnknown(c)
  /\ IsAside(d) <=> IsAside(c)
  /\ \A packet, port : MayMatch(d, packet, port) <=> MayMatch(c, packet, port)

LEMMA AlikeHarm ==
  ASSUME NEW D, NEW C, \A d \in D : \E c \in C : Alike(d, c),
         \A c \in C : \E d \in D : Alike(d, c), RulesHarm(D)
  PROVE  RulesHarm(C)
<1>1. CASE \E r \in D : r.prio = Absent \/ NsgUnknown(r)
  BY <1>1 DEF RulesHarm, Alike
<1>2. CASE ~\E r \in D : r.prio = Absent \/ NsgUnknown(r)
  <2>1. PICK packet \in Packets, p \in SensitivePorts :
          \E r \in D : /\ MayMatch(r, packet, p) /\ r.access = Lit("Allow")
                       /\ \A d \in D : MayMatch(d, packet, p) /\ d.access = Lit("Deny") =>
                            Number[d.prio.lit] > Number[r.prio.lit]
    BY <1>2 DEF RulesHarm
  <2>2. PICK r \in D : /\ MayMatch(r, packet, p) /\ r.access = Lit("Allow")
                       /\ \A d \in D : MayMatch(d, packet, p) /\ d.access = Lit("Deny") =>
                            Number[d.prio.lit] > Number[r.prio.lit]
    BY <2>1
  <2>3. PICK c \in C : Alike(r, c)
    OBVIOUS
  <2>4. MayMatch(c, packet, p) /\ c.access = Lit("Allow") /\ c.prio = r.prio
    BY <2>2, <2>3 DEF Alike
  <2>5. ASSUME NEW e \in C, MayMatch(e, packet, p), e.access = Lit("Deny")
        PROVE  Number[e.prio.lit] > Number[c.prio.lit]
    <3>1. PICK d \in D : Alike(d, e)
      OBVIOUS
    <3>2. MayMatch(d, packet, p) /\ d.access = Lit("Deny") /\ e.prio = d.prio
      BY <2>5, <3>1 DEF Alike
    <3> QED BY <2>2, <2>4, <3>2
  <2> QED BY <2>4, <2>5 DEF RulesHarm
<1> QED BY <1>1, <1>2

(* Harm of many groups of rules is harm of one.                              *)
LEMMA HarmOfOne ==
  ASSUME NEW P, NEW U, U = UNION P, RulesHarm(U)
  PROVE  \E D \in P : RulesHarm(D)
<1>1. CASE \E r \in U : r.prio = Absent \/ NsgUnknown(r)
  BY <1>1 DEF RulesHarm
<1>2. CASE ~\E r \in U : r.prio = Absent \/ NsgUnknown(r)
  <2>1. PICK packet \in Packets, p \in SensitivePorts :
          \E r \in U : /\ MayMatch(r, packet, p) /\ r.access = Lit("Allow")
                       /\ \A d \in U : MayMatch(d, packet, p) /\ d.access = Lit("Deny") =>
                            Number[d.prio.lit] > Number[r.prio.lit]
    BY <1>2 DEF RulesHarm
  <2>2. PICK r \in U : /\ MayMatch(r, packet, p) /\ r.access = Lit("Allow")
                       /\ \A d \in U : MayMatch(d, packet, p) /\ d.access = Lit("Deny") =>
                            Number[d.prio.lit] > Number[r.prio.lit]
    BY <2>1
  <2>3. PICK D \in P : r \in D
    OBVIOUS
  <2>4. D \subseteq U
    OBVIOUS
  <2>5. RulesHarm(D)
    BY <2>2, <2>3, <2>4 DEF RulesHarm
  <2> QED BY <2>5
<1> QED BY <1>1, <1>2

-----------------------------------------------------------------------------
(* The rules of a group or a rule, as they are declared and as they are read. *)
IsRuleExpr(e) == e \in ArmExprs /\ DOMAIN e = RuleFields

SaidRule(e) ==
  [prio |-> PortOf(Means(e.prio)), access |-> Means(e.access),
   from |-> Means(e.from), to |-> Means(e.to), port |-> Means(e.port)]

FoundRule(e) ==
  LET v == EvalArm(e, cfg.template) IN
  [prio |-> PortOf(v.prio), access |-> IF Is(v.access, "lit") THEN v.access ELSE Absent,
   from |-> v.from, to |-> v.to,
   port |-> IF IsUnresolved(v.port) THEN Absent ELSE v.port]

LEMMA DeclaredRulesAre ==
  ASSUME NEW I
  PROVE  DeclaredRules(I) = {SaidRule(e) : e \in UNION {RuleExprs(i) : i \in I}}
BY DEF DeclaredRules, SaidRule

LEMMA RuleFieldsAre ==
  RuleFields = {"prio", "access", "from", "to", "port"}
BY DEF RuleFields

LEMMA RuleEvaluated ==
  ASSUME IsTemplate(cfg.template), NEW e, IsRuleExpr(e), EvalArm(e, cfg.template) # Endless
  PROVE  LET v == EvalArm(e, cfg.template) IN
         /\ DOMAIN v = RuleFields
         /\ \A f \in RuleFields : v[f] = EvalArm(e[f], cfg.template) /\ Tells(v[f], Means(e[f]))
<1> DEFINE t == cfg.template
           v == EvalArm(e, t)
           k == RecursionLimit - 1
<1>1. RecursionLimit \in Nat
  BY ArmAssumption
<1>2. v = Evals[RecursionLimit][e] /\ e \in ArmExprs
  BY EvalIs DEF IsRuleExpr
<1>3. RecursionLimit # 0
  BY <1>2, EvalIs
<1>4. k \in Nat /\ k + 1 = RecursionLimit /\ RecursionLimit + 2 \in Nat
      /\ RecursionLimit + 2 >= k + 2
  BY <1>1, <1>3
<1> HIDE DEF k
<1>5. v = EvalStep(e, Evals[k], t)
  BY <1>2, <1>4, EvalIs
<1>6. v = FieldsAt(Evals[k], e) /\ \A f \in DOMAIN FieldsAt(Evals[k], e) :
                                     FieldsAt(Evals[k], e)[f] # Endless
  BY <1>5, EvalStepIs, EndedIs DEF IsRuleExpr
<1>7. DOMAIN v = RuleFields /\ \A f \in RuleFields : v[f] = Evals[k][e[f]] /\ v[f] # Endless
  BY <1>6 DEF FieldsAt, IsRuleExpr
<1> HIDE DEF v
<1>8. ASSUME NEW f \in RuleFields
      PROVE  v[f] = EvalArm(e[f], t) /\ Tells(v[f], Means(e[f]))
  <2>1. e[f] \in ArmExprs
    BY ArmExprIs DEF IsRuleExpr
  <2>2. Evals[k + 1][e[f]] = Evals[k][e[f]]
    BY <1>4, <1>7, <2>1, EvalStays
  <2>3. v[f] = EvalArm(e[f], t)
    BY <1>4, <1>7, <2>2, EvalIs
  <2>4. Tells(Evals[k][e[f]], Meanings[RecursionLimit + 2][e[f]])
    BY <1>4, <1>7, <2>1, EvalTells
  <2> QED BY <1>7, <2>3, <2>4, MeansIs
<1> QED BY <1>7, <1>8 DEF v

(* A rule in which nothing became text.                                     *)
Undistorted(e) ==
  LET v == EvalArm(e, cfg.template) IN
  IsRuleExpr(e) /\ v # Endless /\ \A f \in RuleFields : Lit(ListText) \notin Sources(v[f])

LEMMA RuleFieldsTell ==
  ASSUME IsTemplate(cfg.template), NEW e, Undistorted(e)
  PROVE  LET v == EvalArm(e, cfg.template) IN
         /\ SourceIps(v.from) = SourceIps(Means(e.from))
         /\ NsgFieldUnknown(v.from) <=> NsgFieldUnknown(Means(e.from))
         /\ NsgFieldUnknown(v.access) <=> NsgFieldUnknown(Means(e.access))
         /\ NsgFieldUnknown(v.to) <=> NsgFieldUnknown(Means(e.to))
         /\ NsgFieldUnknown(v.port) <=> NsgFieldUnknown(Means(e.port))
         /\ DestinationIps(v.to) = DestinationIps(Means(e.to))
         /\ NamesNoAddress(v.to) <=> NamesNoAddress(Means(e.to))
         /\ Is(v.access, "lit") \/ Is(Means(e.access), "lit") => v.access = Means(e.access)
         /\ PortOf(v.prio) = PortOf(Means(e.prio))
         /\ \A p : PortCovers(v.port, p) <=> PortCovers(Means(e.port), p)
         /\ \A f \in {"access", "from", "to", "port"} :
              NsgFieldUnknown(v[f]) => \E x \in Sources(v[f]) : IsUnresolved(x)
<1> DEFINE v == EvalArm(e, cfg.template)
<1>1. IsRuleExpr(e) /\ v # Endless /\ \A f \in RuleFields : Lit(ListText) \notin Sources(v[f])
  BY DEF Undistorted
<1>2. \A f \in RuleFields : Tells(v[f], Means(e[f]))
  BY <1>1, RuleEvaluated
<1> HIDE DEF v
<1>3. \A f \in RuleFields :
        LET m == Means(e[f]) IN
        /\ SourceIps(v[f]) = SourceIps(m)
        /\ NsgFieldUnknown(v[f]) <=> NsgFieldUnknown(m)
        /\ NsgFieldUnknown(v[f]) <=> \E x \in Sources(v[f]) : IsUnresolved(x)
        /\ Is(v[f], "lit") \/ Is(m, "lit") => v[f] = m
        /\ PortOf(v[f]) = PortOf(m)
        /\ \A p : PortCovers(v[f], p) <=> PortCovers(m, p)
        /\ DestinationIps(v[f]) = DestinationIps(m)
        /\ NamesNoAddress(v[f]) <=> NamesNoAddress(m)
  BY <1>1, <1>2, FieldTells
<1> QED BY <1>3, RuleFieldsAre DEF v

LEMMA FoundAlike ==
  ASSUME IsTemplate(cfg.template), NEW e, Undistorted(e), ~NsgUnknown(SaidRule(e))
  PROVE  /\ Alike(FoundRule(e), SaidRule(e))
         /\ FoundRule(e).prio = SaidRule(e).prio
         /\ FoundRule(e).access =
              IF Is(SaidRule(e).access, "lit") THEN SaidRule(e).access ELSE Absent
<1> DEFINE v == EvalArm(e, cfg.template)
           d == SaidRule(e)
           c == FoundRule(e)
<1>1. /\ d.prio = PortOf(Means(e.prio)) /\ d.access = Means(e.access)
      /\ d.from = Means(e.from) /\ d.to = Means(e.to) /\ d.port = Means(e.port)
  BY DEF SaidRule
<1>2. /\ c.prio = PortOf(v.prio) /\ c.from = v.from /\ c.to = v.to
      /\ c.port = IF IsUnresolved(v.port) THEN Absent ELSE v.port
      /\ c.access = IF Is(v.access, "lit") THEN v.access ELSE Absent
  BY DEF FoundRule
<1> HIDE DEF c, d, v
<1>3. /\ SourceIps(v.from) = SourceIps(d.from)
      /\ NsgFieldUnknown(v.from) <=> NsgFieldUnknown(d.from)
      /\ Is(v.access, "lit") \/ Is(d.access, "lit") => v.access = d.access
      /\ NsgFieldUnknown(v.to) <=> NsgFieldUnknown(d.to)
      /\ DestinationIps(v.to) = DestinationIps(d.to)
      /\ NamesNoAddress(v.to) <=> NamesNoAddress(d.to)
      /\ PortOf(v.prio) = d.prio
      /\ NsgFieldUnknown(v.port) <=> NsgFieldUnknown(d.port)
      /\ \A p : PortCovers(v.port, p) <=> PortCovers(d.port, p)
  BY <1>1, RuleFieldsTell DEF v
<1>4. /\ ~NsgFieldUnknown(d.access) /\ ~NsgFieldUnknown(d.from)
      /\ ~NsgFieldUnknown(d.to) /\ ~NsgFieldUnknown(d.port)
  BY DEF NsgUnknown, d
<1>5. c.port = v.port
  <2>1. \A x : IsUnresolved(x) => NsgFieldUnknown(x)
    BY ArmForms, SourcesFacts DEF NsgFieldUnknown
  <2> QED BY <1>2, <1>3, <1>4, <2>1
<1>6. /\ c.prio = d.prio /\ SourceIps(c.from) = SourceIps(d.from)
      /\ ~NsgFieldUnknown(c.from) /\ ~NsgFieldUnknown(c.to) /\ ~NsgFieldUnknown(c.port)
      /\ DestinationIps(c.to) = DestinationIps(d.to)
      /\ NamesNoAddress(c.to) <=> NamesNoAddress(d.to)
      /\ \A p : PortCovers(c.port, p) <=> PortCovers(d.port, p)
  BY <1>2, <1>3, <1>4, <1>5
<1>7. c.access = IF Is(d.access, "lit") THEN d.access ELSE Absent
  BY <1>2, <1>3
<1>8. \A a : c.access = Lit(a) <=> d.access = Lit(a)
  <2>1. \A a : Is(Lit(a), "lit") /\ Lit(a) # Absent
    BY DEF Is, Lit, Absent
  <2> QED BY <1>7, <2>1
<1>9. ~NsgFieldUnknown(c.access)
  <2>1. Sources(Absent) = {Absent} /\ ~IsUnresolved(Absent) /\ ~Is(Absent, "ref")
    BY SourcesFacts DEF IsUnresolved, Is, Absent
  <2> QED BY <1>4, <1>7, <2>1 DEF NsgFieldUnknown
<1>10. ~NsgUnknown(c) /\ ~NsgUnknown(d)
  BY <1>4, <1>6, <1>9 DEF NsgUnknown
<1>11. \A packet, port : RuleMatches(c, packet, port) <=> RuleMatches(d, packet, port)
  BY <1>6 DEF RuleMatches
<1>12. IsAside(c) <=> IsAside(d)
  BY <1>6, <1>8 DEF IsAside
<1>13. \A packet, port : MayMatch(c, packet, port) <=> MayMatch(d, packet, port)
  BY <1>6, <1>11, <1>12 DEF MayMatch
<1> QED BY <1>6, <1>7, <1>8, <1>10, <1>12, <1>13 DEF Alike, c, d

-----------------------------------------------------------------------------
(* The rules of a resource.                                                 *)
LEMMA RuleExprIs ==
  ASSUME NEW e \in ArmExprs, Has(e, "prio")
  PROVE  IsRuleExpr(e)
<1>1. \/ DOMAIN e \in {{"lit"}, {"call"}, {"param"}, {"variable"}, {"concat"}, {"items"}}
      \/ DOMAIN e = RuleFields
      \/ e = Absent
  BY ArmAssumption
<1> QED BY <1>1 DEF IsRuleExpr, Has, Absent

LEMMA InlineEvaluated ==
  ASSUME IsTemplate(cfg.template), NEW e \in ArmExprs, Is(e, "items"),
         EvalArm(e, cfg.template) # Endless
  PROVE  \E s : /\ EvalArm(e, cfg.template) = Items(s) /\ DOMAIN s = DOMAIN e.items
                /\ \A i \in DOMAIN s : s[i] = EvalArm(e.items[i], cfg.template) /\ s[i] # Endless
<1> DEFINE t == cfg.template
           k == RecursionLimit - 1
           s == ListAt(Evals[k], e.items)
<1>1. RecursionLimit \in Nat
  BY ArmAssumption
<1>2. EvalArm(e, t) = Evals[RecursionLimit][e]
  BY EvalIs
<1>3. k \in Nat /\ k + 1 = RecursionLimit
  BY <1>1, <1>2, EvalIs
<1> HIDE DEF k
<1>4. EvalArm(e, t) = EvalStep(e, Evals[k], t)
  BY <1>2, <1>3, EvalIs
<1>5. EvalArm(e, t) = Items(s) /\ \A i \in DOMAIN s : s[i] # Endless
  BY <1>4, EvalStepIs, EndedIs
<1>6. DOMAIN s = DOMAIN e.items /\ \A i \in DOMAIN s : s[i] = Evals[k][e.items[i]]
  BY DEF ListAt
<1>7. ASSUME NEW i \in DOMAIN s PROVE s[i] = EvalArm(e.items[i], t)
  <2>1. e.items[i] \in ArmExprs
    BY <1>6, ArmExprIs
  <2>2. Evals[k + 1][e.items[i]] = Evals[k][e.items[i]]
    BY <1>3, <1>5, <1>6, <2>1, EvalStays
  <2> QED BY <1>3, <1>6, <2>2, EvalIs
<1> HIDE DEF s
<1> QED BY <1>5, <1>6, <1>7

LEMMA RulesMeanThemselves ==
  ASSUME NEW e \in ArmExprs, Is(e, "items"), \A r \in ToSet(e.items) : DOMAIN r = RuleFields
  PROVE  Is(Means(e), "items") /\ ToSet(Means(e).items) = ToSet(e.items)
<1> DEFINE m == Meanings[RecursionLimit + 1]
           s == ListAt(m, e.items)
<1>1. RecursionLimit \in Nat /\ RecursionLimit + 1 \in Nat
      /\ (RecursionLimit + 1) + 1 = RecursionLimit + 2
  BY ArmAssumption
<1>2. Means(e) = MeansStep(e, m, cfg.template)
  BY <1>1, MeansIs
<1>3. Means(e) = Items(s)
  BY <1>2, MeansStepIs
<1>4. ASSUME NEW i \in DOMAIN e.items PROVE s[i] = e.items[i]
  <2>1. e.items[i] \in ArmExprs /\ DOMAIN e.items[i] = RuleFields
    BY ArmExprIs DEF ToSet
  <2>2. m[e.items[i]] = MeansStep(e.items[i], Meanings[RecursionLimit], cfg.template)
    BY <1>1, <2>1, MeansIs
  <2> QED BY <2>1, <2>2, MeansStepIs DEF ListAt
<1>5. ToSet(s) = ToSet(e.items)
  BY <1>4 DEF ToSet, ListAt
<1> HIDE DEF s
<1> QED BY <1>3, <1>5, ArmForms

LEMMA RuleExprsAre ==
  ASSUME NEW j, IsArmEntry(Entry(j)), Is(Entry(j).rules, "items")
  PROVE  /\ RuleExprs(j) = ToSet(Entry(j).children) \cup ToSet(Entry(j).rules.items)
         /\ \A e \in RuleExprs(j) : IsRuleExpr(e)
         /\ Entry(j).rules \in ArmExprs /\ IsList(Entry(j).rules.items)
         /\ IsList(Entry(j).children)
<1> DEFINE r == Entry(j)
<1>1. r.rules \in ArmExprs /\ ToSet(r.children) \subseteq ArmExprs /\ IsList(r.children)
  BY DEF IsArmEntry
<1>2. Parts(r.rules) = ToSet(r.rules.items)
  BY DEF Parts
<1>3. ToSet(r.rules.items) \subseteq ArmExprs /\ IsList(r.rules.items)
  BY <1>1, <1>2, ArmExprIs
<1>4. \A e \in ToSet(r.children) \cup ToSet(r.rules.items) : Has(e, "prio")
  BY <1>2 DEF IsArmEntry
<1>5. \A e \in ToSet(r.children) \cup ToSet(r.rules.items) : IsRuleExpr(e)
  BY <1>1, <1>3, <1>4, RuleExprIs
<1>6. Is(Means(r.rules), "items") /\ ToSet(Means(r.rules).items) = ToSet(r.rules.items)
  BY <1>1, <1>5, RulesMeanThemselves DEF IsRuleExpr
<1>7. RuleExprs(j) = ToSet(r.children) \cup ToSet(r.rules.items)
  BY <1>6 DEF RuleExprs
<1> HIDE DEF r
<1> QED BY <1>1, <1>3, <1>5, <1>7 DEF r

LEMMA ArmRuleListIs ==
  ASSUME NEW s, IsList(s), NEW t
  PROVE  IsList(ArmRuleList(s, t)) /\ ToSet(ArmRuleList(s, t)) = {ArmRule(e, t) : e \in ToSet(s)}
<1> DEFINE u == ArmRuleList(s, t)
<1>1. /\ DOMAIN u = DOMAIN s /\ u = [i \in DOMAIN s |-> u[i]]
      /\ \A i \in DOMAIN s : u[i] = ArmRule(s[i], t)
  BY DEF ArmRuleList
<1> HIDE DEF u
<1>2. IsList(u)
  BY <1>1, ListOver
<1>3. ToSet(u) = {ArmRule(e, t) : e \in ToSet(s)}
  BY <1>1 DEF ToSet
<1> QED BY <1>2, <1>3 DEF u

(* The rules that are read are those that are declared.                     *)
LEMMA ArmRulesAre ==
  ASSUME NEW j, IsArmEntry(Entry(j)), Is(Entry(j).rules, "items"), Entry(j).type \in NsgTypes
  PROVE  LET rules == ArmRules(Entry(j), cfg.template) IN
         IsList(rules) /\ ToSet(rules) = {ArmRule(e, cfg.template) : e \in RuleExprs(j)}
<1> DEFINE r == Entry(j)
           t == cfg.template
           a == ArmRuleList(r.rules.items, t)
           b == ArmRuleList(r.children, t)
<1>1. /\ RuleExprs(j) = ToSet(r.children) \cup ToSet(r.rules.items)
      /\ IsList(r.rules.items) /\ IsList(r.children)
  BY RuleExprsAre
<1>2. /\ IsList(a) /\ ToSet(a) = {ArmRule(e, t) : e \in ToSet(r.rules.items)}
      /\ IsList(b) /\ ToSet(b) = {ArmRule(e, t) : e \in ToSet(r.children)}
  BY <1>1, ArmRuleListIs
<1>3. CASE r.type = "nsg"
  <2>1. ArmRules(r, t) = a \o b
    BY <1>3 DEF ArmRules
  <2> HIDE DEF a, b
  <2>2. IsList(a \o b) /\ ToSet(a \o b) = ToSet(a) \cup ToSet(b)
    BY <1>2, Concatenation
  <2> HIDE DEF r
  <2>3. ToSet(a \o b) = {ArmRule(e, t) : e \in RuleExprs(j)}
    BY <1>1, <1>2, <2>2
  <2> QED BY <2>1, <2>2, <2>3 DEF r
<1>4. CASE r.type = "nsgrule"
  <2>1. ArmRules(r, t) = a
    BY <1>4 DEF ArmRules
  <2>2. ToSet(r.children) = {}
    BY <1>4 DEF IsArmEntry, ToSet
  <2> HIDE DEF a, b, r
  <2> QED BY <1>1, <1>2, <2>1, <2>2 DEF r
<1> QED BY <1>3, <1>4 DEF NsgTypes

(* What is in a rule is in the attributes of its resource, or in those of a   *)
(* rule among its own resources.                                            *)
LEMMA LeavesOfRule ==
  ASSUME IsTemplate(cfg.template), NEW j, IsArmEntry(Entry(j)), Is(Entry(j).rules, "items"),
         EvalArm(Entry(j).rules, cfg.template) # Endless,
         NEW e \in RuleExprs(j), EvalArm(e, cfg.template) # Endless,
         NEW f \in RuleFields, NEW x \in Sources(EvalArm(e, cfg.template)[f]), IsScalarValue(x)
  PROVE  \/ e \in ToSet(Entry(j).children) /\ x \in Leaves(EvalArm(e, cfg.template))
                                           /\ x \in Leaves(EvalArm(e[f], cfg.template))
         \/ x \in ArmAttributes(Entry(j), cfg.template)
<1> DEFINE r == Entry(j)
           t == cfg.template
           v == EvalArm(e, t)
<1>1. RuleExprs(j) = ToSet(r.children) \cup ToSet(r.rules.items) /\ IsRuleExpr(e)
      /\ r.rules \in ArmExprs
  BY RuleExprsAre
<1>2. DOMAIN v = RuleFields /\ v[f] = EvalArm(e[f], t)
  BY <1>1, RuleEvaluated
<1>3. Has(v, "prio")
  BY <1>2, ArmForms
<1>4. /\ x \in Leaves(v[f]) /\ x \in Leaves(v)
      /\ \A s : v \in ToSet(s) => x \in Leaves(Items(s))
  BY <1>2, <1>3, LeavesAre
<1>5. CASE e \in ToSet(r.children)
  BY <1>2, <1>4, <1>5
<1>6. CASE e \in ToSet(r.rules.items)
  <2>1. PICK s : /\ EvalArm(r.rules, t) = Items(s) /\ DOMAIN s = DOMAIN r.rules.items
                 /\ \A i \in DOMAIN s : s[i] = EvalArm(r.rules.items[i], t)
    BY <1>1, InlineEvaluated
  <2>2. PICK i \in DOMAIN r.rules.items : e = r.rules.items[i]
    BY <1>6 DEF ToSet
  <2>3. v \in ToSet(s)
    BY <2>1, <2>2 DEF ToSet
  <2>4. x \in Leaves(EvalArm(r.rules, t))
    BY <1>4, <2>1, <2>3
  <2> QED BY <2>4 DEF ArmAttributes
<1> QED BY <1>1, <1>5, <1>6

LEMMA RulesUndistorted ==
  ASSUME IsTemplate(cfg.template), NEW j, IsArmEntry(Entry(j)), Is(Entry(j).rules, "items"),
         Entry(j).type \in NsgTypes, ~NeverReturns(Entry(j), cfg.template), ~MadeText(j)
  PROVE  /\ EvalArm(Entry(j).rules, cfg.template) # Endless
         /\ \A e \in RuleExprs(j) : Undistorted(e)
<1> DEFINE r == Entry(j)
           t == cfg.template
<1>1. EvalArm(r.rules, t) # Endless
  BY DEF NeverReturns
<1>2. \A c \in ToSet(r.children) : EvalArm(c, t) # Endless
  <2>1. CASE r.type = "nsg"
    BY <2>1 DEF NeverReturns
  <2>2. CASE r.type # "nsg"
    <3>1. r.children = <<>>
      BY <2>2 DEF NsgTypes, IsArmEntry
    <3> QED BY <3>1 DEF ToSet
  <2> QED BY <2>1, <2>2
<1>3. RuleExprs(j) = ToSet(r.children) \cup ToSet(r.rules.items)
      /\ (\A e \in RuleExprs(j) : IsRuleExpr(e)) /\ r.rules \in ArmExprs
  BY RuleExprsAre
<1>4. \A e \in ToSet(r.rules.items) : EvalArm(e, t) # Endless
  <2>1. PICK s : /\ EvalArm(r.rules, t) = Items(s) /\ DOMAIN s = DOMAIN r.rules.items
                 /\ \A i \in DOMAIN s : s[i] = EvalArm(r.rules.items[i], t) /\ s[i] # Endless
    BY <1>1, <1>3, InlineEvaluated
  <2> QED BY <2>1 DEF ToSet
<1>5. ASSUME NEW e \in RuleExprs(j) PROVE Undistorted(e)
  <2>1. EvalArm(e, t) # Endless /\ IsRuleExpr(e)
    BY <1>2, <1>3, <1>4
  <2>2. ASSUME NEW f \in RuleFields, Lit(ListText) \in Sources(EvalArm(e, t)[f]) PROVE FALSE
    <3>1. \/ e \in ToSet(r.children) /\ Lit(ListText) \in Leaves(EvalArm(e, t))
          \/ Lit(ListText) \in ArmAttributes(r, t)
      BY <1>1, <2>1, <2>2, LeavesOfRule, OddAreScalar
    <3> QED BY <3>1 DEF MadeText
  <2> QED BY <2>1, <2>2 DEF Undistorted
<1> QED BY <1>1, <1>5

LEMMA ArmRuleIs ==
  ASSUME NEW e, FoundRule(e).prio # Absent
  PROVE  /\ ArmRule(e, cfg.template) = Read(FoundRule(e)) /\ HasNumber(FoundRule(e))
<1> DEFINE v == EvalArm(e, cfg.template)
           c == FoundRule(e)
<1>1. /\ c.prio = PortOf(v.prio) /\ c.from = v.from /\ c.to = v.to
      /\ c.port = IF IsUnresolved(v.port) THEN Absent ELSE v.port
      /\ c.access = IF Is(v.access, "lit") THEN v.access ELSE Absent
  BY DEF FoundRule
<1>2. ArmRule(e, cfg.template) =
        [prio |-> Number[c.prio.lit], access |-> c.access, from |-> c.from, to |-> c.to,
         port |-> c.port]
  BY <1>1 DEF ArmRule
<1> HIDE DEF c
<1>3. ArmRule(e, cfg.template) = Read(c)
  BY <1>2 DEF Read
<1>4. HasNumber(c)
  BY <1>1 DEF HasNumber, PortOf, c
<1> QED BY <1>3, <1>4 DEF c

LEMMA ArmGives ==
  ASSUME NEW j, IsArmEntry(Entry(j)), Is(Entry(j).rules, "items"), Entry(j).type \in NsgTypes,
         \A e \in RuleExprs(j) : FoundRule(e).prio # Absent
  PROVE  Gives(ArmRules(Entry(j), cfg.template), {FoundRule(e) : e \in RuleExprs(j)})
<1> DEFINE rules == ArmRules(Entry(j), cfg.template)
           C == {FoundRule(e) : e \in RuleExprs(j)}
<1>1. IsList(rules) /\ ToSet(rules) = {ArmRule(e, cfg.template) : e \in RuleExprs(j)}
  BY ArmRulesAre
<1> HIDE DEF rules
<1>2. \A e \in RuleExprs(j) : ArmRule(e, cfg.template) = Read(FoundRule(e))
  BY ArmRuleIs
<1>3. \A v : (\E i \in 1..Len(rules) : rules[i] = v) <=> v \in ToSet(rules)
  BY <1>1, ListDomain DEF ToSet
<1>4. \A v : v \in ToSet(rules) <=> \E d \in C : v = Read(d)
  BY <1>1, <1>2
<1>5. \A d : Has(Read(d), "prio")
  BY DEF Read, Has
<1> QED BY <1>1, <1>3, <1>4, <1>5 DEF Gives, rules

LEMMA AlikeBack == \A d, c : Alike(d, c) => Alike(c, d)
BY DEF Alike

LEMMA OwnRulesAre ==
  ASSUME NEW j
  PROVE  DeclaredRules({j}) = {SaidRule(e) : e \in RuleExprs(j)}
<1>1. UNION {RuleExprs(i) : i \in {j}} = RuleExprs(j)
  OBVIOUS
<1> QED BY <1>1, DeclaredRulesAre

(* A rule of which something is not known leaves its resource unresolved, or  *)
(* its verdict.                                                             *)
LEMMA UnknownIsSeen ==
  ASSUME IsTemplate(cfg.template), NEW j, IsArmEntry(Entry(j)), Entry(j).type \in NsgTypes,
         ~Entry(j).copy, ~NeverReturns(Entry(j), cfg.template),
         ~RulesByExpression(j), Is(Entry(j).rules, "items"), ~MadeText(j), ~ChildUnknown(j),
         ~ArmResource(Entry(j), cfg.template).unresolved,
         VerifyAzureNsg(ArmRules(Entry(j), cfg.template)) = "unsat", NEW e \in RuleExprs(j)
  PROVE  ~NsgUnknown(SaidRule(e))
<1> DEFINE r == Entry(j)
           t == cfg.template
           v == EvalArm(e, t)
           rules == ArmRules(r, t)
<1>1. EvalArm(r.rules, t) # Endless /\ Undistorted(e)
  BY RulesUndistorted
<1>2. v # Endless
  BY <1>1 DEF Undistorted
<1>3. IsList(rules) /\ ArmRule(e, t) \in ToSet(rules)
  BY ArmRulesAre
<1>4. \A x \in ArmAttributes(r, t) : ~IsUnresolved(x)
  BY DEF ArmResource
<1>5. \A x \in Leaves(v.from) \cup Leaves(v.to) : ~IsUnresolved(x)
  <2>1. PICK i \in DOMAIN rules : rules[i] = ArmRule(e, t)
    BY <1>3 DEF ToSet
  <2>2. rules[i].from = v.from /\ rules[i].to = v.to
    BY <2>1 DEF ArmRule
  <2>3. \A x \in UNION {Leaves(rules[k].from) \cup Leaves(rules[k].to) :
                           k \in DOMAIN rules} : ~IsUnresolved(x)
    BY DEF ArmResource
  <2> HIDE DEF rules, v
  <2> QED BY <2>2, <2>3
<1>6. RuleExprs(j) = ToSet(r.children) \cup ToSet(r.rules.items) /\ IsRuleExpr(e)
  BY RuleExprsAre
<1>7. DOMAIN v = RuleFields /\ \A f \in RuleFields : v[f] = EvalArm(e[f], t)
  BY <1>2, <1>6, RuleEvaluated
<1> DEFINE c == ArmRule(e, t)
<1>8. ~NsgFieldUnknown(c.port)
  <2>1. Has(c, "prio")
    BY DEF ArmRule, Has
  <2>2. \E i \in 1..Len(rules) : rules[i] = c
    BY <1>3, ListDomain DEF ToSet
  <2> HIDE DEF c, rules
  <2>3. \E i \in 1..Len(RulesAmong(rules)) : RulesAmong(rules)[i] = c
    BY <1>3, <2>1, <2>2, RulesAmongIs
  <2>4. \A i \in 1..Len(RulesAmong(rules)) : ~NsgUnknown(RulesAmong(rules)[i])
    BY DEF VerifyAzureNsg, rules
  <2> QED BY <2>3, <2>4 DEF NsgUnknown
<1>9. c.port = IF IsUnresolved(v.port) THEN Absent ELSE v.port
  BY DEF ArmRule
<1> HIDE DEF c
<1>10. ASSUME NEW f \in {"access", "from", "to", "port"}, NEW x \in Sources(v[f]), IsUnresolved(x)
      PROVE  FALSE
  <2>1. f \in RuleFields /\ IsScalarValue(x)
    BY <1>10, RuleFieldsAre, OddAreScalar
  <2>2. /\ e \in ToSet(r.children) /\ x \in Leaves(v[f])
        \/ x \in ArmAttributes(r, t)
    BY <1>1, <1>2, <1>7, <2>1, LeavesOfRule
  <2>3. e \in ToSet(r.children) /\ x \in Leaves(v[f])
    BY <1>4, <1>10, <2>2
  <2>4. f \notin {"from", "to"}
    BY <1>5, <1>10, <2>3
  <2>5. CASE f = "access"
    <3>1. x \in Leaves(EvalArm(e.access, t))
      BY <1>7, <2>1, <2>3, <2>5
    <3> QED BY <1>10, <2>3, <3>1 DEF ChildUnknown
  <2>6. CASE f = "port"
    <3>1. ~IsUnresolved(v.port)
      BY <1>7, <2>1, <2>3, <2>6 DEF ChildUnknown
    <3>2. NsgFieldUnknown(v.port)
      BY <1>10, <2>6 DEF NsgFieldUnknown
    <3> QED BY <1>8, <1>9, <3>1, <3>2
  <2> QED BY <2>4, <2>5, <2>6
<1>11. /\ NsgFieldUnknown(v.from) <=> NsgFieldUnknown(Means(e.from))
       /\ NsgFieldUnknown(v.to) <=> NsgFieldUnknown(Means(e.to))
       /\ NsgFieldUnknown(v.access) <=> NsgFieldUnknown(Means(e.access))
       /\ NsgFieldUnknown(v.port) <=> NsgFieldUnknown(Means(e.port))
       /\ \A f \in {"access", "from", "to", "port"} :
            NsgFieldUnknown(v[f]) => \E x \in Sources(v[f]) : IsUnresolved(x)
  BY <1>1, RuleFieldsTell
<1> HIDE DEF v
<1>12. /\ ~NsgFieldUnknown(Means(e.from)) /\ ~NsgFieldUnknown(Means(e.access))
       /\ ~NsgFieldUnknown(Means(e.to)) /\ ~NsgFieldUnknown(Means(e.port))
  BY <1>10, <1>11
<1>13. /\ SaidRule(e).access = Means(e.access) /\ SaidRule(e).from = Means(e.from)
       /\ SaidRule(e).to = Means(e.to) /\ SaidRule(e).port = Means(e.port)
  BY DEF SaidRule
<1> QED BY <1>12, <1>13 DEF NsgUnknown

LEMMA UnsatHasNoHarm ==
  ASSUME IsTemplate(cfg.template), NEW j, IsArmEntry(Entry(j)), Entry(j).type \in NsgTypes,
         ~Entry(j).copy, ~NeverReturns(Entry(j), cfg.template), ~ArmBlind(j),
         graph[ArmAddress(j, cfg.template)] = ArmResource(Entry(j), cfg.template),
         ~ArmResource(Entry(j), cfg.template).unresolved,
         VerifyAzureNsg(ArmRules(Entry(j), cfg.template)) = "unsat"
  PROVE  ~RulesHarm(DeclaredRules({j}))
<1> DEFINE r == Entry(j)
           t == cfg.template
           rules == ArmRules(r, t)
           D == {SaidRule(e) : e \in RuleExprs(j)}
           C == {FoundRule(e) : e \in RuleExprs(j)}
<1>1. ~RulesByExpression(j) /\ ~MadeText(j) /\ ~ChildUnknown(j)
      /\ ~PriorityUnknown(ArmAddress(j, t)) /\ ~RulesRefused(D) /\ ~RulesAside(D)
  BY OwnRulesAre DEF ArmBlind
<1>2. Is(r.rules, "items")
  BY <1>1 DEF RulesByExpression, NsgTypes, IsArmEntry
<1>3. ASSUME NEW e \in RuleExprs(j)
      PROVE  /\ ~NsgUnknown(SaidRule(e))
             /\ Alike(FoundRule(e), SaidRule(e)) /\ FoundRule(e).prio = SaidRule(e).prio
             /\ FoundRule(e).access = IF Is(SaidRule(e).access, "lit")
                                        THEN SaidRule(e).access ELSE Absent
  <2>1. ~NsgUnknown(SaidRule(e))
    BY <1>1, <1>2, UnknownIsSeen
  <2>2. Undistorted(e)
    BY <1>1, <1>2, RulesUndistorted
  <2> QED BY <2>1, <2>2, FoundAlike
<1>4. graph[ArmAddress(j, t)].rules = rules
  BY DEF ArmResource
<1>5. ASSUME NEW e \in RuleExprs(j) PROVE FoundRule(e).prio # Absent
  <2>1. ArmRule(e, t) \in ToSet(rules)
    BY <1>2, ArmRulesAre
  <2>2. Has(ArmRule(e, t), "prio")
    BY DEF ArmRule, Has
  <2>3. ArmRule(e, t).prio # None
    BY <1>1, <1>4, <2>1, <2>2 DEF PriorityUnknown
  <2>4. FoundRule(e).prio = PortOf(EvalArm(e, t).prio)
    BY DEF FoundRule
  <2>5. PortOf(EvalArm(e, t).prio) = Absent => ArmRule(e, t).prio = None
    BY DEF ArmRule
  <2> QED BY <2>3, <2>4, <2>5
<1>6. Gives(rules, C)
  BY <1>2, <1>5, ArmGives
<1>7. ASSUME NEW e \in RuleExprs(j) PROVE IsRule(FoundRule(e))
  <2> DEFINE c == FoundRule(e) d == SaidRule(e)
  <2>1. HasNumber(c)
    BY <1>5, ArmRuleIs
  <2>2. d \in D
    OBVIOUS
  <2>3. c.prio = d.prio /\ d.prio # Absent
    BY <1>3, <1>5
  <2>4. ~(Number[d.prio.lit] >= DenyAllInBound.prio)
    BY <1>1, <2>2, <2>3 DEF RulesRefused
  <2>5. d.access \in {Lit("Allow"), Lit("Deny")}
    BY <1>1, <1>3, <2>2 DEF RulesRefused, NsgUnknown
  <2>6. c.access \in {Lit("Allow"), Lit("Deny")}
    BY <1>3, <2>5 DEF Is, Lit
  <2>7. Number[c.prio.lit] < DenyAllInBound.prio
    <3>1. Number[c.prio.lit] \in Int /\ DenyAllInBound.prio = 65500
      BY <2>1, NumberAssumption DEF HasNumber, DenyAllInBound, DefaultRule
    <3> QED BY <2>3, <2>4, <3>1
  <2> HIDE DEF c
  <2> QED BY <2>1, <2>6, <2>7 DEF IsRule, c
<1> HIDE DEF rules
<1>8. ~RulesHarm(C)
  <2>1. \A c \in C : IsRule(c) /\ ~IsAside(c)
    BY <1>1, <1>3, <1>7 DEF RulesAside, Alike
  <2> QED BY <1>6, <2>1, NsgUnsatIsHarmless DEF rules
<1>9. /\ \A d \in D : \E c \in C : Alike(d, c)
      /\ \A c \in C : \E d \in D : Alike(d, c)
  BY <1>3, AlikeBack
<1>10. RulesHarm(D) => RulesHarm(C)
  BY <1>9, AlikeHarm
<1> QED BY <1>8, <1>10, OwnRulesAre

LEMMA SatHasHarm ==
  ASSUME IsTemplate(cfg.template), NEW j, IsArmEntry(Entry(j)), Entry(j).type \in NsgTypes,
         ~Entry(j).copy, ~NeverReturns(Entry(j), cfg.template),
         ~RulesByExpression(j), ~MadeText(j), ~RuleTie(DeclaredRules({j})),
         VerifyAzureNsg(ArmRules(Entry(j), cfg.template)) = "sat"
  PROVE  RulesHarm(DeclaredRules({j}))
<1> DEFINE r == Entry(j)
           t == cfg.template
           rules == ArmRules(r, t)
           D == {SaidRule(e) : e \in RuleExprs(j)}
           C == {FoundRule(e) : e \in RuleExprs(j)}
<1> SUFFICES ASSUME ~RulesHarm(D) PROVE FALSE
  BY OwnRulesAre
<1>1. Is(r.rules, "items")
  BY DEF RulesByExpression, NsgTypes, IsArmEntry
<1>2. \A d \in D : d.prio # Absent /\ ~NsgUnknown(d)
  BY DEF RulesHarm
<1>3. ASSUME NEW e \in RuleExprs(j)
      PROVE  /\ Alike(FoundRule(e), SaidRule(e)) /\ FoundRule(e).prio = SaidRule(e).prio
             /\ FoundRule(e).access = IF Is(SaidRule(e).access, "lit")
                                        THEN SaidRule(e).access ELSE Absent
             /\ FoundRule(e).prio # Absent
  <2>1. ~NsgUnknown(SaidRule(e)) /\ SaidRule(e).prio # Absent
    BY <1>2
  <2>2. Undistorted(e)
    BY <1>1, RulesUndistorted
  <2> QED BY <2>1, <2>2, FoundAlike
<1>4. Gives(rules, C)
  BY <1>1, <1>3, ArmGives
<1>5. \A c \in C : HasNumber(c)
  BY <1>3, ArmRuleIs
<1>6. ~RuleTie(C)
  <2> SUFFICES ASSUME NEW x \in RuleExprs(j), NEW y \in RuleExprs(j),
                      FoundRule(x).access # FoundRule(y).access,
                      Number[FoundRule(x).prio.lit] = Number[FoundRule(y).prio.lit]
               PROVE  FALSE
    BY DEF RuleTie
  <2>1. SaidRule(x).access # SaidRule(y).access
    BY <1>3
  <2>2. Number[SaidRule(x).prio.lit] = Number[SaidRule(y).prio.lit]
    BY <1>3
  <2>3. SaidRule(x) \in D /\ SaidRule(y) \in D
    OBVIOUS
  <2>4. RuleTie(D)
    BY <1>2, <2>1, <2>2, <2>3 DEF RuleTie
  <2> QED BY <2>4, OwnRulesAre
<1> HIDE DEF rules
<1>7. RulesHarm(C)
  BY <1>4, <1>5, <1>6, NsgSatIsHarm DEF rules
<1>8. /\ \A c \in C : \E d \in D : Alike(c, d)
      /\ \A d \in D : \E c \in C : Alike(c, d)
  BY <1>3
<1>9. RulesHarm(D)
  BY <1>7, <1>8, AlikeHarm
<1> QED BY <1>9

-----------------------------------------------------------------------------
(* The graph of a template: g is what the first n - 1 resources left, each    *)
(* as it was read unless a later one came in its place.                     *)
IsRead(r) == r.type # "" \/ r.copy

ReadBefore(t, n, g) ==
  \A i \in DOMAIN t.resources : i < n /\ IsRead(t.resources[i]) =>
    /\ t.resources[i].copy \/ ~NeverReturns(t.resources[i], t)
    /\ ArmAddress(i, t) \in DOMAIN g
    /\ (\A k \in DOMAIN t.resources : i < k /\ k < n => ArmAddress(k, t) # ArmAddress(i, t))
         => g[ArmAddress(i, t)] = ArmResource(t.resources[i], t)

ArmInv ==
  ~Terraform /\ phase # "failed" =>
    LET t == cfg.template IN
    /\ \A a \in DOMAIN graph : graph[a].type = a[1]
    /\ phase = "arm" \/ ValidTemplate(t) => ReadBefore(t, at, graph)
    /\ phase # "arm" => IF ValidTemplate(t) THEN at > Len(t.resources) ELSE graph = NoTemplate

LEMMA TemplateIs ==
  ASSUME TypeInv, ~Terraform
  PROVE  /\ IsTemplate(cfg.template)
         /\ \A i \in Declared : /\ IsArmEntry(Entry(i)) /\ i \in Nat \ {0}
                                /\ i <= Len(cfg.template.resources)
                                /\ Entry(i).type \notin SgTypes \cup IamTypes
         /\ Len(cfg.template.resources) \in Nat
<1>1. cfg \in Configs /\ cfg.entry = "arm"
  BY DEF TypeInv, Terraform
<1>2. IsTemplate(cfg.template) /\ \A i \in Declared : Entry(i).type \notin SgTypes \cup IamTypes
  BY <1>1, ConfigAssumption DEF Declared, Entry
<1>3. IsList(cfg.template.resources) /\ \A r \in ToSet(cfg.template.resources) : IsArmEntry(r)
  BY <1>2 DEF IsTemplate
<1>4. Declared = 1..Len(cfg.template.resources) /\ Len(cfg.template.resources) \in Nat
      /\ \A i \in Declared : Entry(i) \in ToSet(cfg.template.resources)
  BY <1>3, ListDomain DEF Declared, Entry
<1> QED BY <1>2, <1>3, <1>4

LEMMA InitArm == Init => ArmInv
<1> SUFFICES ASSUME Init, ~Terraform PROVE ArmInv
  BY DEF ArmInv
<1>1. TypeInv
  BY InitGraph
<1>2. at = 1 /\ phase = "arm" /\ DOMAIN graph = {}
  BY DEF Init, Terraform
<1>3. \A i \in DOMAIN cfg.template.resources : ~(i < at)
  BY <1>1, <1>2, TemplateIs DEF Declared
<1>4. ReadBefore(cfg.template, at, graph)
  BY <1>3 DEF ReadBefore
<1> QED BY <1>2, <1>4 DEF ArmInv

LEMMA AddressType == \A i, t : ArmAddress(i, t)[1] = t.resources[i].type
BY DEF ArmAddress

LEMMA ReadStep ==
  ASSUME NEW t, NEW n \in DOMAIN t.resources, NEW g, NEW h, ReadBefore(t, n, g),
         \A i \in DOMAIN t.resources : i \in Nat,
         IsRead(t.resources[n]) =>
           /\ t.resources[n].copy \/ ~NeverReturns(t.resources[n], t)
           /\ h = Overlay(Single(ArmAddress(n, t), ArmResource(t.resources[n], t)), g),
         ~IsRead(t.resources[n]) => h = g
  PROVE  ReadBefore(t, n + 1, h)
<1> SUFFICES ASSUME NEW i \in DOMAIN t.resources, i < n + 1, IsRead(t.resources[i])
             PROVE  /\ t.resources[i].copy \/ ~NeverReturns(t.resources[i], t)
                    /\ ArmAddress(i, t) \in DOMAIN h
                    /\ (\A k \in DOMAIN t.resources :
                          i < k /\ k < n + 1 => ArmAddress(k, t) # ArmAddress(i, t))
                         => h[ArmAddress(i, t)] = ArmResource(t.resources[i], t)
  BY DEF ReadBefore
<1> DEFINE b == ArmAddress(n, t)
           a == ArmAddress(i, t)
           v == ArmResource(t.resources[n], t)
           u == ArmResource(t.resources[i], t)
<1>1. i \in Nat
  OBVIOUS
<1>2. DOMAIN Single(b, v) = {b} /\ Single(b, v)[b] = v
  BY SingleFacts
<1>3. IsRead(t.resources[n]) =>
        /\ DOMAIN h = {b} \cup DOMAIN g /\ h[b] = v
        /\ \A x \in DOMAIN g : x # b => h[x] = g[x]
  <2> DEFINE o == Single(b, v)
  <2>1. IsRead(t.resources[n]) => h = Overlay(o, g)
    OBVIOUS
  <2>2. DOMAIN o = {b} /\ o[b] = v
    BY <1>2
  <2>3. DOMAIN Overlay(o, g) = DOMAIN o \cup DOMAIN g
        /\ (\A x \in DOMAIN o : Overlay(o, g)[x] = o[x])
        /\ \A x \in DOMAIN g \ DOMAIN o : Overlay(o, g)[x] = g[x]
    BY OverlayFacts
  <2> HIDE DEF o, b, v
  <2> QED BY <2>1, <2>2, <2>3
<1>4. CASE i = n
  BY <1>3, <1>4
<1>5. CASE i < n
  <2>1. /\ t.resources[i].copy \/ ~NeverReturns(t.resources[i], t)
        /\ a \in DOMAIN g
        /\ (\A k \in DOMAIN t.resources : i < k /\ k < n => ArmAddress(k, t) # a) => g[a] = u
    BY <1>5 DEF ReadBefore
  <2>2. a \in DOMAIN h
    BY <1>3, <2>1
  <2>3. ASSUME \A k \in DOMAIN t.resources : i < k /\ k < n + 1 => ArmAddress(k, t) # a
        PROVE  h[a] = u
    <3>1. g[a] = u
      <4>1. \A k \in DOMAIN t.resources : i < k /\ k < n => ArmAddress(k, t) # a
        BY <2>3
      <4> QED BY <2>1, <4>1
    <3>2. b # a
      BY <1>1, <1>5, <2>3
    <3> QED BY <1>3, <2>1, <3>1, <3>2
  <2> QED BY <2>1, <2>2, <2>3
<1> QED BY <1>1, <1>4, <1>5

LEMMA ReadResourceArm == TypeInv /\ ArmInv /\ ReadResource => ArmInv'
<1> SUFFICES ASSUME TypeInv, ArmInv, ReadResource, ~Terraform, phase' # "failed" PROVE ArmInv'
  BY DEF ArmInv, ReadResource, Terraform
<1> DEFINE t == cfg.template
           r == t.resources[at]
           b == ArmAddress(at, t)
           v == ArmResource(r, t)
<1>1. /\ phase = "arm" /\ phase' = "arm" /\ ValidTemplate(t) /\ at' = at + 1
      /\ at <= Len(t.resources) /\ cfg' = cfg
  BY DEF ReadResource
<1>2. /\ ReadBefore(t, at, graph) /\ \A a \in DOMAIN graph : graph[a].type = a[1]
  BY <1>1 DEF ArmInv
<1>3. at \in DOMAIN t.resources /\ \A i \in DOMAIN t.resources : i \in Nat
  <2>1. IsList(t.resources) /\ at \in Nat \ {0}
    BY TemplateIs DEF TypeInv, IsTemplate
  <2> HIDE DEF t
  <2> QED BY <1>1, <2>1, ListDomain
<1>4. /\ IsRead(r) => (r.copy \/ ~NeverReturns(r, t)) /\ graph' = Overlay(Single(b, v), graph)
      /\ ~IsRead(r) => graph' = graph
  BY <1>1 DEF ReadResource, IsRead
<1>5. ReadBefore(t, at + 1, graph')
  BY <1>2, <1>3, <1>4, ReadStep
<1>6. b[1] = v.type
  BY AddressType DEF ArmResource
<1> HIDE DEF b, v
<1>7. \A a \in DOMAIN graph' : graph'[a].type = a[1]
  BY <1>2, <1>4, <1>6 DEF Overlay, Single
<1> QED BY <1>1, <1>5, <1>7 DEF ArmInv

LEMMA EndTemplateArm == TypeInv /\ ArmInv /\ EndTemplate => ArmInv'
<1> SUFFICES ASSUME TypeInv, ArmInv, EndTemplate, ~Terraform PROVE ArmInv'
  BY DEF ArmInv, EndTemplate, Terraform
<1> DEFINE t == cfg.template
<1>1. /\ phase = "arm" /\ phase' = "attach" /\ cfg' = cfg /\ at' = at
      /\ ValidTemplate(t) => at > Len(t.resources)
      /\ graph' = IF ValidTemplate(t) THEN graph ELSE NoTemplate
  BY DEF EndTemplate
<1>2. ReadBefore(t, at, graph) /\ \A a \in DOMAIN graph : graph[a].type = a[1]
  BY <1>1 DEF ArmInv
<1>3. \A a \in DOMAIN NoTemplate : NoTemplate[a].type = a[1]
  <2> DEFINE k == <<"unresolved_json", "invalid", "">>
             w == [type |-> "unresolved_json", merged |-> None, rules |-> <<Gone>>,
                   unresolved |-> TRUE]
  <2>1. k[1] = w.type /\ NoTemplate = Single(k, w)
    BY DEF NoTemplate
  <2>2. ASSUME NEW x, NEW y, y.type = x[1]
        PROVE  \A a \in DOMAIN Single(x, y) : Single(x, y)[a].type = a[1]
    <3>1. ASSUME NEW a \in DOMAIN Single(x, y) PROVE Single(x, y)[a].type = a[1]
      <4>1. a = x /\ Single(x, y)[a] = y
        BY DEF Single
      <4> QED BY <2>2, <4>1
    <3> QED BY <3>1
  <2> HIDE DEF k, w
  <2> QED BY <2>1, <2>2
<1> HIDE DEF t
<1>4. \A a \in DOMAIN graph' : graph'[a].type = a[1]
  BY <1>1, <1>2, <1>3
<1>5. ValidTemplate(t) => ReadBefore(t, at, graph')
  BY <1>1, <1>2
<1> QED BY <1>1, <1>4, <1>5 DEF ArmInv, t

LEMMA StepArm == TypeInv /\ ArmInv /\ [Next]_vars => ArmInv'
<1> SUFFICES ASSUME TypeInv, ArmInv, [Next]_vars PROVE ArmInv'
  OBVIOUS
<1>1. CASE ReadResource
  BY <1>1, ReadResourceArm
<1>2. CASE EndTemplate
  BY <1>2, EndTemplateArm
<1>3. CASE Verify \/ UNCHANGED vars
  <2>1. /\ UNCHANGED <<cfg, at, graph>> /\ (phase' = phase \/ (phase = "attach" /\ phase' = "done"))
    BY <1>3 DEF Verify, vars
  <2> SUFFICES ASSUME ~Terraform, phase # "failed" PROVE ArmInv'
    BY <2>1 DEF ArmInv, Terraform
  <2> DEFINE t == cfg.template
  <2>2. /\ \A a \in DOMAIN graph : graph[a].type = a[1]
        /\ phase = "arm" \/ ValidTemplate(t) => ReadBefore(t, at, graph)
        /\ phase # "arm" => IF ValidTemplate(t) THEN at > Len(t.resources) ELSE graph = NoTemplate
    BY DEF ArmInv
  <2>3. phase' = "arm" <=> phase = "arm"
    BY <2>1
  <2> QED BY <2>1, <2>2, <2>3 DEF ArmInv
<1>4. CASE ~(ReadResource \/ EndTemplate \/ Verify \/ UNCHANGED vars)
  <2>1. cfg' = cfg
    BY <1>4 DEF Next, TryLocal, NextPass, GiveUp, EndLocals, Expand, EndExpand, InlineModule,
                ResolveReferences, Attach
  <2>2. Terraform
    <3>1. phase \in {"locals", "expand", "modules"} \/ left # {}
      BY <1>4 DEF Next, TryLocal, NextPass, GiveUp, EndLocals, Expand, EndExpand, InlineModule,
                  ResolveReferences, Attach
    <3> QED BY <3>1 DEF TypeInv
  <2> QED BY <2>1, <2>2 DEF ArmInv, Terraform
<1> QED BY <1>1, <1>2, <1>3, <1>4

(* The graph of a template is what parse_arm_dict has read of its resources,  *)
(* each at its address unless a later one came in its place (ArmInv).        *)
THEOREM ArmGraphIsRead == Spec => []ArmInv
<1>1. Init => ArmInv
  BY InitArm
<1>2. TypeInv /\ ArmInv /\ [Next]_vars => ArmInv'
  BY StepArm
<1>3. IInv => TypeInv
  BY DEF IInv
<1> QED BY <1>1, <1>2, <1>3, PipelineInv, PTL DEF Spec

LEMMA InTheEnd ==
  ASSUME TypeInv, ArmInv, ~Terraform, phase = "done", ValidTemplate(cfg.template),
         NEW i \in Declared, IsRead(Entry(i)), ~Overwritten(i)
  PROVE  /\ Entry(i).copy \/ ~NeverReturns(Entry(i), cfg.template)
         /\ ArmAddress(i, cfg.template) \in DOMAIN graph
         /\ graph[ArmAddress(i, cfg.template)] = ArmResource(Entry(i), cfg.template)
<1> DEFINE t == cfg.template
<1>1. ReadBefore(t, at, graph) /\ at > Len(t.resources)
  BY DEF ArmInv
<1>2. i \in Nat /\ i <= Len(t.resources) /\ Len(t.resources) \in Nat /\ at \in Nat
  BY TemplateIs DEF TypeInv
<1>3. i < at
  BY <1>1, <1>2
<1>4. \A k \in DOMAIN t.resources : i < k /\ k < at => ArmAddress(k, t) # ArmAddress(i, t)
  <2>1. \A k \in DOMAIN t.resources : k \in Nat
    BY TemplateIs DEF Declared
  <2> QED BY <1>2, <2>1 DEF Overwritten, Declared
<1> QED BY <1>1, <1>3, <1>4 DEF ReadBefore, Declared, Entry

LEMMA NsgVerdict ==
  ASSUME NEW r, r.type \in NsgTypes
  PROVE  Verdict(r) = VerifyAzureNsg(r.rules)
BY DEF Verdict, SgTypes, NsgTypes, IamTypes

LEMMA TemplateUnsat ==
  ASSUME IInv, ArmInv, AllClear, NEW i \in Declared, ArmHarmful(i),
         \A j \in ArmGroup(i) : ~ArmBlind(j)
  PROVE  FALSE
<1> DEFINE t == cfg.template
<1>1. TypeInv /\ GraphInv /\ ~Terraform /\ phase = "done"
  BY DEF IInv, AllClear, Terraform
<1>2. ValidTemplate(t)
  <2> SUFFICES ASSUME ~ValidTemplate(t) PROVE FALSE
    OBVIOUS
  <2>1. graph = NoTemplate
    BY <1>1 DEF ArmInv
  <2>2. \E a \in DOMAIN NoTemplate : NoTemplate[a].unresolved
    BY DEF NoTemplate, Single
  <2> QED BY <2>1, <2>2 DEF AllClear
<1>3. \A j \in ArmGroup(i) : j \in Declared /\ Entry(j).type \in NsgTypes
  BY DEF ArmHarmful, ArmGroup, NsgTypes
<1>4. PICK j \in ArmGroup(i) : RulesHarm(DeclaredRules({j}))
  <2> DEFINE P == {DeclaredRules({j}) : j \in ArmGroup(i)}
             U == DeclaredRules(ArmGroup(i))
  <2>1. U = {SaidRule(e) : e \in UNION {RuleExprs(j) : j \in ArmGroup(i)}}
    BY DeclaredRulesAre
  <2>2. P = {{SaidRule(e) : e \in RuleExprs(j)} : j \in ArmGroup(i)}
    BY OwnRulesAre
  <2>3. U = UNION P
    <3> HIDE DEF U, P
    <3> QED BY <2>1, <2>2
  <2>4. RulesHarm(U)
    BY DEF ArmHarmful
  <2> HIDE DEF U
  <2>5. \E D \in P : RulesHarm(D)
    <3> HIDE DEF P
    <3> QED BY <2>3, <2>4, HarmOfOne
  <2> QED BY <2>5
<1> DEFINE r == Entry(j)
           a == ArmAddress(j, t)
<1>5. j \in Declared /\ r.type \in NsgTypes /\ ~ArmBlind(j) /\ ~Overwritten(j) /\ IsRead(r)
  BY <1>3 DEF ArmBlind, IsRead, NsgTypes
<1>6. /\ r.copy \/ ~NeverReturns(r, t)
      /\ a \in DOMAIN graph /\ graph[a] = ArmResource(r, t)
  BY <1>1, <1>2, <1>5, InTheEnd
<1>7. ~ArmResource(r, t).unresolved
  BY <1>6 DEF AllClear
<1>8. ~r.copy
  BY <1>7 DEF ArmResource
<1>9. graph[a].type = r.type /\ graph[a].merged = None /\ graph[a].rules = ArmRules(r, t)
  BY <1>6, <1>8 DEF ArmResource
<1>10. Verdict(graph[a]) = "unsat"
  <2>1. a \in ToVerify
    BY <1>5, <1>6, <1>9 DEF ToVerify, Verified
  <2>2. verdicts = [b \in ToVerify |-> Verdict(graph[b])]
    BY <1>1 DEF GraphInv
  <2>3. a \in DOMAIN verdicts /\ verdicts[a] = Verdict(graph[a])
    BY <2>1, <2>2
  <2> QED BY <2>3 DEF AllClear
<1>11. VerifyAzureNsg(ArmRules(r, t)) = "unsat"
  BY <1>5, <1>9, <1>10, NsgVerdict
<1>12. IsTemplate(t) /\ IsArmEntry(r)
  BY <1>1, <1>5, TemplateIs
<1>13. ~RulesHarm(DeclaredRules({j}))
  BY <1>5, <1>6, <1>7, <1>8, <1>11, <1>12, UnsatHasNoHarm
<1> QED BY <1>4, <1>13

LEMMA NoRulesNoHarm == VerifyAzureNsg(<<Gone>>) # "sat"
<1>1. Gives(<<Gone>>, {})
  <2>1. IsList(<<Gone>>) /\ Len(<<Gone>>) = 1 /\ <<Gone>>[1] = Gone
    BY ShortLists
  <2>2. ~Has(Gone, "prio")
    BY DEF Has, Gone
  <2> QED BY <2>1, <2>2 DEF Gives
<1>2. ~RuleTie({}) /\ ~RulesHarm({})
  BY DEF RuleTie, RulesHarm
<1> QED BY <1>1, <1>2, NsgSatIsHarm

LEMMA TemplateSat ==
  ASSUME IInv, ArmInv, phase = "done", ~Terraform, ValidTemplate(cfg.template),
         NEW i \in Declared, ArmAddress(i, cfg.template) \in DOMAIN verdicts,
         verdicts[ArmAddress(i, cfg.template)] = "sat",
         ~Overwritten(i), ~RulesByExpression(i), ~MadeText(i), ArmGroup(i) = {i},
         ~RuleTie(DeclaredRules({i}))
  PROVE  ArmHarmful(i)
<1> DEFINE t == cfg.template
           r == Entry(i)
           a == ArmAddress(i, t)
<1>1. TypeInv /\ GraphInv
  BY DEF IInv
<1>2. /\ a \in DOMAIN graph /\ graph[a].type \in Verified
      /\ verdicts[a] = Verdict(graph[a]) /\ graph[a].type \notin SgTypes
  <2>1. verdicts = [b \in ToVerify |-> Verdict(graph[b])]
    BY <1>1 DEF GraphInv
  <2>2. a \in ToVerify /\ verdicts[a] = Verdict(graph[a])
    BY <2>1
  <2> QED BY <1>1, <2>2 DEF ToVerify, GraphInv
<1>3. graph[a].type = a[1] /\ a[1] = r.type
  <2>1. \A b \in DOMAIN graph : graph[b].type = b[1]
    BY DEF ArmInv
  <2>2. a[1] = r.type
    BY AddressType DEF Entry
  <2> QED BY <1>2, <2>1, <2>2
<1>4. /\ IsTemplate(t) /\ IsArmEntry(r) /\ r.type \notin SgTypes \cup IamTypes
  BY <1>1, TemplateIs
<1>5. r.type \in NsgTypes
  BY <1>2, <1>3, <1>4 DEF Verified
<1>6. IsRead(r)
  BY <1>5 DEF IsRead, NsgTypes
<1>7. /\ r.copy \/ ~NeverReturns(r, t)
      /\ graph[a] = ArmResource(r, t)
  BY <1>1, <1>6, InTheEnd
<1>8. VerifyAzureNsg(graph[a].rules) = "sat"
  BY <1>2, <1>3, <1>5, NsgVerdict
<1>9. ~r.copy
  BY <1>7, <1>8, NoRulesNoHarm DEF ArmResource
<1>10. VerifyAzureNsg(ArmRules(r, t)) = "sat"
  BY <1>7, <1>8, <1>9 DEF ArmResource
<1>11. RulesHarm(DeclaredRules({i}))
  BY <1>4, <1>5, <1>7, <1>9, <1>10, SatHasHarm
<1> QED BY <1>5, <1>11 DEF ArmHarmful, NsgTypes

(* A template that passes declares nothing harmful, whatever its expressions *)
(* and however deep they are (TemplateNoFalseSafe).                          *)
THEOREM TemplateUnsatIsSafe == Spec => []TemplateNoFalseSafe
<1>1. IInv /\ ArmInv => TemplateNoFalseSafe
  BY TemplateUnsat DEF TemplateNoFalseSafe
<1> QED BY <1>1, PipelineInv, ArmGraphIsRead, PTL

(* What is reported of a template is declared there (TemplateNoFalseAlarm).   *)
THEOREM TemplateSatIsHarm == Spec => []TemplateNoFalseAlarm
<1>1. IInv /\ ArmInv => TemplateNoFalseAlarm
  BY TemplateSat DEF TemplateNoFalseAlarm, Terraform
<1> QED BY <1>1, PipelineInv, ArmGraphIsRead, PTL
=============================================================================
