--------------------------- MODULE PipelineTruth ---------------------------
(***************************************************************************)
(* What a configuration declares, stated without the pipeline's passes,    *)
(* and the properties that hold the verdicts of Pipeline against it.       *)
(***************************************************************************)
EXTENDS Pipeline

TypeOK ==
  /\ phase \in {"arm", "locals", "expand", "modules", "attach", "done", "failed"}
  /\ DOMAIN known \subseteq Locals
  /\ left \subseteq CASE phase = "expand" -> DOMAIN cfg.blocks
                       [] phase = "modules" -> DOMAIN cfg.modules
                       [] phase = "attach" -> DOMAIN graph
                       [] OTHER -> {}
  /\ \A a \in DOMAIN graph : graph[a].merged \in {None} \cup DOMAIN graph
  /\ \A a \in DOMAIN verdicts :
       /\ graph[a].merged = None
       /\ verdicts[a] \in {"sat", "unsat", "unresolvable", "crash"}

-----------------------------------------------------------------------------
(* Nothing is missing in a value.  The text of a list is left out: it may    *)
(* show an Unresolved item as text.                                         *)
IsKnown(x) == x # Absent /\ ~IsUnresolved(x) /\ x # Lit(ListText) /\ ~Is(x, "items")
Whole(v) == \A x \in Sources(v) : IsKnown(x)

ASSUME TruthAssumption ==
  /\ Around[ListText] = ListText
  /\ ListText \notin DOMAIN Number \cup DOMAIN Cidr

(* The meaning of locals: rounds over all of them at once, of which only    *)
(* what is whole is kept.                                                   *)
Round[k \in Nat] ==
  IF k = 0 THEN NoNames
  ELSE LET before == Round[k - 1] IN
       [n \in {m \in Locals : Whole(LocalValue(m, before))} |-> LocalValue(n, before)]

Meaning == Round[Cardinality(Locals)]

HasListLocal == \E n \in Locals : Is(OnlyItem(cfg.locals[n]), "items")

(* load_local_values, "supporting chained local references": a local that    *)
(* is resolved to the last item has its meaning, and in a configuration      *)
(* without list locals every local that has a meaning gets it, in any order *)
(* of the file.  A list settles in the first pass, its later names           *)
(* Unresolved for good.                                                     *)
LocalsSettle ==
  LET meaning == Meaning IN
  /\ \A n \in DOMAIN known :
       Whole(known[n]) => n \in DOMAIN meaning /\ known[n] = meaning[n]
  /\ phase # "locals" /\ cfg.entry # "cli" /\ ~HasListLocal =>
       \A n \in DOMAIN meaning : n \in DOMAIN known /\ known[n] = meaning[n]

-----------------------------------------------------------------------------
(* The declared resources: every instance of every block, of local modules   *)
(* too; one with an unknown number of instances stands for all of them.      *)
RootEnv == [vars |-> Vars, locals |-> Meaning]

SitesOf(bs, prefix, env, unknown) ==
  UNION {{[at |-> <<prefix, a, i.each>>, b |-> bs[a], i |-> i, env |-> env,
           unread |-> unknown] : i \in Instances(bs[a], env)} : a \in DOMAIN bs}

ModuleEnv(m, i, env) ==
  [vars |-> Overlay([x \in DOMAIN m.args |-> Value(ForInstance(m.args[x], i), env)],
                    m.defaults),
   locals |-> NoNames]

SitesIn(env) ==
  SitesOf(cfg.blocks, <<>>, env, FALSE) \cup
  UNION {UNION {SitesOf(cfg.modules[n].blocks, <<n, i.each>>,
                        ModuleEnv(cfg.modules[n], i, env),
                        cfg.entry # "modules" \/ i.lost # Absent) :
                  i \in Calls(cfg.modules[n], env)} :
           n \in {x \in DOMAIN cfg.modules : cfg.modules[x].source = "local"}}

Sites == SitesIn(RootEnv)

(* The value of attribute e at a site.                                      *)
True(s, e) ==
  Value(IF s.i.lost # Absent THEN Substitute(e, Gone) ELSE ForInstance(e, s.i), s.env)

(* The address of the one resource of a type that a value names at a site, if *)
(* there is one: a reference means the resource of the site's own module, a   *)
(* text the one that is so named.                                           *)
NamedBy(v, s, type) ==
  LET named == {t \in Sites : t.b.type = type /\ Is(v, "lit")
                                /\ True(t, t.b.name) = v}
  IN IF Is(v, "res") THEN {<<s.at[1], v.res[2], v.res[3]>>}
     ELSE {t.at : t \in {x \in named : named = {x}}}

(* Where a rule or policy belongs, and what policy an attachment is of.      *)
Home(s) ==
  IF ParentType(s.b.type) = None THEN {}
                                 ELSE NamedBy(True(s, s.b.parent), s, ParentType(s.b.type))

PolicyOf(s) ==
  LET arn == True(s, s.b.arn) IN
  IF s.b.type = "attachment" /\ ~IsManaged(arn) THEN NamedBy(arn, s, "policy") ELSE {}

Group(s) == {s} \cup {t \in Sites : s.at \in Home(t)}

(* The policies of a group, attached ones included.                         *)
Policies(g) ==
  {s \in g : s.b.type \in IamTypes} \cup
    {t \in Sites : t.b.type = "policy" /\ \E s \in g : t.at \in PolicyOf(s)}

(* What a verdict is about.                                                 *)
Subjects ==
  {[site |-> s, group |-> Group(s), policies |-> Policies(Group(s))] : s \in Sites}

-----------------------------------------------------------------------------
(* Harm, by the meaning of the declarations.  Data without a value may be    *)
(* anything.                                                                *)

PublicCidr(v) ==
  ~(Is(v, "lit") /\ v.lit \in DOMAIN Cidr) \/ \E ip \in PublicIps : InCidr(ip, v.lit)

SgHarm(s) ==
  \E i \in DOMAIN s.b.rules :
    LET p == PortOf(True(s, s.b.rules[i].port))
        nets == ToSet(ListOf(True(s, s.b.rules[i].cidr)))
    IN (p = Absent \/ p.lit \in SensitivePorts) /\ \E v \in nets : PublicCidr(v)

(* The rules of a network security group: one that allows an address on a    *)
(* sensitive port, and none before it that denies the address.               *)
NsgRules(g) ==
  UNION {{[prio |-> PortOf(True(s, s.b.rules[i].prio)),
           access |-> True(s, s.b.rules[i].access),
           from |-> True(s, s.b.rules[i].from), to |-> True(s, s.b.rules[i].to),
           port |-> True(s, s.b.rules[i].port)] : i \in DOMAIN s.b.rules} :
           s \in {t \in g : t.b.type \in NsgTypes}}

(* Two rules of one priority, which Azure refuses to deploy: the code takes   *)
(* the one that was attached first, and here the Deny wins.                 *)
RuleTie(rules) ==
  \E q, r \in {x \in rules : x.prio # Absent} :
    q.access # r.access /\ Number[q.prio.lit] = Number[r.prio.lit]

(* An Allow to an application security group, or to a tag that the code does *)
(* not know, is to addresses that are not known.                            *)
NamesNoAddress(to) ==
  \E v \in Sources(to) :
    /\ Is(v, "lit") /\ v.lit \notin DOMAIN Cidr
    /\ v.lit \notin {"*", "Internet", "VirtualNetwork", "AzureLoadBalancer"}

IsAside(r) == r.access = Lit("Allow") /\ NamesNoAddress(r.to)

MayMatch(r, packet, port) ==
  \/ RuleMatches(r, packet, port)
  \/ IsAside(r) /\ PortCovers(r.port, port) /\ packet[1] \in SourceIps(r.from)

RulesHarm(rules) ==
  \/ \E r \in rules : r.prio = Absent \/ NsgUnknown(r)
  \/ \E packet \in Packets, p \in SensitivePorts :
       LET hit == {r \in rules : MayMatch(r, packet, p)} IN
       \E r \in hit :
         /\ r.access = Lit("Allow")
         /\ \A d \in hit : d.access = Lit("Deny") =>
              Number[d.prio.lit] > Number[r.prio.lit]

Tied(g) == RuleTie(NsgRules(g))
NsgHarm(g) == RulesHarm(NsgRules(g))

(* A wildcard Allow of the group, or an attached policy that AWS manages or   *)
(* that has no value, which no Deny of the group takes back whole; a policy  *)
(* whose text has no value.                                                 *)
IamHarm(g, policies) ==
  LET stmts == UNION {ToSet(s.b.rules) : s \in policies}
      attached == {True(s, s.b.arn) : s \in {t \in g : t.b.type = "attachment"}}
      managed == {v \in attached : v = Gone \/ IsManaged(v)}
      granted == UNION ({Requests(r) : r \in {x \in stmts : IsWildAllow(x)}}
                          \cup {Actions \X Resources : v \in managed})
      denied == UNION {Requests(d) : d \in {x \in stmts : x.effect = "Deny"}}
  IN \/ \E s \in policies : IsUnresolved(True(s, s.b.within))
     \/ granted \ denied # {}

(* A rule or policy whose home is no declared resource of the right type is  *)
(* judged alone.                                                            *)
Homeless(s) ==
  ~\E t \in Sites : t.at \in Home(s) /\ t.b.type = ParentType(s.b.type)

Harmful(j) ==
  LET s == j.site IN
  CASE s.b.type \in SgTypes -> SgHarm(s)
    [] s.b.type = "nsg" -> NsgHarm(j.group)
    [] s.b.type = "nsgrule" -> Homeless(s) /\ NsgHarm({s})
    [] s.b.type \in {"role", "policy"} -> IamHarm(j.group, j.policies)
    [] s.b.type \in {"rolepolicy", "attachment"} ->
         Homeless(s) /\ IamHarm({s}, Policies({s}))
    [] OTHER -> FALSE

-----------------------------------------------------------------------------
(* Where the pipeline is known to lose what is declared.                     *)

(* The site's resource; the CLI does not expand.                            *)
Node(s) == IF cfg.entry = "cli" THEN <<s.at[1], s.at[2], <<>>>> ELSE s.at

(* The place of an instance is taken by a placeholder of its block or module, *)
(* or by an instance whose key is lost.                                     *)
LostKey(key) == key = <<>> \/ \E x \in Entries(key[1]) : ~IsKnown(x)

Displaced(s) ==
  /\ Node(s) \notin DOMAIN graph
  /\ \/ \E a \in DOMAIN graph : a[1] = s.at[1] /\ a[2] = s.at[2] /\ LostKey(a[3])
     \/ /\ s.at[1] # <<>>
        /\ \E i \in Calls(cfg.modules[s.at[1][1]], Env(Vars, known)) : LostKey(i.each)

(* Modules are read by build_graph_with_modules only, and not when their     *)
(* loop is unresolved.                                                      *)
NotRead(s) == s.unread \/ Displaced(s)

(* An unresolved count or for_each, and the rules are blocks inside.         *)
BlocksVanished(s) ==
  cfg.entry # "cli" /\ s.i.lost # Absent /\ s.b.type \in {"sg", "nsg"}

(* Merged into what is no group of its kind, or into another merged rule:    *)
(* Tier A does not look at the type for aws_security_group_rule, and the     *)
(* reason of a placeholder may name any resource.                           *)
Misplaced(a) ==
  /\ graph[a].merged # None
  /\ LET t == graph[graph[a].merged] IN
     t.type # ParentType(graph[a].type) \/ t.merged # None

(* The policy's text refers to a resource of the graph: the Unresolved rule  *)
(* became a ResourceReference, which the IAM encoder passes over.           *)
PolicySkipped(a) == \E i \in DOMAIN graph[a].rules : Is(graph[a].rules[i], "ref")

(* A priority that has no value comes after the default Deny.               *)
PriorityUnknown(a) ==
  \E r \in ToSet(graph[a].rules) : Has(r, "prio") /\ r.prio = None

(* A list in the place of text, or deeper than Sources goes: as a source or   *)
(* destination it matches nothing, and as a port it is every port, that of a *)
(* Deny too.                                                                *)
Muted(a) ==
  \E r \in ToSet(graph[a].rules) :
    /\ Has(r, "prio")
    /\ \E v \in {r.access, r.from, r.to, r.port} \ {Absent} : \E x \in Sources(v) :
         x \in {Absent, Lit(ListText)} \/ Is(x, "items")

(* The text of a policy may show a list local that lost an item.            *)
ShowsLoss(s) ==
  /\ s.b.type \in IamTypes /\ s.b.within # Absent
  /\ \E n \in DOMAIN known : ~Whole(known[n]) /\ ~IsUnresolved(known[n])

(* An attachment whose role or policy is not found, or found twice, is       *)
(* dropped.                                                                 *)
NotAttached(s) == s.b.type = "attachment" /\ graph[Node(s)].merged = None

(* A statement copied without its NotAction or NotResource is about          *)
(* everything: a Deny then hides what it does not deny.                     *)
Widened(s, effect) ==
  /\ cfg.entry # "cli" /\ s.b.type \in IamTypes
  /\ \E i \in DOMAIN s.b.rules :
       /\ s.b.rules[i].effect = effect
       /\ s.b.rules[i].notActions \cup s.b.rules[i].notResources # {}

(* Attached elsewhere than declared: a module's reference finds the root's   *)
(* resource of the same address first.                                      *)
Astray(s) ==
  graph[Node(s)].merged \notin {None} \cup {t.at : t \in {x \in Sites : x.at \in Home(s)}}

(* The policy that is attached is not the one that is declared: it is found  *)
(* by its address too, or a reference is to what is no policy.              *)
PolicyAstray(s) ==
  /\ s.b.type = "attachment"
  /\ PolicyFound(graph[Node(s)]) \notin
       {None} \cup {t.at : t \in {x \in Sites : x.b.type = "policy" /\ x.at \in PolicyOf(s)}}

(* What is merged into a resource and declared nowhere: the CLI does not     *)
(* read a count of zero.                                                    *)
Surplus(a) ==
  \E b \in DOMAIN graph : graph[b].merged = a /\ ~\E t \in Sites : ~NotRead(t) /\ Node(t) = b

(* Azure takes priorities up to 4096 and two kinds of access.               *)
RulesRefused(rules) ==
  \E r \in rules :
    \/ r.prio # Absent /\ Number[r.prio.lit] >= DenyAllInBound.prio
    \/ ~NsgFieldUnknown(r.access) /\ r.access \notin {Lit("Allow"), Lit("Deny")}

Refused(g) == RulesRefused(NsgRules(g))

(* An Allow whose destination is text that the encoder does not know matches  *)
(* nothing.                                                                 *)
RulesAside(rules) == \E r \in rules : IsAside(r)
Aside(g) == RulesAside(NsgRules(g))

Unheard(s) ==
  \/ NotRead(s)
  \/ PolicySkipped(Node(s)) \/ PriorityUnknown(Node(s)) \/ Muted(Node(s))
  \/ ShowsLoss(s) \/ Widened(s, "Deny") \/ NotAttached(s) \/ PolicyAstray(s)

Blind(j) ==
  LET s == j.site IN
  \/ NotRead(s) \/ BlocksVanished(s)
  \/ s.b.type \in SgTypes /\ Misplaced(Node(s))
  \/ s.b.type \notin SgTypes /\
       \/ Refused(j.group) \/ Aside(j.group) \/ Surplus(Node(s))
       \/ \E t \in j.group \cup j.policies : Unheard(t)
       \/ \E t \in Sites :
            /\ ~NotRead(t) /\ Astray(t)
            /\ t \in j.group \/ graph[Node(t)].merged = Node(s)

(* README: "fail-closed".  When every verdict is UNSAT, nothing declared is   *)
(* harmful and nothing the verdict depends on is without a value, outside    *)
(* the cases named above.                                                   *)
NoFalseSafe ==
  phase = "done" /\ (\A a \in DOMAIN verdicts : verdicts[a] = "unsat") =>
    \A j \in Subjects : Harmful(j) => Blind(j)

(* What a placeholder does not say: the rules inside of a network security   *)
(* group, or a policy's statements.                                         *)
Unsaid(s) == s.i.lost # Absent /\ s.b.type \in {"nsg"} \cup IamTypes

MergedInto(t, s) == graph[Node(t)].merged # None /\ graph[Node(t)].merged = Node(s)

(* What is merged into a site's resource is what is declared to belong there. *)
InPlace(j) ==
  LET s == j.site IN
  /\ ~Surplus(Node(s)) /\ (s.b.type \in SgTypes \/ Homeless(s))
  /\ \A t \in Sites : ~NotRead(t) /\ MergedInto(t, s) => t \in j.group
  /\ \A t \in j.group \ {s} : ~NotRead(t) /\ MergedInto(t, s)
  /\ s.b.type \in SgTypes =>
       ~\E t \in j.group, a \in DOMAIN graph : graph[a].merged = Node(t) /\ Misplaced(a)

(* All of the policies that a verdict is about is in it, and no more.        *)
InWords(j) ==
  /\ \A t \in j.group : ~PolicyAstray(t)
  /\ \A t \in j.policies : ~NotRead(t) /\ ~Widened(t, "Allow")
  /\ \A t \in {j.site} \cup j.policies : ~Unsaid(t)

(* A SAT is real where every rule and policy is in its place: something that *)
(* belongs to the resource is harmful, data without a value being anything. *)
(* This and the other direction compare the encoders with the reading of    *)
(* the policies: the priority chain with "allowed and not denied before",   *)
(* the CIDR ranges with the private networks.                               *)
NoFalseAlarm ==
  phase = "done" /\ cfg.entry # "cli" /\ ~HasListLocal =>
    \A j \in Subjects : LET s == j.site IN
      /\ ~NotRead(s) /\ Node(s) \in DOMAIN verdicts /\ verdicts[Node(s)] = "sat"
      /\ ~Tied(j.group) /\ InPlace(j) /\ InWords(j)
      => Harmful(j) \/ \E t \in j.group : t.b.type \in SgTypes /\ SgHarm(t)

(* A rule or role policy that was merged is in a resource of the right type  *)
(* that is itself verified, with all it says, whatever the order of the      *)
(* merges: nothing is lost between the passes that merge and the skipping of *)
(* what was merged.  A security group's rule that refers to no group may be  *)
(* lost, and so may what is merged into a rule (Misplaced above).            *)
RulesAreKept ==
  phase = "done" =>
    \A a \in DOMAIN graph :
      LET r == graph[a]
          toGroup == Is(r.parent, "ref") => graph[r.parent.ref].type = "sg"
          isTarget == \E b \in DOMAIN graph : graph[b].merged = a
      IN r.type \in Verified /\ r.merged # None /\ ~isTarget
           /\ (r.type = "sgrule" => toGroup)
         => /\ r.merged \in DOMAIN verdicts
            /\ graph[r.merged].type = ParentType(r.type)
            /\ ToSet(r.rules) \subseteq ToSet(graph[r.merged].rules)
=============================================================================
