----------------------------- MODULE MCPipeline -----------------------------
EXTENDS TemplateTruth

(* Addresses of three bits: 4..7 are private, 3 is the probe, "pub" has a    *)
(* host bit.                                                                *)
MCWidth == 3
MCCidr == ("any" :> <<0, 0>>) @@ ("pub" :> <<1, 2>>) @@ ("priv" :> <<4, 1>>)
          @@ ("narrow" :> <<6, 2>>) @@ ("probe" :> <<3, 3>>)
MCPrivateNets == {"priv"}
MCProbeNets == {"probe"}
MCSensitivePorts == {"22"}
MCNumber == ("0" :> 0) @@ ("1" :> 1) @@ ("2" :> 2) @@ ("22" :> 22) @@ ("80" :> 80)
            @@ ("100" :> 100) @@ ("200" :> 200) @@ ("300" :> 300)
MCActions == {"get", "put"}
MCResources == {"r", "s"}
MCMatches == ("*" :> {"get", "put", "r", "s"}) @@ ("s3:*" :> {"get"}) @@
             ("get" :> {"get"}) @@ ("put" :> {"put"}) @@ ("r" :> {"r"}) @@
             ("g*t" :> {"get"})
MCWildActions == {"*", "s3:*"}
MCWildResources == {"*"}
MCGlobs == {"g*t"}
MCAround == [x \in {"any", "pub", "priv", "r", "text"} |-> "text"] @@ ("list" :> "list")
MCJoined == (<<"pri", "v">> :> "priv") @@ (<<"net", "v">> :> "net-v")
MCClean == ("net" :> "net") @@ ("net-v" :> "net_v") @@ ("net_v" :> "net_v")
           @@ ("net/one" :> "net_one")
MCShort == ("sg.web" :> "web") @@ ("role.app" :> "app") @@ ("nsg.net" :> "net")
           @@ ("policy.p" :> "pol")
MCManagedArns == {"admin"}

-----------------------------------------------------------------------------
No == [n \in {} |-> None]

Blk(type, parent, rules) ==
  [type |-> type, count |-> Absent, forEach |-> Absent, name |-> Absent,
   parent |-> parent, arn |-> Absent, within |-> Absent, rules |-> rules]

Conf(entry, blocks) ==
  [entry |-> entry, declared |-> No, tfvars |-> No, json |-> No, locals |-> No,
   blocks |-> blocks, modules |-> No, template |-> None]

At(a) == ResOf(<<<<>>, a, <<>>>>)

Port(p, c) == [port |-> p, cidr |-> c]

-----------------------------------------------------------------------------
(* Chains and cycles of locals, in every order, that end in a CIDR.         *)
LocalConfigs ==
  {[Conf(entry, ("sg.web" :> Blk("sg", Absent, <<Port(Lit("22"), c)>>)))
      EXCEPT !.locals = [a |-> la, b |-> lb, c |-> lc],
             !.declared = d, !.tfvars = t] :
     entry \in {"cli", "webhook"},
     c \in {LocalOf("a"), Items(<<LocalOf("b"), Lit("priv")>>)},
     la \in {VarOf("x"), LocalOf("b"), Items(<<LocalOf("b"), Lit("priv")>>),
             TextOf(LocalOf("b"))},
     lb \in {LocalOf("c"), VarOf("y"), Items(<<VarOf("x"), LocalOf("c")>>)},
     lc \in {Lit("pub"), LocalOf("a"), Items(<<LocalOf("a"), Lit("priv")>>),
             At("sg.web")},
     d \in {No, [x |-> Lit("pub"), y |-> Items(<<Lit("priv"), Lit("narrow")>>)]},
     t \in {No, [x |-> Items(<<Lit("priv")>>)]}}

-----------------------------------------------------------------------------
(* A group, a second one that may bear its name, a rule with a loop and a    *)
(* link of every kind, a rule it may refer to, and a resource that is none.  *)
Web == {Blk("sg", Absent, r) :
          r \in {<<>>, <<Port(Lit("22"), Lit("priv"))>>, <<Port(Lit("22"), Lit("any"))>>}}
       \cup {[Blk("sg", Absent, <<Port(Lit("22"), Lit("priv"))>>) EXCEPT !.count = c] :
               c \in {VarOf("n"), At("other.db")}}

LinkedRules ==
  {[Blk("sgrule", p, <<Port(VarOf("port"), c)>>) EXCEPT !.count = n] :
     p \in {At("sg.web"), At("other.db"), At("sgrule.two"), Lit("web"), VarOf("p")},
     n \in {Absent, Lit("0"), Lit("2"), VarOf("n"), At("other.db"), At("sg.web")},
     c \in {Lit("any")}}
  \cup
  {[Blk("sgrule", At("sg.web"), <<Port(VarOf("port"), c)>>) EXCEPT !.forEach = f] :
     f \in {Items(<<Lit("any"), Lit("priv")>>), Lit("priv"), VarOf("n")},
     c \in {Each, TextOf(Each), Items(<<Lit("priv"), Each>>)}}

LinkConfigs ==
  {[Conf(entry, ("sg.web" :> w) @@ ("sgrule.one" :> r) @@ ("other.db" :> Blk("other", Absent, <<>>))
       @@ ("sgrule.two" :> Blk("sgrule", At("sg.web"), <<Port(Lit("80"), Lit("any"))>>))
       @@ (IF twin THEN "sg.twin" :> [Blk("sg", Absent, <<>>) EXCEPT !.name = Lit("web")]
                   ELSE No))
      EXCEPT !.declared = d] :
     entry \in {"cli", "webhook"}, w \in Web, r \in LinkedRules,
     twin \in BOOLEAN,
     d \in {No, [port |-> Lit("80"), n |-> Lit("1"), p |-> Lit("web")]}}

-----------------------------------------------------------------------------
(* A network security group with rules inside and beside it.                *)
Nsg(prio, access, from, port) ==
  [prio |-> prio, access |-> Lit(access), from |-> from, to |-> Absent, port |-> port]

NetConfig(inside, rule) ==
  [Conf("webhook", ("nsg.net" :> Blk("nsg", Absent, inside)) @@ ("nsgrule.one" :> rule)
     @@ ("sg.web" :> Blk("sg", Absent, <<>>)))
   EXCEPT !.declared = [n |-> Lit("200")]]

InsideRules ==
  {<<>>, <<Nsg(Lit("200"), "Deny", Lit("*"), Lit("22"))>>,
   <<Nsg(Lit("300"), "Deny", Lit("Internet"), Absent),
     Nsg(Lit("100"), "Allow", Items(<<Lit("priv"), Lit("probe")>>), Absent)>>,
   <<Nsg(Lit("300"), "Allow", Lit("any"), Absent),
     Nsg(Lit("200"), "Deny", Lit("pub"), Lit("22"))>>}

(* A rule of no group, and one with an unresolved count, is never read.      *)
NetConfigs ==
  {NetConfig(inside, Blk("nsgrule", p, <<Nsg(n, acc, f, port)>>)) :
     inside \in InsideRules, p \in {At("nsg.net"), Lit("net")},
     n \in {Lit("100"), Lit("300"), VarOf("n"), VarOf("m")},
     acc \in {"Allow", "Deny"},
     f \in {Lit("any"), Lit("priv"), Lit("Storage"), Lit("VirtualNetwork"),
            VarOf("m"), Lit("AzureLoadBalancer")},
     port \in {Absent, Lit("22"), Lit("80")}}
  \cup
  {NetConfig(inside, [Blk("nsgrule", p, <<Nsg(Lit("100"), acc, Lit("any"), Absent)>>)
                        EXCEPT !.count = c]) :
     inside \in InsideRules, p \in {At("nsg.net"), Lit("net"), Gone, At("sg.web")},
     acc \in {"Allow", "Deny"}, c \in {Absent, VarOf("m")}}

(* Destinations that a Deny covers in part, or that are not known, and ports  *)
(* that are lists or no numbers.                                            *)
TargetConfigs ==
  {NetConfig(<<[Nsg(Lit("200"), "Allow", Lit("any"), q) EXCEPT !.to = u]>>,
             Blk("nsgrule", At("nsg.net"),
                 <<[Nsg(n, "Deny", Lit("*"), port) EXCEPT !.to = t]>>)) :
     u \in {Absent, Lit("narrow"), Lit("Storage"), VarOf("m"),
            Items(<<Lit("Storage"), Lit("narrow")>>)},
     q \in {Lit("22"), Items(<<Lit("80"), VarOf("m")>>)},
     n \in {Lit("100"), Lit("300")},
     t \in {Lit("priv"), Lit("Internet"), Lit("Storage"), Lit("VirtualNetwork")},
     port \in {Lit("22"), Lit("ssh"), Items(<<Lit("80"), Lit("22")>>)}}

(* Two rules beside a group, loops that the CLI does not read, lists that    *)
(* lose items and text made of a list, an access that Azure does not have.  *)
BesideConfig(entry, inside, one, two, first) ==
  [Conf(entry, ("nsg.net" :> Blk("nsg", Absent, inside)) @@ ("nsgrule.one" :> one)
     @@ ("nsgrule.two" :> two))
   EXCEPT !.declared = [n |-> Lit("100"), p |-> Lit("net")],
          !.locals = [a |-> Items(<<LocalOf("c"), Lit("300")>>), c |-> first]]

BesideConfigs ==
  {BesideConfig(entry, <<>>,
      Blk("nsgrule", At("nsg.net"), <<Nsg(n, "Allow", f, Absent)>>),
      [Blk("nsgrule", p, <<Nsg(Lit("80"), acc, Lit("*"), Absent)>>) EXCEPT !.count = c],
      Items(<<Lit("any"), VarOf("m")>>)) :
     entry \in {"cli", "webhook"}, n \in {Lit("100"), VarOf("n")},
     f \in {Lit("any"), LocalOf("a"), TextOf(LocalOf("c"))},
     p \in {At("nsg.net"), VarOf("p")}, acc \in {"Deny", "Audit"},
     c \in {Absent, Lit("0"), VarOf("m")}}

-----------------------------------------------------------------------------
(* A role with two policies beside it, a policy and its attachment.         *)
Stmt(effect, actions, notActions, resources) ==
  [effect |-> effect, actions |-> actions, notActions |-> notActions,
   resources |-> resources, notResources |-> {}]

Grants == {<<Stmt("Allow", {"*"}, {}, {"r"})>>, <<Stmt("Allow", {"get"}, {}, {"r"})>>,
           <<Stmt("Allow", {}, {"put"}, {"r"})>>, <<Stmt("Allow", {"g*t"}, {}, {"*"})>>}

Denials == {<<>>, <<Stmt("Deny", {"*"}, {}, {"*"})>>, <<Stmt("Deny", {"get"}, {}, {"*"})>>,
            <<Stmt("Deny", {}, {"get"}, {"*"})>>}

RoleConfig(entry, g, d, p, w, policy, pa, arn) ==
  [Conf(entry, ("role.app" :> [Blk("role", Absent, <<>>) EXCEPT !.name = Lit("app")])
     @@ ("rp.grant" :> [Blk("rolepolicy", p, g) EXCEPT !.within = w])
     @@ ("rp.deny" :> Blk("rolepolicy", At("role.app"), d))
     @@ ("policy.p" :> [Blk("policy", Absent, policy) EXCEPT !.name = Lit("p")])
     @@ ("att.a" :> [Blk("attachment", pa, <<>>) EXCEPT !.arn = arn]))
   EXCEPT !.declared = [v |-> Lit("r")]]

RoleConfigs ==
  {RoleConfig(entry, g, d, p, w, <<Stmt("Allow", {"put"}, {}, {"r"})>>, pa, arn) :
     entry \in {"cli", "webhook"}, g \in Grants, d \in Denials,
     p \in {At("role.app"), Lit("app")},
     w \in {Absent, VarOf("v"), At("policy.p"), Gone},
     pa \in {At("role.app")},
     arn \in {Lit("admin"), At("policy.p"), Lit("p"), VarOf("q")}}
  \cup
  {RoleConfig(entry, g, d, At("role.app"), w, <<Stmt("Allow", {"put"}, {}, {"r"})>>, pa, arn) :
     entry \in {"cli", "webhook"}, g \in Grants, d \in Denials,
     w \in {Absent, Gone}, pa \in {Lit("gone"), VarOf("q")},
     arn \in {Lit("admin"), At("policy.p")}}
  \cup
  {RoleConfig(entry, g, d, p, Absent, policy, At("role.app"), arn) :
     entry \in {"cli", "webhook"}, g \in Grants, d \in Denials,
     p \in {At("role.app"), Gone},
     policy \in {<<Stmt("Allow", {"*"}, {}, {"r"})>>, <<Stmt("Deny", {}, {"get"}, {"*"})>>,
                 <<Stmt("Deny", {"*"}, {}, {"*"})>>},
     arn \in {At("policy.p"), At("rp.deny"), Lit("p"), Lit("pol")}}
  \cup
  {[Conf("webhook", ("role.app" :> Blk("role", Absent, <<>>))
       @@ ("att.a" :> [Blk("attachment", At("role.app"), <<>>)
                         EXCEPT !.forEach = LocalOf("a"), !.arn = Each]))
      EXCEPT !.locals = [a |-> Items(<<LocalOf("b"), Lit("p")>>), b |-> arn]] :
     arn \in {Lit("admin"), VarOf("q"), Lit("p")}}

-----------------------------------------------------------------------------
(* A module with a network security group and its rule, called from a root   *)
(* that may have a group of the same address.                               *)
NetModule(source, count, rule, args, calls) ==
  [source |-> source, count |-> count, forEach |-> Absent, args |-> args,
   defaults |-> [x |-> Lit("priv")], calls |-> calls,
   blocks |-> ("nsg.net" :> Blk("nsg", Absent, <<Nsg(Lit("200"), "Allow", VarOf("x"), Absent)>>))
              @@ ("nsgrule.one" :> rule)]

ModuleConfigs ==
  {[Conf(entry, (IF root THEN "nsg.net" :>
                   Blk("nsg", Absent, <<Nsg(Lit("200"), "Allow", Lit("any"), Absent)>>)
                 ELSE "sg.web" :> Blk("sg", Absent, <<>>)))
      EXCEPT !.modules = "m" :> NetModule(src, n, r, args, calls),
             !.declared = [n |-> Lit("1")]] :
     entry \in {"webhook", "modules"}, root \in BOOLEAN,
     src \in {"local", "remote", "missing"},
     n \in {Absent, Lit("2"), Lit("0"), VarOf("n"), VarOf("z"), Lit("text")},
     r \in {Blk("nsgrule", At("nsg.net"), <<Nsg(Lit("100"), acc, Lit("any"), Absent)>>) :
              acc \in {"Allow", "Deny"}},
     args \in {No, [x |-> Lit("any")], [x |-> VarOf("z")]},
     calls \in {{}, {"module.deep"}}}

(* A module whose rule names its group in text or has a loop over a list     *)
(* local, and one with a role, whose root may have a role of its address.   *)
NamedConfigs ==
  {[Conf("modules", "nsg.net" :> Blk("nsg", Absent, <<>>))
      EXCEPT !.locals = [a |-> Items(<<LocalOf("c"), Lit("pub")>>), c |-> Lit("net")],
             !.modules = "m" :>
               [NetModule("local", Absent,
                          Blk("nsgrule", p, <<Nsg(Lit("100"), acc, VarOf("x"), Absent)>>),
                          args, {}) EXCEPT !.forEach = f]] :
     p \in {Lit("net"), At("nsg.net")}, acc \in {"Allow", "Deny"},
     args \in {No, [x |-> LocalOf("a")], [x |-> Each]},
     f \in {Absent, LocalOf("a"), Items(<<Lit("any"), Lit("priv")>>)}}

RoleModule(w, args) ==
  [source |-> "local", count |-> Absent, forEach |-> Absent, args |-> args,
   defaults |-> [x |-> Lit("r")], calls |-> {},
   blocks |->
     RoleConfig("modules", <<Stmt("Allow", {"get"}, {}, {"r"})>>,
                <<Stmt("Deny", {"*"}, {}, {"*"})>>, At("role.app"), w,
                <<Stmt("Allow", {"get"}, {}, {"s"})>>, At("role.app"), Lit("p")).blocks]

RoleModules ==
  {[Conf("modules", IF root THEN "role.app" :> Blk("role", Absent, <<>>) ELSE No)
      EXCEPT !.locals = [a |-> Items(<<LocalOf("b"), Lit("r")>>), b |-> VarOf("q")],
             !.modules = "m" :> RoleModule(w, args)] :
     root \in BOOLEAN, w \in {Absent, VarOf("x"), TextOf(VarOf("x"))},
     args \in {No, [x |-> LocalOf("a")], [x |-> LocalOf("b")]}}

-----------------------------------------------------------------------------
(* Templates with a group, its rules by every way there is, and a second     *)
(* resource that may be its rule, take its address, or be no resource.      *)
Rule(prio, access, from, port) ==
  [prio |-> prio, access |-> access, from |-> from, to |-> Absent, port |-> port]

Entry0 == [type |-> "nsg", copy |-> FALSE, name |-> Lit("net"), other |-> Absent,
           rules |-> Items(<<>>), children |-> <<>>, parent |-> Absent]

Allow(prio, from) == Rule(prio, Lit("Allow"), from, Lit("22"))

ArmRuleSets ==
  {Items(<<Allow(p, f)>>) :
     p \in {Lit("200"), Lit("v"), ParamOf("gone")},
     f \in {Lit("priv"), VariableOf("a"), ParamOf("p"), Items(<<VariableOf("a"), Lit("*")>>),
            Concat(Lit("pri"), Lit("v")), Concat(VariableOf("l"), VariableOf("l")), Call,
            Concat(Concat(VariableOf("l"), Lit("v")), Lit("v"))}}
  \cup {VariableOf("rules"), Items(<<>>),
        Items(<<Rule(Lit("100"), Lit("Deny"), Concat(VariableOf("l"), VariableOf("l")), Absent),
                Allow(Lit("200"), Lit("*"))>>),
        Items(<<Rule(Lit("100"), Lit("Audit"), Lit("*"), Absent), Allow(Lit("200"), Lit("*"))>>)}

ArmChildren ==
  {<<>>} \cup
  {<<Rule(p, acc, Lit("any"), port)>> :
     p \in {Lit("100"), Lit("200"), Call},
     acc \in {Lit("Allow"), Lit("Deny"), ParamOf("none")},
     port \in {Lit("22"), Call}}
  \cup {<<Rule(Lit("100"), Items(<<Call>>), Lit("any"), Lit("22"))>>}
  \cup {<<Rule(Lit("100"), Lit("Allow"), Lit("any"), Items(<<Lit("80"), v>>))>> :
          v \in {Lit("22"), Call}}
  \cup {<<[Allow(Lit("100"), Lit("any")) EXCEPT !.to = t]>> :
          t \in {Lit("Storage"), Call, Items(<<Lit("priv"), ParamOf("none")>>)}}

ArmSecond ==
  {[Entry0 EXCEPT !.type = "nsgrule", !.name = Lit("net/one"), !.parent = Lit("net"),
                  !.rules = Items(<<r>>)] :
     r \in {Allow(Lit("100"), Lit("any")), Rule(Lit("100"), Lit("Deny"), Lit("any"), Absent),
            Rule(Lit("100"), Lit("Deny"), Lit("any"), Call)}}
  \cup
  {[Entry0 EXCEPT !.name = n, !.copy = c] :
     n \in {Lit("net_v"), Call}, c \in BOOLEAN}
  \cup {[Entry0 EXCEPT !.name = Lit("net_v"),
                       !.rules = Items(<<Allow(Lit("100"), Lit("any"))>>)]}
  \cup {[Entry0 EXCEPT !.type = ""], [Entry0 EXCEPT !.type = "foreign"],
        [Entry0 EXCEPT !.type = "other", !.other = VariableOf("b")]}

Template(rs, p, a) ==
  [schema |-> TRUE, form |-> "list", resources |-> rs,
   parameters |-> [p |-> p, none |-> Absent],
   variables |-> [a |-> a, b |-> VariableOf("a"), l |-> Items(<<Lit("any")>>),
                  rules |-> Items(<<Allow(Lit("200"), Lit("any"))>>),
                  denials |-> Items(<<Rule(Lit("100"), Lit("Deny"), Lit("any"), Absent)>>)]]

(* Every value of a rule, every rule inside the group, every second resource. *)
ArmTemplates ==
  {Template(<<[Entry0 EXCEPT !.rules = r], second>>, p, a) :
     r \in ArmRuleSets, second \in {[Entry0 EXCEPT !.type = "other", !.other = o] :
                                     o \in {Absent, VariableOf("b")}},
     p \in {Boxed(Lit("any")), Boxed(VariableOf("a")), VariableOf("a"),
            Boxed(Items(<<Lit("any"), VariableOf("a")>>))},
     a \in {Lit("any"), VariableOf("b"), Call}}
  \cup
  {Template(<<[Entry0 EXCEPT !.name = n, !.rules = r, !.children = c], second>>,
            Absent, Lit("any")) :
     n \in {Lit("net"), Concat(Lit("net"), Lit("v"))},
     r \in {Items(<<>>), VariableOf("rules"), VariableOf("denials"), Items(<<Allow(Lit("200"), VariableOf("a"))>>)},
     c \in ArmChildren, second \in ArmSecond}

(* What is no template, or holds nothing that is known.                     *)
OddTemplates ==
  {[schema |-> schema, form |-> form, resources |-> rs, parameters |-> No,
    variables |-> No] :
     schema \in BOOLEAN, form \in {"list", "object", "absent"},
     rs \in {<<>>, <<[Entry0 EXCEPT !.type = "foreign"]>>}}

ArmConfigs ==
  {[Conf("arm", No) EXCEPT !.template = t] :
     t \in {x \in ArmTemplates \cup OddTemplates : x.form # "list" => x.resources = <<>>}}

(* Every expression of a template, and its parts.                           *)
WithParts(S) == UNION {{e} \cup Parts(e) : e \in S}

ArmDeclared(t) ==
  {t.parameters[n] : n \in DOMAIN t.parameters} \cup
    {t.variables[n] : n \in DOMAIN t.variables}

ArmResources(t) ==
  UNION {{r.name, r.other, r.rules} \cup ToSet(r.children) : r \in ToSet(t.resources)}

ArmWritten ==
  {IF Is(e, "boxed") THEN e.boxed ELSE e :
     e \in UNION {ArmDeclared(t) \cup ArmResources(t) : t \in ArmTemplates}}

ArmParts == {e : e \in WithParts(WithParts(WithParts(ArmWritten)))}

MCArmExprs == ArmParts

MCConfigs ==
  LocalConfigs \cup LinkConfigs \cup NetConfigs \cup TargetConfigs \cup BesideConfigs
    \cup RoleConfigs \cup ModuleConfigs \cup NamedConfigs \cup RoleModules \cup ArmConfigs
=============================================================================
