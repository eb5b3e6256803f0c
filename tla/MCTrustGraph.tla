---------------------------- MODULE MCTrustGraph ----------------------------
EXTENDS AzurePolicy, TLC

CONSTANTS ra, rb, user,              \* two roles and a resource that is none
          i1, i2, vm, grp, team,     \* identities, a host, groups
          custom, idle,              \* custom role definitions
          as1, as2,                  \* role assignments
          app,                       \* a resource that policies are about
          acct, ext                  \* nodes of an account, of an object id

MCStartsWith ==
  LET names == {"a", "ab", "g", "g2", "m", "main"} IN
  {<<n, n>> : n \in names} \cup {<<"a", "ab">>, <<"g", "g2">>}

MCShort == (ra :> "A") @@ (rb :> "B") @@ (grp :> "main")
MCAccountId == {"111"}
MCAccountNode == ("111" :> acct) @@ ("object" :> ext)

Empty == [n \in {} |-> None]
Attrs(type, rg, sub) ==
  [type |-> type, name |-> Absent, scope |-> Absent, rg |-> rg, sub |-> sub,
   mg |-> Absent]

-----------------------------------------------------------------------------
(* Two roles, each with a trust policy and an identity policy; one of the   *)
(* roles may bear the other's short name.                                   *)
Statement(effect, principals, resources) ==
  [assume |-> TRUE, effect |-> effect, principals |-> principals,
   resources |-> resources]

TrustPolicies(other) ==
  {{}, {Gone}, {Ref(user)}} \cup
  {{Statement("allow", p, {Star})} :
     p \in {{Ref(other)}, {Lit("B"), Lit("111")}, {Lit("A"), Ref(user)}, {Gone},
            {Star}}}
  \cup {{Statement("deny", {Ref(other)}, {Star})}}

IdentityPolicies(other) ==
  {{}} \cup
  {{Statement("allow", {}, r)} :
     r \in {{Ref(other)}, {Lit("B")}, {Star}, {Gone}, {Lit("A"), Ref(user)}}}

AwsConfigs ==
  {[roles |-> (ra :> [names |-> n, rules |-> t1 \cup p1]) @@
              (rb :> [names |-> {}, rules |-> t2 \cup p2]),
    assigns |-> Empty, defs |-> Empty, identities |-> Empty,
    workloads |-> Empty, res |-> Empty] :
     n \in {{}, {"B"}},
     t1 \in TrustPolicies(rb), p1 \in IdentityPolicies(rb),
     t2 \in TrustPolicies(ra), p2 \in IdentityPolicies(ra)}

-----------------------------------------------------------------------------
(* One host with two identities, or none, and two assignments.              *)
Scopes == {Path(<<"sub", "a">>), Path(<<"sub", "ab">>),
           Path(<<"sub", "a", "rg", "g">>), Path(<<"mg", "m">>),
           Path(<<"sub", "a", "rg", "main">>),
           Ref(grp), Ref(vm), Gone, Absent}

RoleAttrs == {Lit("owner"), Lit("virtual machine contributor"), Lit("reader"),
              Ref(custom), Ref(idle), Gone, Absent}

PrincipalAttrs == {Ref(i1), Lit("id1"), Lit("object"), Ref(team), Gone, Absent}

HostAttrs ==
  {Attrs("vm", g, s) : g \in {Absent, Lit("g"), Lit("g2"), Lit("main"), Lit(grp),
                              Ref(grp)},
                       s \in {Absent, Lit("a"), Lit("ab")}} \cup
  {[Attrs("vm", Absent, Absent) EXCEPT !.scope = s] :
     s \in {Path(<<"sub", "ab">>), Path(<<"sub", "a", "rg", "g2">>), Ref(user)}}
  \cup {[Attrs("vm", Absent, Absent) EXCEPT !.mg = Lit("n")]}

Assignment(p, r, s) == [principal |-> p, role |-> r, scope |-> s]

(* What the first assignment varies: its principal, or its role.            *)
Assignments ==
  {Assignment(p, Lit("owner"), s) : p \in PrincipalAttrs, s \in Scopes} \cup
  {Assignment(Lit("object"), r, s) : r \in RoleAttrs, s \in Scopes}

AzureConfigs ==
  {[roles |-> Empty,
    assigns |-> (as1 :> g) @@
                (as2 :> Assignment(Ref(i2), Lit("owner"), Ref(grp))),
    defs |-> (custom :> {"compute/read"}) @@ (idle :> {}),
    identities |-> (i1 :> Lit("id1")) @@ (i2 :> Lit("id2")),
    workloads |-> (vm :> ids),
    res |-> (vm :> h) @@ (grp :> [Attrs("group", Absent, Absent)
                                    EXCEPT !.name = Lit("g")]) @@
            (i1 :> Attrs("identity", Ref(grp), Absent)) @@
            (i2 :> Attrs("identity", Lit("g2"), Lit("ab"))) @@
            (team :> Attrs("azuread_group", Absent, Absent))] :
     g \in Assignments, h \in HostAttrs,
     ids \in {{}, {Ref(i1), Lit("id2"), Lit("other")}}}

-----------------------------------------------------------------------------
(* A resource and two policy assignments; one definition's names occur in    *)
(* the other's.                                                             *)
MCKeys == [location |-> <<"location">>, https |-> <<"https", "http">>,
           type |-> <<"type">>, alias |-> <<>>,
           regions |-> <<"regions">>]
MCMeant == [location |-> "location", https |-> "https", type |-> "armtype",
            alias |-> "location", regions |-> "regions"]
MCOccurs ==
  LET texts == {"policy.deny", "policy.deny_all", "deny", "deny_all", "east",
                "eastus", "west", "all", "builtin"} IN
  {<<t, t>> : t \in texts} \cup
  {<<"deny", t>> : t \in {"policy.deny", "policy.deny_all", "deny_all"}} \cup
  {<<"policy.deny", "policy.deny_all">>, <<"deny_all", "policy.deny_all">>,
   <<"east", "eastus">>}

Tst(f, o, v) == [field |-> f, op |-> o, value |-> v]

Https(op, text) == Tst("https", op, Lit(text))

SomeTests ==
  {Tst("location", o, v) : o \in {"equals", "notEquals", "contains"},
                           v \in {Lit("east"), Gone}} \cup
  {Tst("location", o, ItemsOf(v)) : o \in {"in", "notIn"},
                                    v \in {{Lit("east"), Lit("west")}, {Gone}, {}}} \cup
  {Tst("https", "exists", v) : v \in {False, Lit("true"), Lit("false")}} \cup
  {Tst("https", "notEquals", False), Tst("https", "notIn", False),
   Tst("type", "equals", Lit("arm")), Tst("alias", "equals", Lit("east")),
   Tst("location", "like", Lit("east")), Tst("regions", "contains", Lit("east"))}

MCConditions ==
  SomeTests \cup
  {[neg |-> t] : t \in SomeTests} \cup
  {[all |-> {t, Https("equals", "false")}] : t \in SomeTests} \cup
  {[neg |-> [any |-> {t, [all |-> {}]}]] : t \in SomeTests} \cup
  {[any |-> {t, Https("notEquals", "true")}] : t \in SomeTests}

(* How deep a condition is nested, for these, their parts and those below.  *)
RECURSIVE Nested(_)
Nested(c) == {c} \cup UNION {Nested(s) : s \in PartsOf(c)}

RECURSIVE Height(_)
Height(c) ==
  IF PartsOf(c) = {} THEN 0
  ELSE 1 + CHOOSE h \in {Height(s) : s \in PartsOf(c)} :
             \A s \in PartsOf(c) : Height(s) <= h

MCDepth ==
  [c \in UNION {Nested(x) : x \in MCConditions} \cup
         {Https("equals", "false"), Https("equals", "true"),
          Tst("https", "exists", False), Tst("location", "equals", Lit("east"))}
     |-> Height(c)]

Rules(conditions) ==
  {[effect |-> Lit("deny"), cond |-> c] : c \in conditions}
    \cup {Gone, Absent, [effect |-> Absent, cond |-> Https("equals", "false")],
          [effect |-> Gone, cond |-> Https("equals", "true")],
          [effect |-> Lit("audit"), cond |-> Https("equals", "false")]}

Attributes ==
  {[type |-> Lit("tf"), armtype |-> Lit("arm"), location |-> l, https |-> h] :
     l \in {Lit("eastus"), Lit("east"), Gone, Ref(user)},
     h \in {Lit("false"), Gone}} \cup
  {[type |-> Lit("tf"), armtype |-> Lit("arm"), location |-> Lit("north"),
    regions |-> ItemsOf({Lit("west"), x})] : x \in {Lit("eastus"), Gone}} \cup
  {[type |-> Lit("tf"), armtype |-> Lit("arm"), location |-> Lit("north")],
   [type |-> Lit("tf"), armtype |-> Lit("arm"), http |-> Lit("true")]}

Def(a, short, name, rule) == [at |-> a, short |-> short, name |-> name, rule |-> rule]
Assigned(d, s) == [def |-> d, scope |-> s]

(* What is varied: the condition, or the names and scopes.                   *)
PolicyConfig(rule, attrs, defs, ks, place) ==
  [roles |-> Empty, assigns |-> Empty, defs |-> Empty, identities |-> Empty,
   workloads |-> Empty,
   res |-> (app :> place) @@ (grp :> [Attrs("group", Absent, Absent)
                                        EXCEPT !.name = Lit("g")]),
   target |-> app, attrs |-> attrs, policies |-> ks, policyDefs |-> defs]

Deny(rule) == Def("policy.deny", "deny", Absent, rule)
DenyAll(name) ==
  Def("policy.deny_all", "deny_all", name,
      [effect |-> Lit("deny"), cond |-> Tst("location", "equals", Lit("east"))])

RuleConfigs ==
  {PolicyConfig(r, a, <<Deny(r)>>, ks, Attrs("app", Lit("g"), Lit("a"))) :
     r \in Rules(MCConditions), a \in Attributes,
     ks \in {<<Assigned(Ref("policy.deny"), Path(<<"sub", "a">>))>>,
             <<Assigned(Lit("builtin"), Path(<<"sub", "a">>)),
               Assigned(Lit("policy.deny"), Ref(grp))>>}}

NameConfigs ==
  {PolicyConfig(r, a, defs, <<Assigned(i, s), Assigned(j, Absent)>>, p) :
     r \in {Gone, [effect |-> Lit("deny"), cond |-> Tst("https", "exists", False)]},
     a \in {[location |-> Lit("east")], [https |-> Lit("true")]},
     defs \in {<<Deny(Gone), DenyAll(Absent)>>, <<DenyAll(Lit("all")), Deny(Absent)>>},
     i \in {Ref("policy.deny"), Ref("policy.deny_all"), Lit("all"), Lit("builtin"),
            Gone, Absent},
     j \in {Ref("policy.deny"), Lit("deny_all")},
     s \in {Path(<<"sub", "a">>), Path(<<"sub", "a", "rg", "g">>), Path(<<"mg", "m">>),
            Ref(grp), Lit("m"), Gone},
     p \in {Attrs("app", Lit("g"), Lit("a")), Attrs("app", Lit("g2"), Lit("a")),
            Attrs("app", Ref(grp), Lit("ab")), Attrs("app", Ref(grp), Absent),
            Attrs("app", Absent, Lit("zero")), Attrs("app", Absent, Absent)}}

MCConfigs == AwsConfigs \cup AzureConfigs
MCGoverned == RuleConfigs \cup NameConfigs
=============================================================================
