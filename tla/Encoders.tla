------------------------------ MODULE Encoders ------------------------------
(***************************************************************************)
(* The verdicts of solver/engine.py on one resource of the graph and the   *)
(* formulas behind them: security groups, network security groups, IAM     *)
(* policies.  A formula over 32-bit addresses or over strings is a set of  *)
(* addresses or requests here, and "sat" says that it is not empty.  The   *)
(* solver's timeouts are the business of Admission and EngineCache.        *)
(***************************************************************************)
EXTENDS Expressions, Integers, SequencesExt, FiniteSetsExt

CONSTANTS
  None,           \* no number, no type, no address
  Width,          \* bits of an address (32 in the code)
  Cidr,           \* text of a CIDR -> <<address, prefix length>>
  PrivateNets,    \* the texts in PRIVATE_RANGES
  ProbeNets,      \* those of the Azure infrastructure
  Everywhere,     \* the text 0.0.0.0/0
  SensitivePorts, \* texts of the ports that cover one of SENSITIVE_PORTS
  Number,         \* text of a number -> the number
  Actions, Resources,  \* what a request may ask for, on what
  Matches,        \* pattern -> the actions or resources it matches
  WildActions, WildResources, \* patterns that count as a full wildcard
  Globs           \* patterns with a wildcard in the middle

ASSUME WidthAssumption == Width \in Nat
ASSUME CidrAssumption ==
  \A c \in DOMAIN Cidr : Cidr[c][1] \in 0..(2^Width - 1) /\ Cidr[c][2] \in 0..Width
ASSUME NumberAssumption == None \notin Int /\ \A x \in DOMAIN Number : Number[x] \in Int

(* cidr_to_int_range, strict=False: host bits are dropped.                  *)
Low(c) == Cidr[c][1] - (Cidr[c][1] % 2^(Width - Cidr[c][2]))
High(c) == (Low(c) + 2^(Width - Cidr[c][2])) - 1

InCidr(ip, c) == Low(c) <= ip /\ ip <= High(c)
InAny(ip, cs) == \E c \in cs : InCidr(ip, c)

Ips == 0..(2^Width - 1)
PublicIps == {ip \in Ips : ~InAny(ip, PrivateNets)}

ASSUME EverywhereAssumption == \E ip \in PublicIps : InCidr(ip, Everywhere)

-----------------------------------------------------------------------------
(* Security groups.  A rule has a port and a list of CIDRs; int() drops  *)
(* every port that is no number.                                            *)

(* Faulty variant: an entry without a value is nowhere.                     *)
CidrIpsKnown(v) ==
  IF Is(v, "lit") THEN {ip \in Ips : InCidr(ip, v.lit)} ELSE {}

(* A port that is no number covers every port.                              *)
PortOf(v) == IF Is(v, "lit") /\ v.lit \in DOMAIN Number THEN v ELSE Absent

IsPortSensitive(p) == p = Absent \/ p.lit \in SensitivePorts

(* One entry of cidr_blocks: what cannot be resolved is taken for anywhere. *)
CidrIps(v) ==
  LET c == IF Is(v, "lit") THEN v.lit ELSE Everywhere IN
  {ip \in Ips : InCidr(ip, c)}

(* How the loop over the rules ends at this one, if it does: unresolved     *)
(* fields and entries that are no text return, a reference for a port and   *)
(* text that is no CIDR raise.                                              *)
SgStop(r) ==
  LET odd == {i \in DOMAIN r.cidr :
                \/ Is(r.cidr[i], "items")
                \/ Is(r.cidr[i], "lit") /\ r.cidr[i].lit \notin DOMAIN Cidr}
  IN IF IsUnresolved(r.port) THEN "unresolvable"
     ELSE IF Is(r.port, "ref") THEN "crash"
     ELSE IF ~IsPortSensitive(r.port) \/ odd = {} THEN "none"
     ELSE IF Is(r.cidr[Min(odd)], "items") THEN "unresolvable" ELSE "crash"

SgRuleIps(r) ==
  IF IsPortSensitive(r.port)
    THEN UNION {CidrIps(r.cidr[i]) : i \in DOMAIN r.cidr} ELSE {}

VerifySecurityGroup(rules) ==
  LET stops == {i \in 1..Len(rules) : SgStop(rules[i]) # "none"} IN
  IF stops # {} THEN SgStop(rules[Min(stops)])
  ELSE IF \E i \in 1..Len(rules) : SgRuleIps(rules[i]) \cap PublicIps # {}
    THEN "sat" ELSE "unsat"

-----------------------------------------------------------------------------
(* Network security groups.  A rule has a priority, an access, a source, a  *)
(* destination and a port; the text of a source or destination is a CIDR,   *)
(* "Internet" or another service tag.                                       *)

LastPriority == 65535

(* Faulty variant: rules are taken in the order of the file.                *)
BeforeInFile(rules, i, j) == i < j

PriorityOf(r) == IF r.prio = None THEN LastPriority ELSE r.prio

DefaultRule(prio, access, from, to) ==
  [prio |-> prio, access |-> Lit(access), from |-> Lit(from), to |-> Lit(to),
   port |-> Absent]

AllowVnetInBound == DefaultRule(65000, "Allow", "VirtualNetwork", "VirtualNetwork")
AllowAzureLoadBalancerInBound == DefaultRule(65001, "Allow", "AzureLoadBalancer", "*")
DenyAllInBound == DefaultRule(65500, "Deny", "*", "*")

(* Defaults whose priority no rule has are appended.                        *)
WithDefaults(rules) ==
  LET taken == {PriorityOf(rules[i]) : i \in {j \in 1..Len(rules) :
                                                rules[j].prio # None}}
      Default(d) == IF d.prio \in taken THEN <<>> ELSE <<d>>
  IN rules \o Default(AllowVnetInBound) \o Default(AllowAzureLoadBalancerInBound)
           \o Default(DenyAllInBound)

(* The stable sort by priority.                                             *)
Before(rules, i, j) ==
  \/ PriorityOf(rules[i]) < PriorityOf(rules[j])
  \/ PriorityOf(rules[i]) = PriorityOf(rules[j]) /\ i < j

(* The place of a rule in the sorted list.                                  *)
Place(rules, i) == 1 + Cardinality({j \in 1..Len(rules) : Before(rules, j, i)})

(* encode_source_prefix_expr: text that is neither a tag it knows nor a      *)
(* CIDR matches nothing, and so does a source that is absent.               *)
PrefixIps(from) ==
  CASE from \in {Lit("*"), Lit("Internet")} -> Ips
    [] from = Lit("VirtualNetwork") -> {ip \in Ips : InAny(ip, PrivateNets)}
    [] from = Lit("AzureLoadBalancer") -> {ip \in Ips : InAny(ip, ProbeNets)}
    [] OTHER -> {ip \in Ips : /\ Is(from, "lit") /\ from.lit \in DOMAIN Cidr
                             /\ InCidr(ip, from.lit)}

(* What a source consists of; a list of lists is the deepest there is.       *)
Entries(v) == IF Is(v, "items") THEN ToSet(v.items) ELSE {v}
Sources(from) == UNION {Entries(v) : v \in Entries(from)}

SourceIps(from) == UNION {PrefixIps(v) : v \in Sources(from)}

(* A destination that is absent, or a list without entries, is every address. *)
DestinationIps(to) ==
  IF to = Absent \/ Entries(to) = {} THEN Ips ELSE SourceIps(to)

(* parse_port_range: text that is no number is every port, and so is a list  *)
(* without entries; ranges are left out.                                    *)
PortCovers(v, port) ==
  Entries(v) = {} \/ \E x \in Entries(v) : PortOf(x) \in {Absent, Lit(port)}

(* A packet is a source and a destination; protocols and source ports are    *)
(* left out.                                                                *)
RuleMatches(r, packet, port) ==
  /\ PortCovers(r.port, port)
  /\ packet[1] \in SourceIps(r.from) /\ packet[2] \in DestinationIps(r.to)

(* encode_nsg_rules: the nested If, whose outermost condition is the first  *)
(* rule of the sorted list.                                                 *)
ChainAllows(rules, packet, port) ==
  LET all == WithDefaults(rules)
      order == [k \in 1..Len(all) |-> CHOOSE i \in 1..Len(all) : Place(all, i) = k]
      Chain[k \in 1..(Len(all) + 1)] ==
        IF k > Len(all) THEN FALSE
        ELSE IF RuleMatches(all[order[k]], packet, port)
          THEN all[order[k]].access = Lit("Allow") ELSE Chain[k + 1]
  IN Chain[1]

(* Any field that is Unresolved or a reference; a priority never is: what   *)
(* is no number has become None.                                            *)
NsgFieldUnknown(field) ==
  \E v \in Sources(field) : IsUnresolved(v) \/ Is(v, "ref")

NsgUnknown(r) ==
  \E f \in {"access", "from", "to", "port"} : NsgFieldUnknown(r[f])

(* Rule sources that are no rule, the placeholder of a copy loop, are        *)
(* passed over.                                                             *)
RulesAmong(sources) ==
  LET found[i \in 0..Len(sources)] ==
        IF i = 0 THEN <<>>
        ELSE IF Has(sources[i], "prio") THEN Append(found[i - 1], sources[i])
        ELSE found[i - 1]
  IN found[Len(sources)]

(* What a verdict looks at.                                                 *)
Packets == {ip \in PublicIps : ~InAny(ip, ProbeNets)} \X Ips

VerifyAzureNsg(sources) ==
  LET rules == RulesAmong(sources) IN
  IF \E i \in 1..Len(rules) : NsgUnknown(rules[i]) THEN "unresolvable"
  ELSE IF \E packet \in Packets, port \in SensitivePorts :
            ChainAllows(rules, packet, port)
    THEN "sat" ELSE "unsat"

-----------------------------------------------------------------------------
(* IAM.  A statement has an effect and sets of patterns.  An item of the    *)
(* list that is neither a statement, a managed policy nor Unresolved, such  *)
(* as a ResourceReference, is passed over.                                  *)

Managed == [managed |-> TRUE]
IsStatement(s) == Has(s, "effect")

MatchedBy(patterns, all) == all \cap UNION {Matches[p] : p \in patterns}

Scope(pos, neg, all) ==
  IF pos # {} THEN MatchedBy(pos, all)
  ELSE IF neg # {} THEN all \ MatchedBy(neg, all) ELSE all

Requests(s) ==
  Scope(s.actions, s.notActions, Actions)
    \X Scope(s.resources, s.notResources, Resources)

HasWildcard(pos, neg, wild) ==
  IF pos # {} THEN pos \cap wild # {} ELSE "*" \notin neg

IsWildAllow(s) ==
  /\ s.effect = "Allow"
  /\ \/ HasWildcard(s.actions, s.notActions, WildActions)
     \/ HasWildcard(s.resources, s.notResources, WildResources)

(* Positive patterns hide the negative ones, globs included.                *)
HasGlob(s) ==
  \/ (IF s.actions # {} THEN s.actions ELSE s.notActions) \cap Globs # {}
  \/ (IF s.resources # {} THEN s.resources ELSE s.notResources) \cap Globs # {}

VerifyIamPolicy(rules) ==
  LET all == ToSet(rules)
      stmts == {s \in all : IsStatement(s)}
      granted == UNION ({Requests(s) : s \in {t \in stmts : IsWildAllow(t)}}
                          \cup {Actions \X Resources : s \in all \cap {Managed}})
      denied == UNION {Requests(s) : s \in {t \in stmts : t.effect = "Deny"}}
  IN IF \E s \in all : IsUnresolved(s) THEN "unresolvable"
     ELSE IF \E s \in stmts : HasGlob(s) THEN "unresolvable"
     ELSE IF granted \ denied # {} THEN "sat" ELSE "unsat"

-----------------------------------------------------------------------------
(* The dispatch of verify_graph: other types get no verdict.                *)
SgTypes == {"sg", "sgrule"}
NsgTypes == {"nsg", "nsgrule"}
IamTypes == {"role", "rolepolicy", "policy"}
Verified == SgTypes \cup NsgTypes \cup IamTypes

Verdict(r) ==
  CASE r.type \in SgTypes -> VerifySecurityGroup(r.rules)
    [] r.type \in NsgTypes -> VerifyAzureNsg(r.rules)
    [] r.type \in IamTypes -> VerifyIamPolicy(r.rules)
=============================================================================
