------------------------ MODULE PipelineTruthProofs ------------------------
(***************************************************************************)
(* The proofs, for any configurations, that the pipeline's verdicts hide no *)
(* declared harm (NoFalseSafe) and find none that is not declared           *)
(* (NoFalseAlarm).  TruthInv is the inductive invariant:                    *)
(* MadeInv says of every resource of the graph which block and instance it  *)
(* was made of, and what the attachments added to it and from where.       *)
(*                                                                         *)
(* The parts: what the code makes of an expression is Below what is meant;  *)
(* the instances a loop makes meet the declared ones; the steps keep        *)
(* MadeInv; at the end every site that was read has its resource in the     *)
(* graph (SiteMade), made of its block (SiteFirst); and the verdict of the  *)
(* resource that carries its rules is about what the site declares, for     *)
(* security groups (SgSafe), network security groups (NsgSafe) and IAM      *)
(* (IamSafe).  The other direction goes the same way: what is meant is Above *)
(* what the code makes of it, a site's own rules are those declared, and    *)
(* what else the resource has comes from its group (SgAlarm, NsgAlarm,      *)
(* IamAlarm).                                                              *)
(***************************************************************************)
EXTENDS PipelineProofs

(* What the pipeline makes of an expression is what is meant, or it shows    *)
(* that something is missing.                                               *)
Below(v, w) == v = w \/ (v # Absent /\ ~Whole(v))

BelowNames(f, g) ==
  \A x \in DOMAIN f : \/ x \in DOMAIN g /\ f[x] = g[x]
                      \/ f[x] # Absent /\ ~Whole(f[x])

BelowEnv(c, t) == BelowNames(c.vars, t.vars) /\ BelowNames(c.locals, t.locals)

LEMMA GoneIsBelow == Gone # Absent /\ ~Whole(Gone) /\ \A w : Below(Gone, w)
<1>1. Gone # Absent
  BY DEF Gone, Absent
<1>2. ~Whole(Gone)
  BY UnresolvedFacts
<1> QED BY <1>1, <1>2 DEF Below

LEMMA LookupIs ==
  ASSUME NEW e, NEW vs, NEW ls
  PROVE  /\ Is(e, "var") => Lookup(e, vs, ls) = IF e.var \in DOMAIN vs THEN vs[e.var] ELSE Gone
         /\ Is(e, "local") =>
              Lookup(e, vs, ls) = IF e.local \in DOMAIN ls THEN ls[e.local] ELSE Gone
         /\ Is(e, "each") => Lookup(e, vs, ls) = Gone
         /\ ~Is(e, "var") /\ ~Is(e, "local") /\ ~Is(e, "each") => Lookup(e, vs, ls) = e
<1>1. /\ Is(e, "var") => ~Is(e, "local") /\ ~Is(e, "each")
      /\ Is(e, "local") => ~Is(e, "var") /\ ~Is(e, "each")
      /\ Is(e, "each") => ~Is(e, "local") /\ ~Is(e, "var")
  BY DEF Is
<1>2. Is(e, "var") => Lookup(e, vs, ls) = IF e.var \in DOMAIN vs THEN vs[e.var] ELSE Gone
  BY <1>1 DEF Lookup
<1>3. Is(e, "local") => Lookup(e, vs, ls) = IF e.local \in DOMAIN ls THEN ls[e.local] ELSE Gone
  BY <1>1 DEF Lookup
<1>4. Is(e, "each") => Lookup(e, vs, ls) = Gone
  BY <1>1 DEF Lookup
<1>5. ~Is(e, "var") /\ ~Is(e, "local") /\ ~Is(e, "each") => Lookup(e, vs, ls) = e
  BY <1>1 DEF Lookup
<1> QED BY <1>2, <1>3, <1>4, <1>5

LEMMA InterpolateBelow ==
  ASSUME NEW v, NEW w, Below(v, w)
  PROVE  Below(Interpolate(v), Interpolate(w))
<1>1. CASE v = w
  BY <1>1 DEF Below
<1>2. CASE v # Absent /\ ~Whole(v)
  <2>1. ~Whole(Interpolate(v))
    BY <1>2, InterpolateFacts
  <2>2. Interpolate(v) # Absent
    <3>1. \A x : Lit(x) # Absent
      BY DEF Lit, Absent
    <3> QED BY <1>2, <3>1 DEF Interpolate
  <2> QED BY <2>1, <2>2 DEF Below
<1> QED BY <1>1, <1>2 DEF Below

LEMMA LookupBelow ==
  ASSUME NEW c, NEW t, BelowEnv(c, t), NEW e
  PROVE  Below(Lookup(e, c.vars, c.locals), Lookup(e, t.vars, t.locals))
<1> DEFINE x == Lookup(e, c.vars, c.locals) y == Lookup(e, t.vars, t.locals)
<1>1. CASE Is(e, "var")
  <2>1. /\ x = IF e.var \in DOMAIN c.vars THEN c.vars[e.var] ELSE Gone
        /\ y = IF e.var \in DOMAIN t.vars THEN t.vars[e.var] ELSE Gone
    BY <1>1, LookupIs
  <2> QED BY <2>1, GoneIsBelow DEF BelowEnv, BelowNames, Below
<1>2. CASE Is(e, "local")
  <2>1. /\ x = IF e.local \in DOMAIN c.locals THEN c.locals[e.local] ELSE Gone
        /\ y = IF e.local \in DOMAIN t.locals THEN t.locals[e.local] ELSE Gone
    BY <1>2, LookupIs
  <2> QED BY <2>1, GoneIsBelow DEF BelowEnv, BelowNames, Below
<1>3. CASE Is(e, "each")
  BY <1>3, LookupIs, GoneIsBelow
<1>4. CASE ~Is(e, "var") /\ ~Is(e, "local") /\ ~Is(e, "each")
  BY <1>4, LookupIs DEF Below
<1> QED BY <1>1, <1>2, <1>3, <1>4

LEMMA ScalarBelow ==
  ASSUME NEW c, NEW t, BelowEnv(c, t), NEW e
  PROVE  Below(ResolveScalar(e, c.vars, c.locals), ResolveScalar(e, t.vars, t.locals))
BY LookupBelow, InterpolateBelow DEF ResolveScalar

(* A list of what is below.                                                 *)
LEMMA ListBelow ==
  ASSUME NEW D, NEW f, NEW g, f = [i \in D |-> f[i]], g = [i \in D |-> g[i]],
         \A i \in D : Below(f[i], g[i])
  PROVE  Below(Items(f), Items(g))
<1>1. CASE \A i \in D : f[i] = g[i]
  <2>1. f = g
    BY <1>1
  <2> QED BY <2>1 DEF Below
<1>2. CASE \E i \in D : f[i] # g[i]
  <2>1. PICK i \in D : ~Whole(f[i])
    BY <1>2 DEF Below
  <2>2. ~Whole(Items(f))
    BY <2>1, WholeItems
  <2>3. Items(f) # Absent
    BY DEF Items, Absent
  <2> QED BY <2>2, <2>3 DEF Below
<1> QED BY <1>1, <1>2

LEMMA ResolveBelow ==
  ASSUME NEW c, NEW t, BelowEnv(c, t), NEW e
  PROVE  Below(Resolve(e, c.vars, c.locals), Resolve(e, t.vars, t.locals))
<1>1. CASE ~Is(e, "items")
  BY <1>1, ScalarBelow DEF Resolve
<1>2. CASE Is(e, "items")
  <2> DEFINE f == [i \in DOMAIN e.items |-> ResolveScalar(e.items[i], c.vars, c.locals)]
             g == [i \in DOMAIN e.items |-> ResolveScalar(e.items[i], t.vars, t.locals)]
  <2>1. Resolve(e, c.vars, c.locals) = Items(f) /\ Resolve(e, t.vars, t.locals) = Items(g)
    BY <1>2 DEF Resolve
  <2>2. \A i \in DOMAIN e.items :
          Below(ResolveScalar(e.items[i], c.vars, c.locals),
                ResolveScalar(e.items[i], t.vars, t.locals))
    BY ScalarBelow
  <2>3. Below(Items(f), Items(g))
    BY <2>2, ListBelow
  <2> HIDE DEF f, g
  <2> QED BY <2>1, <2>3
<1> QED BY <1>1, <1>2

LEMMA ValueBelow ==
  ASSUME NEW c, NEW t, BelowEnv(c, t), NEW e
  PROVE  Below(Value(e, c), Value(e, t))
BY ResolveBelow DEF Value

-----------------------------------------------------------------------------
(* Instances.  An expression without names is the same in every instance,    *)
(* and one with names has no value where there are none.                    *)
NoEnv == [vars |-> NoNames, locals |-> NoNames]

Nameless(e) == ~Is(e, "var") /\ ~Is(e, "local") /\ ~Is(e, "each")

Fixed(e) == Nameless(e) /\ (Is(e, "text") => Nameless(e.text))

LEMMA FixedScalar ==
  ASSUME NEW e, Fixed(e)
  PROVE  /\ \A vs, ls : ResolveScalar(e, vs, ls) = ResolveScalar(e, NoNames, NoNames)
         /\ \A v : SubstituteScalar(e, v) = e
<1>1. \A x, vs, ls : Nameless(x) => Lookup(x, vs, ls) = x
  BY LookupIs DEF Nameless
<1>2. \A vs, ls : ResolveScalar(e, vs, ls) = ResolveScalar(e, NoNames, NoNames)
  BY <1>1 DEF Fixed, ResolveScalar
<1>3. ASSUME NEW v PROVE SubstituteScalar(e, v) = e
  <2>1. ~Is(e, "each") /\ ~(Is(e, "text") /\ Is(e.text, "each"))
    BY DEF Fixed, Nameless
  <2> QED BY <2>1 DEF SubstituteScalar
<1> QED BY <1>2, <1>3

LEMMA NamedScalar ==
  ASSUME NEW e, ~Fixed(e)
  PROVE  ResolveScalar(e, NoNames, NoNames) = Gone
<1>1. DOMAIN NoNames = {}
  BY DEF NoNames
<1>2. \A x : ~Nameless(x) => Lookup(x, NoNames, NoNames) = Gone
  BY <1>1, LookupIs DEF Nameless
<1>3. Interpolate(Gone) = Gone
  BY UnresolvedFacts DEF Interpolate
<1>4. CASE Is(e, "text")
  <2>1. Nameless(e)
    BY <1>4 DEF Nameless, Is
  <2> QED BY <1>2, <1>3, <1>4, <2>1 DEF Fixed, ResolveScalar
<1>5. CASE ~Is(e, "text")
  BY <1>2, <1>5 DEF Fixed, ResolveScalar
<1> QED BY <1>4, <1>5

(* An item of a list as Unwrap has it.                                      *)
UnwrapItem(x) == IF Wraps(x) THEN x.items[1] ELSE x

LEMMA UnwrapIs ==
  ASSUME NEW e
  PROVE  /\ ~Is(e, "items") => Unwrap(e) = e
         /\ Wraps(e) => Unwrap(e) = e.items[1] /\ ~Is(e.items[1], "items")
         /\ Is(e, "items") /\ ~Wraps(e) =>
              Unwrap(e) = Items([k \in DOMAIN e.items |-> UnwrapItem(e.items[k])])
BY DEF Unwrap, Wraps, UnwrapItem

LEMMA ItemsFacts ==
  \A f : Is(Items(f), "items") /\ Items(f).items = f /\ Items(f) # Absent
BY DEF Is, Items, Absent

LEMMA ResolveIs ==
  ASSUME NEW e, NEW vs, NEW ls
  PROVE  /\ ~Is(e, "items") => Resolve(e, vs, ls) = ResolveScalar(e, vs, ls)
         /\ \A f : Resolve(Items(f), vs, ls) =
                     Items([k \in DOMAIN f |-> ResolveScalar(f[k], vs, ls)])
BY ItemsFacts DEF Resolve

LEMMA ValueIsOf ==
  ASSUME NEW e, NEW env
  PROVE  /\ ~Is(e, "items") => Value(e, env) = ResolveScalar(e, env.vars, env.locals)
         /\ Wraps(e) => Value(e, env) = ResolveScalar(e.items[1], env.vars, env.locals)
<1>1. ASSUME ~Is(e, "items") PROVE Value(e, env) = ResolveScalar(e, env.vars, env.locals)
  <2>1. Unwrap(e) = e
    BY <1>1, UnwrapIs
  <2> QED BY <1>1, <2>1 DEF Value, Resolve
<1>2. ASSUME Wraps(e)
      PROVE  Value(e, env) = ResolveScalar(e.items[1], env.vars, env.locals)
  <2>1. Unwrap(e) = e.items[1] /\ ~Is(e.items[1], "items")
    BY <1>2, UnwrapIs
  <2> QED BY <2>1 DEF Value, Resolve
<1> QED BY <1>1, <1>2

LEMMA SubstituteBelow ==
  ASSUME NEW e, NEW env, NEW v
  PROVE  Below(Value(e, NoEnv), Value(Substitute(e, v), env))
<1>1. NoEnv.vars = NoNames /\ NoEnv.locals = NoNames
  BY DEF NoEnv
<1>2. CASE ~Is(e, "items")
  <2>1. Value(e, NoEnv) = ResolveScalar(e, NoNames, NoNames)
    BY <1>1, <1>2, ValueIsOf
  <2>2. Substitute(e, v) = SubstituteScalar(e, v)
    BY <1>2 DEF Substitute
  <2>3. CASE Fixed(e)
    <3>1. Value(Substitute(e, v), env) = ResolveScalar(e, env.vars, env.locals)
      BY <1>2, <2>2, <2>3, FixedScalar, ValueIsOf
    <3> QED BY <2>1, <2>3, <3>1, FixedScalar DEF Below
  <2>4. CASE ~Fixed(e)
    BY <2>1, <2>4, NamedScalar, GoneIsBelow
  <2> QED BY <2>3, <2>4
<1> DEFINE f == [k \in DOMAIN e.items |-> SubstituteScalar(e.items[k], v)]
<1>3. Is(e, "items") => Substitute(e, v) = Items(f)
  BY DEF Substitute
<1>4. CASE Wraps(e)
  <2> DEFINE y == e.items[1]
  <2>1. /\ Is(e, "items") /\ DOMAIN e.items = {1} /\ ~Is(y, "items")
    BY <1>4 DEF Wraps
  <2>2. Value(e, NoEnv) = ResolveScalar(y, NoNames, NoNames)
    BY <1>1, <1>4, ValueIsOf
  <2>3. CASE Fixed(y)
    <3>1. DOMAIN f = {1} /\ f[1] = y
      BY <2>1, <2>3, FixedScalar
    <3> HIDE DEF f, y
    <3>2. Wraps(Items(f)) /\ Items(f).items[1] = y
      BY <2>1, <3>1, ItemsFacts DEF Wraps
    <3>3. Unwrap(Items(f)) = y
      BY <3>2, UnwrapIs
    <3>4. Value(Items(f), env) = ResolveScalar(y, env.vars, env.locals)
      BY <2>1, <3>3, ResolveIs DEF Value
    <3> QED BY <1>3, <2>1, <2>2, <2>3, <3>4, FixedScalar DEF Below
  <2>4. CASE ~Fixed(y)
    BY <2>2, <2>4, NamedScalar, GoneIsBelow
  <2> QED BY <2>3, <2>4
<1>5. CASE Is(e, "items") /\ ~Wraps(e)
  <2> DEFINE g == [k \in DOMAIN e.items |-> UnwrapItem(e.items[k])]
  <2> DEFINE h == [k \in DOMAIN g |-> ResolveScalar(g[k], NoNames, NoNames)]
  <2>1. Unwrap(e) = Items(g)
    BY <1>5, UnwrapIs
  <2>2. DOMAIN g = DOMAIN e.items /\ \A k \in DOMAIN e.items : g[k] = UnwrapItem(e.items[k])
    OBVIOUS
  <2>3. DOMAIN h = DOMAIN g /\ \A k \in DOMAIN g : h[k] = ResolveScalar(g[k], NoNames, NoNames)
    OBVIOUS
  <2>4. Value(e, NoEnv) = Items(h)
    <3> HIDE DEF g
    <3> QED BY <1>1, <2>1, ResolveIs DEF Value
  <2>5. CASE \E k \in DOMAIN g : ~Fixed(g[k])
    <3>1. PICK k \in DOMAIN g : h[k] = Gone
      BY <2>3, <2>5, NamedScalar
    <3> HIDE DEF h, g
    <3>2. ~Whole(Items(h))
      BY <2>3, <3>1, WholeItems, GoneIsBelow
    <3> QED BY <2>4, <3>2, ItemsFacts DEF Below
  <2>6. CASE \A k \in DOMAIN g : Fixed(g[k])
    <3>1. ASSUME NEW k \in DOMAIN e.items PROVE f[k] = e.items[k]
      <4>1. f[k] = SubstituteScalar(e.items[k], v)
        OBVIOUS
      <4>2. CASE Is(e.items[k], "items")
        <5>1. ~Is(e.items[k], "each") /\ ~Is(e.items[k], "text")
          BY <4>2 DEF Is
        <5> QED BY <4>1, <5>1 DEF SubstituteScalar
      <4>3. CASE ~Is(e.items[k], "items")
        <5>1. Fixed(e.items[k])
          BY <2>2, <2>6, <4>3 DEF UnwrapItem, Wraps
        <5> QED BY <4>1, <5>1, FixedScalar
      <4> QED BY <4>2, <4>3
    <3>2. DOMAIN f = DOMAIN e.items
      OBVIOUS
    <3> HIDE DEF f
    <3>3. ~Wraps(Items(f))
      BY <1>5, <3>1, <3>2, ItemsFacts DEF Wraps
    <3>4. g = [k \in DOMAIN f |-> UnwrapItem(f[k])]
      BY <3>1, <3>2
    <3>5. Unwrap(Items(f)) = Items(g)
      BY <3>3, <3>4, ItemsFacts, UnwrapIs
    <3>6. h = [k \in DOMAIN g |-> ResolveScalar(g[k], env.vars, env.locals)]
      BY <2>6, FixedScalar
    <3> HIDE DEF g, h
    <3>7. Value(Items(f), env) = Items(h)
      BY <3>5, <3>6, ResolveIs DEF Value
    <3> QED BY <1>3, <1>5, <2>4, <3>7 DEF Below
  <2> QED BY <2>5, <2>6
<1> QED BY <1>2, <1>4, <1>5

(* An attribute as the pipeline reads it and as it is meant.                 *)
LEMMA AttrBelow ==
  ASSUME NEW s, NEW i, NEW env,
         \/ i = Plain /\ env = NoEnv
         \/ /\ BelowEnv(env, s.env) /\ i.each = s.i.each
            /\ IF i.lost = Absent THEN s.i.lost = Absent ELSE ~Whole(i.lost),
         NEW e
  PROVE  Below(AttrOf(e, i, env), True(s, e))
<1>1. CASE e = Absent
  <2>1. ~Is(Absent, "items") /\ Fixed(Absent)
    BY DEF Is, Absent, Fixed, Nameless
  <2>2. \A v : Substitute(Absent, v) = Absent
    BY <2>1, FixedScalar DEF Substitute
  <2>3. \A x : Value(Absent, x) = Absent
    <3>1. \A x : Value(Absent, x) = ResolveScalar(Absent, x.vars, x.locals)
      BY <2>1, ValueIsOf
    <3>2. ~Is(Absent, "text") /\ Nameless(Absent)
      BY DEF Is, Absent, Nameless
    <3>3. \A f, g : Lookup(Absent, f, g) = Absent
      BY <3>2, LookupIs DEF Nameless
    <3> QED BY <3>1, <3>2, <3>3 DEF ResolveScalar
  <2>4. True(s, e) = Absent
    BY <1>1, <2>2, <2>3 DEF True, ForInstance
  <2> QED BY <1>1, <2>4 DEF AttrOf, Below
<1>2. CASE e # Absent /\ i = Plain /\ env = NoEnv
  <2>1. AttrOf(e, i, env) = Value(e, NoEnv)
    BY <1>2 DEF AttrOf, Plain, ForInstance
  <2>2. BelowEnv(NoEnv, s.env)
    BY DEF NoEnv, NoNames, BelowEnv, BelowNames
  <2>3. Below(Value(e, NoEnv), Value(e, s.env))
    BY <2>2, ValueBelow
  <2>4. True(s, e) = Value(e, s.env) \/ \E v : True(s, e) = Value(Substitute(e, v), s.env)
    BY DEF True, ForInstance
  <2> QED BY <2>1, <2>3, <2>4, SubstituteBelow
<1>3. CASE /\ e # Absent /\ BelowEnv(env, s.env) /\ i.each = s.i.each
           /\ IF i.lost = Absent THEN s.i.lost = Absent ELSE ~Whole(i.lost)
  <2>1. CASE i.lost # Absent
    BY <1>3, <2>1 DEF AttrOf, Below
  <2>2. CASE i.lost = Absent
    <3>1. AttrOf(e, i, env) = Value(ForInstance(e, i), env)
      BY <1>3, <2>2 DEF AttrOf
    <3>2. True(s, e) = Value(ForInstance(e, s.i), s.env)
      BY <1>3, <2>2 DEF True
    <3>3. ForInstance(e, i) = ForInstance(e, s.i)
      BY <1>3 DEF ForInstance
    <3> QED BY <1>3, <3>1, <3>2, <3>3, ValueBelow
  <2> QED BY <2>1, <2>2
<1> QED BY <1>1, <1>2, <1>3

(* The instances of a block: one without a loop, one that lost its loop, or   *)
(* one for each key.                                                        *)
Keys(k) == [each |-> <<k>>, lost |-> Absent]

LEMMA InstanceFacts ==
  /\ Plain.each = <<>> /\ Plain.lost = Absent
  /\ \A v : Lost(v).each = <<>> /\ Lost(v).lost = v
  /\ \A k : Keys(k).each = <<k>> /\ Keys(k).lost = Absent
  /\ \A k : <<k>> # <<>> /\ <<k>>[1] = k
BY DEF Plain, Lost, Keys

LEMMA InstancesAre ==
  ASSUME NEW b, NEW env
  PROVE  /\ b.count = Absent /\ b.forEach = Absent => Instances(b, env) = {Plain}
         /\ b.count # Absent \/ b.forEach # Absent =>
              \/ \E v : IsUnresolved(v) /\ Instances(b, env) = {Lost(v)}
              \/ \A i \in Instances(b, env) : \E k : i = Keys(k)
<1>1. \A n : \A i \in Counted(n) : \E k : i = Keys(k)
  BY DEF Counted, Keys
<1>2. \A l : \A i \in Keyed(l) : \E k : i = Keys(k)
  BY DEF Keyed, Keys
<1> QED BY <1>1, <1>2, UnresolvedFacts DEF Instances

LEMMA OneInstance ==
  ASSUME NEW b, NEW c, NEW t, NEW i \in Instances(b, c), NEW j \in Instances(b, t),
         i.each = j.each
  PROVE  /\ i.lost = Absent <=> j.lost = Absent
         /\ i.lost # Absent => IsUnresolved(i.lost)
         /\ c = t => i = j
<1>1. \A v : IsUnresolved(v) => v # Absent
  BY UnresolvedFacts
<1>2. CASE b.count = Absent /\ b.forEach = Absent
  BY <1>2, InstancesAre, InstanceFacts
<1>3. CASE b.count # Absent \/ b.forEach # Absent
  <2>1. /\ \/ \E v : IsUnresolved(v) /\ Instances(b, c) = {Lost(v)}
           \/ \A x \in Instances(b, c) : \E k : x = Keys(k)
        /\ \/ \E v : IsUnresolved(v) /\ Instances(b, t) = {Lost(v)}
           \/ \A x \in Instances(b, t) : \E k : x = Keys(k)
    BY <1>3, InstancesAre
  <2> QED BY <1>1, <2>1, InstanceFacts
<1> QED BY <1>2, <1>3

(* Where an instance is lost, what takes its place shows it.                 *)
LEMMA InstancesMeet ==
  ASSUME NEW c, NEW t, BelowEnv(c, t), NEW b, NEW i \in Instances(b, t)
  PROVE  \E j \in Instances(b, c) : j.each = i.each \/ LostKey(j.each)
<1>1. \A v : LostKey(Lost(v).each)
  BY InstanceFacts DEF LostKey
<1>2. CASE b.count # Absent
  <2> DEFINE n == Value(b.count, c) m == Value(b.count, t)
  <2>1. Below(n, m)
    BY ValueBelow
  <2>2. CASE n = m
    <3>1. Instances(b, c) = Instances(b, t)
      BY <1>2, <2>2 DEF Instances
    <3> QED BY <3>1
  <2>3. CASE n # m
    <3>1. ~Whole(n)
      BY <2>1, <2>3 DEF Below
    <3>2. ~(Is(n, "lit") /\ n.lit \in DOMAIN Number)
      <4> SUFFICES ASSUME Is(n, "lit"), n.lit \in DOMAIN Number PROVE FALSE
        OBVIOUS
      <4>1. ~Is(n, "items") /\ ~IsUnresolved(n) /\ n # Absent
        BY DEF Is, IsUnresolved, Absent
      <4>2. n # Lit(ListText)
        BY TruthAssumption DEF Lit
      <4> HIDE DEF n
      <4> QED BY <3>1, <4>1, <4>2, SourcesFacts DEF Whole, IsKnown
    <3>3. \E v : Instances(b, c) = {Lost(v)}
      BY <1>2, <3>2 DEF Instances
    <3> QED BY <1>1, <3>3
  <2> QED BY <2>2, <2>3
<1>3. CASE b.count = Absent /\ b.forEach = Absent
  BY <1>3, InstancesAre
<1>4. CASE b.count = Absent /\ b.forEach # Absent
  <2> DEFINE n == Value(b.forEach, c) m == Value(b.forEach, t)
  <2>1. Below(n, m)
    BY ValueBelow
  <2>2. CASE n = m
    <3>1. Instances(b, c) = Instances(b, t)
      BY <1>4, <2>2 DEF Instances
    <3> QED BY <3>1
  <2>3. CASE n # m
    <3>1. ~Whole(n)
      BY <2>1, <2>3 DEF Below
    <3>2. CASE IsUnresolved(n) \/ ~Is(n, "items")
      <4>1. \E v : Instances(b, c) = {Lost(v)}
        BY <1>4, <3>2 DEF Instances
      <4> QED BY <1>1, <4>1
    <3>3. CASE ~IsUnresolved(n) /\ Is(n, "items")
      <4>1. Instances(b, c) = Keyed(n.items)
        BY <1>4, <3>3 DEF Instances
      <4> HIDE DEF n
      <4>2. PICK x \in Sources(n) : ~IsKnown(x)
        BY <3>1 DEF Whole
      <4>3. PICK v \in ToSet(n.items) : x \in Entries(v)
        BY <3>3, <4>2 DEF Sources, Entries
      <4>4. Keys(v) \in Keyed(n.items)
        BY <4>3 DEF Keyed, Keys
      <4>5. LostKey(Keys(v).each)
        BY <4>2, <4>3, InstanceFacts DEF LostKey
      <4> QED BY <4>1, <4>4, <4>5
    <3> QED BY <3>2, <3>3
  <2> QED BY <2>2, <2>3
<1> QED BY <1>2, <1>3, <1>4

LEMMA CallsAre ==
  ASSUME NEW m, NEW env, NEW i \in Calls(m, env)
  PROVE  \E j \in Instances(m, env) :
           i = j \/ (i = Plain /\ j.each = <<>> /\ j.lost = Gone)
<1>1. PICK j \in Instances(m, env) : i = j \/ (i = Plain /\ j.lost = Gone)
  BY DEF Calls
<1>2. j.lost = Gone => j.each = <<>>
  <2>1. Gone # Absent
    BY GoneIsBelow
  <2> QED BY <2>1, InstancesAre, InstanceFacts
<1> QED BY <1>1, <1>2

LEMMA OneCall ==
  ASSUME NEW m, NEW env, NEW i \in Calls(m, env), NEW j \in Calls(m, env),
         i.each = j.each
  PROVE  i = j
<1> DEFINE F(x) == IF x.lost = Gone /\ ~IsUnresolved(Value(m.count, env))
                                   /\ ~IsUnresolved(Value(m.forEach, env))
                     THEN Plain ELSE x
<1>1. PICK k \in Instances(m, env) : i = F(k)
  BY DEF Calls
<1>2. PICK l \in Instances(m, env) : j = F(l)
  BY DEF Calls
<1>3. /\ k.lost = Gone => k.each = <<>>
      /\ l.lost = Gone => l.each = <<>>
  <2>1. Gone # Absent
    BY GoneIsBelow
  <2> QED BY <2>1, InstancesAre, InstanceFacts
<1>4. i.each = k.each /\ j.each = l.each
  <2>1. \A x : (F(x) = Plain /\ x.lost = Gone) \/ F(x) = x
    OBVIOUS
  <2> HIDE DEF F
  <2> QED BY <1>1, <1>2, <1>3, <2>1, InstanceFacts
<1>5. k = l
  <2>1. k.each = l.each
    BY <1>4
  <2> HIDE DEF F
  <2> QED BY <2>1, OneInstance
<1> QED BY <1>1, <1>2, <1>5

LEMMA CallsMeet ==
  ASSUME NEW c, NEW t, BelowEnv(c, t), NEW m, NEW i \in Calls(m, t)
  PROVE  \E j \in Calls(m, c) : (j.each = i.each /\ j.lost = Absent) \/ LostKey(j.each)
<1> DEFINE F(x) == IF x.lost = Gone /\ ~IsUnresolved(Value(m.count, c))
                                   /\ ~IsUnresolved(Value(m.forEach, c))
                     THEN Plain ELSE x
<1>1. \A x \in Instances(m, c) : F(x) \in Calls(m, c)
  BY DEF Calls
<1>2. PICK k \in Instances(m, t) : i = k \/ (i = Plain /\ k.each = <<>>)
  BY CallsAre
<1>3. i.each = k.each
  BY <1>2, InstanceFacts
<1>4. PICK j \in Instances(m, c) : j.each = k.each \/ LostKey(j.each)
  BY InstancesMeet
<1>5. LostKey(<<>>)
  BY DEF LostKey
<1>6. F(j).each = <<>> \/ F(j) = j
  BY InstanceFacts
<1>7. j.lost = Absent \/ j.each = <<>>
  <2>1. CASE m.count = Absent /\ m.forEach = Absent
    BY <2>1, InstancesAre, InstanceFacts
  <2>2. CASE m.count # Absent \/ m.forEach # Absent
    <3>1. \/ \E v : IsUnresolved(v) /\ Instances(m, c) = {Lost(v)}
          \/ \A x \in Instances(m, c) : \E key : x = Keys(key)
      BY <2>2, InstancesAre
    <3> QED BY <3>1, InstanceFacts
  <2> QED BY <2>1, <2>2
<1> HIDE DEF F
<1>8. CASE F(j) = j
  BY <1>1, <1>3, <1>4, <1>5, <1>7, <1>8
<1>9. CASE F(j).each = <<>>
  BY <1>1, <1>5, <1>9
<1> QED BY <1>6, <1>8, <1>9

-----------------------------------------------------------------------------
(* A local that is resolved has a value.                                    *)
KnownInv == \A n \in DOMAIN known : known[n] # Absent

LEMMA EntriesThere ==
  ASSUME NEW e, Absent \notin Entries(e)
  PROVE  e # Absent /\ OnlyItem(e) # Absent
<1>1. e # Absent
  BY DEF Entries, Is, Absent
<1>2. CASE Is(e, "items") /\ DOMAIN e.items = {1}
  <2>1. e.items[1] \in Entries(e)
    BY <1>2 DEF Entries, ToSet
  <2>2. OnlyItem(e) = e.items[1]
    BY <1>2 DEF OnlyItem
  <2> QED BY <1>1, <2>1, <2>2
<1>3. CASE ~(Is(e, "items") /\ DOMAIN e.items = {1})
  BY <1>1, <1>3 DEF OnlyItem
<1> QED BY <1>2, <1>3

LEMMA VarsThere ==
  ASSUME TypeInv
  PROVE  \A x \in DOMAIN Vars : Vars[x] # Absent
<1>1. HaveValues(cfg.declared) /\ HaveValues(cfg.tfvars) /\ HaveValues(cfg.json)
  BY ConfigAssumption DEF TypeInv
<1>2. ASSUME NEW d, NEW t, NEW j, HaveValues(d), HaveValues(t), HaveValues(j),
             NEW x \in DOMAIN LoadVariables(d, t, j)
      PROVE  LoadVariables(d, t, j)[x] # Absent
  <2>1. /\ x \in DOMAIN d \cup DOMAIN t \cup DOMAIN j
        /\ LoadVariables(d, t, j)[x] = IF x \in DOMAIN j THEN j[x]
                                       ELSE IF x \in DOMAIN t THEN OnlyItem(t[x])
                                       ELSE OnlyItem(d[x])
    BY DEF LoadVariables
  <2> QED BY <1>2, <2>1, EntriesThere DEF HaveValues
<1> QED BY <1>1, <1>2 DEF Vars

LEMMA ScalarThere ==
  ASSUME NEW e, e # Absent, NEW vs, NEW ls,
         \A x \in DOMAIN vs : vs[x] # Absent, \A x \in DOMAIN ls : ls[x] # Absent
  PROVE  Is(e, "text") \/ ResolveScalar(e, vs, ls) # Absent
BY LookupIs, GoneIsBelow DEF ResolveScalar

LEMMA ResolveThere ==
  ASSUME NEW e, e # Absent, NEW vs, NEW ls,
         \A x \in DOMAIN vs : vs[x] # Absent, \A x \in DOMAIN ls : ls[x] # Absent
  PROVE  Resolve(e, vs, ls) # Absent
<1>1. CASE Is(e, "items")
  BY <1>1, ItemsFacts DEF Resolve
<1>2. CASE ~Is(e, "items") /\ ~Is(e, "text")
  BY <1>2, ScalarThere DEF Resolve
<1>3. CASE Is(e, "text")
  <2>1. \A v : Interpolate(v) # Absent
    <3>1. \A x : Lit(x) # Absent
      BY DEF Lit, Absent
    <3>2. \A v : IsUnresolved(v) => v # Absent
      BY UnresolvedFacts
    <3> QED BY <3>1, <3>2 DEF Interpolate
  <2>2. ~Is(e, "items")
    BY <1>3 DEF Is
  <2> QED BY <1>3, <2>1, <2>2 DEF Resolve, ResolveScalar
<1> QED BY <1>1, <1>2, <1>3

LEMMA LocalThere ==
  ASSUME TypeInv, KnownInv, NEW n \in Locals
  PROVE  LocalValue(n, known) # Absent
<1>1. OnlyItem(cfg.locals[n]) # Absent
  <2>1. HaveValues(cfg.locals)
    BY ConfigAssumption DEF TypeInv
  <2> QED BY <2>1, EntriesThere DEF HaveValues, Locals
<1> QED BY <1>1, VarsThere, ResolveThere DEF KnownInv, LocalValue

LEMMA StepKnown == TypeInv /\ LocalsInv /\ KnownInv /\ [Next]_vars => KnownInv'
<1> SUFFICES ASSUME TypeInv, LocalsInv, KnownInv, [Next]_vars PROVE KnownInv'
  OBVIOUS
<1>1. \A n, v : v # Absent => \A x \in DOMAIN Overlay(known, Single(n, v)) :
                               Overlay(known, Single(n, v))[x] # Absent
  BY DEF KnownInv, Overlay, Single
<1>2. \A i \in DOMAIN order : order[i] \in Locals
  BY OrderFacts DEF TypeInv, LocalsInv
<1>3. CASE TryLocal
  <2> DEFINE n == order[at] v == LocalValue(n, known)
  <2>1. known' = known \/ known' = Overlay(known, Single(n, v))
    BY <1>3 DEF TryLocal
  <2>2. v # Absent
    <3>1. at \in DOMAIN order
      BY <1>3, OrderFacts DEF TryLocal, TypeInv, LocalsInv
    <3> QED BY <1>2, <3>1, LocalThere
  <2> HIDE DEF v
  <2> QED BY <1>1, <2>1, <2>2 DEF KnownInv
<1>4. CASE GiveUp
  <2>1. PICK i \in DOMAIN order :
          LET n == order[i] v == LocalValue(n, known) IN
          known' = Overlay(known, Single(n, IF IsUnresolved(v) THEN v ELSE Gone))
    BY <1>4 DEF GiveUp
  <2>2. LocalValue(order[i], known) # Absent
    BY <1>2, LocalThere
  <2> QED BY <1>1, <2>1, <2>2, GoneIsBelow DEF KnownInv
<1>5. CASE ~TryLocal /\ ~GiveUp
  <2>1. known' = known
    BY <1>5 DEF Next, vars, ReadResource, EndTemplate, NextPass, EndLocals, Expand, EndExpand,
                InlineModule, ResolveReferences, Attach, Verify
  <2> QED BY <2>1 DEF KnownInv
<1> QED BY <1>3, <1>4, <1>5

-----------------------------------------------------------------------------
(* Where the resources of the graph come from.                              *)
CodeEnv == Env(Vars, known)

Of(b, env) == IF cfg.entry = "cli" THEN {Plain} ELSE Instances(b, env)

CallEnv(n, k) ==
  LET m == cfg.modules[n] IN
  Env(Overlay([x \in DOMAIN m.args |-> Value(ForInstance(m.args[x], k), CodeEnv)],
              m.defaults), NoNames)

InBlocks(bs, prefix, env, x, r) ==
  \E a \in DOMAIN bs : \E i \in Of(bs[a], env) :
    x = <<prefix, a, i.each>> /\ r = Built(bs[a], i, env)

InCall(n, k, x, r) ==
  \/ /\ r = OutOfScope
     /\ \E c \in cfg.modules[n].calls \cup {"module"} : x = <<<<n, k.each>>, c, <<>>>>
  \/ /\ k.lost = Absent
     /\ InBlocks(cfg.modules[n].blocks, <<n, k.each>>, CallEnv(n, k), x, r)

MadeAt(x, r) ==
  \/ InBlocks(cfg.blocks, <<>>, CodeEnv, x, r)
  \/ /\ cfg.entry = "modules"
     /\ \E n \in DOMAIN cfg.modules : \E k \in Calls(cfg.modules[n], CodeEnv) :
          InCall(n, k, x, r)

(* All of some blocks is in the graph.                                      *)
BlocksMade(bs, prefix, env, S) ==
  \A a \in S : \A i \in Of(bs[a], env) : <<prefix, a, i.each>> \in DOMAIN graph

CallsMade(S) ==
  \A n \in S : \A k \in Calls(cfg.modules[n], CodeEnv) :
    k.lost = Absent /\ cfg.modules[n].source = "local" =>
      BlocksMade(cfg.modules[n].blocks, <<n, k.each>>, CallEnv(n, k),
                 DOMAIN cfg.modules[n].blocks)

AllMade ==
  /\ BlocksMade(cfg.blocks, <<>>, CodeEnv, DOMAIN cfg.blocks)
  /\ cfg.entry = "modules" => CallsMade(DOMAIN cfg.modules)

LEMMA BuiltFromIs ==
  ASSUME NEW bs, NEW prefix, NEW env
  PROVE  LET f == BuiltFrom(bs, prefix, env) IN
         /\ \A a \in DOMAIN bs : \A i \in Of(bs[a], env) : <<prefix, a, i.each>> \in DOMAIN f
         /\ \A x \in DOMAIN f : InBlocks(bs, prefix, env, x, f[x])
<1> DEFINE f == BuiltFrom(bs, prefix, env)
<1> DEFINE D == UNION {{<<prefix, a, i.each>> : i \in Of(bs[a], env)} : a \in DOMAIN bs}
<1> DEFINE chosen(x) == CHOOSE i \in Of(bs[x[2]], env) : i.each = x[3]
<1>1. f = [x \in D |-> Built(bs[x[2]], chosen(x), env)]
  BY DEF BuiltFrom, Of
<1>2. DOMAIN f = D /\ \A x \in D : f[x] = Built(bs[x[2]], chosen(x), env)
  BY <1>1
<1> HIDE DEF f
<1>3. ASSUME NEW x \in D PROVE InBlocks(bs, prefix, env, x, f[x])
  <2>1. PICK a \in DOMAIN bs : \E i \in Of(bs[a], env) : x = <<prefix, a, i.each>>
    OBVIOUS
  <2>2. PICK i \in Of(bs[a], env) : x = <<prefix, a, i.each>>
    BY <2>1
  <2>3. x[2] = a /\ x[3] = i.each
    BY <2>2
  <2>4. chosen(x) \in Of(bs[a], env) /\ chosen(x).each = i.each
    BY <2>3
  <2>5. chosen(x) = i
    BY <2>4, OneInstance DEF Of
  <2> HIDE DEF chosen, D
  <2> QED BY <1>2, <2>2, <2>3, <2>5 DEF InBlocks
<1>4. \A a \in DOMAIN bs : \A i \in Of(bs[a], env) : <<prefix, a, i.each>> \in D
  OBVIOUS
<1> QED BY <1>2, <1>3, <1>4 DEF f

LEMMA InlinedIs ==
  ASSUME NEW n, NEW k, cfg.entry = "modules"
  PROVE  LET f == Inlined(n, k) m == cfg.modules[n] IN
         /\ \A x \in DOMAIN f : InCall(n, k, x, f[x])
         /\ k.lost = Absent /\ m.source = "local" =>
              \A a \in DOMAIN m.blocks : \A i \in Of(m.blocks[a], CallEnv(n, k)) :
                <<<<n, k.each>>, a, i.each>> \in DOMAIN f
<1> DEFINE f == Inlined(n, k)
           m == cfg.modules[n]
           prefix == <<n, k.each>>
           g == BuiltFrom(m.blocks, prefix, CallEnv(n, k))
           h == [x \in {<<prefix, c, <<>>>> : c \in m.calls} |-> OutOfScope]
<1>1. CASE k.lost # Absent \/ m.source # "local"
  <2>1. f = Single(<<prefix, "module", <<>>>>, OutOfScope)
    BY <1>1, ZenonT(30) DEF Inlined
  <2> HIDE DEF f
  <2>2. \A x \in DOMAIN f : x = <<prefix, "module", <<>>>> /\ f[x] = OutOfScope
    BY <2>1 DEF Single
  <2>3. \A x \in DOMAIN f : InCall(n, k, x, f[x])
    BY <2>2 DEF InCall
  <2> QED BY <1>1, <2>3 DEF f
<1>2. CASE k.lost = Absent /\ m.source = "local"
  <2>1. f = Overlay(g, h)
    BY <1>2, ZenonT(30) DEF Inlined, CallEnv, CodeEnv
  <2>2. /\ \A a \in DOMAIN m.blocks : \A i \in Of(m.blocks[a], CallEnv(n, k)) :
             <<prefix, a, i.each>> \in DOMAIN g
        /\ \A x \in DOMAIN g : InBlocks(m.blocks, prefix, CallEnv(n, k), x, g[x])
    BY BuiltFromIs
  <2>3. \A x \in DOMAIN h : h[x] = OutOfScope /\ \E c \in m.calls : x = <<prefix, c, <<>>>>
    OBVIOUS
  <2> HIDE DEF f, g, h
  <2>4. /\ DOMAIN f = DOMAIN g \cup DOMAIN h
        /\ \A x \in DOMAIN g : f[x] = g[x]
        /\ \A x \in DOMAIN h \ DOMAIN g : f[x] = h[x]
    BY <2>1 DEF Overlay
  <2>5. ASSUME NEW x \in DOMAIN f PROVE InCall(n, k, x, f[x])
    <3>1. CASE x \in DOMAIN g
      BY <1>2, <2>2, <2>4, <3>1 DEF InCall
    <3>2. CASE x \notin DOMAIN g
      <4>1. f[x] = OutOfScope /\ \E c \in m.calls : x = <<prefix, c, <<>>>>
        BY <2>3, <2>4, <3>2
      <4> QED BY <4>1 DEF InCall
    <3> QED BY <3>1, <3>2
  <2> QED BY <2>2, <2>4, <2>5 DEF f
<1> QED BY <1>1, <1>2

-----------------------------------------------------------------------------
(* What is made of the blocks is the same as long as the names are.          *)
LEMMA MadeStays ==
  ASSUME cfg' = cfg, known' = known
  PROVE  /\ CodeEnv' = CodeEnv
         /\ \A b, env : Of(b, env)' = Of(b, env)
         /\ \A n, k : CallEnv(n, k)' = CallEnv(n, k)
         /\ \A x, r : MadeAt(x, r)' <=> MadeAt(x, r)
         /\ \A b : Of(cfg.blocks[b], CodeEnv)' = Of(cfg.blocks[b], CodeEnv)
         /\ \A n : Calls(cfg.modules[n], CodeEnv)' = Calls(cfg.modules[n], CodeEnv)
         /\ \A n, k, b : Of(cfg.modules[n].blocks[b], CallEnv(n, k))' =
                         Of(cfg.modules[n].blocks[b], CallEnv(n, k))
<1>1. Vars' = Vars
  BY DEF Vars
<1>2. \A vs, ls : Env(vs, ls)' = Env(vs, ls)
  BY DEF Env
<1>3. CodeEnv' = CodeEnv
  BY <1>1, <1>2 DEF CodeEnv, Env
<1>4. \A s : Copied(s)' = Copied(s)
  BY DEF Copied
<1>5. \A b, w : Statements(b, w)' = Statements(b, w)
  BY <1>4 DEF Statements, Copied
<1>6. \A b, i, env : Extract(b, i, env)' = Extract(b, i, env)
  BY <1>5 DEF Extract, Statements, Copied
<1>7. \A b, i, env : Built(b, i, env)' = Built(b, i, env)
  BY <1>6 DEF Built, Extract, Statements, Copied
<1>8. \A b, env : Of(b, env)' = Of(b, env)
  BY DEF Of
<1>9. \A n, k : CallEnv(n, k)' = CallEnv(n, k)
  BY <1>1, <1>3 DEF CallEnv, CodeEnv, Env
<1>10. \A bs, prefix, env, x, r : InBlocks(bs, prefix, env, x, r)' <=> InBlocks(bs, prefix, env, x, r)
  BY <1>7, <1>8 DEF InBlocks
<1>11. \A n, k, x, r : InCall(n, k, x, r)' <=> InCall(n, k, x, r)
  BY <1>9, <1>10 DEF InCall
<1>12. \A x, r : MadeAt(x, r)' <=> MadeAt(x, r)
  BY <1>3, <1>10, <1>11 DEF MadeAt
<1>13. \A b : Of(cfg.blocks[b], CodeEnv)' = Of(cfg.blocks[b], CodeEnv)
  BY <1>3 DEF Of
<1>14. \A n : Calls(cfg.modules[n], CodeEnv)' = Calls(cfg.modules[n], CodeEnv)
  BY <1>3
<1>15. \A n, k, b : Of(cfg.modules[n].blocks[b], CallEnv(n, k))' =
                    Of(cfg.modules[n].blocks[b], CallEnv(n, k))
  BY <1>9 DEF Of
<1> QED BY <1>3, <1>8, <1>9, <1>12, <1>13, <1>14, <1>15

(* The graph as ResolveReferences left it.                                  *)
IsFirst(h) ==
  /\ DOMAIN h = DOMAIN graph
  /\ \A x \in DOMAIN graph : \E r : MadeAt(x, r) /\ h[x] = Referred(r, x)

(* What a merge takes of a resource.                                        *)
Offered(h, b) ==
  IF h[b].type # "attachment" THEN ToSet(graph[b].rules)
  ELSE IF IsManaged(h[b].arn) THEN {Managed}
  ELSE IF PolicyFound(h[b]) # None THEN ToSet(graph[PolicyFound(h[b])].rules) ELSE {}

IsSgRule(q) == DOMAIN q = {"port", "cidr"}

SgRulesOnly ==
  \A a \in DOMAIN graph :
    graph[a].type = "sgrule" => \A q \in ToSet(graph[a].rules) : IsSgRule(q)

(* Nothing is lost of what a resource had, and what it has got since comes    *)
(* from what is merged into it.                                             *)
RulesFrom(h) ==
  \A a \in DOMAIN graph :
    /\ ToSet(h[a].rules) \subseteq ToSet(graph[a].rules)
    /\ \A q \in ToSet(graph[a].rules) :
         \/ q \in ToSet(h[a].rules)
         \/ \E b \in DOMAIN graph :
              graph[b].merged = a /\ graph[b].merged # None /\ q \in Offered(h, b)

MergedFrom(h) ==
  \A a \in DOMAIN graph : LET m == graph[a].merged IN
    m # None =>
      /\ m \in DOMAIN graph /\ ParentType(h[a].type) # None
      /\ h[a].type = "sgrule" \/ graph[m].type = ParentType(h[a].type)
      /\ IF h[a].type # "attachment" THEN ToSet(h[a].rules) \subseteq ToSet(graph[m].rules)
         ELSE IF IsManaged(h[a].arn) THEN Managed \in ToSet(graph[m].rules)
         ELSE /\ PolicyFound(h[a]) # None
              /\ ToSet(h[PolicyFound(h[a])].rules) \subseteq ToSet(graph[m].rules)

SameFrom(h) ==
  \A a \in DOMAIN graph :
    /\ graph[a].type = h[a].type /\ graph[a].name = h[a].name
    /\ graph[a].parent = h[a].parent /\ graph[a].arn = h[a].arn

AttachedFrom(h) ==
  IsFirst(h) /\ SameFrom(h) /\ SgRulesOnly /\ RulesFrom(h) /\ MergedFrom(h)

MadeInv ==
  /\ phase = "locals" => DOMAIN graph = {}
  /\ phase \in {"expand", "modules"} => \A x \in DOMAIN graph : MadeAt(x, graph[x])
  /\ phase = "expand" => BlocksMade(cfg.blocks, <<>>, CodeEnv, DOMAIN cfg.blocks \ left)
  /\ phase = "modules" =>
       /\ BlocksMade(cfg.blocks, <<>>, CodeEnv, DOMAIN cfg.blocks)
       /\ IF cfg.entry = "modules" THEN CallsMade(DOMAIN cfg.modules \ left) ELSE left = {}
  /\ phase \in {"attach", "done"} /\ Terraform => AllMade /\ \E h : AttachedFrom(h)

LEMMA InitMade == Init => MadeInv
<1> SUFFICES ASSUME Init PROVE MadeInv
  OBVIOUS
<1>1. DOMAIN graph = {} /\ phase \in {"locals", "expand", "arm"}
  BY DEF Init
<1>2. phase = "expand" => left = DOMAIN cfg.blocks
  BY DEF Init
<1> QED BY <1>1, <1>2 DEF MadeInv, BlocksMade

LEMMA ExpandMade ==
  ASSUME TypeInv, MadeInv, NEW a \in DOMAIN cfg.blocks, Expand(a)
  PROVE  MadeInv'
<1> DEFINE bs == Single(a, cfg.blocks[a])
           f == BuiltFrom(bs, <<>>, CodeEnv)
<1>1. /\ phase = "expand" /\ phase' = "expand" /\ a \in left /\ left' = left \ {a}
      /\ cfg' = cfg /\ known' = known /\ graph' = Overlay(graph, f)
  BY DEF Expand, CodeEnv
<1>2. /\ CodeEnv' = CodeEnv
      /\ \A b : Of(cfg.blocks[b], CodeEnv)' = Of(cfg.blocks[b], CodeEnv)
      /\ \A x, r : MadeAt(x, r) => MadeAt(x, r)'
  BY <1>1, MadeStays
<1>3. DOMAIN bs = {a} /\ bs[a] = cfg.blocks[a]
  BY DEF Single
<1> HIDE DEF bs
<1>4. /\ \A b \in DOMAIN bs : \A i \in Of(bs[b], CodeEnv) : <<<<>>, b, i.each>> \in DOMAIN f
      /\ \A x \in DOMAIN f : InBlocks(bs, <<>>, CodeEnv, x, f[x])
  BY BuiltFromIs
<1>5. \A x \in DOMAIN f : MadeAt(x, f[x])
  BY <1>3, <1>4 DEF InBlocks, MadeAt
<1> HIDE DEF f
<1>6. /\ DOMAIN graph' = DOMAIN graph \cup DOMAIN f
      /\ \A x \in DOMAIN graph : graph'[x] = graph[x]
      /\ \A x \in DOMAIN f \ DOMAIN graph : graph'[x] = f[x]
  BY <1>1 DEF Overlay
<1>7. (\A x \in DOMAIN graph : MadeAt(x, graph[x]))'
  BY <1>1, <1>2, <1>5, <1>6 DEF MadeInv
<1>8. ASSUME NEW b \in DOMAIN cfg.blocks \ left', NEW i \in Of(cfg.blocks[b], CodeEnv)
      PROVE  <<<<>>, b, i.each>> \in DOMAIN graph'
  <2>1. CASE b = a
    BY <1>3, <1>4, <1>6, <1>8, <2>1
  <2>2. CASE b # a
    BY <1>1, <1>6, <1>8, <2>2 DEF MadeInv, BlocksMade
  <2> QED BY <2>1, <2>2
<1>9. BlocksMade(cfg.blocks, <<>>, CodeEnv, DOMAIN cfg.blocks \ left)'
  BY <1>1, <1>2, <1>8 DEF BlocksMade
<1> QED BY <1>1, <1>7, <1>9 DEF MadeInv

LEMMA LocalsMade ==
  ASSUME TypeInv, MadeInv, TryLocal \/ NextPass \/ GiveUp \/ EndLocals
  PROVE  MadeInv'
<1>1. /\ phase = "locals" /\ phase' \in {"locals", "expand"} /\ graph' = graph
      /\ phase' = "expand" => left' = DOMAIN cfg.blocks /\ cfg' = cfg
  BY DEF TryLocal, NextPass, GiveUp, EndLocals
<1>2. DOMAIN graph' = {}
  BY <1>1 DEF MadeInv
<1> QED BY <1>1, <1>2 DEF MadeInv, BlocksMade

LEMMA EndExpandMade == TypeInv /\ MadeInv /\ EndExpand => MadeInv'
<1> SUFFICES ASSUME TypeInv, MadeInv, EndExpand PROVE MadeInv'
  OBVIOUS
<1>1. /\ phase = "expand" /\ phase' = "modules" /\ left = {}
      /\ left' = IF cfg.entry = "modules" THEN DOMAIN cfg.modules ELSE {}
      /\ cfg' = cfg /\ known' = known /\ graph' = graph
  BY DEF EndExpand
<1>2. /\ \A b : Of(cfg.blocks[b], CodeEnv)' = Of(cfg.blocks[b], CodeEnv)
      /\ \A x, r : MadeAt(x, r) => MadeAt(x, r)'
  BY <1>1, MadeStays
<1>3. (\A x \in DOMAIN graph : MadeAt(x, graph[x]))'
  BY <1>1, <1>2 DEF MadeInv
<1>4. BlocksMade(cfg.blocks, <<>>, CodeEnv, DOMAIN cfg.blocks)'
  BY <1>1, <1>2 DEF MadeInv, BlocksMade
<1>5. cfg.entry = "modules" => CallsMade(DOMAIN cfg.modules \ left)'
  BY <1>1 DEF CallsMade
<1> QED BY <1>1, <1>3, <1>4, <1>5 DEF MadeInv

LEMMA InlineMade ==
  ASSUME TypeInv, MadeInv, NEW n \in DOMAIN cfg.modules, InlineModule(n)
  PROVE  MadeInv'
<1> DEFINE made == {Inlined(n, i) : i \in Calls(cfg.modules[n], CodeEnv)}
<1>1. /\ phase = "modules" /\ phase' = "modules" /\ n \in left /\ left' = left \ {n}
      /\ cfg' = cfg /\ known' = known
      /\ graph' = [a \in DOMAIN graph \cup UNION {DOMAIN f : f \in made} |->
                     IF a \in DOMAIN graph THEN graph[a]
                     ELSE (CHOOSE f \in made : a \in DOMAIN f)[a]]
  BY DEF InlineModule, CodeEnv
<1>2. cfg.entry = "modules"
  BY <1>1 DEF MadeInv
<1>3. /\ \A b : Of(cfg.blocks[b], CodeEnv)' = Of(cfg.blocks[b], CodeEnv)
      /\ \A m : Calls(cfg.modules[m], CodeEnv)' = Calls(cfg.modules[m], CodeEnv)
      /\ \A m, k, b : Of(cfg.modules[m].blocks[b], CallEnv(m, k))' =
                      Of(cfg.modules[m].blocks[b], CallEnv(m, k))
      /\ \A x, r : MadeAt(x, r) => MadeAt(x, r)'
  BY <1>1, MadeStays
<1>4. \A f \in made : \A x \in DOMAIN f : MadeAt(x, f[x])
  <2>1. ASSUME NEW k \in Calls(cfg.modules[n], CodeEnv), NEW x \in DOMAIN Inlined(n, k)
        PROVE  MadeAt(x, Inlined(n, k)[x])
    BY <1>2, <2>1, InlinedIs DEF MadeAt
  <2> QED BY <2>1
<1>5. ASSUME NEW k \in Calls(cfg.modules[n], CodeEnv), k.lost = Absent,
             cfg.modules[n].source = "local", NEW a \in DOMAIN cfg.modules[n].blocks,
             NEW i \in Of(cfg.modules[n].blocks[a], CallEnv(n, k))
      PROVE  <<<<n, k.each>>, a, i.each>> \in DOMAIN graph'
  <2>1. <<<<n, k.each>>, a, i.each>> \in DOMAIN Inlined(n, k)
    BY <1>2, <1>5, InlinedIs
  <2>2. Inlined(n, k) \in made
    OBVIOUS
  <2> HIDE DEF made
  <2> QED BY <1>1, <2>1, <2>2
<1> HIDE DEF made
<1>6. ASSUME NEW x \in DOMAIN graph' PROVE MadeAt(x, graph'[x])
  <2>1. CASE x \in DOMAIN graph
    BY <1>1, <2>1 DEF MadeInv
  <2>2. CASE x \notin DOMAIN graph
    <3> DEFINE g == CHOOSE f \in made : x \in DOMAIN f
    <3>1. \E f \in made : x \in DOMAIN f
      BY <1>1, <2>2
    <3>2. g \in made /\ x \in DOMAIN g
      BY <3>1
    <3>3. graph'[x] = g[x]
      BY <1>1, <2>2
    <3> HIDE DEF g
    <3> QED BY <1>4, <3>2, <3>3
  <2> QED BY <2>1, <2>2
<1>7. (\A x \in DOMAIN graph : MadeAt(x, graph[x]))'
  BY <1>3, <1>6
<1>8. /\ DOMAIN graph \subseteq DOMAIN graph'
      /\ phase = "modules" /\ phase' = "modules" /\ cfg' = cfg
  BY <1>1
<1>9. BlocksMade(cfg.blocks, <<>>, CodeEnv, DOMAIN cfg.blocks)'
  BY <1>3, <1>8 DEF MadeInv, BlocksMade
<1>10. ASSUME NEW m \in DOMAIN cfg.modules \ left', NEW k \in Calls(cfg.modules[m], CodeEnv),
              k.lost = Absent, cfg.modules[m].source = "local",
              NEW a \in DOMAIN cfg.modules[m].blocks,
              NEW i \in Of(cfg.modules[m].blocks[a], CallEnv(m, k))
       PROVE  <<<<m, k.each>>, a, i.each>> \in DOMAIN graph'
  <2>1. CASE m = n
    BY <1>5, <1>10, <2>1
  <2>2. CASE m # n
    <3>1. m \in DOMAIN cfg.modules \ left
      BY <1>1, <2>2
    <3>2. CallsMade(DOMAIN cfg.modules \ left)
      BY <1>1, <1>2 DEF MadeInv
    <3> QED BY <1>8, <1>10, <3>1, <3>2 DEF CallsMade, BlocksMade
  <2> QED BY <2>1, <2>2
<1>11. ASSUME NEW m \in DOMAIN cfg.modules \ left', NEW k \in Calls(cfg.modules[m], CodeEnv),
              k.lost = Absent, cfg.modules[m].source = "local"
       PROVE  BlocksMade(cfg.modules[m].blocks, <<m, k.each>>, CallEnv(m, k),
                         DOMAIN cfg.modules[m].blocks)'
  BY <1>3, <1>8, <1>10, <1>11 DEF BlocksMade
<1>12. CallsMade(DOMAIN cfg.modules \ left)'
  BY <1>3, <1>8, <1>11 DEF CallsMade
<1> QED BY <1>2, <1>7, <1>8, <1>9, <1>12 DEF MadeInv

-----------------------------------------------------------------------------
(* The resources with their references.                                     *)
LEMMA BuiltFields ==
  ASSUME NEW b, NEW i, NEW env
  PROVE  LET r == Built(b, i, env) IN
         /\ DOMAIN r = Fields /\ r.type = b.type /\ r.name = AttrOf(b.name, i, env)
         /\ r.parent = AttrOf(b.parent, i, env) /\ r.arn = AttrOf(b.arn, i, env)
         /\ r.merged = None
         /\ r.rules = IF i.lost # Absent THEN Unknown(b, i.lost) ELSE Extract(b, i, env)
BY DEF Built, Fields

LEMMA ReferredFields ==
  ASSUME NEW r, DOMAIN r = Fields, NEW a
  PROVE  LET q == Referred(r, a) IN
         /\ DOMAIN q = Fields /\ q.type = r.type /\ q.merged = r.merged
         /\ q.name = ReferTo(r.name, a, DOMAIN graph)
         /\ q.parent = ReferTo(r.parent, a, DOMAIN graph)
         /\ q.arn = ReferTo(r.arn, a, DOMAIN graph)
BY DEF Referred, Fields

LEMMA ReferredRules ==
  ASSUME NEW r, DOMAIN r = Fields, NEW a
  PROVE  \A q : q \in ToSet(Referred(r, a).rules) <=>
               \E s \in ToSet(r.rules) : q = RuleReferTo(s, a)
<1> DEFINE f == Referred(r, a).rules
<1>1. f = [k \in DOMAIN r.rules |-> RuleReferTo(r.rules[k], a)]
  BY DEF Referred, Fields
<1>2. DOMAIN f = DOMAIN r.rules /\ \A k \in DOMAIN f : f[k] = RuleReferTo(r.rules[k], a)
  BY <1>1
<1> HIDE DEF f
<1>3. \A q : q \in ToSet(f) <=> \E k \in DOMAIN r.rules : q = RuleReferTo(r.rules[k], a)
  BY <1>2 DEF ToSet
<1>4. \A s : s \in ToSet(r.rules) <=> \E k \in DOMAIN r.rules : s = r.rules[k]
  BY DEF ToSet
<1>5. \A q : q \in ToSet(f) <=> \E s \in ToSet(r.rules) : q = RuleReferTo(s, a)
  BY <1>3, <1>4
<1> QED BY <1>5 DEF f

LEMMA MadeIs ==
  ASSUME NEW x, NEW r, MadeAt(x, r)
  PROVE  /\ r = OutOfScope \/ \E b, i, env : r = Built(b, i, env)
         /\ DOMAIN r = Fields /\ r.merged = None
<1>1. r = OutOfScope \/ \E b, i, env : r = Built(b, i, env)
  BY DEF MadeAt, InBlocks, InCall
<1>2. DOMAIN OutOfScope = Fields /\ OutOfScope.merged = None
  BY DEF OutOfScope, Fields
<1> QED BY <1>1, <1>2, BuiltFields

LEMMA ShortSets ==
  /\ ToSet(<<>>) = {}
  /\ \A x : ToSet(<<x>>) = {x}
BY DEF ToSet

(* The rules that a block makes.                                            *)
SgLost(u) == [port |-> u, cidr |-> <<u>>]
NsgLost(u) == [prio |-> None, access |-> u, from |-> u, to |-> u, port |-> u]

LEMMA TypesApart ==
  /\ \A t \in SgTypes : t \notin NsgTypes /\ t \notin IamTypes
  /\ \A t \in NsgTypes : t \notin IamTypes /\ t # "sgrule"
  /\ "sgrule" \in SgTypes /\ "nsgrule" \in NsgTypes
BY DEF SgTypes, NsgTypes, IamTypes

LEMMA RulesMade ==
  ASSUME NEW b, NEW i, NEW env
  PROVE  /\ b.type \in SgTypes =>
              Extract(b, i, env) = [k \in DOMAIN b.rules |-> SgRule(b.rules[k], i, env)]
         /\ b.type \in NsgTypes =>
              Extract(b, i, env) = [k \in DOMAIN b.rules |-> NsgRule(b.rules[k], i, env)]
         /\ b.type \in IamTypes =>
              Extract(b, i, env) = Statements(b, AttrOf(b.within, i, env))
<1> DEFINE f == [k \in DOMAIN b.rules |-> SgRule(b.rules[k], i, env)]
           g == [k \in DOMAIN b.rules |-> NsgRule(b.rules[k], i, env)]
<1>1. Extract(b, i, env) = CASE b.type \in SgTypes -> f [] b.type \in NsgTypes -> g
                             [] b.type \in IamTypes -> Statements(b, AttrOf(b.within, i, env))
                             [] OTHER -> <<>>
  BY ZenonT(30) DEF Extract
<1> HIDE DEF f, g
<1>2. /\ b.type \in SgTypes => Extract(b, i, env) = f
      /\ b.type \in NsgTypes => Extract(b, i, env) = g
      /\ b.type \in IamTypes => Extract(b, i, env) = Statements(b, AttrOf(b.within, i, env))
  BY <1>1, TypesApart
<1> QED BY <1>2 DEF f, g

LEMMA UnknownMade ==
  ASSUME NEW b, NEW u
  PROVE  Unknown(b, u) = IF b.type = "sgrule" THEN <<SgLost(u)>>
                         ELSE IF b.type = "nsgrule" THEN <<NsgLost(u)>>
                         ELSE IF b.type \in IamTypes /\ (b.rules # <<>> \/ b.within # Absent)
                           THEN <<u>> ELSE <<>>
<1> DEFINE x == SgLost(u) y == NsgLost(u)
<1>1. Unknown(b, u) = CASE b.type = "sgrule" -> <<x>> [] b.type = "nsgrule" -> <<y>>
                        [] b.type \in IamTypes /\ (b.rules # <<>> \/ b.within # Absent) -> <<u>>
                        [] OTHER -> <<>>
  BY DEF Unknown, SgLost, NsgLost
<1> HIDE DEF x, y
<1>2. Unknown(b, u) = IF b.type = "sgrule" THEN <<x>> ELSE IF b.type = "nsgrule" THEN <<y>>
                      ELSE IF b.type \in IamTypes /\ (b.rules # <<>> \/ b.within # Absent)
                        THEN <<u>> ELSE <<>>
  BY <1>1, TypesApart
<1> QED BY <1>2 DEF x, y

LEMMA SgBuilt ==
  ASSUME NEW b, NEW i, NEW env, b.type \in SgTypes, NEW q
  PROVE  q \in ToSet(Built(b, i, env).rules) <=>
           IF i.lost # Absent THEN b.type = "sgrule" /\ q = SgLost(i.lost)
           ELSE \E k \in DOMAIN b.rules : q = SgRule(b.rules[k], i, env)
<1> DEFINE f == [k \in DOMAIN b.rules |-> SgRule(b.rules[k], i, env)]
<1>1. Built(b, i, env).rules = IF i.lost # Absent THEN Unknown(b, i.lost) ELSE Extract(b, i, env)
  BY BuiltFields
<1>2. Extract(b, i, env) = f
  BY RulesMade
<1>3. DOMAIN f = DOMAIN b.rules /\ \A k \in DOMAIN f : f[k] = SgRule(b.rules[k], i, env)
  OBVIOUS
<1> HIDE DEF f
<1>4. q \in ToSet(f) <=> \E k \in DOMAIN b.rules : q = SgRule(b.rules[k], i, env)
  BY <1>3 DEF ToSet
<1>5. b.type \notin IamTypes /\ b.type # "nsgrule"
  BY TypesApart
<1>6. q \in ToSet(Unknown(b, i.lost)) <=> b.type = "sgrule" /\ q = SgLost(i.lost)
  BY <1>5, UnknownMade, ShortSets
<1> QED BY <1>1, <1>2, <1>4, <1>6

LEMMA NsgBuilt ==
  ASSUME NEW b, NEW i, NEW env, b.type \in NsgTypes, NEW q
  PROVE  q \in ToSet(Built(b, i, env).rules) <=>
           IF i.lost # Absent THEN b.type = "nsgrule" /\ q = NsgLost(i.lost)
           ELSE \E k \in DOMAIN b.rules : q = NsgRule(b.rules[k], i, env)
<1> DEFINE f == [k \in DOMAIN b.rules |-> NsgRule(b.rules[k], i, env)]
<1>1. Built(b, i, env).rules = IF i.lost # Absent THEN Unknown(b, i.lost) ELSE Extract(b, i, env)
  BY BuiltFields
<1>2. Extract(b, i, env) = f
  BY RulesMade
<1>3. DOMAIN f = DOMAIN b.rules /\ \A k \in DOMAIN f : f[k] = NsgRule(b.rules[k], i, env)
  OBVIOUS
<1> HIDE DEF f
<1>4. q \in ToSet(f) <=> \E k \in DOMAIN b.rules : q = NsgRule(b.rules[k], i, env)
  BY <1>3 DEF ToSet
<1>5. b.type \notin IamTypes /\ b.type # "sgrule"
  BY TypesApart
<1>6. q \in ToSet(Unknown(b, i.lost)) <=> b.type = "nsgrule" /\ q = NsgLost(i.lost)
  BY <1>5, UnknownMade, ShortSets
<1> QED BY <1>1, <1>2, <1>4, <1>6

LEMMA IamBuilt ==
  ASSUME NEW b, NEW i, NEW env, b.type \in IamTypes, NEW q
  PROVE  q \in ToSet(Built(b, i, env).rules) <=>
           IF i.lost # Absent THEN (b.rules # <<>> \/ b.within # Absent) /\ q = i.lost
           ELSE IF IsUnresolved(AttrOf(b.within, i, env)) THEN q = AttrOf(b.within, i, env)
           ELSE \E k \in DOMAIN b.rules : q = Copied(b.rules[k])
<1> DEFINE w == AttrOf(b.within, i, env)
           f == [k \in DOMAIN b.rules |-> Copied(b.rules[k])]
<1>1. Built(b, i, env).rules = IF i.lost # Absent THEN Unknown(b, i.lost) ELSE Extract(b, i, env)
  BY BuiltFields
<1>2. Extract(b, i, env) = Statements(b, w)
  BY RulesMade
<1>3. Statements(b, w) = IF IsUnresolved(w) THEN <<w>> ELSE f
  BY DEF Statements
<1>4. DOMAIN f = DOMAIN b.rules /\ \A k \in DOMAIN f : f[k] = Copied(b.rules[k])
  OBVIOUS
<1> HIDE DEF f, w
<1>5. q \in ToSet(f) <=> \E k \in DOMAIN b.rules : q = Copied(b.rules[k])
  BY <1>4 DEF ToSet
<1>6. b.type # "sgrule" /\ b.type # "nsgrule"
  BY TypesApart
<1>7. q \in ToSet(Unknown(b, i.lost)) <=> (b.rules # <<>> \/ b.within # Absent) /\ q = i.lost
  <2>1. Unknown(b, i.lost) = IF b.rules # <<>> \/ b.within # Absent THEN <<i.lost>> ELSE <<>>
    BY <1>6, UnknownMade
  <2> QED BY <2>1, ShortSets
<1>8. q \in ToSet(Built(b, i, env).rules) <=>
        IF i.lost # Absent THEN (b.rules # <<>> \/ b.within # Absent) /\ q = i.lost
        ELSE IF IsUnresolved(w) THEN q = w ELSE \E k \in DOMAIN b.rules : q = Copied(b.rules[k])
  BY <1>1, <1>2, <1>3, <1>5, <1>7, ShortSets
<1> QED BY <1>8 DEF w

LEMMA SgRulesMade ==
  ASSUME NEW x, NEW r, MadeAt(x, r), r.type = "sgrule"
  PROVE  \A q \in ToSet(Referred(r, x).rules) : IsSgRule(q)
<1>1. PICK b, i, env : r = Built(b, i, env)
  <2>1. OutOfScope.type # "sgrule"
    BY DEF OutOfScope
  <2> QED BY <2>1, MadeIs
<1>2. b.type = "sgrule"
  BY <1>1, BuiltFields
<1>3. ASSUME NEW s \in ToSet(r.rules) PROVE Has(s, "cidr")
  <2>1. s = SgLost(i.lost) \/ \E k : s = SgRule(b.rules[k], i, env)
    BY <1>1, <1>2, <1>3, SgBuilt, TypesApart
  <2> QED BY <2>1 DEF SgRule, SgLost, Has
<1>4. \A s \in ToSet(r.rules) : IsSgRule(RuleReferTo(s, x))
  BY <1>3 DEF RuleReferTo, IsSgRule
<1>5. \A q : q \in ToSet(Referred(r, x).rules) <=>
             \E s \in ToSet(r.rules) : q = RuleReferTo(s, x)
  BY MadeIs, ReferredRules
<1> QED BY <1>4, <1>5

LEMMA ReferredStays ==
  DOMAIN graph' = DOMAIN graph => \A r, x : Referred(r, x)' = Referred(r, x)
BY DEF Referred, RuleReferTo

LEMMA MadeStands ==
  ASSUME cfg' = cfg, known' = known, AllMade, DOMAIN graph' = DOMAIN graph
  PROVE  AllMade'
<1>1. /\ \A b : Of(cfg.blocks[b], CodeEnv)' = Of(cfg.blocks[b], CodeEnv)
      /\ \A m : Calls(cfg.modules[m], CodeEnv)' = Calls(cfg.modules[m], CodeEnv)
      /\ \A m, k, b : Of(cfg.modules[m].blocks[b], CallEnv(m, k))' =
                      Of(cfg.modules[m].blocks[b], CallEnv(m, k))
  BY MadeStays
<1>2. BlocksMade(cfg.blocks, <<>>, CodeEnv, DOMAIN cfg.blocks)'
  BY <1>1 DEF AllMade, BlocksMade
<1>3. ASSUME cfg.entry = "modules",
             NEW m \in DOMAIN cfg.modules, NEW k \in Calls(cfg.modules[m], CodeEnv),
             k.lost = Absent, cfg.modules[m].source = "local"
      PROVE  BlocksMade(cfg.modules[m].blocks, <<m, k.each>>, CallEnv(m, k),
                        DOMAIN cfg.modules[m].blocks)'
  <2>1. BlocksMade(cfg.modules[m].blocks, <<m, k.each>>, CallEnv(m, k),
                   DOMAIN cfg.modules[m].blocks)
    BY <1>3 DEF AllMade, CallsMade
  <2> QED BY <1>1, <2>1 DEF BlocksMade
<1>4. (cfg.entry = "modules" => CallsMade(DOMAIN cfg.modules))'
  BY <1>1, <1>3 DEF CallsMade
<1> QED BY <1>2, <1>4 DEF AllMade

LEMMA FirstStands ==
  ASSUME NEW h, IsFirst(h), DOMAIN graph' = DOMAIN graph,
         \A x, r : MadeAt(x, r) => MadeAt(x, r)'
  PROVE  IsFirst(h)'
BY ReferredStays DEF IsFirst

LEMMA ResolveMade == TypeInv /\ GraphInv /\ MadeInv /\ ResolveReferences => MadeInv'
<1> SUFFICES ASSUME TypeInv, GraphInv, MadeInv, ResolveReferences PROVE MadeInv'
  OBVIOUS
<1>1. /\ phase = "modules" /\ phase' = "attach" /\ left = {}
      /\ cfg' = cfg /\ known' = known
      /\ graph' = [a \in DOMAIN graph |-> Referred(graph[a], a)]
  BY DEF ResolveReferences
<1>2. /\ \A b : Of(cfg.blocks[b], CodeEnv)' = Of(cfg.blocks[b], CodeEnv)
      /\ \A m : Calls(cfg.modules[m], CodeEnv)' = Calls(cfg.modules[m], CodeEnv)
      /\ \A m, k, b : Of(cfg.modules[m].blocks[b], CallEnv(m, k))' =
                      Of(cfg.modules[m].blocks[b], CallEnv(m, k))
      /\ \A x, r : MadeAt(x, r) => MadeAt(x, r)'
  BY <1>1, MadeStays
<1>3. DOMAIN graph' = DOMAIN graph /\ \A a \in DOMAIN graph : graph'[a] = Referred(graph[a], a)
  BY <1>1
<1>4. phase = "modules" /\ phase' = "attach" /\ left = {} /\ cfg' = cfg
  BY <1>1
<1>5. AllMade'
  BY <1>1, <1>3, MadeStands DEF MadeInv, AllMade
<1>6. PICK h : h = graph'
  OBVIOUS
<1>7. IsFirst(h)'
  <2>1. ASSUME NEW x \in DOMAIN graph
        PROVE  \E r : MadeAt(x, r)' /\ h[x] = Referred(r, x)'
    <3>1. PICK r : r = graph[x]
      OBVIOUS
    <3>2. MadeAt(x, r)'
      BY <1>2, <1>4, <3>1 DEF MadeInv
    <3>3. h[x] = Referred(r, x)'
      BY <1>3, <1>6, <3>1, ReferredStays
    <3> QED BY <3>2, <3>3
  <2>2. DOMAIN h = DOMAIN graph'
    BY <1>6
  <2> QED BY <1>3, <2>1, <2>2 DEF IsFirst
<1>8. \A a \in DOMAIN graph : graph'[a].merged = None
  <2>1. \A a \in DOMAIN graph : IsResource(graph[a]) /\ graph[a].merged = None
    BY <1>4 DEF GraphInv, TypeInv
  <2>2. ASSUME NEW a \in DOMAIN graph PROVE Referred(graph[a], a).merged = None
    BY <2>1, ReferredFields DEF IsResource
  <2> QED BY <1>3, <2>2
<1>9. SgRulesOnly'
  <2>1. ASSUME NEW x \in DOMAIN graph, graph'[x].type = "sgrule",
               NEW q \in ToSet(graph'[x].rules)
        PROVE  IsSgRule(q)
    <3>1. MadeAt(x, graph[x])
      BY <1>4 DEF MadeInv
    <3>2. graph[x].type = "sgrule"
      BY <1>3, <2>1, <3>1, MadeIs, ReferredFields
    <3> QED BY <1>3, <2>1, <3>1, <3>2, SgRulesMade
  <2> QED BY <1>3, <2>1 DEF SgRulesOnly
<1>10. SameFrom(h)' /\ RulesFrom(h)' /\ MergedFrom(h)'
  <2>1. SameFrom(h)'
    BY <1>6 DEF SameFrom
  <2>2. RulesFrom(h)'
    BY <1>6 DEF RulesFrom
  <2>3. MergedFrom(h)'
    BY <1>3, <1>8 DEF MergedFrom
  <2> QED BY <2>1, <2>2, <2>3
<1> QED BY <1>4, <1>5, <1>7, <1>9, <1>10 DEF MadeInv, AttachedFrom

-----------------------------------------------------------------------------
(* Attaching.                                                               *)
LEMMA TargetType ==
  ASSUME NEW r, Target(r) # None
  PROVE  r.type = "sgrule" \/ graph[Target(r)].type = ParentType(r.type)
<1>1. ParentType(r.type) # None
  BY DEF Target
<1>2. CASE Is(r.parent, "ref")
  BY <1>1, <1>2 DEF Target, TierA
<1>3. CASE ~Is(r.parent, "ref")
  <2> DEFINE S == Candidates(ParentType(r.type), r.parent.lit)
  <2>1. Target(r) = Unique(S)
    BY <1>1, <1>3 DEF Target
  <2>2. Unique(S) \in S
    BY <2>1 DEF Unique
  <2> QED BY <2>1, <2>2 DEF Candidates
<1> QED BY <1>2, <1>3

LEMMA PolicyByArn ==
  \A q, r : q.arn = r.arn => PolicyFound(q) = PolicyFound(r)
BY DEF PolicyFound

LEMMA OfferedIs ==
  ASSUME NEW h, SameFrom(h), NEW a \in DOMAIN graph, Added(graph[a]) # None
  PROVE  Offered(h, a) = ToSet(Added(graph[a]))
<1>1. h[a].type = graph[a].type /\ h[a].arn = graph[a].arn
  BY DEF SameFrom
<1>2. PolicyFound(h[a]) = PolicyFound(graph[a])
  BY <1>1, PolicyByArn
<1>3. CASE graph[a].type # "attachment"
  BY <1>1, <1>3 DEF Offered, Added
<1>4. CASE graph[a].type = "attachment" /\ IsManaged(graph[a].arn)
  BY <1>1, <1>4, ShortSets DEF Offered, Added, PolicyRules
<1>5. CASE graph[a].type = "attachment" /\ ~IsManaged(graph[a].arn)
  BY <1>1, <1>2, <1>5 DEF Offered, Added, PolicyRules
<1> QED BY <1>3, <1>4, <1>5

(* What a step of the attachments changes.                                  *)
Grows(a, t, rules) ==
  /\ DOMAIN graph' = DOMAIN graph
  /\ \A b \in DOMAIN graph :
       /\ graph'[b].type = graph[b].type /\ graph'[b].name = graph[b].name
       /\ graph'[b].parent = graph[b].parent /\ graph'[b].arn = graph[b].arn
       /\ b # a => graph'[b].merged = graph[b].merged
       /\ ToSet(graph[b].rules) \subseteq ToSet(graph'[b].rules)
       /\ b # t => ToSet(graph'[b].rules) = ToSet(graph[b].rules)
  /\ graph'[a].merged = t
  /\ ToSet(graph'[t].rules) = ToSet(graph[t].rules) \cup ToSet(rules)

LEMMA AttachGrows ==
  ASSUME TypeInv, GraphInv, NEW a \in DOMAIN graph, Attach(a), graph' # graph
  PROVE  /\ Target(graph[a]) # None /\ Target(graph[a]) \in DOMAIN graph
         /\ Added(graph[a]) # None
         /\ Grows(a, Target(graph[a]), Added(graph[a]))
<1> DEFINE t == Target(graph[a]) added == Added(graph[a])
<1>1. phase = "attach" /\ a \in left /\ Terraform
  BY DEF Attach, TypeInv
<1>2. t # None /\ added # None /\ graph' = Merged(a, t, added)
  BY DEF Attach
<1>3. t \in DOMAIN graph
  BY <1>2, TargetFacts
<1>4. \A b \in DOMAIN graph : IsResource(graph[b])
  BY <1>1 DEF GraphInv
<1>5. IsList(added)
  BY <1>2, <1>4, AddedIsList
<1>6. /\ DOMAIN graph' = DOMAIN graph
      /\ \A b \in DOMAIN graph :
           /\ graph'[b].type = graph[b].type /\ graph'[b].parent = graph[b].parent
           /\ graph'[b].name = graph[b].name /\ graph'[b].arn = graph[b].arn
           /\ graph'[b].merged = IF b = a THEN t ELSE graph[b].merged
           /\ graph'[b].rules = IF b = t THEN graph[b].rules \o added ELSE graph[b].rules
  BY <1>2, <1>3, <1>4, MergedGraph
<1> HIDE DEF added, t
<1>7. ToSet(graph'[t].rules) = ToSet(graph[t].rules) \cup ToSet(added)
  BY <1>3, <1>4, <1>5, <1>6, Concatenation DEF IsResource
<1>8. Grows(a, t, added)
  BY <1>3, <1>6, <1>7 DEF Grows
<1> QED BY <1>2, <1>3, <1>8 DEF t, added

LEMMA PolicyStays ==
  ASSUME DOMAIN graph' = DOMAIN graph,
         \A b \in DOMAIN graph : graph'[b].type = graph[b].type /\ graph'[b].name = graph[b].name
  PROVE  \A r : PolicyFound(r)' = PolicyFound(r)
<1>1. \A ty, x : Candidates(ty, x)' = Candidates(ty, x)
  BY DEF Candidates
<1> QED BY <1>1 DEF PolicyFound

LEMMA AttachMade ==
  ASSUME TypeInv, GraphInv, MadeInv, NEW a \in DOMAIN graph, Attach(a)
  PROVE  MadeInv'
<1>1. /\ phase = "attach" /\ phase' = "attach" /\ a \in left /\ Terraform
      /\ cfg' = cfg /\ known' = known
  BY DEF Attach, TypeInv
<1>2. PICK h : AttachedFrom(h)
  BY <1>1 DEF MadeInv
<1>3. /\ \A b : Of(cfg.blocks[b], CodeEnv)' = Of(cfg.blocks[b], CodeEnv)
      /\ \A m : Calls(cfg.modules[m], CodeEnv)' = Calls(cfg.modules[m], CodeEnv)
      /\ \A m, k, b : Of(cfg.modules[m].blocks[b], CallEnv(m, k))' =
                      Of(cfg.modules[m].blocks[b], CallEnv(m, k))
      /\ \A x, r : MadeAt(x, r) => MadeAt(x, r)'
  BY <1>1, MadeStays
<1> DEFINE t == Target(graph[a]) added == Added(graph[a])
<1>4. CASE graph' = graph
  <2>1. AllMade'
    BY <1>1, <1>3, <1>4, MadeStands DEF MadeInv
  <2>2. IsFirst(h)'
    BY <1>2, <1>3, <1>4, FirstStands DEF AttachedFrom
  <2>3. \A r : PolicyFound(r)' = PolicyFound(r)
    BY <1>4, PolicyStays
  <2>4. SameFrom(h)' /\ SgRulesOnly'
    BY <1>2, <1>4 DEF AttachedFrom, SameFrom, SgRulesOnly
  <2>5. \A b : Offered(h, b)' = Offered(h, b)
    BY <1>4, <2>3 DEF Offered
  <2>6. RulesFrom(h)'
    BY <1>2, <1>4, <2>5 DEF AttachedFrom, RulesFrom
  <2>7. MergedFrom(h)'
    BY <1>2, <1>4, <2>3 DEF AttachedFrom, MergedFrom
  <2> QED BY <1>1, <2>1, <2>2, <2>4, <2>6, <2>7 DEF MadeInv, AttachedFrom
<1>5. CASE graph' # graph
  <2>1. t # None /\ t \in DOMAIN graph /\ added # None /\ Grows(a, t, added)
    BY <1>5, AttachGrows
  <2>2. /\ graph[t].type = ParentType(graph[a].type) \/ graph[a].type = "sgrule"
        /\ ParentType(graph[a].type) # None
    BY <2>1, TargetType, TargetFacts
  <2>3. Offered(h, a) = ToSet(added)
    BY <1>2, <2>1, OfferedIs DEF AttachedFrom
  <2>4. graph[a].merged = None
    BY <1>1 DEF GraphInv
  <2>5. graph[a].type # "attachment" => added = graph[a].rules
    BY DEF Added
  <2>6. graph[a].type = "attachment" =>
          IF IsManaged(graph[a].arn) THEN ToSet(added) = {Managed}
          ELSE PolicyFound(graph[a]) # None /\ added = graph[PolicyFound(graph[a])].rules
    BY <2>1, ShortSets DEF Added, PolicyRules
  <2> HIDE DEF t, added
  <2>7. AllMade' /\ IsFirst(h)'
    BY <1>1, <1>2, <1>3, <2>1, MadeStands, FirstStands DEF MadeInv, AttachedFrom, Grows
  <2>8. SameFrom(h)'
    BY <1>2, <2>1 DEF AttachedFrom, SameFrom, Grows
  <2>9. \A r : PolicyFound(r)' = PolicyFound(r)
    BY <2>1, PolicyStays DEF Grows
  <2>10. SgRulesOnly'
    <3>1. ASSUME NEW x \in DOMAIN graph, graph[x].type = "sgrule",
                 NEW q \in ToSet(graph'[x].rules)
          PROVE  IsSgRule(q)
      <4>1. CASE q \in ToSet(graph[x].rules)
        BY <1>2, <3>1, <4>1 DEF AttachedFrom, SgRulesOnly
      <4>2. CASE q \notin ToSet(graph[x].rules)
        <5>1. x = t /\ q \in ToSet(added)
          BY <2>1, <3>1, <4>2 DEF Grows
        <5>2. graph[a].type = "sgrule"
          BY <2>2, <3>1, <5>1 DEF ParentType
        <5> QED BY <1>2, <2>5, <5>1, <5>2 DEF AttachedFrom, SgRulesOnly
      <4> QED BY <4>1, <4>2
    <3> QED BY <2>1, <3>1 DEF SgRulesOnly, Grows
  <2>11. \A b \in DOMAIN graph : Offered(h, b) \subseteq Offered(h, b)'
    <3>1. ASSUME NEW b \in DOMAIN graph PROVE Offered(h, b) \subseteq Offered(h, b)'
      <4>1. CASE h[b].type # "attachment"
        BY <2>1, <4>1 DEF Offered, Grows
      <4>2. CASE h[b].type = "attachment" /\ IsManaged(h[b].arn)
        BY <4>2 DEF Offered
      <4>3. CASE h[b].type = "attachment" /\ ~IsManaged(h[b].arn)
        <5>1. PolicyFound(h[b]) # None => PolicyFound(h[b]) \in DOMAIN graph
          BY DEF PolicyFound, Candidates, Unique
        <5> QED BY <2>1, <2>9, <4>3, <5>1 DEF Offered, Grows
      <4> QED BY <4>1, <4>2, <4>3
    <3> QED BY <3>1
  <2>12. RulesFrom(h)'
    <3>1. ASSUME NEW b \in DOMAIN graph
          PROVE  ToSet(h[b].rules) \subseteq ToSet(graph'[b].rules)
      BY <1>2, <2>1 DEF AttachedFrom, RulesFrom, Grows
    <3>2. ASSUME NEW b \in DOMAIN graph, NEW q \in ToSet(graph'[b].rules),
                 q \notin ToSet(h[b].rules)
          PROVE  \E c \in DOMAIN graph :
                   graph'[c].merged = b /\ graph'[c].merged # None /\ q \in Offered(h, c)'
      <4>1. CASE q \in ToSet(graph[b].rules)
        <5>1. PICK c \in DOMAIN graph :
                graph[c].merged = b /\ graph[c].merged # None /\ q \in Offered(h, c)
          BY <1>2, <3>2, <4>1 DEF AttachedFrom, RulesFrom
        <5> QED BY <2>1, <2>4, <2>11, <5>1 DEF Grows
      <4>2. CASE q \notin ToSet(graph[b].rules)
        <5>1. b = t /\ q \in ToSet(added)
          BY <2>1, <3>2, <4>2 DEF Grows
        <5>2. q \in Offered(h, a)'
          BY <2>3, <2>11, <5>1
        <5> QED BY <2>1, <5>1, <5>2 DEF Grows
      <4> QED BY <4>1, <4>2
    <3> QED BY <2>1, <3>1, <3>2 DEF RulesFrom, Grows
  <2>13. MergedFrom(h)'
    <3>1. ASSUME NEW b \in DOMAIN graph, graph'[b].merged # None
          PROVE  LET m == graph'[b].merged IN
                 /\ m \in DOMAIN graph /\ ParentType(h[b].type) # None
                 /\ h[b].type = "sgrule" \/ graph'[m].type = ParentType(h[b].type)
                 /\ IF h[b].type # "attachment" THEN ToSet(h[b].rules) \subseteq ToSet(graph'[m].rules)
                    ELSE IF IsManaged(h[b].arn) THEN Managed \in ToSet(graph'[m].rules)
                    ELSE /\ PolicyFound(h[b])' # None
                         /\ ToSet(h[PolicyFound(h[b])'].rules) \subseteq ToSet(graph'[m].rules)
      <4>1. CASE b = a
        <5>1. graph'[b].merged = t
          BY <2>1, <4>1 DEF Grows
        <5>2. h[a].type = graph[a].type /\ h[a].arn = graph[a].arn
          BY <1>2 DEF AttachedFrom, SameFrom
        <5>3. PolicyFound(h[a]) = PolicyFound(graph[a])
          BY <5>2, PolicyByArn
        <5>4. ToSet(h[a].rules) \subseteq ToSet(graph[a].rules)
          BY <1>2 DEF AttachedFrom, RulesFrom
        <5>5. ToSet(graph'[t].rules) = ToSet(graph[t].rules) \cup ToSet(added)
          BY <2>1 DEF Grows
        <5>6. graph'[t].type = graph[t].type
          BY <2>1 DEF Grows
        <5>7. PolicyFound(h[b])' = PolicyFound(graph[a])
          BY <2>9, <4>1, <5>3
        <5>8. CASE h[a].type # "attachment"
          BY <2>1, <2>2, <2>5, <4>1, <5>1, <5>2, <5>4, <5>5, <5>6, <5>8
        <5>9. CASE h[a].type = "attachment" /\ IsManaged(h[a].arn)
          BY <2>1, <2>2, <2>6, <4>1, <5>1, <5>2, <5>5, <5>6, <5>9
        <5>10. CASE h[a].type = "attachment" /\ ~IsManaged(h[a].arn)
          <6> DEFINE p == PolicyFound(graph[a])
          <6>1. p # None /\ added = graph[p].rules
            BY <2>6, <5>2, <5>10
          <6>2. p \in DOMAIN graph
            BY <6>1 DEF PolicyFound, Candidates, Unique
          <6> HIDE DEF p
          <6>3. ToSet(h[p].rules) \subseteq ToSet(added)
            BY <1>2, <6>1, <6>2 DEF AttachedFrom, RulesFrom
          <6>4. PolicyFound(h[b])' = p
            BY <5>7 DEF p
          <6> QED BY <2>1, <2>2, <4>1, <5>1, <5>2, <5>5, <5>6, <5>10, <6>1, <6>3, <6>4
        <5> QED BY <5>8, <5>9, <5>10
      <4>2. CASE b # a
        <5>1. graph'[b].merged = graph[b].merged
          BY <2>1, <4>2 DEF Grows
        <5> DEFINE m == graph[b].merged
        <5>2. /\ m \in DOMAIN graph /\ ParentType(h[b].type) # None
              /\ h[b].type = "sgrule" \/ graph[m].type = ParentType(h[b].type)
              /\ IF h[b].type # "attachment" THEN ToSet(h[b].rules) \subseteq ToSet(graph[m].rules)
                 ELSE IF IsManaged(h[b].arn) THEN Managed \in ToSet(graph[m].rules)
                 ELSE /\ PolicyFound(h[b]) # None
                      /\ ToSet(h[PolicyFound(h[b])].rules) \subseteq ToSet(graph[m].rules)
          BY <1>2, <3>1, <5>1 DEF AttachedFrom, MergedFrom
        <5>3. graph'[m].type = graph[m].type /\ ToSet(graph[m].rules) \subseteq ToSet(graph'[m].rules)
          BY <2>1, <5>2 DEF Grows
        <5> QED BY <2>9, <5>1, <5>2, <5>3
      <4> QED BY <4>1, <4>2
    <3>2. DOMAIN graph' = DOMAIN graph
      BY <2>1 DEF Grows
    <3> QED BY <3>1, <3>2 DEF MergedFrom
  <2> QED BY <1>1, <2>7, <2>8, <2>10, <2>12, <2>13 DEF MadeInv, AttachedFrom
<1> QED BY <1>4, <1>5

LEMMA MadeUnchanged ==
  ASSUME TypeInv, MadeInv, cfg' = cfg, known' = known, graph' = graph,
         left' = left \/ phase' # phase,
         phase' = phase \/ (phase = "attach" /\ phase' = "done")
  PROVE  MadeInv'
<1>1. /\ \A b : Of(cfg.blocks[b], CodeEnv)' = Of(cfg.blocks[b], CodeEnv)
      /\ \A m : Calls(cfg.modules[m], CodeEnv)' = Calls(cfg.modules[m], CodeEnv)
      /\ \A m, k, b : Of(cfg.modules[m].blocks[b], CallEnv(m, k))' =
                      Of(cfg.modules[m].blocks[b], CallEnv(m, k))
      /\ \A x, r : MadeAt(x, r) => MadeAt(x, r)'
  BY MadeStays
<1>2. phase' = "locals" => (DOMAIN graph = {})'
  BY DEF MadeInv
<1>3. phase' \in {"expand", "modules"} => (\A x \in DOMAIN graph : MadeAt(x, graph[x]))'
  BY <1>1 DEF MadeInv
<1>4. phase' = "expand" => BlocksMade(cfg.blocks, <<>>, CodeEnv, DOMAIN cfg.blocks \ left)'
  BY <1>1 DEF MadeInv, BlocksMade
<1>5. ASSUME phase' = "modules"
      PROVE  /\ BlocksMade(cfg.blocks, <<>>, CodeEnv, DOMAIN cfg.blocks)'
             /\ cfg.entry = "modules" => CallsMade(DOMAIN cfg.modules \ left)'
             /\ cfg.entry # "modules" => left' = {}
  <2>1. phase = "modules" /\ left' = left
    BY <1>5
  <2>2. BlocksMade(cfg.blocks, <<>>, CodeEnv, DOMAIN cfg.blocks)'
    BY <1>1, <2>1 DEF MadeInv, BlocksMade
  <2>3. ASSUME cfg.entry = "modules",
               NEW m \in DOMAIN cfg.modules \ left, NEW k \in Calls(cfg.modules[m], CodeEnv),
               k.lost = Absent, cfg.modules[m].source = "local"
        PROVE  BlocksMade(cfg.modules[m].blocks, <<m, k.each>>, CallEnv(m, k),
                          DOMAIN cfg.modules[m].blocks)'
    <3>1. BlocksMade(cfg.modules[m].blocks, <<m, k.each>>, CallEnv(m, k),
                     DOMAIN cfg.modules[m].blocks)
      BY <2>1, <2>3 DEF MadeInv, CallsMade
    <3> QED BY <1>1, <3>1 DEF BlocksMade
  <2>4. cfg.entry = "modules" => CallsMade(DOMAIN cfg.modules \ left)'
    BY <1>1, <2>1, <2>3 DEF CallsMade
  <2> QED BY <2>1, <2>2, <2>4 DEF MadeInv
<1>6. ASSUME phase' \in {"attach", "done"}, Terraform'
      PROVE  AllMade' /\ \E h : AttachedFrom(h)'
  <2>1. phase \in {"attach", "done"} /\ Terraform
    BY <1>6 DEF Terraform
  <2>2. AllMade'
    BY <2>1, MadeStands DEF MadeInv
  <2>3. PICK h : AttachedFrom(h)
    BY <2>1 DEF MadeInv
  <2>4. IsFirst(h)'
    BY <1>1, <2>3, FirstStands DEF AttachedFrom
  <2>5. \A r : PolicyFound(r)' = PolicyFound(r)
    BY PolicyStays
  <2>6. SameFrom(h)' /\ SgRulesOnly'
    BY <2>3 DEF AttachedFrom, SameFrom, SgRulesOnly
  <2>7. \A b : Offered(h, b)' = Offered(h, b)
    BY <2>5 DEF Offered
  <2>8. RulesFrom(h)'
    BY <2>3, <2>7 DEF AttachedFrom, RulesFrom
  <2>9. MergedFrom(h)'
    BY <2>3, <2>5 DEF AttachedFrom, MergedFrom
  <2> QED BY <2>2, <2>4, <2>6, <2>8, <2>9 DEF AttachedFrom
<1> QED BY <1>2, <1>3, <1>4, <1>5, <1>6 DEF MadeInv

LEMMA TemplateMade ==
  ASSUME TypeInv, ReadResource \/ EndTemplate
  PROVE  MadeInv'
<1>1. phase = "arm" /\ phase' \in {"arm", "attach", "failed"} /\ cfg' = cfg
  BY DEF ReadResource, EndTemplate
<1>2. ~Terraform'
  BY <1>1 DEF TypeInv, Terraform
<1> QED BY <1>1, <1>2 DEF MadeInv

LEMMA StepMade == TypeInv /\ GraphInv /\ MadeInv /\ [Next]_vars => MadeInv'
<1> SUFFICES ASSUME TypeInv, GraphInv, MadeInv, [Next]_vars PROVE MadeInv'
  OBVIOUS
<1>1. CASE ReadResource \/ EndTemplate
  BY <1>1, TemplateMade
<1>2. CASE TryLocal \/ NextPass \/ GiveUp \/ EndLocals
  BY <1>2, LocalsMade
<1>3. ASSUME NEW a \in DOMAIN cfg.blocks, Expand(a) PROVE MadeInv'
  BY <1>3, ExpandMade
<1>4. CASE EndExpand
  BY <1>4, EndExpandMade
<1>5. ASSUME NEW n \in DOMAIN cfg.modules, InlineModule(n) PROVE MadeInv'
  BY <1>5, InlineMade
<1>6. CASE ResolveReferences
  BY <1>6, ResolveMade
<1>7. ASSUME NEW a \in DOMAIN graph, Attach(a) PROVE MadeInv'
  BY <1>7, AttachMade
<1>8. CASE Verify
  <2>1. /\ cfg' = cfg /\ known' = known /\ graph' = graph
        /\ phase = "attach" /\ phase' = "done"
    BY <1>8 DEF Verify
  <2> QED BY <2>1, MadeUnchanged
<1>9. CASE UNCHANGED vars
  BY <1>9, MadeUnchanged DEF vars
<1> QED BY <1>1, <1>2, <1>3, <1>4, <1>5, <1>6, <1>7, <1>8, <1>9 DEF Next

(* What the verdicts are of, beside IInv.                                   *)
TruthInv == IInv /\ KnownInv /\ MadeInv

(* Whatever order blocks, module calls and attachments come in, each resource *)
(* of the graph stays what extract_rule_sources made of one block under the  *)
(* names its module sees, apart from the rules that attachments append; and  *)
(* what a merged resource offered is among them.                            *)
THEOREM PipelineMade == Spec => []TruthInv
<1>1. Init => TruthInv
  <2> SUFFICES ASSUME Init PROVE TruthInv
    OBVIOUS
  <2>1. TypeInv /\ GraphInv /\ LocalsInv
    BY InitGraph, InitLocals
  <2>2. KnownInv
    BY DEF Init, KnownInv, NoNames
  <2> QED BY <2>1, <2>2, InitMade DEF TruthInv, IInv
<1>2. TruthInv /\ [Next]_vars => TruthInv'
  BY StepGraph, StepLocals, StepKnown, StepMade DEF TruthInv, IInv
<1> QED BY <1>1, <1>2, PTL DEF Spec

-----------------------------------------------------------------------------
(* At the end: what the code knows is below what is meant.                   *)
AtEnd == TruthInv /\ phase = "done" /\ Terraform

LEMMA RootBelow ==
  ASSUME AtEnd, cfg.entry # "cli"
  PROVE  BelowEnv(CodeEnv, RootEnv)
<1>1. CodeEnv = [vars |-> Vars, locals |-> known]
  BY DEF CodeEnv, Env
<1>2. BelowNames(known, Meaning)
  <2>1. ASSUME NEW n \in DOMAIN known, Whole(known[n])
        PROVE  n \in DOMAIN Meaning /\ known[n] = Meaning[n]
    BY <2>1, WholeLocalsAreMeant DEF AtEnd, TruthInv
  <2> QED BY <2>1 DEF BelowNames, AtEnd, TruthInv, KnownInv
<1>3. BelowNames(Vars, Vars)
  BY DEF BelowNames
<1> QED BY <1>1, <1>2, <1>3 DEF BelowEnv, RootEnv

LEMMA CallBelow ==
  ASSUME AtEnd, cfg.entry # "cli", NEW n, NEW k, NEW i, k.each = i.each
  PROVE  BelowEnv(CallEnv(n, k), ModuleEnv(cfg.modules[n], i, RootEnv))
<1> DEFINE m == cfg.modules[n]
           f == [x \in DOMAIN m.args |-> Value(ForInstance(m.args[x], k), CodeEnv)]
           g == [x \in DOMAIN m.args |-> Value(ForInstance(m.args[x], i), RootEnv)]
<1>1. /\ CallEnv(n, k) = [vars |-> Overlay(f, m.defaults), locals |-> NoNames]
      /\ ModuleEnv(m, i, RootEnv) = [vars |-> Overlay(g, m.defaults), locals |-> NoNames]
  BY DEF CallEnv, ModuleEnv, Env
<1>2. \A e : ForInstance(e, k) = ForInstance(e, i)
  BY DEF ForInstance
<1>3. \A e : Below(Value(e, CodeEnv), Value(e, RootEnv))
  BY RootBelow, ValueBelow
<1>4. /\ DOMAIN f = DOMAIN m.args /\ DOMAIN g = DOMAIN m.args
      /\ \A x \in DOMAIN m.args : Below(f[x], g[x])
  BY <1>2, <1>3
<1> HIDE DEF f, g
<1>5. BelowNames(Overlay(f, m.defaults), Overlay(g, m.defaults))
  BY <1>4 DEF BelowNames, Below, Overlay
<1>6. BelowNames(NoNames, NoNames)
  BY DEF BelowNames
<1> QED BY <1>1, <1>5, <1>6 DEF BelowEnv

(* What has no value where it is meant has none in the pipeline, if no local *)
(* lost only a part of itself.                                              *)
FirmNames(f, g) ==
  \A x \in DOMAIN f : \/ IsUnresolved(f[x])
                      \/ x \in DOMAIN g /\ ~IsUnresolved(g[x])

FirmEnv(c, t) == FirmNames(c.vars, t.vars) /\ FirmNames(c.locals, t.locals)

LEMMA ScalarFirm ==
  ASSUME NEW c, NEW t, FirmEnv(c, t), NEW e, IsUnresolved(ResolveScalar(e, t.vars, t.locals))
  PROVE  IsUnresolved(ResolveScalar(e, c.vars, c.locals))
<1>1. ASSUME NEW x, IsUnresolved(Lookup(x, t.vars, t.locals))
      PROVE  IsUnresolved(Lookup(x, c.vars, c.locals))
  <2>1. CASE Is(x, "var")
    BY <1>1, <2>1, LookupIs, UnresolvedFacts DEF FirmEnv, FirmNames
  <2>2. CASE Is(x, "local")
    BY <1>1, <2>2, LookupIs, UnresolvedFacts DEF FirmEnv, FirmNames
  <2>3. CASE ~Is(x, "var") /\ ~Is(x, "local")
    BY <1>1, <2>3, LookupIs, UnresolvedFacts
  <2> QED BY <2>1, <2>2, <2>3
<1> QED BY <1>1, InterpolateFacts DEF ResolveScalar

LEMMA ValueFirm ==
  ASSUME NEW c, NEW t, FirmEnv(c, t), NEW e, IsUnresolved(Value(e, t))
  PROVE  IsUnresolved(Value(e, c))
<1> DEFINE u == Unwrap(e)
<1>1. Value(e, t) = Resolve(u, t.vars, t.locals) /\ Value(e, c) = Resolve(u, c.vars, c.locals)
  BY DEF Value
<1> HIDE DEF u
<1>2. ~Is(u, "items")
  BY <1>1, UnresolvedFacts DEF Resolve
<1> QED BY <1>1, <1>2, ScalarFirm DEF Resolve

FirmLocals == \A n \in DOMAIN known : Whole(known[n]) \/ IsUnresolved(known[n])

LEMMA RootFirm ==
  ASSUME AtEnd, cfg.entry # "cli", FirmLocals
  PROVE  FirmEnv(CodeEnv, RootEnv)
<1>1. CodeEnv = [vars |-> Vars, locals |-> known]
  BY DEF CodeEnv, Env
<1>2. FirmNames(known, Meaning)
  <2>1. ASSUME NEW n \in DOMAIN known, Whole(known[n])
        PROVE  n \in DOMAIN Meaning /\ ~IsUnresolved(Meaning[n])
    BY <2>1, WholeLocalsAreMeant, UnresolvedFacts DEF AtEnd, TruthInv
  <2> QED BY <2>1 DEF FirmNames, FirmLocals
<1>3. FirmNames(Vars, Vars)
  BY DEF FirmNames
<1> QED BY <1>1, <1>2, <1>3 DEF FirmEnv, RootEnv

LEMMA CallFirm ==
  ASSUME AtEnd, cfg.entry # "cli", FirmLocals, NEW n, NEW k, NEW i, k.each = i.each
  PROVE  FirmEnv(CallEnv(n, k), ModuleEnv(cfg.modules[n], i, RootEnv))
<1> DEFINE m == cfg.modules[n]
           f == [x \in DOMAIN m.args |-> Value(ForInstance(m.args[x], k), CodeEnv)]
           g == [x \in DOMAIN m.args |-> Value(ForInstance(m.args[x], i), RootEnv)]
<1>1. /\ CallEnv(n, k) = [vars |-> Overlay(f, m.defaults), locals |-> NoNames]
      /\ ModuleEnv(m, i, RootEnv) = [vars |-> Overlay(g, m.defaults), locals |-> NoNames]
  BY DEF CallEnv, ModuleEnv, Env
<1>2. \A e : ForInstance(e, k) = ForInstance(e, i)
  BY DEF ForInstance
<1>3. \A e : IsUnresolved(Value(e, RootEnv)) => IsUnresolved(Value(e, CodeEnv))
  BY RootFirm, ValueFirm
<1>4. /\ DOMAIN f = DOMAIN m.args /\ DOMAIN g = DOMAIN m.args
      /\ \A x \in DOMAIN m.args : IsUnresolved(g[x]) => IsUnresolved(f[x])
  BY <1>2, <1>3
<1> HIDE DEF f, g
<1>5. FirmNames(Overlay(f, m.defaults), Overlay(g, m.defaults))
  BY <1>4 DEF FirmNames, Overlay
<1>6. FirmNames(NoNames, NoNames)
  BY DEF FirmNames
<1> QED BY <1>1, <1>5, <1>6 DEF FirmEnv

(* Where no local is a list, what has a value where it is meant has it in the *)
(* pipeline.  At the root a list may differ in items that are Gone; where a  *)
(* module is given such a list, it may be such an item.                     *)
AboveName(v, w) ==
  v = w \/ w = Gone \/ (Is(v, "items") /\ Is(w, "items") /\ Gone \in Entries(w))

Above(v, w) ==
  v = w \/ w = Gone \/ (Is(v, "items") /\ Is(w, "items") /\ Gone \in Sources(w))

AboveNames(f, g) == \A x \in DOMAIN g : x \in DOMAIN f /\ AboveName(f[x], g[x])

AboveEnv(c, t) == AboveNames(c.vars, t.vars) /\ AboveNames(c.locals, t.locals)

LEMMA AboveIs ==
  ASSUME NEW v, NEW w, AboveName(v, w)
  PROVE  Above(v, w)
<1>1. Entries(Gone) = {Gone}
  BY DEF Entries, Is, Gone
<1>2. ASSUME Is(w, "items"), Gone \in Entries(w)
      PROVE  Gone \in Sources(w)
  BY <1>1, <1>2 DEF Sources
<1> QED BY <1>2 DEF Above, AboveName

LEMMA ScalarAbove ==
  ASSUME NEW c, NEW t, AboveEnv(c, t), NEW e
  PROVE  AboveName(ResolveScalar(e, c.vars, c.locals), ResolveScalar(e, t.vars, t.locals))
<1>1. ASSUME NEW x
      PROVE  AboveName(Lookup(x, c.vars, c.locals), Lookup(x, t.vars, t.locals))
  <2>1. CASE Is(x, "var")
    BY <2>1, LookupIs DEF AboveEnv, AboveNames, AboveName
  <2>2. CASE Is(x, "local")
    BY <2>2, LookupIs DEF AboveEnv, AboveNames, AboveName
  <2>3. CASE ~Is(x, "var") /\ ~Is(x, "local")
    BY <2>3, LookupIs DEF AboveName
  <2> QED BY <2>1, <2>2, <2>3
<1>2. ASSUME NEW v, NEW w, AboveName(v, w)
      PROVE  AboveName(Interpolate(v), Interpolate(w))
  <2>1. CASE v = w
    BY <2>1 DEF AboveName
  <2>2. CASE w = Gone
    BY <2>2, UnresolvedFacts DEF AboveName, Interpolate
  <2>3. CASE Is(v, "items") /\ Is(w, "items")
    <3>1. Interpolate(v) = Lit(ListText) /\ Interpolate(w) = Lit(ListText)
      BY <2>3 DEF Interpolate, IsUnresolved, Is
    <3> QED BY <3>1 DEF AboveName
  <2> QED BY <1>2, <2>1, <2>2, <2>3 DEF AboveName
<1>3. CASE Is(e, "text")
  BY <1>1, <1>2, <1>3 DEF ResolveScalar
<1>4. CASE ~Is(e, "text")
  BY <1>1, <1>4 DEF ResolveScalar
<1> QED BY <1>3, <1>4

(* A list whose items are Above.                                            *)
LEMMA ListAbove ==
  ASSUME NEW D, NEW f, NEW g, f = [i \in D |-> f[i]], g = [i \in D |-> g[i]],
         \A i \in D : AboveName(f[i], g[i])
  PROVE  Above(Items(f), Items(g))
<1>1. CASE \A i \in D : f[i] = g[i]
  <2>1. f = g
    BY <1>1
  <2> QED BY <2>1 DEF Above
<1>2. CASE \E i \in D : f[i] # g[i]
  <2>1. PICK i \in D : f[i] # g[i]
    BY <1>2
  <2>2. Gone \in Entries(g[i])
    <3>1. Entries(Gone) = {Gone}
      BY DEF Entries, Is, Gone
    <3> QED BY <2>1, <3>1 DEF AboveName
  <2>3. g[i] \in ToSet(g)
    BY <2>1 DEF ToSet
  <2> QED BY <2>2, <2>3, ItemsFacts, SourcesFacts DEF Above
<1> QED BY <1>1, <1>2

LEMMA ValueAbove ==
  ASSUME NEW c, NEW t, AboveEnv(c, t), NEW e
  PROVE  Above(Value(e, c), Value(e, t))
<1> DEFINE x == Unwrap(e)
<1>1. Value(e, c) = Resolve(x, c.vars, c.locals) /\ Value(e, t) = Resolve(x, t.vars, t.locals)
  BY DEF Value
<1> HIDE DEF x
<1>2. CASE ~Is(x, "items")
  <2>1. AboveName(Value(e, c), Value(e, t))
    BY <1>1, <1>2, ResolveIs, ScalarAbove
  <2> QED BY <2>1, AboveIs
<1>3. CASE Is(x, "items")
  <2> DEFINE D == DOMAIN x.items
             f == [k \in D |-> ResolveScalar(x.items[k], c.vars, c.locals)]
             g == [k \in D |-> ResolveScalar(x.items[k], t.vars, t.locals)]
  <2>1. Value(e, c) = Items(f) /\ Value(e, t) = Items(g)
    BY <1>1, <1>3 DEF Resolve
  <2>2. \A k \in D : AboveName(f[k], g[k])
    BY ScalarAbove
  <2>3. f = [k \in D |-> f[k]] /\ g = [k \in D |-> g[k]]
    OBVIOUS
  <2> HIDE DEF D, f, g
  <2> QED BY <2>1, <2>2, <2>3, ListAbove
<1> QED BY <1>2, <1>3

LEMMA RootAbove ==
  ASSUME AtEnd, cfg.entry # "cli", ~HasListLocal
  PROVE  /\ AboveEnv(CodeEnv, RootEnv)
         /\ \A e : AboveName(Value(e, CodeEnv), Value(e, RootEnv))
<1>1. CodeEnv = [vars |-> Vars, locals |-> known]
  BY DEF CodeEnv, Env
<1>2. \A n \in DOMAIN Meaning : n \in DOMAIN known /\ known[n] = Meaning[n]
  BY MeantLocalsAreKnown DEF AtEnd, TruthInv
<1>3. /\ \A x \in DOMAIN RootEnv.vars :
           x \in DOMAIN CodeEnv.vars /\ CodeEnv.vars[x] = RootEnv.vars[x]
      /\ \A x \in DOMAIN RootEnv.locals :
           x \in DOMAIN CodeEnv.locals /\ CodeEnv.locals[x] = RootEnv.locals[x]
  BY <1>1, <1>2 DEF RootEnv
<1>4. AboveEnv(CodeEnv, RootEnv)
  BY <1>3 DEF AboveEnv, AboveNames, AboveName
<1>5. ASSUME NEW e
      PROVE  LET v == ResolveScalar(e, CodeEnv.vars, CodeEnv.locals)
                 w == ResolveScalar(e, RootEnv.vars, RootEnv.locals)
             IN v = w \/ w = Gone
  <2>1. ASSUME NEW x
        PROVE  LET v == Lookup(x, CodeEnv.vars, CodeEnv.locals)
                   w == Lookup(x, RootEnv.vars, RootEnv.locals)
               IN v = w \/ w = Gone
    <3>1. CASE Is(x, "var")
      BY <1>3, <3>1, LookupIs
    <3>2. CASE Is(x, "local")
      BY <1>3, <3>2, LookupIs
    <3>3. CASE ~Is(x, "var") /\ ~Is(x, "local")
      BY <3>3, LookupIs
    <3> QED BY <3>1, <3>2, <3>3
  <2>2. CASE Is(e, "text")
    BY <2>1, <2>2, UnresolvedFacts DEF ResolveScalar, Interpolate
  <2>3. CASE ~Is(e, "text")
    BY <2>1, <2>3 DEF ResolveScalar
  <2> QED BY <2>2, <2>3
<1>6. ASSUME NEW e
      PROVE  AboveName(Value(e, CodeEnv), Value(e, RootEnv))
  <2> DEFINE x == Unwrap(e)
  <2>1. /\ Value(e, CodeEnv) = Resolve(x, CodeEnv.vars, CodeEnv.locals)
        /\ Value(e, RootEnv) = Resolve(x, RootEnv.vars, RootEnv.locals)
    BY DEF Value
  <2> HIDE DEF x
  <2>2. CASE ~Is(x, "items")
    BY <1>5, <2>1, <2>2, ResolveIs DEF AboveName
  <2>3. CASE Is(x, "items")
    <3> DEFINE D == DOMAIN x.items
               f == [k \in D |-> ResolveScalar(x.items[k], CodeEnv.vars, CodeEnv.locals)]
               g == [k \in D |-> ResolveScalar(x.items[k], RootEnv.vars, RootEnv.locals)]
    <3>1. Value(e, CodeEnv) = Items(f) /\ Value(e, RootEnv) = Items(g)
      BY <2>1, <2>3 DEF Resolve
    <3>2. \A k \in D : f[k] = g[k] \/ g[k] = Gone
      BY <1>5
    <3>3. f = [k \in D |-> f[k]] /\ g = [k \in D |-> g[k]]
      OBVIOUS
    <3> HIDE DEF D, f, g
    <3>4. CASE \A k \in D : f[k] = g[k]
      <4>1. f = g
        BY <3>3, <3>4
      <4> QED BY <3>1, <4>1 DEF AboveName
    <3>5. CASE \E k \in D : g[k] = Gone
      <4>1. Gone \in ToSet(g)
        BY <3>3, <3>5 DEF ToSet
      <4>2. Entries(Items(g)) = ToSet(g)
        BY ItemsFacts DEF Entries
      <4> QED BY <3>1, <4>1, <4>2, ItemsFacts DEF AboveName
    <3> QED BY <3>2, <3>4, <3>5
  <2> QED BY <2>2, <2>3
<1> QED BY <1>4, <1>6

LEMMA CallAbove ==
  ASSUME AtEnd, cfg.entry # "cli", ~HasListLocal, NEW n, NEW k, NEW i, k.each = i.each
  PROVE  AboveEnv(CallEnv(n, k), ModuleEnv(cfg.modules[n], i, RootEnv))
<1> DEFINE m == cfg.modules[n]
           f == [x \in DOMAIN m.args |-> Value(ForInstance(m.args[x], k), CodeEnv)]
           g == [x \in DOMAIN m.args |-> Value(ForInstance(m.args[x], i), RootEnv)]
<1>1. /\ CallEnv(n, k) = [vars |-> Overlay(f, m.defaults), locals |-> NoNames]
      /\ ModuleEnv(m, i, RootEnv) = [vars |-> Overlay(g, m.defaults), locals |-> NoNames]
  BY DEF CallEnv, ModuleEnv, Env
<1>2. \A e : ForInstance(e, k) = ForInstance(e, i)
  BY DEF ForInstance
<1>3. /\ DOMAIN f = DOMAIN m.args /\ DOMAIN g = DOMAIN m.args
      /\ \A x \in DOMAIN m.args : AboveName(f[x], g[x])
  BY <1>2, RootAbove
<1> HIDE DEF f, g
<1>4. AboveNames(Overlay(f, m.defaults), Overlay(g, m.defaults))
  <2> DEFINE fd == Overlay(f, m.defaults) gd == Overlay(g, m.defaults)
  <2>1. /\ DOMAIN fd = DOMAIN f \cup DOMAIN m.defaults
        /\ \A x \in DOMAIN f : fd[x] = f[x]
        /\ \A x \in DOMAIN m.defaults \ DOMAIN f : fd[x] = m.defaults[x]
    BY OverlayFacts
  <2>2. /\ DOMAIN gd = DOMAIN g \cup DOMAIN m.defaults
        /\ \A x \in DOMAIN g : gd[x] = g[x]
        /\ \A x \in DOMAIN m.defaults \ DOMAIN g : gd[x] = m.defaults[x]
    BY OverlayFacts
  <2> HIDE DEF fd, gd
  <2>3. ASSUME NEW x \in DOMAIN gd
        PROVE  x \in DOMAIN fd /\ AboveName(fd[x], gd[x])
    <3>1. CASE x \in DOMAIN m.args
      BY <1>3, <2>1, <2>2, <3>1
    <3>2. CASE x \notin DOMAIN m.args
      <4>1. fd[x] = gd[x] /\ x \in DOMAIN fd
        BY <1>3, <2>1, <2>2, <2>3, <3>2
      <4> QED BY <4>1 DEF AboveName
    <3> QED BY <3>1, <3>2
  <2>4. AboveNames(fd, gd)
    BY <2>3 DEF AboveNames
  <2> QED BY <2>4 DEF fd, gd
<1>5. AboveNames(NoNames, NoNames)
  BY DEF AboveNames, NoNames
<1> QED BY <1>1, <1>4, <1>5 DEF AboveEnv

-----------------------------------------------------------------------------
(* Where a declared resource is in the graph.                               *)

IsSite(s, prefix, a, b, i, env, unread) ==
  /\ s.at = <<prefix, a, i.each>> /\ s.b = b /\ s.i = i /\ s.env = env
  /\ s.unread = unread /\ i \in Instances(b, env)

RootSite(s, a) == \E i : IsSite(s, <<>>, a, cfg.blocks[a], i, RootEnv, FALSE)

ModuleSite(s, n, k, a) ==
  /\ k \in Calls(cfg.modules[n], RootEnv)
  /\ \E i : IsSite(s, <<n, k.each>>, a, cfg.modules[n].blocks[a], i,
                   ModuleEnv(cfg.modules[n], k, RootEnv),
                   cfg.entry # "modules" \/ k.lost # Absent)

LEMMA SitesAre ==
  ASSUME NEW s \in Sites
  PROVE  \/ \E a \in DOMAIN cfg.blocks : RootSite(s, a)
         \/ \E n \in DOMAIN cfg.modules :
              /\ cfg.modules[n].source = "local"
              /\ \E k : \E a \in DOMAIN cfg.modules[n].blocks : ModuleSite(s, n, k, a)
<1>1. ASSUME NEW bs, NEW prefix, NEW env, NEW unread, NEW x \in SitesOf(bs, prefix, env, unread)
      PROVE  \E a \in DOMAIN bs : \E i : IsSite(x, prefix, a, bs[a], i, env, unread)
  <2>1. PICK a \in DOMAIN bs :
          x \in {[at |-> <<prefix, a, i.each>>, b |-> bs[a], i |-> i, env |-> env,
                  unread |-> unread] : i \in Instances(bs[a], env)}
    BY <1>1 DEF SitesOf
  <2>2. PICK i \in Instances(bs[a], env) :
          x = [at |-> <<prefix, a, i.each>>, b |-> bs[a], i |-> i, env |-> env,
               unread |-> unread]
    BY <2>1
  <2>3. IsSite(x, prefix, a, bs[a], i, env, unread)
    BY <2>2 DEF IsSite
  <2> QED BY <2>3
<1>2. CASE s \in SitesOf(cfg.blocks, <<>>, RootEnv, FALSE)
  BY <1>1, <1>2 DEF RootSite
<1>3. CASE s \notin SitesOf(cfg.blocks, <<>>, RootEnv, FALSE)
  <2>1. PICK n \in {x \in DOMAIN cfg.modules : cfg.modules[x].source = "local"} :
          s \in UNION {SitesOf(cfg.modules[n].blocks, <<n, k.each>>,
                               ModuleEnv(cfg.modules[n], k, RootEnv),
                               cfg.entry # "modules" \/ k.lost # Absent) :
                         k \in Calls(cfg.modules[n], RootEnv)}
    BY <1>3 DEF Sites, SitesIn
  <2>2. PICK k \in Calls(cfg.modules[n], RootEnv) :
          s \in SitesOf(cfg.modules[n].blocks, <<n, k.each>>,
                        ModuleEnv(cfg.modules[n], k, RootEnv),
                        cfg.entry # "modules" \/ k.lost # Absent)
    BY <2>1
  <2>3. \E a \in DOMAIN cfg.modules[n].blocks : ModuleSite(s, n, k, a)
    BY <1>1, <2>2 DEF ModuleSite
  <2> QED BY <2>1, <2>3
<1> QED BY <1>2, <1>3

(* How an instance in the graph was made of the block of a site.             *)
MadeFor(s, i, env) ==
  IF cfg.entry = "cli" THEN i = Plain /\ env = NoEnv
  ELSE /\ BelowEnv(env, s.env) /\ i.each = s.i.each
       /\ i.lost = Absent <=> s.i.lost = Absent
       /\ i.lost # Absent => IsUnresolved(i.lost)
       /\ FirmLocals => FirmEnv(env, s.env)
       /\ ~HasListLocal => AboveEnv(env, s.env)

LEMMA BlocksAreBlocks ==
  ASSUME TypeInv
  PROVE  /\ AreBlocks(cfg.blocks)
         /\ \A n \in DOMAIN cfg.modules :
              /\ AreBlocks(cfg.modules[n].blocks)
              /\ \A c \in cfg.modules[n].calls \cup {"module"} :
                   c \notin DOMAIN cfg.modules[n].blocks
BY ConfigAssumption DEF TypeInv, AreCalls

LEMMA CliEnv == cfg.entry = "cli" => CodeEnv = NoEnv
BY DEF CodeEnv, Env, NoEnv

LEMMA AddressFacts ==
  /\ \A p, a, k, q, b, l : <<p, a, k>> = <<q, b, l>> <=> p = q /\ a = b /\ k = l
  /\ \A n, k : <<n, k>> # <<>>
  /\ \A n, k, m, l : <<n, k>> = <<m, l>> <=> n = m /\ k = l
  /\ \A p, a, k : <<p, a, k>>[1] = p /\ <<p, a, k>>[2] = a /\ <<p, a, k>>[3] = k
  /\ \A n, k : <<n, k>>[1] = n /\ <<n, k>>[2] = k
OBVIOUS

LEMMA InstanceMadeFor ==
  ASSUME NEW b, NEW env, NEW t, cfg.entry # "cli" => BelowEnv(env, t),
         cfg.entry # "cli" /\ FirmLocals => FirmEnv(env, t),
         cfg.entry # "cli" /\ ~HasListLocal => AboveEnv(env, t),
         cfg.entry = "cli" => env = NoEnv,
         NEW i \in Of(b, env), NEW s, s.i \in Instances(b, t), s.env = t,
         cfg.entry # "cli" => i.each = s.i.each
  PROVE  MadeFor(s, i, env)
<1>1. CASE cfg.entry = "cli"
  BY <1>1 DEF Of, MadeFor
<1>2. CASE cfg.entry # "cli"
  BY <1>2, OneInstance DEF Of, MadeFor
<1> QED BY <1>1, <1>2

LEMMA SiteOrigin ==
  ASSUME AtEnd, NEW s \in Sites, ~s.unread, NEW r, MadeAt(Node(s), r)
  PROVE  \E i, env : r = Built(s.b, i, env) /\ MadeFor(s, i, env)
<1>1. CASE \E a \in DOMAIN cfg.blocks : RootSite(s, a)
  <2>1. PICK a \in DOMAIN cfg.blocks : RootSite(s, a)
    BY <1>1
  <2>2. PICK j : IsSite(s, <<>>, a, cfg.blocks[a], j, RootEnv, FALSE)
    BY <2>1 DEF RootSite
  <2>3. Node(s) = <<<<>>, a, IF cfg.entry = "cli" THEN <<>> ELSE j.each>>
    BY <2>2 DEF Node, IsSite
  <2>4. PICK c \in DOMAIN cfg.blocks : \E i \in Of(cfg.blocks[c], CodeEnv) :
          Node(s) = <<<<>>, c, i.each>> /\ r = Built(cfg.blocks[c], i, CodeEnv)
    <3>1. InBlocks(cfg.blocks, <<>>, CodeEnv, Node(s), r)
      <4>1. \A n, k : ~InCall(n, k, Node(s), r)
        BY <2>3, AddressFacts DEF InCall, InBlocks
      <4> QED BY <4>1 DEF MadeAt
    <3> QED BY <3>1 DEF InBlocks
  <2>5. PICK i \in Of(cfg.blocks[c], CodeEnv) :
          Node(s) = <<<<>>, c, i.each>> /\ r = Built(cfg.blocks[c], i, CodeEnv)
    BY <2>4
  <2>6. c = a /\ (cfg.entry # "cli" => i.each = j.each)
    BY <2>3, <2>5, AddressFacts
  <2>7. MadeFor(s, i, CodeEnv)
    <3>1. cfg.entry # "cli" => BelowEnv(CodeEnv, RootEnv)
      BY RootBelow
    <3>2. cfg.entry # "cli" /\ FirmLocals => FirmEnv(CodeEnv, RootEnv)
      BY RootFirm
    <3>3. s.i = j /\ s.env = RootEnv /\ j \in Instances(cfg.blocks[a], RootEnv)
      BY <2>2 DEF IsSite
    <3>4. cfg.entry # "cli" /\ ~HasListLocal => AboveEnv(CodeEnv, RootEnv)
      BY RootAbove
    <3> QED BY <2>5, <2>6, <3>1, <3>2, <3>3, <3>4, CliEnv, InstanceMadeFor
  <2>8. s.b = cfg.blocks[a]
    BY <2>2 DEF IsSite
  <2> QED BY <2>5, <2>6, <2>7, <2>8
<1>2. CASE \E n \in DOMAIN cfg.modules : \E k : \E a \in DOMAIN cfg.modules[n].blocks :
             ModuleSite(s, n, k, a)
  <2>1. PICK n \in DOMAIN cfg.modules : \E k : \E a \in DOMAIN cfg.modules[n].blocks :
          ModuleSite(s, n, k, a)
    BY <1>2
  <2>2. PICK k : \E a \in DOMAIN cfg.modules[n].blocks : ModuleSite(s, n, k, a)
    BY <2>1
  <2>3. PICK a \in DOMAIN cfg.modules[n].blocks : ModuleSite(s, n, k, a)
    BY <2>2
  <2> DEFINE b == cfg.modules[n].blocks[a]
             t == ModuleEnv(cfg.modules[n], k, RootEnv)
  <2>4. PICK j : IsSite(s, <<n, k.each>>, a, b, j, t, cfg.entry # "modules" \/ k.lost # Absent)
    BY <2>3 DEF ModuleSite
  <2>5. cfg.entry = "modules" /\ k.lost = Absent
    BY <2>4 DEF IsSite
  <2>6. Node(s) = <<<<n, k.each>>, a, j.each>>
    BY <2>4, <2>5 DEF Node, IsSite
  <2>7. PICK m \in DOMAIN cfg.modules : \E l \in Calls(cfg.modules[m], CodeEnv) :
          InCall(m, l, Node(s), r)
    <3>1. ~InBlocks(cfg.blocks, <<>>, CodeEnv, Node(s), r)
      BY <2>6, AddressFacts DEF InBlocks
    <3> QED BY <3>1 DEF MadeAt
  <2>8. PICK l \in Calls(cfg.modules[m], CodeEnv) : InCall(m, l, Node(s), r)
    BY <2>7
  <2>9. m = n /\ l.each = k.each
    BY <2>6, <2>8, AddressFacts DEF InCall, InBlocks
  <2>10. InBlocks(cfg.modules[n].blocks, <<n, k.each>>, CallEnv(n, l), Node(s), r)
    <3>1. \A c \in cfg.modules[n].calls \cup {"module"} : c # a
      BY BlocksAreBlocks DEF AtEnd, TruthInv, IInv
    <3> QED BY <2>6, <2>8, <2>9, <3>1, AddressFacts DEF InCall
  <2>11. PICK c \in DOMAIN cfg.modules[n].blocks :
          \E i \in Of(cfg.modules[n].blocks[c], CallEnv(n, l)) :
          /\ Node(s) = <<<<n, k.each>>, c, i.each>>
          /\ r = Built(cfg.modules[n].blocks[c], i, CallEnv(n, l))
    BY <2>10 DEF InBlocks
  <2>12. PICK i \in Of(cfg.modules[n].blocks[c], CallEnv(n, l)) :
          /\ Node(s) = <<<<n, k.each>>, c, i.each>>
          /\ r = Built(cfg.modules[n].blocks[c], i, CallEnv(n, l))
    BY <2>11
  <2>13. c = a /\ i.each = j.each
    BY <2>6, <2>12, AddressFacts
  <2>14. BelowEnv(CallEnv(n, l), t)
    BY <2>5, <2>9, CallBelow
  <2>15. FirmLocals => FirmEnv(CallEnv(n, l), t)
    BY <2>5, <2>9, CallFirm
  <2>16. s.i = j /\ s.env = t /\ j \in Instances(b, t) /\ s.b = b
    BY <2>4 DEF IsSite
  <2>17. ~HasListLocal => AboveEnv(CallEnv(n, l), t)
    BY <2>5, <2>9, CallAbove
  <2> HIDE DEF b, t
  <2>18. MadeFor(s, i, CallEnv(n, l))
    BY <2>5, <2>12, <2>13, <2>14, <2>15, <2>16, <2>17, InstanceMadeFor DEF b
  <2> QED BY <2>12, <2>13, <2>16, <2>18 DEF b
<1> QED BY <1>1, <1>2, SitesAre

(* What was read is there.                                                  *)
LEMMA SiteMade ==
  ASSUME AtEnd, NEW s \in Sites, ~NotRead(s)
  PROVE  Node(s) \in DOMAIN graph
<1> SUFFICES ASSUME Node(s) \notin DOMAIN graph PROVE Displaced(s)
  BY DEF NotRead
<1>1. AllMade
  BY DEF AtEnd, TruthInv, MadeInv
<1>2. CASE \E a \in DOMAIN cfg.blocks : RootSite(s, a)
  <2>1. PICK a \in DOMAIN cfg.blocks : RootSite(s, a)
    BY <1>2
  <2>2. PICK j : IsSite(s, <<>>, a, cfg.blocks[a], j, RootEnv, FALSE)
    BY <2>1 DEF RootSite
  <2>3. Node(s) = <<<<>>, a, IF cfg.entry = "cli" THEN <<>> ELSE j.each>>
    BY <2>2 DEF Node, IsSite
  <2>4. \A i \in Of(cfg.blocks[a], CodeEnv) : <<<<>>, a, i.each>> \in DOMAIN graph
    BY <1>1 DEF AllMade, BlocksMade
  <2>5. cfg.entry # "cli"
    <3> SUFFICES ASSUME cfg.entry = "cli" PROVE FALSE
      OBVIOUS
    <3>1. Plain \in Of(cfg.blocks[a], CodeEnv)
      BY DEF Of
    <3> QED BY <2>3, <2>4, <3>1, InstanceFacts
  <2>6. PICK i \in Instances(cfg.blocks[a], CodeEnv) : i.each = j.each \/ LostKey(i.each)
    <3>1. j \in Instances(cfg.blocks[a], RootEnv)
      BY <2>2 DEF IsSite
    <3> QED BY <2>5, <3>1, RootBelow, InstancesMeet
  <2> DEFINE x == <<<<>>, a, i.each>>
  <2>7. x \in DOMAIN graph
    BY <2>4, <2>5, <2>6 DEF Of
  <2>8. LostKey(i.each)
    BY <2>3, <2>5, <2>6, <2>7
  <2>9. x[1] = s.at[1] /\ x[2] = s.at[2] /\ LostKey(x[3])
    <3>1. s.at = <<<<>>, a, j.each>>
      BY <2>2 DEF IsSite
    <3> QED BY <2>8, <3>1, AddressFacts
  <2> HIDE DEF x
  <2> QED BY <2>7, <2>9 DEF Displaced
<1>3. CASE \E n \in DOMAIN cfg.modules :
              /\ cfg.modules[n].source = "local"
              /\ \E k : \E a \in DOMAIN cfg.modules[n].blocks : ModuleSite(s, n, k, a)
  <2>1. PICK n \in DOMAIN cfg.modules :
          /\ cfg.modules[n].source = "local"
          /\ \E k : \E a \in DOMAIN cfg.modules[n].blocks : ModuleSite(s, n, k, a)
    BY <1>3
  <2>2. PICK k : \E a \in DOMAIN cfg.modules[n].blocks : ModuleSite(s, n, k, a)
    BY <2>1
  <2>3. PICK a \in DOMAIN cfg.modules[n].blocks : ModuleSite(s, n, k, a)
    BY <2>2
  <2> DEFINE m == cfg.modules[n]
             b == cfg.modules[n].blocks[a]
             t == ModuleEnv(cfg.modules[n], k, RootEnv)
  <2>4. k \in Calls(m, RootEnv)
    BY <2>3 DEF ModuleSite
  <2>5. PICK j : IsSite(s, <<n, k.each>>, a, b, j, t, cfg.entry # "modules" \/ k.lost # Absent)
    BY <2>3 DEF ModuleSite
  <2>6. cfg.entry = "modules" /\ s.at = <<<<n, k.each>>, a, j.each>> /\ Node(s) = s.at
    BY <2>5 DEF IsSite, NotRead, Node
  <2>7. PICK l \in Calls(m, CodeEnv) : (l.each = k.each /\ l.lost = Absent) \/ LostKey(l.each)
    BY <2>4, <2>6, RootBelow, CallsMeet
  <2>8. CASE LostKey(l.each)
    <3>1. s.at[1] # <<>> /\ s.at[1][1] = n
      BY <2>6, AddressFacts
    <3> QED BY <2>7, <2>8, <3>1 DEF Displaced, CodeEnv
  <2>9. CASE l.each = k.each /\ l.lost = Absent
    <3>1. \A i \in Of(b, CallEnv(n, l)) : <<<<n, k.each>>, a, i.each>> \in DOMAIN graph
      BY <1>1, <2>1, <2>6, <2>7, <2>9 DEF AllMade, CallsMade, BlocksMade
    <3>2. j \in Instances(b, t)
      BY <2>5 DEF IsSite
    <3>3. PICK i \in Instances(b, CallEnv(n, l)) : i.each = j.each \/ LostKey(i.each)
      BY <2>6, <2>9, <3>2, CallBelow, InstancesMeet
    <3> DEFINE x == <<<<n, k.each>>, a, i.each>>
    <3>4. x \in DOMAIN graph
      BY <2>6, <3>1, <3>3 DEF Of
    <3>5. LostKey(i.each)
      BY <2>6, <3>3, <3>4
    <3>6. x[1] = s.at[1] /\ x[2] = s.at[2] /\ LostKey(x[3])
      BY <2>6, <3>5, AddressFacts
    <3> HIDE DEF x
    <3> QED BY <3>4, <3>6 DEF Displaced
  <2> QED BY <2>7, <2>8, <2>9
<1> QED BY <1>2, <1>3, SitesAre

(* A place in the graph has the type of the block that is declared there.    *)
LEMMA MadeType ==
  ASSUME AtEnd, NEW s \in Sites, NEW x, NEW r, MadeAt(x, r), x[1] = s.at[1], x[2] = s.at[2]
  PROVE  r.type = s.b.type
<1>1. \A b, i, env : Built(b, i, env).type = b.type
  BY BuiltFields
<1>2. CASE \E a \in DOMAIN cfg.blocks : RootSite(s, a)
  <2>1. PICK a \in DOMAIN cfg.blocks : RootSite(s, a)
    BY <1>2
  <2>2. PICK j : IsSite(s, <<>>, a, cfg.blocks[a], j, RootEnv, FALSE)
    BY <2>1 DEF RootSite
  <2>3. x[1] = <<>> /\ x[2] = a /\ s.b = cfg.blocks[a]
    <3>1. s.at = <<<<>>, a, j.each>> /\ s.b = cfg.blocks[a]
      BY <2>2 DEF IsSite
    <3>2. s.at[1] = <<>> /\ s.at[2] = a
      BY <3>1
    <3> QED BY <3>1, <3>2
  <2>4. ASSUME NEW n, NEW k, InCall(n, k, x, r) PROVE FALSE
    <3>1. x[1] = <<n, k.each>>
      BY <2>4, AddressFacts DEF InCall, InBlocks
    <3>2. <<n, k.each>> # <<>>
      OBVIOUS
    <3> QED BY <2>3, <3>1, <3>2
  <2>5. InBlocks(cfg.blocks, <<>>, CodeEnv, x, r)
    BY <2>4 DEF MadeAt
  <2> QED BY <1>1, <2>3, <2>5, AddressFacts DEF InBlocks
<1>3. CASE \E n \in DOMAIN cfg.modules : \E k : \E a \in DOMAIN cfg.modules[n].blocks :
             ModuleSite(s, n, k, a)
  <2>1. PICK n \in DOMAIN cfg.modules : \E k : \E a \in DOMAIN cfg.modules[n].blocks :
          ModuleSite(s, n, k, a)
    BY <1>3
  <2>2. PICK k : \E a \in DOMAIN cfg.modules[n].blocks : ModuleSite(s, n, k, a)
    BY <2>1
  <2>3. PICK a \in DOMAIN cfg.modules[n].blocks : ModuleSite(s, n, k, a)
    BY <2>2
  <2>4. x[1] = <<n, k.each>> /\ x[2] = a /\ s.b = cfg.modules[n].blocks[a]
    BY <2>3, AddressFacts DEF ModuleSite, IsSite
  <2>5. ~InBlocks(cfg.blocks, <<>>, CodeEnv, x, r)
    BY <2>4, AddressFacts DEF InBlocks
  <2>6. PICK m \in DOMAIN cfg.modules : \E l \in Calls(cfg.modules[m], CodeEnv) :
          InCall(m, l, x, r)
    BY <2>5 DEF MadeAt
  <2>7. PICK l \in Calls(cfg.modules[m], CodeEnv) : InCall(m, l, x, r)
    BY <2>6
  <2>8. m = n
    BY <2>4, <2>7, AddressFacts DEF InCall, InBlocks
  <2>9. \A c \in cfg.modules[n].calls \cup {"module"} : c # a
    BY BlocksAreBlocks DEF AtEnd, TruthInv, IInv
  <2>10. InBlocks(cfg.modules[n].blocks, <<n, l.each>>, CallEnv(n, l), x, r)
    BY <2>4, <2>7, <2>8, <2>9, AddressFacts DEF InCall
  <2> QED BY <1>1, <2>4, <2>10, AddressFacts DEF InBlocks
<1> QED BY <1>2, <1>3, SitesAre

LEMMA TypeOfSite ==
  ASSUME AtEnd, NEW h, AttachedFrom(h), NEW s \in Sites, NEW x \in DOMAIN graph,
         x[1] = s.at[1], x[2] = s.at[2]
  PROVE  graph[x].type = s.b.type /\ h[x].type = s.b.type
<1>1. PICK r : MadeAt(x, r) /\ h[x] = Referred(r, x)
  BY DEF AttachedFrom, IsFirst
<1>2. h[x].type = r.type
  BY <1>1, MadeIs, ReferredFields
<1>3. r.type = s.b.type
  BY <1>1, MadeType
<1>4. graph[x].type = h[x].type
  BY DEF AttachedFrom, SameFrom
<1> QED BY <1>2, <1>3, <1>4

(* A declared resource as ResolveReferences left it.                        *)
LEMMA SiteFirst ==
  ASSUME AtEnd, NEW h, AttachedFrom(h), NEW s \in Sites, ~s.unread, Node(s) \in DOMAIN graph
  PROVE  /\ graph[Node(s)].type = s.b.type /\ h[Node(s)].type = s.b.type
         /\ \E i, env : h[Node(s)] = Referred(Built(s.b, i, env), Node(s)) /\ MadeFor(s, i, env)
<1>1. PICK r : MadeAt(Node(s), r) /\ h[Node(s)] = Referred(r, Node(s))
  BY DEF AttachedFrom, IsFirst
<1>2. \E i, env : r = Built(s.b, i, env) /\ MadeFor(s, i, env)
  BY <1>1, SiteOrigin
<1>3. Node(s)[1] = s.at[1] /\ Node(s)[2] = s.at[2]
  BY DEF Node
<1> QED BY <1>1, <1>2, <1>3, TypeOfSite

LEMMA MadeForBelow ==
  ASSUME NEW s, NEW i, NEW env, MadeFor(s, i, env), NEW e
  PROVE  Below(AttrOf(e, i, env), True(s, e))
<1>1. \A v : IsUnresolved(v) => ~Whole(v)
  BY UnresolvedFacts
<1> QED BY <1>1, AttrBelow DEF MadeFor

-----------------------------------------------------------------------------
(* References in the rules.                                                 *)
To(v, a) == ReferTo(v, a, DOMAIN graph)

LEMMA ToIs ==
  ASSUME NEW v, NEW a
  PROVE  /\ ~Is(v, "items") /\ ~Is(v, "res") => To(v, a) = v
         /\ Is(v, "res") => To(v, a) = v \/ \E x : To(v, a) = Ref(x)
         /\ Is(v, "items") =>
              /\ Is(To(v, a), "items") /\ DOMAIN To(v, a).items = DOMAIN v.items
              /\ \A k \in DOMAIN v.items :
                   /\ ~Is(v.items[k], "res") => To(v, a).items[k] = v.items[k]
                   /\ Is(v.items[k], "res") =>
                        To(v, a).items[k] = v.items[k] \/ \E x : To(v, a).items[k] = Ref(x)
<1>1. \A x : ReferenceOf(x, a, DOMAIN graph) = x \/ \E y : ReferenceOf(x, a, DOMAIN graph) = Ref(y)
  BY DEF ReferenceOf
<1> DEFINE One(x) == IF Is(x, "res") THEN ReferenceOf(x, a, DOMAIN graph) ELSE x
           f == [k \in DOMAIN v.items |-> One(v.items[k])]
<1>2. CASE Is(v, "items") /\ \E k \in DOMAIN v.items : Is(v.items[k], "res")
  <2>1. To(v, a) = Items(f)
    BY <1>2 DEF To, ReferTo
  <2>2. DOMAIN f = DOMAIN v.items /\ \A k \in DOMAIN v.items : f[k] = One(v.items[k])
    OBVIOUS
  <2>3. ~Is(v, "res")
    BY <1>2 DEF Is
  <2> HIDE DEF f
  <2> QED BY <1>1, <1>2, <2>1, <2>2, <2>3, ItemsFacts
<1>3. CASE Is(v, "items") /\ ~\E k \in DOMAIN v.items : Is(v.items[k], "res")
  <2>1. ~Is(v, "res")
    BY <1>3 DEF Is
  <2>2. To(v, a) = v
    BY <1>3, <2>1 DEF To, ReferTo
  <2> QED BY <1>3, <2>1, <2>2
<1>4. CASE ~Is(v, "items")
  <2>1. To(v, a) = One(v)
    BY <1>4 DEF To, ReferTo
  <2> QED BY <1>1, <1>4, <2>1
<1> QED BY <1>2, <1>3, <1>4

LEMMA FormsApart ==
  /\ \A v : Is(v, "lit") => ~Is(v, "items") /\ ~Is(v, "res") /\ ~Is(v, "ref") /\ ~Is(v, "gone")
  /\ \A v : Is(v, "items") => ~Is(v, "res") /\ ~Is(v, "ref") /\ ~Is(v, "gone")
  /\ \A v : Is(v, "res") => ~Is(v, "ref") /\ ~Is(v, "gone")
  /\ \A v : Is(v, "gone") => ~Is(v, "ref")
  /\ \A x : Is(Ref(x), "ref") /\ Is(Lit(x), "lit") /\ Lit(x).lit = x
  /\ ~Is(Absent, "lit") /\ ~Is(Absent, "items") /\ ~Is(Absent, "res") /\ ~Is(Absent, "ref")
BY DEF Is, Ref, Lit, Absent

(* An entry that is open to the public stays open.                          *)
LEMMA PublicStays ==
  ASSUME NEW x, NEW y, PublicCidr(x), ~Is(x, "res") => y = x,
         Is(x, "res") => y = x \/ \E z : y = Ref(z)
  PROVE  PublicCidr(y)
BY FormsApart DEF PublicCidr

(* One that is not known is open.                                           *)
LEMMA UnknownIsPublic ==
  ASSUME NEW x, ~IsKnown(x)
  PROVE  PublicCidr(x)
<1>1. ListText \notin DOMAIN Cidr
  BY TruthAssumption
<1>2. CASE Is(x, "lit")
  <2>1. ~IsUnresolved(x) /\ x # Absent /\ ~Is(x, "items")
    BY <1>2, FormsApart DEF IsUnresolved
  <2>2. x = Lit(ListText)
    BY <2>1 DEF IsKnown
  <2>3. x.lit = ListText
    BY <2>2, FormsApart
  <2> QED BY <1>1, <2>3 DEF PublicCidr
<1> QED BY <1>2 DEF PublicCidr

LEMMA ListOfIs ==
  /\ \A v : v # Absent => ToSet(ListOf(v)) = Entries(v)
  /\ ToSet(ListOf(Absent)) = {}
<1>1. ASSUME NEW v, v # Absent PROVE ToSet(ListOf(v)) = Entries(v)
  BY <1>1, ShortSets DEF ListOf, Entries
<1>2. ToSet(ListOf(Absent)) = {}
  BY ShortSets DEF ListOf
<1> QED BY <1>1, <1>2

LEMMA PortBelow ==
  ASSUME NEW v, NEW w, Below(v, w), PortOf(w) = Absent \/ IsPortSensitive(PortOf(w))
  PROVE  IsPortSensitive(PortOf(v))
<1>1. CASE v = w
  BY <1>1 DEF IsPortSensitive
<1>2. CASE v # Absent /\ ~Whole(v)
  <2>1. PortOf(v) = Absent
    <3> SUFFICES ASSUME Is(v, "lit"), v.lit \in DOMAIN Number PROVE FALSE
      BY DEF PortOf
    <3>1. ~Is(v, "items") /\ ~IsUnresolved(v) /\ v # Absent
      BY FormsApart DEF IsUnresolved
    <3>2. v # Lit(ListText)
      BY TruthAssumption, FormsApart
    <3> QED BY <1>2, <3>1, <3>2, SourcesFacts DEF Whole, IsKnown
  <2> QED BY <2>1 DEF IsPortSensitive
<1> QED BY <1>1, <1>2 DEF Below

LEMMA PortIs ==
  ASSUME NEW v
  PROVE  /\ PortOf(v) = Absent \/ (Is(PortOf(v), "lit") /\ PortOf(v) = v /\ v.lit \in DOMAIN Number)
         /\ \A a : To(PortOf(v), a) = PortOf(v)
<1>1. PortOf(v) = Absent \/ (Is(PortOf(v), "lit") /\ PortOf(v) = v /\ v.lit \in DOMAIN Number)
  BY DEF PortOf
<1>2. \A x : ~Is(x, "items") /\ ~Is(x, "res") => \A a : To(x, a) = x
  BY ToIs
<1> QED BY <1>1, <1>2, FormsApart

LEMMA CidrBelow ==
  ASSUME NEW v, NEW w, Below(v, w), NEW x \in ToSet(ListOf(w)), PublicCidr(x)
  PROVE  \E y \in ToSet(ListOf(v)) : PublicCidr(y)
<1>1. CASE v = w
  BY <1>1
<1>2. CASE v # Absent /\ ~Whole(v)
  <2>1. PICK y \in Sources(v) : ~IsKnown(y)
    BY <1>2 DEF Whole
  <2>2. PICK z \in Entries(v) : y \in Entries(z)
    BY <2>1 DEF Sources
  <2>3. PublicCidr(z)
    <3>1. CASE Is(z, "items")
      BY <3>1, FormsApart DEF PublicCidr
    <3>2. CASE ~Is(z, "items")
      <4>1. z = y
        BY <2>2, <3>2 DEF Entries
      <4> QED BY <2>1, <4>1, UnknownIsPublic
    <3> QED BY <3>1, <3>2
  <2> QED BY <1>2, <2>2, <2>3, ListOfIs
<1> QED BY <1>1, <1>2 DEF Below

LEMMA SgReferred ==
  ASSUME NEW q, DOMAIN q = {"port", "cidr"}, NEW a, NEW y \in ToSet(q.cidr), PublicCidr(y)
  PROVE  /\ RuleReferTo(q, a).port = To(q.port, a)
         /\ \E k \in DOMAIN RuleReferTo(q, a).cidr : PublicCidr(RuleReferTo(q, a).cidr[k])
<1>1. /\ RuleReferTo(q, a).port = To(q.port, a)
      /\ RuleReferTo(q, a).cidr = To(Items(q.cidr), a).items
  BY DEF RuleReferTo, Has, To
<1>2. PICK k \in DOMAIN q.cidr : q.cidr[k] = y
  BY DEF ToSet
<1> DEFINE v == Items(q.cidr)
<1>3. Is(v, "items") /\ v.items = q.cidr
  BY ItemsFacts
<1> HIDE DEF v
<1>4. /\ DOMAIN To(v, a).items = DOMAIN q.cidr
      /\ ~Is(y, "res") => To(v, a).items[k] = y
      /\ Is(y, "res") => To(v, a).items[k] = y \/ \E x : To(v, a).items[k] = Ref(x)
  BY <1>2, <1>3, ToIs
<1>5. PublicCidr(To(v, a).items[k])
  BY <1>4, PublicStays
<1> QED BY <1>1, <1>4, <1>5 DEF v

(* The rules of a security group that is declared harmful.                   *)
LEMMA SgSiteAlarms ==
  ASSUME NEW s, NEW i, NEW env, MadeFor(s, i, env), s.b.type \in SgTypes, SgHarm(s),
         ~BlocksVanished(s), NEW x
  PROVE  \E q \in ToSet(Referred(Built(s.b, i, env), x).rules) : SgStop(q) # "none" \/ Opens(q)
<1> DEFINE r == Built(s.b, i, env)
<1>1. \A q : q \in ToSet(Referred(r, x).rules) <=>
             \E p \in ToSet(r.rules) : q = RuleReferTo(p, x)
  BY BuiltFields, ReferredRules
<1>2. CASE i.lost # Absent
  <2>1. cfg.entry # "cli" /\ s.i.lost # Absent /\ IsUnresolved(i.lost)
    BY <1>2, InstanceFacts DEF MadeFor
  <2>2. s.b.type = "sgrule"
    BY <2>1 DEF BlocksVanished, SgTypes
  <2>3. SgLost(i.lost) \in ToSet(r.rules)
    BY <1>2, <2>2, SgBuilt
  <2> DEFINE q == RuleReferTo(SgLost(i.lost), x)
  <2>4. q.port = To(i.lost, x)
    BY DEF RuleReferTo, SgLost, Has, To
  <2>5. IsUnresolved(q.port) \/ Is(q.port, "ref")
    BY <2>1, <2>4, ToIs, FormsApart DEF IsUnresolved
  <2>6. SgStop(q) # "none"
    <3> HIDE DEF q
    <3> QED BY <2>5 DEF SgStop
  <2> QED BY <1>1, <2>3, <2>6
<1>3. CASE i.lost = Absent
  <2>1. PICK k \in DOMAIN s.b.rules :
          LET p == PortOf(True(s, s.b.rules[k].port))
              nets == ToSet(ListOf(True(s, s.b.rules[k].cidr)))
          IN (p = Absent \/ p.lit \in SensitivePorts) /\ \E v \in nets : PublicCidr(v)
    BY DEF SgHarm
  <2> DEFINE e == s.b.rules[k]
             q == SgRule(e, i, env)
  <2>2. q \in ToSet(r.rules)
    BY <1>3, SgBuilt
  <2>3. /\ DOMAIN q = {"port", "cidr"} /\ q.port = PortOf(AttrOf(e.port, i, env))
        /\ q.cidr = ListOf(AttrOf(e.cidr, i, env))
    BY DEF SgRule
  <2> HIDE DEF r, q, e
  <2>4. IsPortSensitive(q.port) /\ To(q.port, x) = q.port
    BY <2>1, <2>3, MadeForBelow, PortBelow, PortIs DEF IsPortSensitive, e
  <2>5. \E y \in ToSet(q.cidr) : PublicCidr(y)
    BY <2>1, <2>3, MadeForBelow, CidrBelow DEF e
  <2>6. Opens(RuleReferTo(q, x))
    BY <2>3, <2>4, <2>5, SgReferred DEF Opens
  <2> QED BY <1>1, <2>2, <2>6 DEF r
<1> QED BY <1>2, <1>3

-----------------------------------------------------------------------------
(* Nothing is found.                                                        *)
AllUnsat == \A a \in DOMAIN verdicts : verdicts[a] = "unsat"

LEMMA VerdictIs ==
  ASSUME NEW r
  PROVE  /\ r.type \in SgTypes => Verdict(r) = VerifySecurityGroup(r.rules)
         /\ r.type \in NsgTypes => Verdict(r) = VerifyAzureNsg(r.rules)
         /\ r.type \in IamTypes => Verdict(r) = VerifyIamPolicy(r.rules)
BY TypesApart DEF Verdict

LEMMA UnsatIs ==
  ASSUME AtEnd, AllUnsat, NEW a \in DOMAIN graph, graph[a].merged = None
  PROVE  /\ IsList(graph[a].rules) /\ graph[a].rules \in Seq(ToSet(graph[a].rules))
         /\ graph[a].type \in SgTypes => VerifySecurityGroup(graph[a].rules) = "unsat"
         /\ graph[a].type \in NsgTypes => VerifyAzureNsg(graph[a].rules) = "unsat"
         /\ graph[a].type \in IamTypes => VerifyIamPolicy(graph[a].rules) = "unsat"
<1>1. TypeInv /\ GraphInv /\ phase = "done" /\ Terraform
  BY DEF AtEnd, TruthInv, IInv
<1>2. IsList(graph[a].rules)
  BY <1>1 DEF GraphInv, IsResource
<1>3. graph[a].type \in Verified => Verdict(graph[a]) = "unsat"
  BY <1>1 DEF AllUnsat, GraphInv, ToVerify
<1> QED BY <1>2, <1>3, VerdictIs DEF Verified, IsList

LEMMA MembersAre ==
  ASSUME NEW l, IsList(l)
  PROVE  \A q : q \in ToSet(l) <=> \E k \in 1..Len(l) : l[k] = q
<1>1. DOMAIN l = 1..Len(l)
  BY ListDomain
<1> QED BY <1>1 DEF ToSet

(* What the rules of a resource have come to: where it was merged, if it was. *)
Carrier(x) == IF graph[x].merged = None THEN x ELSE graph[x].merged

LEMMA CarrierIs ==
  ASSUME AtEnd, NEW h, AttachedFrom(h), NEW x \in DOMAIN graph, ~Misplaced(x)
  PROVE  /\ Carrier(x) \in DOMAIN graph /\ graph[Carrier(x)].merged = None
         /\ h[x].type # "attachment" =>
              ToSet(h[x].rules) \subseteq ToSet(graph[Carrier(x)].rules)
         /\ graph[Carrier(x)].type =
              IF graph[x].merged = None THEN graph[x].type ELSE ParentType(graph[x].type)
         /\ graph[x].merged # None => ParentType(graph[x].type) # None
<1>1. CASE graph[x].merged = None
  BY <1>1 DEF Carrier, AttachedFrom, RulesFrom
<1>2. CASE graph[x].merged # None
  <2>1. /\ graph[graph[x].merged].type = ParentType(graph[x].type)
        /\ graph[graph[x].merged].merged = None
    BY <1>2 DEF Misplaced
  <2>2. graph[x].type = h[x].type
    BY DEF AttachedFrom, SameFrom
  <2> QED BY <1>2, <2>1, <2>2 DEF Carrier, AttachedFrom, MergedFrom
<1> QED BY <1>1, <1>2

LEMMA SgSafe ==
  ASSUME AtEnd, AllUnsat, NEW s \in Sites, s.b.type \in SgTypes, ~NotRead(s),
         ~BlocksVanished(s), ~Misplaced(Node(s))
  PROVE  ~SgHarm(s)
<1> SUFFICES ASSUME SgHarm(s) PROVE FALSE
  OBVIOUS
<1> DEFINE x == Node(s) c == Carrier(x)
<1>1. PICK h : AttachedFrom(h)
  BY DEF AtEnd, TruthInv, MadeInv
<1>2. x \in DOMAIN graph
  BY SiteMade
<1>3. ~s.unread
  BY DEF NotRead
<1>4. PICK i, env : h[x] = Referred(Built(s.b, i, env), x) /\ MadeFor(s, i, env)
  BY <1>1, <1>2, <1>3, SiteFirst
<1>5. PICK q \in ToSet(h[x].rules) : SgStop(q) # "none" \/ Opens(q)
  BY <1>4, SgSiteAlarms
<1>6. graph[x].type = s.b.type /\ h[x].type = s.b.type
  BY <1>1, <1>2, <1>3, SiteFirst
<1>7. s.b.type # "attachment" /\ (ParentType(s.b.type) # None => ParentType(s.b.type) \in SgTypes)
  BY DEF SgTypes, ParentType
<1> HIDE DEF x
<1>8. /\ c \in DOMAIN graph /\ graph[c].merged = None /\ graph[c].type \in SgTypes
      /\ ToSet(h[x].rules) \subseteq ToSet(graph[c].rules)
  BY <1>1, <1>2, <1>6, <1>7, CarrierIs DEF x
<1> HIDE DEF c
<1>9. VerifySecurityGroup(graph[c].rules) = "unsat" /\ IsList(graph[c].rules)
  BY <1>8, UnsatIs
<1>10. PICK k \in 1..Len(graph[c].rules) : graph[c].rules[k] = q
  BY <1>5, <1>8, <1>9, MembersAre
<1> QED BY <1>5, <1>9, <1>10, SgVerdictIsHarm

-----------------------------------------------------------------------------
(* Where a rule or policy belongs is at most one place.                      *)
LEMMA NamedByOne ==
  ASSUME NEW v, NEW s, NEW type, NEW a \in NamedBy(v, s, type), NEW b \in NamedBy(v, s, type)
  PROVE  a = b
<1> DEFINE named == {t \in Sites : t.b.type = type /\ Is(v, "lit") /\ True(t, t.b.name) = v}
<1>1. NamedBy(v, s, type) =
        IF Is(v, "res") THEN {<<s.at[1], v.res[2], v.res[3]>>}
        ELSE {t.at : t \in {x \in named : named = {x}}}
  BY DEF NamedBy
<1> HIDE DEF named
<1>2. CASE Is(v, "res")
  BY <1>1, <1>2
<1>3. CASE ~Is(v, "res")
  <2>1. PICK t \in named : named = {t} /\ a = t.at
    BY <1>1, <1>3
  <2>2. PICK u \in named : named = {u} /\ b = u.at
    BY <1>1, <1>3
  <2> QED BY <2>1, <2>2
<1> QED BY <1>2, <1>3

LEMMA HomeOne ==
  ASSUME NEW s, NEW a \in Home(s), NEW b \in Home(s)
  PROVE  a = b /\ ParentType(s.b.type) # None
BY NamedByOne DEF Home

(* What is not astray is merged into what is declared to be its home.        *)
LEMMA HomeOf ==
  ASSUME AtEnd, NEW h, AttachedFrom(h), NEW t \in Sites, ~NotRead(t), ~Astray(t),
         graph[Node(t)].merged # None
  PROVE  LET m == graph[Node(t)].merged IN
         /\ m \in DOMAIN graph /\ m \in Home(t)
         /\ \E u \in Sites : u.at = m /\ u.b.type = graph[m].type
         /\ t.b.type = "sgrule" \/ graph[m].type = ParentType(t.b.type)
<1> DEFINE m == graph[Node(t)].merged
<1>1. m \in {u.at : u \in {y \in Sites : y.at \in Home(t)}}
  BY DEF Astray
<1>2. PICK u \in Sites : u.at = m /\ u.at \in Home(t)
  BY <1>1
<1>3. Node(t) \in DOMAIN graph /\ ~t.unread
  BY SiteMade DEF NotRead
<1>4. m \in DOMAIN graph /\ (h[Node(t)].type = "sgrule" \/ graph[m].type = ParentType(h[Node(t)].type))
  BY <1>3 DEF AttachedFrom, MergedFrom
<1>5. h[Node(t)].type = t.b.type
  BY <1>3, SiteFirst
<1>6. graph[m].type = u.b.type
  BY <1>2, <1>4, TypeOfSite
<1> QED BY <1>2, <1>4, <1>5, <1>6

(* A place that two sites share in the graph of the CLI.                     *)
LEMMA CliKeys ==
  ASSUME AtEnd, cfg.entry = "cli", NEW x, NEW r, MadeAt(x, r)
  PROVE  x[1] = <<>> /\ x[3] = <<>>
<1>1. InBlocks(cfg.blocks, <<>>, CodeEnv, x, r)
  BY DEF MadeAt
<1>2. PICK a \in DOMAIN cfg.blocks : \E i \in Of(cfg.blocks[a], CodeEnv) : x = <<<<>>, a, i.each>>
  BY <1>1 DEF InBlocks
<1>3. PICK i \in Of(cfg.blocks[a], CodeEnv) : x = <<<<>>, a, i.each>>
  BY <1>2
<1>4. i.each = <<>>
  BY InstanceFacts DEF Of
<1> QED BY <1>3, <1>4

LEMMA SiteAt ==
  ASSUME NEW s \in Sites
  PROVE  s.at = <<s.at[1], s.at[2], s.at[3]>> /\ s.at[3] = s.i.each
<1>1. \A a : RootSite(s, a) => s.at = <<<<>>, a, s.i.each>>
  BY DEF RootSite, IsSite
<1>2. \A n, k, a : ModuleSite(s, n, k, a) => s.at = <<<<n, k.each>>, a, s.i.each>>
  BY DEF ModuleSite, IsSite
<1>3. \E p, a : s.at = <<p, a, s.i.each>>
  BY <1>1, <1>2, SitesAre
<1> QED BY <1>3

(* A place of the graph that is that of a site is its node.                  *)
LEMMA NodeOfPlace ==
  ASSUME AtEnd, NEW h, AttachedFrom(h), NEW s \in Sites, s.at \in DOMAIN graph
  PROVE  Node(s) = s.at
<1>1. CASE cfg.entry # "cli"
  BY <1>1 DEF Node
<1>2. CASE cfg.entry = "cli"
  <2>1. PICK r : MadeAt(s.at, r)
    BY DEF AttachedFrom, IsFirst
  <2>2. s.at[3] = <<>>
    BY <1>2, <2>1, CliKeys
  <2> QED BY <2>2, SiteAt DEF Node
<1> QED BY <1>1, <1>2

LEMMA NodeShared ==
  ASSUME AtEnd, NEW s \in Sites, ~s.unread, NEW u \in Sites, u.at = Node(s)
  PROVE  s.at = Node(s)
<1>1. CASE cfg.entry # "cli"
  BY <1>1 DEF Node
<1>2. CASE cfg.entry = "cli"
  <2>1. ASSUME NEW t \in Sites, t.at[1] = <<>>
        PROVE  t.i \in Instances(cfg.blocks[t.at[2]], RootEnv)
    <3>1. ASSUME NEW n, NEW k, NEW a, ModuleSite(t, n, k, a) PROVE FALSE
      <4>1. t.at[1] = <<n, k.each>>
        BY <3>1, AddressFacts DEF ModuleSite, IsSite
      <4>2. <<n, k.each>> # <<>>
        OBVIOUS
      <4> QED BY <2>1, <4>1, <4>2
    <3>2. PICK a \in DOMAIN cfg.blocks : RootSite(t, a)
      BY <3>1, SitesAre
    <3> QED BY <3>2, AddressFacts DEF RootSite, IsSite
  <2>2. s.at[1] = <<>>
    <3>1. ASSUME NEW n, NEW k, NEW a, ModuleSite(s, n, k, a) PROVE FALSE
      BY <1>2, <3>1 DEF ModuleSite, IsSite
    <3>2. PICK a \in DOMAIN cfg.blocks : RootSite(s, a)
      BY <3>1, SitesAre
    <3>3. PICK i : s.at = <<<<>>, a, i.each>>
      BY <3>2 DEF RootSite, IsSite
    <3> QED BY <3>3
  <2>3. u.at = <<s.at[1], s.at[2], <<>>>>
    BY <1>2 DEF Node
  <2>4. u.at[1] = <<>> /\ u.at[2] = s.at[2] /\ u.i.each = <<>>
    BY <2>2, <2>3, SiteAt
  <2> DEFINE b == cfg.blocks[s.at[2]]
  <2>5. s.i \in Instances(b, RootEnv) /\ u.i \in Instances(b, RootEnv)
    BY <2>1, <2>2, <2>4
  <2>6. s.i.each = <<>>
    <3>1. CASE b.count = Absent /\ b.forEach = Absent
      BY <2>5, <3>1, InstancesAre, InstanceFacts
    <3>2. CASE b.count # Absent \/ b.forEach # Absent
      BY <2>4, <2>5, <3>2, InstancesAre, InstanceFacts
    <3> QED BY <3>1, <3>2
  <2> QED BY <1>2, <2>3, <2>6, SiteAt DEF Node
<1> QED BY <1>1, <1>2

(* Where what belongs to a site is merged.                                   *)
LEMMA GroupMerged ==
  ASSUME AtEnd, NEW h, AttachedFrom(h), NEW s \in Sites, NEW t \in Sites, s.at \in Home(t),
         ~NotRead(t), ~Astray(t), graph[Node(t)].merged # None
  PROVE  graph[Node(t)].merged = Node(s)
<1>1. graph[Node(t)].merged = s.at /\ graph[Node(t)].merged \in DOMAIN graph
  BY HomeOf, HomeOne
<1> QED BY <1>1, NodeOfPlace

LEMMA MergedIsOfGroup ==
  ASSUME AtEnd, NEW h, AttachedFrom(h), NEW s \in Sites, ~NotRead(s), ~Surplus(Node(s)),
         NEW b \in DOMAIN graph, graph[b].merged = Node(s), graph[b].merged # None,
         \A t \in Sites : ~NotRead(t) /\ graph[Node(t)].merged = Node(s) => ~Astray(t)
  PROVE  \E t \in Group(s) : t \in Sites /\ ~NotRead(t) /\ Node(t) = b /\ s.at \in Home(t)
<1>1. PICK t \in Sites : ~NotRead(t) /\ Node(t) = b
  BY DEF Surplus
<1>2. Node(s) \in Home(t) /\ \E u \in Sites : u.at = Node(s)
  BY <1>1, HomeOf
<1>3. s.at = Node(s)
  BY <1>2, NodeShared DEF NotRead
<1> QED BY <1>1, <1>2, <1>3 DEF Group

LEMMA HomelessAlone ==
  ASSUME AtEnd, NEW h, AttachedFrom(h), NEW s \in Sites, ~NotRead(s), ~Astray(s), Homeless(s),
         s.b.type # "sgrule"
  PROVE  graph[Node(s)].merged = None
BY HomeOf DEF Homeless

-----------------------------------------------------------------------------
(* Network security groups.                                                 *)

(* Rule k of a site as it is declared.                                      *)
DeclaredRule(t, k) ==
  [prio |-> PortOf(True(t, t.b.rules[k].prio)),
   access |-> True(t, t.b.rules[k].access),
   from |-> True(t, t.b.rules[k].from), to |-> True(t, t.b.rules[k].to),
   port |-> True(t, t.b.rules[k].port)]

LEMMA NsgRulesAre ==
  ASSUME NEW g, NEW d
  PROVE  d \in NsgRules(g) <=>
           \E t \in g : t.b.type \in NsgTypes /\ \E k \in DOMAIN t.b.rules : d = DeclaredRule(t, k)
BY DEF NsgRules, DeclaredRule

DumbField(v) ==
  v # Absent /\ \E x \in Sources(v) : x \in {Absent, Lit(ListText)} \/ Is(x, "items")

(* A field that is neither unknown nor mute is the one that is declared.     *)
LEMMA FieldHeard ==
  ASSUME NEW v, NEW w, Below(v, w), NEW a,
         ~NsgFieldUnknown(To(v, a)), ~DumbField(To(v, a))
  PROVE  To(v, a) = v /\ v = w
<1>1. ~Is(v, "res")
  <2> SUFFICES ASSUME Is(v, "res") PROVE FALSE
    OBVIOUS
  <2>1. Is(To(v, a), "res") \/ Is(To(v, a), "ref")
    BY ToIs, FormsApart
  <2>2. Sources(To(v, a)) = {To(v, a)}
    BY <2>1, FormsApart, SourcesFacts
  <2> QED BY <2>1, <2>2 DEF NsgFieldUnknown, IsUnresolved
<1>2. Is(v, "items") => \A k \in DOMAIN v.items : ~Is(v.items[k], "res")
  <2> SUFFICES ASSUME Is(v, "items"), NEW k \in DOMAIN v.items, Is(v.items[k], "res") PROVE FALSE
    OBVIOUS
  <2> DEFINE y == To(v, a).items[k]
  <2>1. Is(To(v, a), "items") /\ k \in DOMAIN To(v, a).items /\ (Is(y, "res") \/ Is(y, "ref"))
    BY ToIs, FormsApart
  <2>2. y \in Entries(To(v, a)) /\ Entries(y) = {y}
    BY <2>1, FormsApart DEF Entries, ToSet
  <2>3. y \in Sources(To(v, a))
    BY <2>2 DEF Sources
  <2> QED BY <2>1, <2>3 DEF NsgFieldUnknown, IsUnresolved
<1>3. To(v, a) = v
  BY <1>1, <1>2 DEF To, ReferTo
<1>4. v = Absent \/ Whole(v)
  <2>1. ASSUME v # Absent, NEW x \in Sources(v) PROVE IsKnown(x)
    BY <1>3, <2>1 DEF NsgFieldUnknown, DumbField, IsKnown
  <2> QED BY <2>1 DEF Whole
<1> QED BY <1>3, <1>4 DEF Below

LEMMA NsgReferred ==
  ASSUME NEW e, NEW i, NEW env, NEW x
  PROVE  LET v == RuleReferTo(NsgRule(e, i, env), x)
             p == PortOf(AttrOf(e.prio, i, env))
         IN  /\ v = [prio |-> IF p = Absent THEN None ELSE Number[p.lit],
                     access |-> To(AttrOf(e.access, i, env), x),
                     from |-> To(AttrOf(e.from, i, env), x),
                     to |-> To(AttrOf(e.to, i, env), x),
                     port |-> To(AttrOf(e.port, i, env), x)]
             /\ Has(v, "prio")
<1> DEFINE p == PortOf(AttrOf(e.prio, i, env))
           r == NsgRule(e, i, env)
           n == IF p = Absent THEN None ELSE Number[p.lit]
           b == AttrOf(e.access, i, env)
           c == AttrOf(e.from, i, env)
           to == AttrOf(e.to, i, env)
           d == AttrOf(e.port, i, env)
<1>1. r = [prio |-> n, access |-> b, from |-> c, to |-> to, port |-> d]
  BY DEF NsgRule
<1> HIDE DEF r, n, b, c, to, d
<1>2. ~Has(r, "cidr") /\ Has(r, "prio")
  BY <1>1 DEF Has
<1>3. RuleReferTo(r, x) = [r EXCEPT !.access = To(@, x), !.from = To(@, x),
                                    !.to = To(@, x), !.port = To(@, x)]
  BY <1>2 DEF RuleReferTo, To
<1>4. RuleReferTo(r, x) = [prio |-> n, access |-> To(b, x), from |-> To(c, x),
                           to |-> To(to, x), port |-> To(d, x)]
  BY <1>1, <1>3
<1>5. Has(RuleReferTo(r, x), "prio")
  BY <1>4 DEF Has
<1> QED BY <1>4, <1>5 DEF r, n, b, c, to, d

LEMMA NsgRuleHeard ==
  ASSUME NEW t, NEW i, NEW env, MadeFor(t, i, env), NEW k \in DOMAIN t.b.rules, NEW x, NEW v,
         v = RuleReferTo(NsgRule(t.b.rules[k], i, env), x),
         v.prio # None, ~NsgUnknown(v),
         \A f \in {v.access, v.from, v.to, v.port} : ~DumbField(f)
  PROVE  LET d == DeclaredRule(t, k) IN d.prio # Absent /\ v = Read(d) /\ ~NsgUnknown(d)
<1> DEFINE e == t.b.rules[k]
           d == DeclaredRule(t, k)
           p == PortOf(AttrOf(e.prio, i, env))
<1>1. /\ v.prio = IF p = Absent THEN None ELSE Number[p.lit]
      /\ v.access = To(AttrOf(e.access, i, env), x)
      /\ v.from = To(AttrOf(e.from, i, env), x)
      /\ v.to = To(AttrOf(e.to, i, env), x)
      /\ v.port = To(AttrOf(e.port, i, env), x)
      /\ v = [prio |-> v.prio, access |-> v.access, from |-> v.from, to |-> v.to,
              port |-> v.port]
  <2> DEFINE n == IF p = Absent THEN None ELSE Number[p.lit]
             b == To(AttrOf(e.access, i, env), x)
             c == To(AttrOf(e.from, i, env), x)
             to == To(AttrOf(e.to, i, env), x)
             f == To(AttrOf(e.port, i, env), x)
  <2>1. v = [prio |-> n, access |-> b, from |-> c, to |-> to, port |-> f]
    BY NsgReferred
  <2> HIDE DEF n, b, c, to, f
  <2>2. v.prio = n /\ v.access = b /\ v.from = c /\ v.to = to /\ v.port = f
    BY <2>1
  <2> QED BY <2>1, <2>2 DEF n, b, c, to, f
<1>2. /\ d.prio = PortOf(True(t, e.prio)) /\ d.access = True(t, e.access)
      /\ d.from = True(t, e.from) /\ d.to = True(t, e.to) /\ d.port = True(t, e.port)
  BY DEF DeclaredRule
<1> HIDE DEF d, e
<1>3. p # Absent /\ p = PortOf(True(t, e.prio))
  <2>1. p # Absent
    BY <1>1
  <2>2. Is(AttrOf(e.prio, i, env), "lit") /\ AttrOf(e.prio, i, env).lit \in DOMAIN Number
    BY <2>1 DEF PortOf
  <2>3. Whole(AttrOf(e.prio, i, env))
    <3> DEFINE w == AttrOf(e.prio, i, env)
    <3>1. ~Is(w, "items") /\ ~IsUnresolved(w) /\ w # Absent
      BY <2>2, FormsApart DEF IsUnresolved
    <3>2. w # Lit(ListText)
      BY <2>2, TruthAssumption, FormsApart
    <3> QED BY <3>1, <3>2, SourcesFacts DEF Whole, IsKnown
  <2>4. AttrOf(e.prio, i, env) = True(t, e.prio)
    BY <2>3, MadeForBelow DEF Below
  <2> QED BY <2>1, <2>4
<1> HIDE DEF p
<1>4. v.access = d.access
  BY <1>1, <1>2, FieldHeard, MadeForBelow DEF NsgUnknown
<1>5. v.from = d.from
  BY <1>1, <1>2, FieldHeard, MadeForBelow DEF NsgUnknown
<1>6. v.to = d.to
  BY <1>1, <1>2, FieldHeard, MadeForBelow DEF NsgUnknown
<1>7. v.port = d.port
  BY <1>1, <1>2, FieldHeard, MadeForBelow DEF NsgUnknown
<1>8. v.prio = Number[d.prio.lit] /\ d.prio # Absent
  BY <1>1, <1>2, <1>3
<1>9. v = Read(d)
  BY <1>1, <1>4, <1>5, <1>6, <1>7, <1>8 DEF Read
<1>10. ~NsgUnknown(d)
  BY <1>4, <1>5, <1>6, <1>7 DEF NsgUnknown
<1> QED BY <1>8, <1>9, <1>10 DEF d

LEMMA NsgKnown ==
  ASSUME NEW l, IsList(l), VerifyAzureNsg(l) # "unresolvable", NEW v \in ToSet(l), Has(v, "prio")
  PROVE  ~NsgUnknown(v)
<1>1. \E k \in 1..Len(l) : l[k] = v
  BY MembersAre
<1>2. \E k \in 1..Len(RulesAmong(l)) : RulesAmong(l)[k] = v
  BY <1>1, RulesAmongIs
<1> QED BY <1>2 DEF VerifyAzureNsg

(* A site of whose rules one knows all.                                     *)
NsgHeard(t) ==
  /\ t \in Sites /\ t.b.type \in NsgTypes /\ ~NotRead(t)
  /\ t.b.type = "nsg" => ~BlocksVanished(t)
  /\ ~PriorityUnknown(Node(t)) /\ ~Muted(Node(t))

LEMMA NsgSiteHeard ==
  ASSUME AtEnd, NEW h, AttachedFrom(h), NEW t, NsgHeard(t), NEW l, IsList(l),
         VerifyAzureNsg(l) = "unsat", ToSet(h[Node(t)].rules) \subseteq ToSet(l)
  PROVE  /\ \A k \in DOMAIN t.b.rules :
              LET d == DeclaredRule(t, k) IN
              d.prio # Absent /\ ~NsgUnknown(d) /\ Read(d) \in ToSet(h[Node(t)].rules)
         /\ \A v \in ToSet(h[Node(t)].rules) : \E k \in DOMAIN t.b.rules : v = Read(DeclaredRule(t, k))
<1> DEFINE x == Node(t)
<1>1. t \in Sites /\ t.b.type \in NsgTypes /\ ~t.unread /\ x \in DOMAIN graph
  BY SiteMade DEF NsgHeard, NotRead
<1>2. PICK i, env : h[x] = Referred(Built(t.b, i, env), x) /\ MadeFor(t, i, env)
  BY <1>1, SiteFirst
<1>3. ToSet(h[x].rules) \subseteq ToSet(graph[x].rules)
  BY <1>1 DEF AttachedFrom, RulesFrom
<1> DEFINE r == Built(t.b, i, env)
<1>4. \A v : v \in ToSet(h[x].rules) <=> \E p \in ToSet(r.rules) : v = RuleReferTo(p, x)
  <2>1. DOMAIN r = Fields
    BY BuiltFields
  <2> HIDE DEF r
  <2>2. \A v : v \in ToSet(Referred(r, x).rules) <=>
               \E p \in ToSet(r.rules) : v = RuleReferTo(p, x)
    BY <2>1, ReferredRules
  <2> QED BY <1>2, <2>2 DEF r
<1>5. \A v \in ToSet(graph[x].rules) : Has(v, "prio") =>
        /\ v.prio # None
        /\ \A f \in {v.access, v.from, v.to, v.port} : ~DumbField(f)
  BY DEF NsgHeard, PriorityUnknown, Muted, DumbField
<1> HIDE DEF x, r
<1>6. i.lost = Absent
  <2> SUFFICES ASSUME i.lost # Absent PROVE FALSE
    OBVIOUS
  <2>1. cfg.entry # "cli" /\ t.i.lost # Absent
    BY <1>2, InstanceFacts DEF MadeFor
  <2>2. t.b.type = "nsgrule"
    BY <1>1, <2>1 DEF NsgHeard, BlocksVanished, NsgTypes
  <2>3. NsgLost(i.lost) \in ToSet(r.rules)
    BY <1>1, <2>2, NsgBuilt DEF r
  <2> DEFINE v == RuleReferTo(NsgLost(i.lost), x)
  <2>4. v \in ToSet(graph[x].rules)
    BY <1>3, <1>4, <2>3
  <2>5. Has(v, "prio") /\ v.prio = None
    BY DEF RuleReferTo, NsgLost, Has
  <2> QED BY <1>5, <2>4, <2>5
<1>7. ASSUME NEW p
      PROVE  p \in ToSet(r.rules) <=> \E k \in DOMAIN t.b.rules : p = NsgRule(t.b.rules[k], i, env)
  <2>1. t.b.type \in NsgTypes
    BY <1>1
  <2>2. p \in ToSet(Built(t.b, i, env).rules) =>
          \E k \in DOMAIN t.b.rules : p = NsgRule(t.b.rules[k], i, env)
    BY <1>6, <2>1, NsgBuilt
  <2>3. ASSUME NEW k \in DOMAIN t.b.rules, p = NsgRule(t.b.rules[k], i, env)
        PROVE  p \in ToSet(Built(t.b, i, env).rules)
    BY <1>6, <2>1, <2>3, NsgBuilt
  <2> QED BY <2>2, <2>3 DEF r
<1>8. ASSUME NEW k \in DOMAIN t.b.rules, NEW v, v = RuleReferTo(NsgRule(t.b.rules[k], i, env), x)
      PROVE  LET d == DeclaredRule(t, k) IN
             v \in ToSet(h[x].rules) /\ d.prio # Absent /\ v = Read(d) /\ ~NsgUnknown(d)
  <2>1. v \in ToSet(h[x].rules)
    BY <1>4, <1>7, <1>8
  <2>2. Has(v, "prio")
    BY <1>8, NsgReferred
  <2>3. ~NsgUnknown(v)
    BY <2>1, <2>2, NsgKnown DEF x
  <2>4. v.prio # None /\ \A f \in {v.access, v.from, v.to, v.port} : ~DumbField(f)
    BY <1>3, <1>5, <2>1, <2>2
  <2> QED BY <1>2, <1>8, <2>1, <2>3, <2>4, NsgRuleHeard
<1>9. \A k \in DOMAIN t.b.rules :
        LET d == DeclaredRule(t, k) IN
        d.prio # Absent /\ ~NsgUnknown(d) /\ Read(d) \in ToSet(h[x].rules)
  BY <1>8
<1>10. ASSUME NEW v \in ToSet(h[x].rules)
       PROVE  \E k \in DOMAIN t.b.rules : v = Read(DeclaredRule(t, k))
  <2>1. PICK p \in ToSet(r.rules) : v = RuleReferTo(p, x)
    BY <1>4
  <2>2. PICK k \in DOMAIN t.b.rules : p = NsgRule(t.b.rules[k], i, env)
    BY <1>7, <2>1
  <2> QED BY <1>8, <2>1, <2>2
<1> QED BY <1>9, <1>10 DEF x

(* What merges into what.                                                    *)
LEMMA ParentsAre ==
  /\ ParentType("sgrule") = "sg" /\ ParentType("nsgrule") = "nsg"
  /\ ParentType("rolepolicy") = "role" /\ ParentType("attachment") = "role"
  /\ ParentType("sg") = None /\ ParentType("nsg") = None
  /\ ParentType("role") = None /\ ParentType("policy") = None
  /\ \A t : ParentType(t) # None => ParentType(t) \in {"sg", "nsg", "role"}
  /\ \A t : ParentType(t) # None /\ ParentType(t) = "sg" => t = "sgrule"
  /\ \A t : ParentType(t) # None /\ ParentType(t) = "nsg" => t = "nsgrule"
  /\ \A t : ParentType(t) # None /\ ParentType(t) = "role" => t \in {"rolepolicy", "attachment"}
<1>1. \A t : ParentType(t) =
        IF t = "sgrule" THEN "sg" ELSE IF t = "nsgrule" THEN "nsg"
        ELSE IF t \in {"rolepolicy", "attachment"} THEN "role" ELSE None
  BY DEF ParentType
<1> QED BY <1>1

(* What is merged into a rule of a network security group has no priority.  *)
LEMMA NothingOfRules ==
  ASSUME NEW h, AttachedFrom(h), NEW a \in DOMAIN graph, NEW b \in DOMAIN graph,
         graph[b].merged = a, graph[b].merged # None,
         graph[a].type \notin {"sg", "nsg", "role"},
         NEW v \in Offered(h, b)
  PROVE  IsSgRule(v)
<1>1. h[b].type = "sgrule" /\ graph[b].type = "sgrule"
  BY ParentsAre DEF AttachedFrom, MergedFrom, SameFrom
<1>2. v \in ToSet(graph[b].rules)
  BY <1>1 DEF Offered
<1> QED BY <1>1, <1>2 DEF AttachedFrom, SgRulesOnly

LEMMA RulesOfRule ==
  ASSUME NEW h, AttachedFrom(h), NEW a \in DOMAIN graph, graph[a].type \notin {"sg", "nsg", "role"},
         NEW v \in ToSet(graph[a].rules), ~IsSgRule(v)
  PROVE  v \in ToSet(h[a].rules)
BY NothingOfRules DEF AttachedFrom, RulesFrom

(* A resource that is verified and whose rules are those of sites of g.       *)
Holds(h, t, c) == ToSet(h[Node(t)].rules) \subseteq ToSet(graph[c].rules)

Hears(h, c, g) ==
  /\ c \in DOMAIN graph /\ graph[c].merged = None /\ graph[c].type \in NsgTypes
  /\ \A v \in ToSet(graph[c].rules) : Has(v, "prio") =>
       \E t \in g : t.b.type \in NsgTypes /\ v \in ToSet(h[Node(t)].rules) /\ Holds(h, t, c)

LEMMA DeclaredIsRule ==
  ASSUME NEW g, ~Refused(g), NEW d \in NsgRules(g), d.prio # Absent
  PROVE  IsRule(d)
<1>1. PICK t \in g : \E k \in DOMAIN t.b.rules : d = DeclaredRule(t, k)
  BY NsgRulesAre
<1>2. PICK k \in DOMAIN t.b.rules : d = DeclaredRule(t, k)
  BY <1>1
<1>3. d.prio = PortOf(True(t, t.b.rules[k].prio))
  BY <1>2 DEF DeclaredRule
<1>4. Is(d.prio, "lit") /\ d.prio.lit \in DOMAIN Number
  BY <1>3, PortIs
<1>5. /\ ~(Number[d.prio.lit] >= DenyAllInBound.prio)
      /\ NsgFieldUnknown(d.access) \/ d.access \in {Lit("Allow"), Lit("Deny")}
  BY DEF Refused, RulesRefused
<1>6. Number[d.prio.lit] \in Int
  BY <1>4, NumberAssumption
<1>7. DenyAllInBound.prio = 65500
  BY DEF DenyAllInBound, DefaultRule
<1>8. Number[d.prio.lit] < DenyAllInBound.prio
  BY <1>5, <1>6, <1>7
<1> QED BY <1>4, <1>5, <1>8 DEF IsRule, HasNumber, NsgUnknown

LEMMA HeardAreHarmless ==
  ASSUME AtEnd, AllUnsat, NEW h, AttachedFrom(h), NEW g, ~Refused(g), ~Aside(g),
         \A t \in g : t.b.type \in NsgTypes => NsgHeard(t), NEW c, Hears(h, c, g), NEW D,
         \A d : d \in D <=> d \in NsgRules(g) /\ d.prio # Absent /\ Read(d) \in ToSet(graph[c].rules)
  PROVE  ~RulesHarm(D)
<1> DEFINE l == graph[c].rules
<1>1. IsList(l) /\ VerifyAzureNsg(l) = "unsat"
  BY UnsatIs DEF Hears
<1>2. ASSUME NEW v \in ToSet(l), Has(v, "prio") PROVE \E d \in D : v = Read(d)
  <2>1. PICK t \in g :
          t.b.type \in NsgTypes /\ v \in ToSet(h[Node(t)].rules) /\ Holds(h, t, c)
    BY <1>2 DEF Hears
  <2>2. PICK k \in DOMAIN t.b.rules : v = Read(DeclaredRule(t, k))
    BY <1>1, <2>1, NsgSiteHeard DEF Holds
  <2>3. DeclaredRule(t, k).prio # Absent /\ DeclaredRule(t, k) \in NsgRules(g)
    BY <1>1, <2>1, NsgSiteHeard, NsgRulesAre DEF Holds
  <2> QED BY <1>2, <2>2, <2>3
<1>3. \A d : Has(Read(d), "prio")
  BY DEF Has, Read
<1>4. \A v : Has(v, "prio") /\ (\E k \in 1..Len(l) : l[k] = v) <=> \E d \in D : v = Read(d)
  BY <1>1, <1>2, <1>3, MembersAre
<1> HIDE DEF l
<1>5. Gives(l, D)
  BY <1>1, <1>4 DEF Gives
<1>6. \A d \in D : IsRule(d) /\ ~IsAside(d)
  BY DeclaredIsRule DEF Aside, RulesAside
<1> QED BY <1>1, <1>5, <1>6, NsgUnsatIsHarmless

LEMMA NsgHarmless ==
  ASSUME AtEnd, AllUnsat, NEW h, AttachedFrom(h), NEW g, ~Refused(g), ~Aside(g),
         \A t \in g : t.b.type \in NsgTypes =>
           NsgHeard(t) /\ \E c : Hears(h, c, g) /\ Holds(h, t, c)
  PROVE  ~NsgHarm(g)
<1> DEFINE D(c) == {d \in NsgRules(g) : d.prio # Absent /\ Read(d) \in ToSet(graph[c].rules)}
<1>1. ASSUME NEW d \in NsgRules(g)
      PROVE  d.prio # Absent /\ ~NsgUnknown(d) /\ \E c : Hears(h, c, g) /\ d \in D(c)
  <2>1. PICK t \in g : t.b.type \in NsgTypes /\ \E k \in DOMAIN t.b.rules : d = DeclaredRule(t, k)
    BY NsgRulesAre
  <2>2. PICK k \in DOMAIN t.b.rules : d = DeclaredRule(t, k)
    BY <2>1
  <2>3. PICK c : Hears(h, c, g) /\ Holds(h, t, c)
    BY <2>1
  <2>4. IsList(graph[c].rules) /\ VerifyAzureNsg(graph[c].rules) = "unsat" /\ NsgHeard(t)
    BY <2>1, <2>3, UnsatIs DEF Hears
  <2>5. d.prio # Absent /\ ~NsgUnknown(d) /\ Read(d) \in ToSet(h[Node(t)].rules)
    BY <2>2, <2>3, <2>4, NsgSiteHeard DEF Holds
  <2> QED BY <2>3, <2>5 DEF Holds
<1>2. ASSUME NEW packet \in Packets, NEW p \in SensitivePorts,
             NEW r \in NsgRules(g), MayMatch(r, packet, p), r.access = Lit("Allow"),
             \A d \in NsgRules(g) : MayMatch(d, packet, p) /\ d.access = Lit("Deny") =>
                                    Number[d.prio.lit] > Number[r.prio.lit]
      PROVE  FALSE
  <2>1. PICK c : Hears(h, c, g) /\ r \in D(c)
    BY <1>1
  <2>2. PICK E : E = D(c)
    OBVIOUS
  <2>3. E \subseteq NsgRules(g) /\ r \in E
    BY <2>1, <2>2
  <2>4. RulesHarm(E)
    BY <1>2, <2>3 DEF RulesHarm
  <2> QED BY <2>1, <2>2, <2>4, HeardAreHarmless
<1>3. ~\E r \in NsgRules(g) : r.prio = Absent \/ NsgUnknown(r)
  BY <1>1
<1> HIDE DEF D
<1> QED BY <1>2, <1>3 DEF NsgHarm, RulesHarm

(* What a verdict that is not blind to something can be held against.        *)
SubjectOf(s) == [site |-> s, group |-> Group(s), policies |-> Policies(Group(s))]

Hearing(s) ==
  /\ s \in Sites /\ ~NotRead(s) /\ ~BlocksVanished(s)
  /\ ~Refused(Group(s)) /\ ~Aside(Group(s)) /\ ~Surplus(Node(s))
  /\ \A t \in Group(s) : t \in Sites /\ ~Unheard(t) /\ ~NotRead(t) /\ ~Astray(t)
  /\ \A t \in Policies(Group(s)) : ~Unheard(t)
  /\ \A t \in Sites : ~NotRead(t) /\ graph[Node(t)].merged = Node(s) => ~Astray(t)

LEMMA HearingIs ==
  ASSUME NEW s \in Sites, ~Blind(SubjectOf(s)), s.b.type \notin SgTypes
  PROVE  Hearing(s)
<1> DEFINE j == SubjectOf(s)
<1>1. j.site = s /\ j.group = Group(s) /\ j.policies = Policies(Group(s))
  BY DEF SubjectOf
<1> HIDE DEF j
<1>2. /\ ~NotRead(s) /\ ~BlocksVanished(s)
      /\ ~Refused(Group(s)) /\ ~Aside(Group(s)) /\ ~Surplus(Node(s))
      /\ \A t \in Group(s) : ~Unheard(t)
      /\ \A t \in Policies(Group(s)) : ~Unheard(t)
      /\ \A t \in Sites : ~NotRead(t) /\ (t \in Group(s) \/ graph[Node(t)].merged = Node(s)) =>
                          ~Astray(t)
  BY <1>1 DEF Blind, j
<1>3. \A t \in Group(s) : t \in Sites
  BY DEF Group
<1>4. \A t \in Group(s) : ~NotRead(t)
  BY <1>2 DEF Unheard
<1> QED BY <1>2, <1>3, <1>4 DEF Hearing

LEMMA NsgHeardIs ==
  ASSUME NEW s, Hearing(s), NEW t \in Group(s), t.b.type \in NsgTypes
  PROVE  NsgHeard(t)
<1>1. t \in Sites /\ ~Unheard(t)
  BY DEF Hearing
<1>2. t.b.type = "nsg" => ~BlocksVanished(t)
  <2> SUFFICES ASSUME t.b.type = "nsg", t # s PROVE FALSE
    BY DEF Hearing
  <2>1. s.at \in Home(t)
    BY DEF Group
  <2> QED BY <2>1, HomeOne, ParentsAre
<1> QED BY <1>1, <1>2 DEF NsgHeard, Unheard

(* The graph has a site's own rules, and of an unmerged rule only these.      *)
LEMMA RuleHears ==
  ASSUME AtEnd, NEW h, AttachedFrom(h), NEW g, NEW t \in g, t \in Sites, ~NotRead(t),
         t.b.type = "nsgrule", graph[Node(t)].merged = None
  PROVE  Hears(h, Node(t), g) /\ Holds(h, t, Node(t))
<1> DEFINE x == Node(t)
<1>1. x \in DOMAIN graph /\ ~t.unread
  BY SiteMade DEF NotRead
<1>2. graph[x].type = "nsgrule"
  BY <1>1, SiteFirst
<1>3. ToSet(h[x].rules) \subseteq ToSet(graph[x].rules)
  BY <1>1 DEF AttachedFrom, RulesFrom
<1> HIDE DEF x
<1>4. ASSUME NEW v \in ToSet(graph[x].rules), Has(v, "prio") PROVE v \in ToSet(h[x].rules)
  <2>1. ~IsSgRule(v)
    BY <1>4 DEF IsSgRule, Has
  <2> QED BY <1>1, <1>2, <1>4, <2>1, RulesOfRule
<1>5. "nsgrule" \in NsgTypes
  BY DEF NsgTypes
<1> QED BY <1>1, <1>2, <1>3, <1>4, <1>5 DEF Hears, Holds, x

LEMMA NsgHears ==
  ASSUME AtEnd, NEW h, AttachedFrom(h), NEW s, Hearing(s), s.b.type = "nsg"
  PROVE  /\ Hears(h, Node(s), Group(s)) /\ Holds(h, s, Node(s))
         /\ \A t \in Group(s) :
              t.b.type \in NsgTypes /\ t # s =>
                \E c : Hears(h, c, Group(s)) /\ Holds(h, t, c)
<1> DEFINE x == Node(s)
<1>1. s \in Sites /\ ~NotRead(s) /\ x \in DOMAIN graph /\ ~s.unread
  BY SiteMade DEF NotRead, Hearing
<1>2. graph[x].type = "nsg" /\ h[x].type = "nsg"
  BY <1>1, SiteFirst
<1>3. graph[x].merged = None
  BY <1>1, <1>2, ParentsAre DEF AttachedFrom, MergedFrom
<1>4. Holds(h, s, x)
  BY <1>1 DEF AttachedFrom, RulesFrom, Holds
<1>5. ASSUME NEW t \in Group(s), t.b.type \in NsgTypes, s.at \in Home(t)
      PROVE  /\ t \in Sites /\ ~NotRead(t) /\ ~Astray(t) /\ t.b.type = "nsgrule"
             /\ Node(t) \in DOMAIN graph /\ graph[Node(t)].type = "nsgrule"
             /\ h[Node(t)].type = "nsgrule"
  <2>1. t \in Sites /\ ~NotRead(t) /\ ~Astray(t)
    BY DEF Hearing
  <2>2. Node(t) \in DOMAIN graph /\ ~t.unread
    BY <2>1, SiteMade DEF NotRead
  <2>3. t.b.type = "nsgrule"
    BY <1>5, HomeOne, ParentsAre DEF NsgTypes
  <2> QED BY <2>1, <2>2, <2>3, SiteFirst
<1>6. ASSUME NEW t \in Group(s), t.b.type \in NsgTypes, s.at \in Home(t),
             graph[Node(t)].merged = x, graph[Node(t)].merged # None
      PROVE  Holds(h, t, x)
  BY <1>5, <1>6 DEF AttachedFrom, MergedFrom, Holds
<1> HIDE DEF x
<1>7. ASSUME NEW v \in ToSet(graph[x].rules), Has(v, "prio")
      PROVE  \E t \in Group(s) :
               t.b.type \in NsgTypes /\ v \in ToSet(h[Node(t)].rules) /\ Holds(h, t, x)
  <2>1. CASE v \in ToSet(h[x].rules)
    <3>1. s \in Group(s) /\ s.b.type \in NsgTypes
      BY DEF Group, NsgTypes
    <3> QED BY <1>4, <2>1, <3>1 DEF x
  <2>2. CASE v \notin ToSet(h[x].rules)
    <3>1. PICK b \in DOMAIN graph :
            graph[b].merged = x /\ graph[b].merged # None /\ v \in Offered(h, b)
      BY <1>1, <1>7, <2>2 DEF AttachedFrom, RulesFrom
    <3>2. ~IsSgRule(v)
      BY <1>7 DEF IsSgRule, Has
    <3>3. h[b].type # "sgrule"
      <4> SUFFICES ASSUME h[b].type = "sgrule" PROVE FALSE
        OBVIOUS
      <4>1. v \in ToSet(graph[b].rules) /\ graph[b].type = "sgrule"
        BY <3>1 DEF Offered, AttachedFrom, SameFrom
      <4> QED BY <3>2, <4>1 DEF AttachedFrom, SgRulesOnly
    <3>4. h[b].type = "nsgrule" /\ graph[b].type = "nsgrule"
      <4>1. ParentType(h[b].type) # None /\ ParentType(h[b].type) = "nsg"
        BY <1>2, <3>1, <3>3 DEF AttachedFrom, MergedFrom, x
      <4> QED BY <4>1, ParentsAre DEF AttachedFrom, SameFrom
    <3>5. PICK t \in Group(s) : t \in Sites /\ ~NotRead(t) /\ Node(t) = b /\ s.at \in Home(t)
      BY <1>1, <3>1, MergedIsOfGroup DEF Hearing, x
    <3>6. t.b.type \in NsgTypes
      <4>1. ~t.unread
        BY <3>5 DEF NotRead
      <4>2. t.b.type = "nsgrule"
        BY <3>4, <3>5, <4>1, SiteFirst
      <4> QED BY <4>2 DEF NsgTypes
    <3>7. v \in ToSet(graph[b].rules)
      BY <3>1, <3>4 DEF Offered
    <3>8. v \in ToSet(h[b].rules)
      BY <3>2, <3>4, <3>7, RulesOfRule
    <3> QED BY <1>6, <3>1, <3>5, <3>6, <3>8 DEF x
  <2> QED BY <2>1, <2>2
<1>8. Hears(h, x, Group(s))
  BY <1>1, <1>2, <1>3, <1>7 DEF Hears, NsgTypes, x
<1>9. ASSUME NEW t \in Group(s), t.b.type \in NsgTypes, t # s
      PROVE  \E c : Hears(h, c, Group(s)) /\ Holds(h, t, c)
  <2>1. s.at \in Home(t)
    BY <1>9 DEF Group
  <2>2. CASE graph[Node(t)].merged = None
    BY <1>5, <1>9, <2>1, <2>2, RuleHears
  <2>3. CASE graph[Node(t)].merged # None
    <3>1. graph[Node(t)].merged = x
      BY <1>1, <1>5, <1>9, <2>1, <2>3, GroupMerged DEF x
    <3> QED BY <1>6, <1>8, <1>9, <2>1, <2>3, <3>1 DEF x
  <2> QED BY <2>2, <2>3
<1> QED BY <1>4, <1>8, <1>9 DEF x

LEMMA NsgSafe ==
  ASSUME AtEnd, AllUnsat, NEW s, Hearing(s)
  PROVE  /\ s.b.type = "nsg" => ~NsgHarm(Group(s))
         /\ s.b.type = "nsgrule" /\ Homeless(s) => ~NsgHarm({s})
<1>1. PICK h : AttachedFrom(h)
  BY DEF AtEnd, TruthInv, MadeInv
<1>2. ASSUME s.b.type = "nsg" PROVE ~NsgHarm(Group(s))
  <2>1. \A t \in Group(s) : t.b.type \in NsgTypes =>
          NsgHeard(t) /\ \E c : Hears(h, c, Group(s)) /\ Holds(h, t, c)
    BY <1>1, <1>2, NsgHears, NsgHeardIs
  <2> QED BY <1>1, <2>1, NsgHarmless DEF Hearing
<1>3. ASSUME s.b.type = "nsgrule", Homeless(s) PROVE ~NsgHarm({s})
  <2>1. /\ s \in Group(s) /\ s \in Sites /\ ~NotRead(s) /\ ~Astray(s)
        /\ ~Refused(Group(s)) /\ ~Aside(Group(s))
    BY DEF Group, Hearing
  <2>2. NsgHeard(s)
    BY <1>3, <2>1, NsgHeardIs DEF NsgTypes
  <2>3. graph[Node(s)].merged = None
    BY <1>1, <1>3, <2>1, HomelessAlone
  <2>4. Hears(h, Node(s), {s}) /\ Holds(h, s, Node(s))
    BY <1>1, <1>3, <2>1, <2>3, RuleHears
  <2>5. NsgRules({s}) \subseteq NsgRules(Group(s))
    BY <2>1, NsgRulesAre
  <2>6. ~Refused({s})
    BY <2>1, <2>5 DEF Refused, RulesRefused
  <2>7. ~Aside({s})
    BY <2>1, <2>5 DEF Aside, RulesAside
  <2> QED BY <1>1, <2>2, <2>4, <2>6, <2>7, NsgHarmless
<1> QED BY <1>2, <1>3

-----------------------------------------------------------------------------
(* Identity and access management.                                          *)

LEMMA SubstituteFirm ==
  ASSUME NEW e, NEW env, NEW v, IsUnresolved(Value(Substitute(e, v), env))
  PROVE  IsUnresolved(Value(e, NoEnv))
<1>1. NoEnv.vars = NoNames /\ NoEnv.locals = NoNames
  BY DEF NoEnv
<1>2. CASE ~Is(e, "items")
  <2>1. Value(e, NoEnv) = ResolveScalar(e, NoNames, NoNames)
    BY <1>1, <1>2, ValueIsOf
  <2>2. Substitute(e, v) = SubstituteScalar(e, v)
    BY <1>2 DEF Substitute
  <2>3. CASE Fixed(e)
    BY <1>2, <2>1, <2>2, <2>3, FixedScalar, ValueIsOf
  <2>4. CASE ~Fixed(e)
    BY <2>1, <2>4, NamedScalar, UnresolvedFacts
  <2> QED BY <2>3, <2>4
<1> DEFINE f == [k \in DOMAIN e.items |-> SubstituteScalar(e.items[k], v)]
<1>3. Is(e, "items") => Substitute(e, v) = Items(f)
  BY DEF Substitute
<1>4. CASE Wraps(e)
  <2> DEFINE y == e.items[1]
  <2>1. /\ Is(e, "items") /\ DOMAIN e.items = {1} /\ ~Is(y, "items")
    BY <1>4 DEF Wraps
  <2>2. Value(e, NoEnv) = ResolveScalar(y, NoNames, NoNames)
    BY <1>1, <1>4, ValueIsOf
  <2>3. CASE Fixed(y)
    <3>1. DOMAIN f = {1} /\ f[1] = y
      BY <2>1, <2>3, FixedScalar
    <3> HIDE DEF f, y
    <3>2. Wraps(Items(f)) /\ Items(f).items[1] = y
      BY <2>1, <3>1, ItemsFacts DEF Wraps
    <3>3. Value(Items(f), env) = ResolveScalar(y, env.vars, env.locals)
      BY <3>2, ValueIsOf
    <3> QED BY <1>3, <2>1, <2>2, <2>3, <3>3, FixedScalar
  <2>4. CASE ~Fixed(y)
    BY <2>2, <2>4, NamedScalar, UnresolvedFacts
  <2> QED BY <2>3, <2>4
<1>5. CASE Is(e, "items") /\ ~Wraps(e)
  <2>1. DOMAIN f = DOMAIN e.items /\ \A k \in DOMAIN f : f[k] = SubstituteScalar(e.items[k], v)
    OBVIOUS
  <2> HIDE DEF f
  <2>2. ASSUME DOMAIN e.items = {1} PROVE Is(f[1], "items")
    <3>1. Is(e.items[1], "items")
      BY <1>5, <2>2 DEF Wraps
    <3>2. ~Is(e.items[1], "each") /\ ~Is(e.items[1], "text")
      BY <3>1 DEF Is
    <3>3. f[1] = e.items[1]
      BY <2>1, <2>2, <3>2 DEF SubstituteScalar
    <3> QED BY <3>1, <3>3
  <2>3. ~Wraps(Items(f))
    BY <2>1, <2>2, ItemsFacts DEF Wraps
  <2>4. PICK g : Unwrap(Items(f)) = Items(g)
    BY <2>3, ItemsFacts, UnwrapIs
  <2>5. Is(Items(g), "items")
    BY ItemsFacts
  <2>6. ~IsUnresolved(Value(Items(f), env))
    BY <2>4, <2>5, UnresolvedFacts DEF Value, Resolve
  <2> QED BY <1>3, <1>5, <2>6, UnresolvedFacts
<1> QED BY <1>2, <1>4, <1>5

LEMMA AttrFirm ==
  ASSUME NEW s, NEW i, NEW env, MadeFor(s, i, env), FirmLocals, i.lost = Absent,
         NEW e, IsUnresolved(True(s, e))
  PROVE  IsUnresolved(AttrOf(e, i, env)) /\ e # Absent
<1>1. e # Absent
  <2> SUFFICES ASSUME e = Absent PROVE FALSE
    OBVIOUS
  <2>1. AttrOf(e, i, env) = Absent
    BY DEF AttrOf
  <2>2. True(s, e) = Absent
    BY <2>1, MadeForBelow DEF Below
  <2> QED BY <2>2, UnresolvedFacts
<1>2. AttrOf(e, i, env) = Value(ForInstance(e, i), env)
  BY <1>1 DEF AttrOf
<1>3. CASE cfg.entry = "cli"
  <2>1. AttrOf(e, i, env) = Value(e, NoEnv)
    BY <1>2, <1>3 DEF MadeFor, Plain, ForInstance
  <2>2. True(s, e) = Value(e, s.env) \/ \E v : True(s, e) = Value(Substitute(e, v), s.env)
    BY DEF True, ForInstance
  <2>3. FirmEnv(NoEnv, s.env)
    BY DEF NoEnv, NoNames, FirmEnv, FirmNames
  <2> QED BY <1>1, <2>1, <2>2, <2>3, ValueFirm, SubstituteFirm
<1>4. CASE cfg.entry # "cli"
  <2>1. FirmEnv(env, s.env) /\ i.each = s.i.each /\ s.i.lost = Absent
    BY <1>4 DEF MadeFor
  <2>2. True(s, e) = Value(ForInstance(e, s.i), s.env)
    BY <2>1 DEF True
  <2>3. ForInstance(e, i) = ForInstance(e, s.i)
    BY <2>1 DEF ForInstance
  <2> QED BY <1>1, <1>2, <2>1, <2>2, <2>3, ValueFirm
<1> QED BY <1>3, <1>4

(* A policy document without a value is so in the pipeline too, or the block  *)
(* is a placeholder.                                                        *)
LEMMA ShownFirm ==
  ASSUME NEW t, t.b.type \in IamTypes, ~ShowsLoss(t), t.b.within # Absent
  PROVE  FirmLocals
BY DEF ShowsLoss, FirmLocals

LEMMA StatementsAre ==
  ASSUME TypeInv, NEW s \in Sites, s.b.type \in IamTypes, NEW k \in DOMAIN s.b.rules
  PROVE  DOMAIN s.b.rules[k] = StatementFields
<1>1. AreBlocks(cfg.blocks) /\ \A n \in DOMAIN cfg.modules : AreBlocks(cfg.modules[n].blocks)
  BY BlocksAreBlocks
<1>2. ASSUME NEW a \in DOMAIN cfg.blocks, RootSite(s, a)
      PROVE  DOMAIN s.b.rules[k] = StatementFields
  BY <1>1, <1>2 DEF AreBlocks, RootSite, IsSite
<1>3. ASSUME NEW n \in DOMAIN cfg.modules, NEW l, NEW a \in DOMAIN cfg.modules[n].blocks,
             ModuleSite(s, n, l, a)
      PROVE  DOMAIN s.b.rules[k] = StatementFields
  BY <1>1, <1>3 DEF AreBlocks, ModuleSite, IsSite
<1> QED BY <1>2, <1>3, SitesAre

(* A statement as the pipeline has it: what it grants or denies is no less.   *)
LEMMA CopiedIs ==
  ASSUME NEW r, DOMAIN r = StatementFields
  PROVE  LET c == Copied(r) IN
         /\ DOMAIN c = StatementFields /\ c.effect = r.effect
         /\ c.actions = r.actions /\ c.resources = r.resources
         /\ IF cfg.entry = "cli" THEN c = r ELSE c.notActions = {} /\ c.notResources = {}
         /\ \A x : RuleReferTo(c, x) = c
<1> DEFINE c == Copied(r)
<1>1. /\ DOMAIN c = StatementFields /\ c.effect = r.effect
      /\ c.actions = r.actions /\ c.resources = r.resources
      /\ IF cfg.entry = "cli" THEN c = r ELSE c.notActions = {} /\ c.notResources = {}
  BY DEF Copied, StatementFields
<1> HIDE DEF c
<1>2. ~Has(c, "cidr") /\ ~Has(c, "prio") /\ ~Is(c, "items") /\ ~Is(c, "res")
  BY <1>1 DEF Has, Is, StatementFields
<1>3. \A x : RuleReferTo(c, x) = c
  BY <1>2 DEF RuleReferTo, ReferTo
<1> QED BY <1>1, <1>3 DEF c

LEMMA CopiedGrants ==
  ASSUME NEW r, DOMAIN r = StatementFields
  PROVE  Requests(r) \subseteq Requests(Copied(r)) /\ (IsWildAllow(r) => IsWildAllow(Copied(r)))
<1> DEFINE c == Copied(r)
<1>1. /\ c.effect = r.effect /\ c.actions = r.actions /\ c.resources = r.resources
      /\ c = r \/ (c.notActions = {} /\ c.notResources = {})
  BY CopiedIs
<1> HIDE DEF c
<1>2. /\ Scope(r.actions, r.notActions, Actions) \subseteq Scope(c.actions, c.notActions, Actions)
      /\ Scope(r.resources, r.notResources, Resources)
           \subseteq Scope(c.resources, c.notResources, Resources)
  BY <1>1 DEF Scope, MatchedBy
<1>3. Requests(r) \subseteq Requests(c)
  BY <1>2 DEF Requests
<1>4. IsWildAllow(r) => IsWildAllow(c)
  BY <1>1 DEF IsWildAllow, HasWildcard
<1> QED BY <1>3, <1>4 DEF c

LEMMA CopiedDenies ==
  ASSUME NEW t, t.b.type \in IamTypes, ~Widened(t, "Deny"), NEW k \in DOMAIN t.b.rules,
         DOMAIN t.b.rules[k] = StatementFields, t.b.rules[k].effect = "Deny"
  PROVE  Requests(Copied(t.b.rules[k])) = Requests(t.b.rules[k])
<1> DEFINE r == t.b.rules[k]
           c == Copied(r)
<1>1. cfg.entry = "cli" \/ r.notActions \cup r.notResources = {}
  BY DEF Widened
<1>2. /\ c.actions = r.actions /\ c.resources = r.resources
      /\ IF cfg.entry = "cli" THEN c = r ELSE c.notActions = {} /\ c.notResources = {}
  BY CopiedIs
<1> HIDE DEF c, r
<1>3. c.notActions = r.notActions /\ c.notResources = r.notResources
  BY <1>1, <1>2
<1> QED BY <1>2, <1>3 DEF Requests, c, r

(* What "unsat" says of the rules of a policy.                               *)
Denied(l, q) == \E d \in ToSet(l) : IsStatement(d) /\ d.effect = "Deny" /\ q \in Requests(d)

LEMMA IamUnsat ==
  ASSUME NEW l, VerifyIamPolicy(l) = "unsat"
  PROVE  /\ \A v \in ToSet(l) : ~IsUnresolved(v)
         /\ \A r \in ToSet(l) : IsStatement(r) /\ IsWildAllow(r) =>
              \A q \in Requests(r) : Denied(l, q)
         /\ Managed \in ToSet(l) => \A q \in Actions \X Resources : Denied(l, q)
<1> DEFINE all == ToSet(l)
           stmts == {s \in all : IsStatement(s)}
           granted == UNION ({Requests(s) : s \in {t \in stmts : IsWildAllow(t)}}
                               \cup {Actions \X Resources : s \in all \cap {Managed}})
           denied == UNION {Requests(s) : s \in {t \in stmts : t.effect = "Deny"}}
<1>1. (\A v \in all : ~IsUnresolved(v)) /\ ~(granted \ denied # {})
  BY DEF VerifyIamPolicy
<1>2. \A q \in denied : Denied(l, q)
  BY DEF Denied
<1>3. \A r \in all : IsStatement(r) /\ IsWildAllow(r) => Requests(r) \subseteq granted
  OBVIOUS
<1>4. Managed \in all => Actions \X Resources \subseteq granted
  OBVIOUS
<1> HIDE DEF granted, denied
<1> QED BY <1>1, <1>2, <1>3, <1>4

LEMMA UnresolvedRule ==
  ASSUME NEW u, IsUnresolved(u), NEW x
  PROVE  LET v == RuleReferTo(u, x) IN
         (IsUnresolved(v) \/ Is(v, "ref")) /\ ~Has(v, "effect")
<1>1. ~Has(u, "cidr") /\ ~Has(u, "prio")
  BY DEF IsUnresolved, Is, Has
<1>2. RuleReferTo(u, x) = To(u, x)
  BY <1>1 DEF RuleReferTo, To
<1>3. IsUnresolved(To(u, x)) \/ Is(To(u, x), "ref")
  BY ToIs, FormsApart DEF IsUnresolved
<1>4. \A v : IsUnresolved(v) \/ Is(v, "ref") => ~Has(v, "effect")
  BY DEF IsUnresolved, Is, Has
<1> QED BY <1>2, <1>3, <1>4

LEMMA IamOwn ==
  ASSUME AtEnd, NEW h, AttachedFrom(h), NEW t \in Sites, t.b.type \in IamTypes, ~NotRead(t),
         NEW v \in ToSet(h[Node(t)].rules), Has(v, "effect")
  PROVE  \E k \in DOMAIN t.b.rules : v = Copied(t.b.rules[k])
<1> DEFINE x == Node(t)
<1>1. ~t.unread /\ x \in DOMAIN graph /\ TypeInv
  BY SiteMade DEF NotRead, AtEnd, TruthInv, IInv
<1>2. PICK i, env : h[x] = Referred(Built(t.b, i, env), x) /\ MadeFor(t, i, env)
  BY <1>1, SiteFirst
<1>3. PICK p \in ToSet(Built(t.b, i, env).rules) : v = RuleReferTo(p, x)
  <2> DEFINE r == Built(t.b, i, env)
  <2>1. DOMAIN r = Fields
    BY BuiltFields
  <2> HIDE DEF r
  <2>2. \A q : q \in ToSet(Referred(r, x).rules) <=>
               \E s \in ToSet(r.rules) : q = RuleReferTo(s, x)
    BY <2>1, ReferredRules
  <2> QED BY <1>2, <2>2 DEF r
<1>4. ~IsUnresolved(p)
  BY <1>3, UnresolvedRule
<1>5. i.lost = Absent
  <2> SUFFICES ASSUME i.lost # Absent PROVE FALSE
    OBVIOUS
  <2>1. IsUnresolved(i.lost)
    BY <1>2, InstanceFacts DEF MadeFor
  <2>2. p = i.lost
    BY <1>3, IamBuilt
  <2> QED BY <1>4, <2>1, <2>2
<1>6. PICK k \in DOMAIN t.b.rules : p = Copied(t.b.rules[k])
  BY <1>3, <1>4, <1>5, IamBuilt
<1>7. RuleReferTo(p, x) = p
  BY <1>1, <1>6, StatementsAre, CopiedIs
<1> QED BY <1>3, <1>6, <1>7

LEMMA IamSiteHeard ==
  ASSUME AtEnd, NEW h, AttachedFrom(h), NEW t \in Sites, t.b.type \in IamTypes, ~NotRead(t),
         ~PolicySkipped(Node(t)), ~ShowsLoss(t), NEW l, VerifyIamPolicy(l) = "unsat",
         ToSet(h[Node(t)].rules) \subseteq ToSet(l)
  PROVE  /\ ~IsUnresolved(True(t, t.b.within))
         /\ \A k \in DOMAIN t.b.rules : Copied(t.b.rules[k]) \in ToSet(h[Node(t)].rules)
<1> DEFINE x == Node(t)
<1>1. ~t.unread /\ x \in DOMAIN graph /\ TypeInv
  BY SiteMade DEF NotRead, AtEnd, TruthInv, IInv
<1>2. PICK i, env : h[x] = Referred(Built(t.b, i, env), x) /\ MadeFor(t, i, env)
  BY <1>1, SiteFirst
<1> DEFINE r == Built(t.b, i, env) w == AttrOf(t.b.within, i, env)
<1>3. \A p \in ToSet(r.rules) : RuleReferTo(p, x) \in ToSet(h[x].rules)
  <2>1. DOMAIN r = Fields
    BY BuiltFields
  <2> HIDE DEF r
  <2>2. \A q : q \in ToSet(Referred(r, x).rules) <=>
               \E s \in ToSet(r.rules) : q = RuleReferTo(s, x)
    BY <2>1, ReferredRules
  <2> QED BY <1>2, <2>2 DEF r
<1>4. ToSet(h[x].rules) \subseteq ToSet(graph[x].rules)
  BY <1>1 DEF AttachedFrom, RulesFrom
<1>5. ASSUME NEW p \in ToSet(r.rules) PROVE ~IsUnresolved(p)
  <2> SUFFICES ASSUME IsUnresolved(p) PROVE FALSE
    OBVIOUS
  <2> DEFINE v == RuleReferTo(p, x)
  <2>1. v \in ToSet(h[x].rules) /\ (IsUnresolved(v) \/ Is(v, "ref"))
    BY <1>3, UnresolvedRule
  <2> HIDE DEF v
  <2>2. CASE IsUnresolved(v)
    BY <2>1, <2>2, IamUnsat
  <2>3. CASE Is(v, "ref")
    <3>1. PICK k \in DOMAIN graph[x].rules : graph[x].rules[k] = v
      BY <1>4, <2>1 DEF ToSet
    <3> QED BY <2>3, <3>1 DEF PolicySkipped
  <2> QED BY <2>1, <2>2, <2>3
<1> HIDE DEF x
<1>6. i.lost # Absent => t.b.rules = <<>> /\ t.b.within = Absent
  <2> SUFFICES ASSUME i.lost # Absent, ~(t.b.rules = <<>> /\ t.b.within = Absent) PROVE FALSE
    OBVIOUS
  <2>1. i.lost \in ToSet(r.rules)
    BY IamBuilt
  <2>2. IsUnresolved(i.lost)
    BY <1>2, InstanceFacts DEF MadeFor
  <2> QED BY <1>5, <2>1, <2>2
<1>7. i.lost = Absent => ~IsUnresolved(w)
  <2> SUFFICES ASSUME i.lost = Absent, IsUnresolved(w) PROVE FALSE
    OBVIOUS
  <2>1. w \in ToSet(r.rules)
    BY IamBuilt
  <2> QED BY <1>5, <2>1
<1>8. ~IsUnresolved(True(t, t.b.within))
  <2> SUFFICES ASSUME IsUnresolved(True(t, t.b.within)) PROVE FALSE
    OBVIOUS
  <2>1. t.b.within # Absent
    <3> SUFFICES ASSUME t.b.within = Absent PROVE FALSE
      OBVIOUS
    <3>1. AttrOf(t.b.within, i, env) = Absent
      BY DEF AttrOf
    <3>2. True(t, t.b.within) = Absent
      BY <1>2, <3>1, MadeForBelow DEF Below
    <3> QED BY <3>2, UnresolvedFacts
  <2>2. FirmLocals
    BY <2>1, ShownFirm
  <2> QED BY <1>2, <1>6, <1>7, <2>1, <2>2, AttrFirm
<1>9. ASSUME NEW k \in DOMAIN t.b.rules
      PROVE  Copied(t.b.rules[k]) \in ToSet(h[x].rules)
  <2>1. i.lost = Absent
    <3>1. DOMAIN <<>> = {}
      OBVIOUS
    <3> QED BY <1>6, <1>9, <3>1
  <2>2. Copied(t.b.rules[k]) \in ToSet(r.rules)
    BY <1>7, <2>1, IamBuilt
  <2>3. RuleReferTo(Copied(t.b.rules[k]), x) = Copied(t.b.rules[k])
    BY <1>1, StatementsAre, CopiedIs
  <2> QED BY <1>3, <2>2, <2>3
<1> QED BY <1>8, <1>9 DEF x

-----------------------------------------------------------------------------
DeclaredDeny(policies, q) ==
  \E t \in policies : \E k \in DOMAIN t.b.rules :
    t.b.rules[k].effect = "Deny" /\ q \in Requests(t.b.rules[k])

IsGranted(v) == v = Gone \/ IsManaged(v)

LEMMA IamHarmless ==
  ASSUME NEW g, NEW policies,
         \A t \in policies : ~IsUnresolved(True(t, t.b.within)),
         \A t \in policies : \A k \in DOMAIN t.b.rules :
           IsWildAllow(t.b.rules[k]) =>
             \A q \in Requests(t.b.rules[k]) : DeclaredDeny(policies, q),
         \A u \in g : u.b.type = "attachment" /\ IsGranted(True(u, u.b.arn)) =>
           \A q \in Actions \X Resources : DeclaredDeny(policies, q)
  PROVE  ~IamHarm(g, policies)
<1> DEFINE stmts == UNION {ToSet(s.b.rules) : s \in policies}
           attached == {True(s, s.b.arn) : s \in {t \in g : t.b.type = "attachment"}}
           managed == {v \in attached : v = Gone \/ IsManaged(v)}
           granted == UNION ({Requests(r) : r \in {x \in stmts : IsWildAllow(x)}}
                               \cup {Actions \X Resources : v \in managed})
           denied == UNION {Requests(d) : d \in {x \in stmts : x.effect = "Deny"}}
<1>1. \A r : r \in stmts <=> \E t \in policies : \E k \in DOMAIN t.b.rules : r = t.b.rules[k]
  BY DEF ToSet
<1>2. \A v \in managed : \E u \in g : u.b.type = "attachment" /\ IsGranted(True(u, u.b.arn))
  BY DEF IsGranted
<1> HIDE DEF stmts, managed
<1>3. ASSUME NEW q, DeclaredDeny(policies, q) PROVE q \in denied
  <2>1. PICK t \in policies : \E k \in DOMAIN t.b.rules :
          t.b.rules[k].effect = "Deny" /\ q \in Requests(t.b.rules[k])
    BY <1>3 DEF DeclaredDeny
  <2>2. PICK k \in DOMAIN t.b.rules :
          t.b.rules[k].effect = "Deny" /\ q \in Requests(t.b.rules[k])
    BY <2>1
  <2>3. t.b.rules[k] \in stmts
    BY <1>1
  <2> QED BY <2>2, <2>3
<1>4. ASSUME NEW q \in granted PROVE DeclaredDeny(policies, q)
  <2>1. CASE \E r \in stmts : IsWildAllow(r) /\ q \in Requests(r)
    <3>1. PICK r \in stmts : IsWildAllow(r) /\ q \in Requests(r)
      BY <2>1
    <3>2. PICK t \in policies : \E k \in DOMAIN t.b.rules : r = t.b.rules[k]
      BY <1>1
    <3> QED BY <3>1, <3>2
  <2>2. CASE \E v \in managed : q \in Actions \X Resources
    BY <1>2, <2>2
  <2> QED BY <2>1, <2>2
<1>5. ~(granted \ denied # {})
  <2> HIDE DEF granted, denied
  <2> QED BY <1>3, <1>4
<1> QED BY <1>5 DEF IamHarm, stmts, managed

(* A site with a policy whose words the verdict has.                        *)
IamOk(t) == t \in Sites /\ t.b.type \in IamTypes /\ ~Unheard(t)

LEMMA PoliciesAre ==
  ASSUME NEW g, NEW t
  PROVE  t \in Policies(g) <=>
           \/ t \in g /\ t.b.type \in IamTypes
           \/ t \in Sites /\ t.b.type = "policy" /\ \E u \in g : t.at \in PolicyOf(u)
BY DEF Policies

LEMMA PoliciesOk ==
  ASSUME NEW s, Hearing(s), NEW t \in Policies(Group(s))
  PROVE  IamOk(t)
<1>1. t \in Sites
  BY PoliciesAre DEF Hearing
<1>2. t.b.type \in IamTypes
  BY PoliciesAre DEF IamTypes
<1> QED BY <1>1, <1>2 DEF IamOk, Hearing

LEMMA OwnDeny ==
  ASSUME AtEnd, NEW h, AttachedFrom(h), NEW t, IamOk(t), NEW d \in ToSet(h[Node(t)].rules),
         IsStatement(d), d.effect = "Deny", NEW q \in Requests(d)
  PROVE  DeclaredDeny({t}, q)
<1>1. PICK k \in DOMAIN t.b.rules : d = Copied(t.b.rules[k])
  BY IamOwn DEF IamOk, Unheard, IsStatement
<1>2. DOMAIN t.b.rules[k] = StatementFields
  BY StatementsAre DEF IamOk, AtEnd, TruthInv, IInv
<1>3. t.b.rules[k].effect = "Deny"
  BY <1>1, <1>2, CopiedIs
<1>4. Requests(d) = Requests(t.b.rules[k])
  BY <1>1, <1>2, <1>3, CopiedDenies DEF IamOk, Unheard
<1> QED BY <1>3, <1>4 DEF DeclaredDeny

(* A resource of a site: its verdict, and what it says of the site's rules.   *)
LEMMA OwnVerdict ==
  ASSUME AtEnd, AllUnsat, NEW h, AttachedFrom(h), NEW t, IamOk(t),
         graph[Node(t)].merged = None
  PROVE  /\ VerifyIamPolicy(graph[Node(t)].rules) = "unsat"
         /\ ToSet(h[Node(t)].rules) \subseteq ToSet(graph[Node(t)].rules)
<1>1. Node(t) \in DOMAIN graph /\ ~t.unread
  BY SiteMade DEF IamOk, Unheard, NotRead
<1>2. graph[Node(t)].type \in IamTypes
  BY <1>1, SiteFirst DEF IamOk
<1> QED BY <1>1, <1>2, UnsatIs DEF AttachedFrom, RulesFrom

LEMMA LeafDenies ==
  ASSUME AtEnd, NEW h, AttachedFrom(h), NEW t, IamOk(t), t.b.type # "role",
         NEW d \in ToSet(graph[Node(t)].rules), IsStatement(d), d.effect = "Deny",
         NEW q \in Requests(d)
  PROVE  DeclaredDeny({t}, q)
<1>1. t \in Sites /\ Node(t) \in DOMAIN graph /\ ~t.unread
  BY SiteMade DEF IamOk, Unheard, NotRead
<1>2. graph[Node(t)].type \notin {"sg", "nsg", "role"}
  BY <1>1, SiteFirst DEF IamOk, IamTypes
<1>3. ~IsSgRule(d)
  BY DEF IsStatement, IsSgRule, Has
<1>4. d \in ToSet(h[Node(t)].rules)
  BY <1>1, <1>2, <1>3, RulesOfRule
<1> QED BY <1>4, OwnDeny

LEMMA DenyMore ==
  ASSUME NEW t, NEW policies, t \in policies, NEW q, DeclaredDeny({t}, q)
  PROVE  DeclaredDeny(policies, q)
BY DEF DeclaredDeny

LEMMA RoleDenies ==
  ASSUME AtEnd, NEW h, AttachedFrom(h), NEW s, Hearing(s), s.b.type = "role",
         NEW q, Denied(graph[Node(s)].rules, q)
  PROVE  DeclaredDeny(Policies(Group(s)), q)
<1> DEFINE x == Node(s)
<1>1. PICK d \in ToSet(graph[x].rules) : IsStatement(d) /\ d.effect = "Deny" /\ q \in Requests(d)
  BY DEF Denied
<1>2. s \in Sites /\ ~NotRead(s) /\ x \in DOMAIN graph /\ ~s.unread
  BY SiteMade DEF Hearing, NotRead
<1>3. graph[x].type = "role" /\ s \in Policies(Group(s))
  BY <1>2, SiteFirst, PoliciesAre DEF Group, IamTypes
<1>4. ~IsSgRule(d) /\ d # Managed
  BY <1>1 DEF IsStatement, IsSgRule, Has, Managed
<1>5. CASE d \in ToSet(h[x].rules)
  BY <1>1, <1>3, <1>5, PoliciesOk, OwnDeny, DenyMore
<1>6. CASE d \notin ToSet(h[x].rules)
  <2>1. PICK b \in DOMAIN graph :
          graph[b].merged = x /\ graph[b].merged # None /\ d \in Offered(h, b)
    BY <1>1, <1>2, <1>6 DEF AttachedFrom, RulesFrom
  <2>2. PICK t \in Group(s) : t \in Sites /\ ~NotRead(t) /\ Node(t) = b /\ s.at \in Home(t)
    BY <1>2, <2>1, MergedIsOfGroup DEF Hearing
  <2>3. graph[b].type = t.b.type /\ h[b].type = t.b.type /\ graph[b].arn = h[b].arn
    <3>1. ~t.unread
      BY <2>2 DEF NotRead
    <3> QED BY <2>2, <3>1, SiteFirst DEF AttachedFrom, SameFrom
  <2>4. h[b].type # "sgrule"
    <3> SUFFICES ASSUME h[b].type = "sgrule" PROVE FALSE
      OBVIOUS
    <3>1. d \in ToSet(graph[b].rules) /\ graph[b].type = "sgrule"
      BY <2>1 DEF Offered, AttachedFrom, SameFrom
    <3> QED BY <1>4, <3>1 DEF AttachedFrom, SgRulesOnly
  <2>5. t.b.type \in {"rolepolicy", "attachment"}
    <3>1. ParentType(h[b].type) # None /\ ParentType(h[b].type) = "role"
      BY <1>3, <2>1, <2>4 DEF AttachedFrom, MergedFrom
    <3> QED BY <2>3, <3>1, ParentsAre
  <2>6. CASE t.b.type = "rolepolicy"
    <3>1. t \in Policies(Group(s))
      BY <2>2, <2>6, PoliciesAre DEF IamTypes
    <3>2. d \in ToSet(graph[Node(t)].rules)
      BY <2>1, <2>2, <2>3, <2>6 DEF Offered
    <3> QED BY <1>1, <2>6, <3>1, <3>2, PoliciesOk, LeafDenies, DenyMore
  <2>7. CASE t.b.type = "attachment"
    <3> DEFINE w == PolicyFound(h[b])
    <3>1. w # None /\ d \in ToSet(graph[w].rules)
      BY <1>4, <2>1, <2>3, <2>7 DEF Offered
    <3>2. w = PolicyFound(graph[b]) /\ w \in DOMAIN graph
      <4>1. w = PolicyFound(graph[b])
        BY <2>3, PolicyByArn
      <4>2. PolicyFound(h[b]) \in DOMAIN graph
        BY <3>1 DEF PolicyFound, Candidates, Unique
      <4> QED BY <4>1, <4>2
    <3> HIDE DEF w
    <3>3. ~PolicyAstray(t)
      BY <2>2 DEF Hearing, Unheard
    <3>4. PICK y \in Sites : y.b.type = "policy" /\ y.at \in PolicyOf(t) /\ w = y.at
      BY <2>2, <2>7, <3>1, <3>2, <3>3 DEF PolicyAstray
    <3>5. y \in Policies(Group(s))
      BY <2>2, <3>4, PoliciesAre
    <3>6. Node(y) = w
      BY <3>2, <3>4, NodeOfPlace
    <3> QED BY <1>1, <3>1, <3>4, <3>5, <3>6, PoliciesOk, LeafDenies, DenyMore
  <2> QED BY <2>5, <2>6, <2>7
<1> QED BY <1>5, <1>6

(* Every policy of the group is judged with what is declared to deny.        *)
LEMMA IamJudged ==
  ASSUME AtEnd, AllUnsat, NEW h, AttachedFrom(h), NEW s, Hearing(s),
         s.b.type \in {"role", "policy"}, NEW t \in Policies(Group(s))
  PROVE  \E l : /\ VerifyIamPolicy(l) = "unsat" /\ ToSet(h[Node(t)].rules) \subseteq ToSet(l)
                /\ \A q : Denied(l, q) => DeclaredDeny(Policies(Group(s)), q)
<1>1. IamOk(t) /\ t \in Sites /\ ~NotRead(t) /\ Node(t) \in DOMAIN graph /\ ~t.unread
  BY PoliciesOk, SiteMade DEF IamOk, Unheard, NotRead
<1>2. s \in Sites /\ ~NotRead(s) /\ ~s.unread /\ Node(s) \in DOMAIN graph
  BY SiteMade DEF Hearing, NotRead
<1>3. t # s => s.at \in Home(t) \/ t.b.type = "policy"
  BY PoliciesAre DEF Group
<1>4. CASE graph[Node(t)].merged = None
  <2> DEFINE l == graph[Node(t)].rules
  <2>1. VerifyIamPolicy(l) = "unsat" /\ ToSet(h[Node(t)].rules) \subseteq ToSet(l)
    BY <1>1, <1>4, OwnVerdict
  <2>2. ASSUME NEW q, Denied(l, q) PROVE DeclaredDeny(Policies(Group(s)), q)
    <3>1. CASE t.b.type = "role"
      <4>1. t = s
        <5> SUFFICES ASSUME t # s PROVE FALSE
          OBVIOUS
        <5>1. s.at \in Home(t)
          BY <1>3, <3>1
        <5> QED BY <3>1, <5>1, HomeOne, ParentsAre
      <4> QED BY <2>2, <3>1, <4>1, RoleDenies
    <3>2. CASE t.b.type # "role"
      BY <1>1, <2>2, <3>2, LeafDenies, DenyMore DEF Denied
    <3> QED BY <3>1, <3>2
  <2> QED BY <2>1, <2>2
<1>5. CASE graph[Node(t)].merged # None
  <2> DEFINE m == graph[Node(t)].merged l == graph[Node(s)].rules
  <2>1. h[Node(t)].type = t.b.type
    BY <1>1, SiteFirst
  <2>2. /\ m \in DOMAIN graph /\ ParentType(t.b.type) # None
        /\ t.b.type = "sgrule" \/ graph[m].type = ParentType(t.b.type)
        /\ t.b.type # "attachment" => ToSet(h[Node(t)].rules) \subseteq ToSet(graph[m].rules)
    BY <1>1, <1>5, <2>1 DEF AttachedFrom, MergedFrom
  <2>3. t.b.type = "rolepolicy" /\ graph[m].type = "role"
    BY <1>1, <2>2, ParentsAre DEF IamOk, IamTypes
  <2>4. t # s
    BY <2>3
  <2>5. t \in Group(s) /\ s.at \in Home(t)
    BY <1>3, <2>3, <2>4, PoliciesAre
  <2>6. m = Node(s)
    BY <1>1, <1>2, <1>5, <2>5, GroupMerged DEF Hearing
  <2>7. s.b.type = "role"
    BY <1>2, <2>3, <2>6, SiteFirst
  <2>8. graph[Node(s)].merged = None /\ IamOk(s)
    <3>1. h[Node(s)].type = "role"
      BY <1>2, <2>7, SiteFirst
    <3>2. s \in Policies(Group(s))
      BY <2>7, PoliciesAre DEF Group, IamTypes
    <3> QED BY <1>2, <3>1, <3>2, ParentsAre, PoliciesOk DEF AttachedFrom, MergedFrom
  <2>9. VerifyIamPolicy(l) = "unsat"
    BY <2>8, OwnVerdict
  <2>10. \A q : Denied(l, q) => DeclaredDeny(Policies(Group(s)), q)
    BY <2>7, RoleDenies
  <2> QED BY <2>2, <2>3, <2>6, <2>9, <2>10
<1> QED BY <1>4, <1>5

LEMMA JudgedGrants ==
  ASSUME AtEnd, NEW h, AttachedFrom(h), NEW t, IamOk(t), NEW policies, NEW l,
         VerifyIamPolicy(l) = "unsat", ToSet(h[Node(t)].rules) \subseteq ToSet(l),
         \A q : Denied(l, q) => DeclaredDeny(policies, q)
  PROVE  /\ ~IsUnresolved(True(t, t.b.within))
         /\ \A k \in DOMAIN t.b.rules : IsWildAllow(t.b.rules[k]) =>
              \A q \in Requests(t.b.rules[k]) : DeclaredDeny(policies, q)
<1>1. /\ ~IsUnresolved(True(t, t.b.within))
      /\ \A k \in DOMAIN t.b.rules : Copied(t.b.rules[k]) \in ToSet(h[Node(t)].rules)
  BY IamSiteHeard DEF IamOk, Unheard
<1>2. ASSUME NEW k \in DOMAIN t.b.rules, IsWildAllow(t.b.rules[k]),
             NEW q \in Requests(t.b.rules[k])
      PROVE  DeclaredDeny(policies, q)
  <2> DEFINE r == t.b.rules[k] c == Copied(r)
  <2>1. DOMAIN r = StatementFields
    BY StatementsAre DEF IamOk, AtEnd, TruthInv, IInv
  <2>2. c \in ToSet(l)
    BY <1>1
  <2>3. IsStatement(c)
    BY <2>1, CopiedIs DEF IsStatement, Has, StatementFields
  <2>4. IsWildAllow(c) /\ q \in Requests(c)
    BY <1>2, <2>1, CopiedGrants
  <2> HIDE DEF c, r
  <2> QED BY <2>2, <2>3, <2>4, IamUnsat
<1> QED BY <1>1, <1>2

(* A role's attachments of policies that AWS manages.                        *)
LEMMA ManagedJudged ==
  ASSUME AtEnd, AllUnsat, NEW h, AttachedFrom(h), NEW s, Hearing(s),
         s.b.type \in {"role", "policy"}, NEW u \in Group(s), u.b.type = "attachment",
         IsGranted(True(u, u.b.arn)), NEW q \in Actions \X Resources
  PROVE  DeclaredDeny(Policies(Group(s)), q)
<1> DEFINE b == Node(u) v == True(u, u.b.arn)
<1>1. /\ u \in Sites /\ ~NotRead(u) /\ ~Astray(u) /\ ~NotAttached(u) /\ ~PolicyAstray(u)
      /\ b \in DOMAIN graph /\ ~u.unread
  BY SiteMade DEF Hearing, Unheard, NotRead
<1>2. s \in Sites /\ ~NotRead(s) /\ ~s.unread /\ Node(s) \in DOMAIN graph
  BY SiteMade DEF Hearing, NotRead
<1>3. graph[b].merged # None
  BY <1>1 DEF NotAttached
<1>4. graph[b].merged = Node(s)
  <2>1. s.at \in Home(u)
    BY DEF Group
  <2> QED BY <1>1, <1>2, <1>3, <2>1, GroupMerged
<1>5. h[b].type = "attachment" /\ graph[b].arn = h[b].arn
  BY <1>1, SiteFirst DEF AttachedFrom, SameFrom
<1>6. /\ graph[Node(s)].type = "role"
      /\ IF IsManaged(h[b].arn) THEN Managed \in ToSet(graph[Node(s)].rules)
         ELSE PolicyFound(h[b]) # None
  BY <1>1, <1>3, <1>4, <1>5, ParentsAre DEF AttachedFrom, MergedFrom
<1>7. PolicyOf(u) = {}
  <2>1. CASE IsManaged(v)
    BY <2>1 DEF PolicyOf
  <2>2. CASE ~IsManaged(v)
    <3>1. v = Gone
      BY <2>2 DEF IsGranted
    <3>2. ~Is(v, "res") /\ ~Is(v, "lit")
      BY <3>1 DEF Gone, Is
    <3>3. NamedBy(v, u, "policy") = {}
      BY <3>2 DEF NamedBy
    <3> QED BY <3>3 DEF PolicyOf
  <2> QED BY <2>1, <2>2
<1>8. PolicyFound(graph[b]) = None
  BY <1>1, <1>5, <1>7, SiteFirst DEF PolicyAstray
<1>9. Managed \in ToSet(graph[Node(s)].rules)
  BY <1>5, <1>6, <1>8, PolicyByArn
<1>10. s.b.type = "role"
  BY <1>2, <1>6, SiteFirst
<1>11. graph[Node(s)].merged = None /\ IamOk(s)
  <2>1. h[Node(s)].type = "role"
    BY <1>2, <1>10, SiteFirst
  <2>2. s \in Policies(Group(s))
    BY <1>10, PoliciesAre DEF Group, IamTypes
  <2> QED BY <1>2, <2>1, <2>2, ParentsAre, PoliciesOk DEF AttachedFrom, MergedFrom
<1>12. VerifyIamPolicy(graph[Node(s)].rules) = "unsat"
  BY <1>11, OwnVerdict
<1>13. Denied(graph[Node(s)].rules, q)
  BY <1>9, <1>12, IamUnsat
<1> QED BY <1>10, <1>13, RoleDenies

LEMMA IamSafe ==
  ASSUME AtEnd, AllUnsat, NEW s, Hearing(s)
  PROVE  /\ s.b.type \in {"role", "policy"} => ~IamHarm(Group(s), Policies(Group(s)))
         /\ s.b.type \in {"rolepolicy", "attachment"} /\ Homeless(s) =>
              ~IamHarm({s}, Policies({s}))
<1>1. PICK h : AttachedFrom(h)
  BY DEF AtEnd, TruthInv, MadeInv
<1>2. ASSUME s.b.type \in {"role", "policy"}
      PROVE  ~IamHarm(Group(s), Policies(Group(s)))
  <2> DEFINE P == Policies(Group(s))
  <2>1. ASSUME NEW t \in P
        PROVE  /\ ~IsUnresolved(True(t, t.b.within))
               /\ \A k \in DOMAIN t.b.rules : IsWildAllow(t.b.rules[k]) =>
                    \A q \in Requests(t.b.rules[k]) : DeclaredDeny(P, q)
    <3>1. IamOk(t)
      BY PoliciesOk
    <3>2. PICK l : /\ VerifyIamPolicy(l) = "unsat"
                   /\ ToSet(h[Node(t)].rules) \subseteq ToSet(l)
                   /\ \A q : Denied(l, q) => DeclaredDeny(P, q)
      BY <1>1, <1>2, IamJudged
    <3> HIDE DEF P
    <3> QED BY <1>1, <3>1, <3>2, JudgedGrants
  <2>2. \A u \in Group(s) : u.b.type = "attachment" /\ IsGranted(True(u, u.b.arn)) =>
          \A q \in Actions \X Resources : DeclaredDeny(P, q)
    BY <1>1, <1>2, ManagedJudged
  <2> HIDE DEF P
  <2>3. ~IamHarm(Group(s), P)
    BY <2>1, <2>2, IamHarmless
  <2> QED BY <2>3 DEF P
<1>3. ASSUME s.b.type \in {"rolepolicy", "attachment"}, Homeless(s)
      PROVE  ~IamHarm({s}, Policies({s}))
  <2>1. /\ s \in Group(s) /\ s \in Sites /\ ~NotRead(s) /\ ~Astray(s) /\ ~Unheard(s)
    BY DEF Group, Hearing
  <2>2. graph[Node(s)].merged = None
    BY <1>1, <1>3, <2>1, HomelessAlone
  <2>3. s.b.type = "rolepolicy"
    BY <1>3, <2>1, <2>2 DEF Unheard, NotAttached
  <2>4. IamOk(s)
    BY <2>1, <2>3 DEF IamOk, IamTypes
  <2>5. s \in Policies({s}) /\ \A t \in Policies({s}) : t = s
    BY <2>3, PoliciesAre DEF PolicyOf, IamTypes
  <2> DEFINE l == graph[Node(s)].rules
  <2>6. VerifyIamPolicy(l) = "unsat" /\ ToSet(h[Node(s)].rules) \subseteq ToSet(l)
    BY <1>1, <2>2, <2>4, OwnVerdict
  <2>7. ASSUME NEW q, Denied(l, q) PROVE DeclaredDeny(Policies({s}), q)
    BY <1>1, <2>3, <2>4, <2>5, <2>7, LeafDenies, DenyMore DEF Denied
  <2> HIDE DEF l
  <2>8. /\ ~IsUnresolved(True(s, s.b.within))
        /\ \A k \in DOMAIN s.b.rules : IsWildAllow(s.b.rules[k]) =>
             \A q \in Requests(s.b.rules[k]) : DeclaredDeny(Policies({s}), q)
    BY <1>1, <2>4, <2>6, <2>7, JudgedGrants
  <2>9. \A u \in {s} : u.b.type # "attachment"
    BY <2>3
  <2> QED BY <2>5, <2>8, <2>9, IamHarmless
<1> QED BY <1>2, <1>3

(* Nothing is declared in an ARM template in this sense.                     *)
LEMMA NoSites ==
  ASSUME TypeInv, ~Terraform
  PROVE  Sites = {}
<1>1. cfg.blocks = NoNames /\ cfg.modules = NoNames
  BY ConfigAssumption DEF TypeInv, Terraform
<1>2. DOMAIN cfg.blocks = {} /\ DOMAIN cfg.modules = {}
  BY <1>1 DEF NoNames
<1>3. \A s \in Sites : FALSE
  BY <1>2, SitesAre
<1> QED BY <1>3

LEMMA DoneIsSafe == TruthInv => NoFalseSafe
<1> SUFFICES ASSUME TruthInv, phase = "done", AllUnsat, NEW j \in Subjects, Harmful(j)
             PROVE  Blind(j)
  BY DEF NoFalseSafe, AllUnsat
<1>1. PICK s \in Sites : j = SubjectOf(s)
  BY DEF Subjects, SubjectOf
<1>2. AtEnd
  <2>1. Terraform
    BY NoSites DEF TruthInv, IInv
  <2> QED BY <2>1 DEF AtEnd
<1>3. j.site = s /\ j.group = Group(s) /\ j.policies = Policies(Group(s))
  BY <1>1 DEF SubjectOf
<1>4. CASE s.b.type \in SgTypes
  <2>1. SgHarm(s)
    BY <1>3, <1>4 DEF Harmful, SgTypes
  <2>2. NotRead(s) \/ BlocksVanished(s) \/ Misplaced(Node(s))
    BY <1>2, <1>4, <2>1, SgSafe
  <2> QED BY <1>3, <1>4, <2>2 DEF Blind
<1>5. CASE s.b.type \notin SgTypes
  <2> SUFFICES ASSUME ~Blind(j) PROVE FALSE
    OBVIOUS
  <2>1. Hearing(s)
    BY <1>1, <1>5, HearingIs
  <2> QED BY <1>2, <1>3, <1>5, <2>1, NsgSafe, IamSafe DEF Harmful
<1> QED BY <1>4, <1>5

(* README, "fail-closed": when verify_graph finds every resource UNSAT, no    *)
(* declared security group, network security group or IAM policy is harmful, *)
(* what has no value being taken for anything; outside the cases of Blind.  *)
THEOREM UnsatIsSafe == Spec => []NoFalseSafe
BY PipelineMade, DoneIsSafe, PTL

-----------------------------------------------------------------------------
(* The other direction: a SAT is about what is declared.                     *)
Exact == AtEnd /\ cfg.entry # "cli" /\ ~HasListLocal

LEMMA ExactIs ==
  ASSUME Exact
  PROVE  /\ AtEnd /\ cfg.entry # "cli" /\ TypeInv /\ GraphInv /\ phase = "done" /\ Terraform
         /\ \A s : Node(s) = s.at
BY DEF Exact, AtEnd, TruthInv, IInv, Node

LEMMA AttrAbove ==
  ASSUME Exact, NEW s, NEW i, NEW env, MadeFor(s, i, env), i.lost = Absent, NEW e
  PROVE  Above(AttrOf(e, i, env), True(s, e))
<1>1. /\ AboveEnv(env, s.env) /\ i.each = s.i.each /\ s.i.lost = Absent
  BY DEF Exact, MadeFor
<1>2. CASE e = Absent
  <2>1. AttrOf(e, i, env) = Absent
    BY <1>2 DEF AttrOf
  <2>2. True(s, e) = Absent
    BY <2>1, MadeForBelow DEF Below
  <2> QED BY <2>1, <2>2 DEF Above
<1>3. CASE e # Absent
  <2>1. AttrOf(e, i, env) = Value(ForInstance(e, i), env)
    BY <1>3 DEF AttrOf
  <2>2. True(s, e) = Value(ForInstance(e, s.i), s.env)
    BY <1>1 DEF True
  <2>3. ForInstance(e, i) = ForInstance(e, s.i)
    BY <1>1 DEF ForInstance
  <2> QED BY <1>1, <2>1, <2>2, <2>3, ValueAbove
<1> QED BY <1>2, <1>3

LEMMA SatIs ==
  ASSUME Exact, NEW a \in DOMAIN verdicts, verdicts[a] = "sat"
  PROVE  LET l == graph[a].rules IN
         /\ a \in DOMAIN graph /\ graph[a].merged = None /\ graph[a].type \in Verified
         /\ IsList(l)
         /\ graph[a].type \in SgTypes => VerifySecurityGroup(l) = "sat"
         /\ graph[a].type \in NsgTypes => VerifyAzureNsg(l) = "sat"
         /\ graph[a].type \in IamTypes => VerifyIamPolicy(l) = "sat"
<1>1. verdicts = [x \in ToVerify |-> Verdict(graph[x])]
  BY ExactIs DEF GraphInv
<1>2. a \in ToVerify /\ Verdict(graph[a]) = "sat"
  BY <1>1
<1>3. a \in DOMAIN graph /\ graph[a].merged = None /\ graph[a].type \in Verified
  BY <1>2 DEF ToVerify
<1>4. IsList(graph[a].rules)
  BY <1>3, ExactIs DEF GraphInv, IsResource
<1> QED BY <1>2, <1>3, <1>4, VerdictIs

(* A subject that is judged SAT where everything is in its place.            *)
Alarmed(s) ==
  /\ s \in Sites /\ ~NotRead(s) /\ Node(s) \in DOMAIN verdicts /\ verdicts[Node(s)] = "sat"
  /\ ~Tied(Group(s)) /\ InPlace(SubjectOf(s)) /\ InWords(SubjectOf(s))

LEMMA AlarmedIs ==
  ASSUME Exact, NEW h, AttachedFrom(h), NEW s, Alarmed(s)
  PROVE  /\ s \in Sites /\ ~s.unread /\ Node(s) \in DOMAIN graph
         /\ graph[Node(s)].merged = None /\ graph[Node(s)].type = s.b.type
         /\ h[Node(s)].type = s.b.type /\ s.b.type \in Verified
         /\ ToSet(h[Node(s)].rules) \subseteq ToSet(graph[Node(s)].rules)
<1>1. s \in Sites /\ ~s.unread /\ Node(s) \in DOMAIN graph
  BY ExactIs, SiteMade DEF Alarmed, NotRead
<1>2. graph[Node(s)].merged = None /\ graph[Node(s)].type \in Verified
  BY SatIs DEF Alarmed
<1> QED BY <1>1, <1>2, ExactIs, SiteFirst DEF AttachedFrom, RulesFrom

(* A member of its group.                                                   *)
LEMMA MemberIs ==
  ASSUME Exact, NEW h, AttachedFrom(h), NEW s, Alarmed(s), NEW t \in Group(s)
  PROVE  /\ t \in Sites /\ ~NotRead(t) /\ ~t.unread /\ Node(t) \in DOMAIN graph
         /\ graph[Node(t)].type = t.b.type /\ h[Node(t)].type = t.b.type
         /\ graph[Node(t)].arn = h[Node(t)].arn
         /\ t # s => graph[Node(t)].merged # None /\ graph[Node(t)].merged = Node(s)
         /\ ToSet(h[Node(t)].rules) \subseteq ToSet(graph[Node(t)].rules)
<1>1. t \in Sites
  BY DEF Group, Alarmed
<1>2. ~NotRead(t) /\ (t # s => MergedInto(t, s))
  BY DEF Alarmed, InPlace, SubjectOf
<1>3. ~t.unread /\ Node(t) \in DOMAIN graph
  BY <1>1, <1>2, ExactIs, SiteMade DEF NotRead
<1> QED BY <1>1, <1>2, <1>3, ExactIs, SiteFirst DEF AttachedFrom, RulesFrom, SameFrom, MergedInto

(* Where a rule of the resource comes from.                                 *)
LEMMA RuleOrigin ==
  ASSUME Exact, NEW h, AttachedFrom(h), NEW s, Alarmed(s),
         NEW v \in ToSet(graph[Node(s)].rules), v \notin ToSet(h[Node(s)].rules)
  PROVE  \E t \in Group(s) :
           /\ graph[Node(t)].merged = Node(s) /\ graph[Node(t)].merged # None
           /\ v \in Offered(h, Node(t))
<1>1. Node(s) \in DOMAIN graph
  BY AlarmedIs
<1>2. PICK b \in DOMAIN graph :
        graph[b].merged = Node(s) /\ graph[b].merged # None /\ v \in Offered(h, b)
  BY <1>1 DEF AttachedFrom, RulesFrom
<1>3. PICK t \in Sites : ~NotRead(t) /\ Node(t) = b
  BY <1>2 DEF Alarmed, InPlace, SubjectOf, Surplus
<1>4. t \in Group(s)
  BY <1>2, <1>3 DEF Alarmed, InPlace, SubjectOf, MergedInto
<1> QED BY <1>2, <1>3, <1>4

-----------------------------------------------------------------------------
(* SAT of a security group.                                                 *)

LEMMA SgSat ==
  ASSUME NEW l, IsList(l), VerifySecurityGroup(l) = "sat"
  PROVE  \E q \in ToSet(l) : SgStop(q) = "none" /\ Opens(q)
<1>1. \A r : SgStop(r) \in {"unresolvable", "crash", "none"}
  BY DEF SgStop
<1>2. \A k \in 1..Len(l) : SgStop(l[k]) = "none"
  BY <1>1 DEF VerifySecurityGroup
<1>3. PICK k \in 1..Len(l) : Opens(l[k])
  BY SgVerdictIsHarm
<1> QED BY <1>2, <1>3, MembersAre

LEMMA PortAbove ==
  ASSUME NEW v, NEW w, Above(v, w), IsPortSensitive(PortOf(v))
  PROVE  PortOf(w) = Absent \/ PortOf(w).lit \in SensitivePorts
<1>1. CASE v = w
  BY <1>1 DEF IsPortSensitive
<1>2. CASE w = Gone \/ Is(w, "items")
  <2>1. ~Is(w, "lit")
    BY <1>2 DEF Is, Gone
  <2> QED BY <2>1 DEF PortOf
<1> QED BY <1>1, <1>2 DEF Above

LEMMA CidrAbove ==
  ASSUME NEW v, NEW w, Above(v, w), NEW y \in ToSet(ListOf(v)), PublicCidr(y)
  PROVE  \E x \in ToSet(ListOf(w)) : PublicCidr(x)
<1>1. CASE v = w
  BY <1>1
<1>2. CASE w = Gone
  <2>1. Entries(w) = {Gone} /\ w # Absent
    BY <1>2, GoneIsBelow DEF Entries, Is, Gone
  <2>2. PublicCidr(Gone)
    BY DEF PublicCidr, Is, Gone
  <2> QED BY <2>1, <2>2, ListOfIs
<1>3. CASE Is(w, "items") /\ Gone \in Sources(w)
  <2>1. PICK z \in Entries(w) : Gone \in Entries(z)
    BY <1>3 DEF Sources
  <2>2. PublicCidr(z)
    <3>1. CASE Is(z, "items")
      BY <3>1, FormsApart DEF PublicCidr
    <3>2. CASE ~Is(z, "items")
      <4>1. z = Gone
        BY <2>1, <3>2 DEF Entries
      <4> QED BY <4>1 DEF PublicCidr, Is, Gone
    <3> QED BY <3>1, <3>2
  <2>3. w # Absent
    BY <1>3, FormsApart
  <2> QED BY <2>1, <2>2, <2>3, ListOfIs
<1> QED BY <1>1, <1>2, <1>3 DEF Above

(* An entry that is open where references are resolved was open before.      *)
LEMMA PublicBefore ==
  ASSUME NEW q, DOMAIN q = {"port", "cidr"}, NEW a,
         NEW k \in DOMAIN RuleReferTo(q, a).cidr, PublicCidr(RuleReferTo(q, a).cidr[k])
  PROVE  \E y \in ToSet(q.cidr) : PublicCidr(y)
<1>1. RuleReferTo(q, a).cidr = To(Items(q.cidr), a).items
  BY DEF RuleReferTo, Has, To
<1> DEFINE v == Items(q.cidr)
<1>2. Is(v, "items") /\ v.items = q.cidr
  BY ItemsFacts
<1> HIDE DEF v
<1>3. k \in DOMAIN q.cidr /\ (~Is(q.cidr[k], "res") => To(v, a).items[k] = q.cidr[k])
  BY <1>1, <1>2, ToIs DEF v
<1>4. PublicCidr(q.cidr[k])
  <2>1. CASE Is(q.cidr[k], "res")
    BY <2>1, FormsApart DEF PublicCidr
  <2>2. CASE ~Is(q.cidr[k], "res")
    BY <1>1, <1>3, <2>2 DEF v
  <2> QED BY <2>1, <2>2
<1>5. q.cidr[k] \in ToSet(q.cidr)
  BY <1>3 DEF ToSet
<1> QED BY <1>4, <1>5

LEMMA BuiltRules ==
  ASSUME NEW b, NEW i, NEW env, NEW x, NEW q \in ToSet(Referred(Built(b, i, env), x).rules)
  PROVE  \E p \in ToSet(Built(b, i, env).rules) : q = RuleReferTo(p, x)
<1> DEFINE r == Built(b, i, env)
<1>1. DOMAIN r = Fields
  BY BuiltFields
<1> HIDE DEF r
<1>2. \A u : u \in ToSet(Referred(r, x).rules) <=> \E p \in ToSet(r.rules) : u = RuleReferTo(p, x)
  BY <1>1, ReferredRules
<1> QED BY <1>2 DEF r

LEMMA SgSiteOpens ==
  ASSUME Exact, NEW s, NEW i, NEW env, MadeFor(s, i, env), s.b.type \in SgTypes, NEW x,
         NEW q \in ToSet(Referred(Built(s.b, i, env), x).rules), SgStop(q) = "none", Opens(q)
  PROVE  SgHarm(s)
<1> DEFINE r == Built(s.b, i, env)
<1>1. PICK p \in ToSet(r.rules) : q = RuleReferTo(p, x)
  BY BuiltRules
<1>2. i.lost = Absent
  <2> SUFFICES ASSUME i.lost # Absent PROVE FALSE
    OBVIOUS
  <2>1. IsUnresolved(i.lost)
    BY InstanceFacts DEF MadeFor
  <2>2. p = SgLost(i.lost)
    BY <1>1, SgBuilt
  <2>3. q.port = To(i.lost, x)
    BY <1>1, <2>2 DEF RuleReferTo, SgLost, Has, To
  <2>4. IsUnresolved(q.port) \/ Is(q.port, "ref")
    BY <2>1, <2>3, ToIs, FormsApart DEF IsUnresolved
  <2> QED BY <2>4 DEF SgStop
<1>3. PICK k \in DOMAIN s.b.rules : p = SgRule(s.b.rules[k], i, env)
  BY <1>1, <1>2, SgBuilt
<1> DEFINE e == s.b.rules[k]
<1>4. /\ DOMAIN p = {"port", "cidr"} /\ p.port = PortOf(AttrOf(e.port, i, env))
      /\ p.cidr = ListOf(AttrOf(e.cidr, i, env))
  BY <1>3 DEF SgRule
<1> HIDE DEF e, r
<1>5. q.port = p.port
  BY <1>1, <1>4, PortIs DEF RuleReferTo, Has, To
<1>6. PICK n \in DOMAIN q.cidr : PublicCidr(q.cidr[n])
  BY DEF Opens
<1>7. \E y \in ToSet(p.cidr) : PublicCidr(y)
  BY <1>1, <1>4, <1>6, PublicBefore
<1>8. \E y \in ToSet(ListOf(True(s, e.cidr))) : PublicCidr(y)
  BY <1>2, <1>4, <1>7, AttrAbove, CidrAbove
<1>9. PortOf(True(s, e.port)) = Absent \/ PortOf(True(s, e.port)).lit \in SensitivePorts
  BY <1>2, <1>4, <1>5, AttrAbove, PortAbove DEF Opens
<1> QED BY <1>8, <1>9 DEF SgHarm, e

LEMMA SgAlarm ==
  ASSUME Exact, NEW s, Alarmed(s), s.b.type \in SgTypes
  PROVE  \E t \in Group(s) : t.b.type \in SgTypes /\ SgHarm(t)
<1>1. PICK h : AttachedFrom(h)
  BY DEF Exact, AtEnd, TruthInv, MadeInv
<1> DEFINE x == Node(s)
<1>2. /\ s \in Sites /\ ~s.unread /\ x \in DOMAIN graph /\ graph[x].type = s.b.type
      /\ s \in Group(s) /\ x \in DOMAIN verdicts /\ verdicts[x] = "sat"
  BY <1>1, AlarmedIs DEF Group, Alarmed
<1>3. IsList(graph[x].rules) /\ VerifySecurityGroup(graph[x].rules) = "sat"
  BY <1>2, SatIs
<1>4. PICK q \in ToSet(graph[x].rules) : SgStop(q) = "none" /\ Opens(q)
  BY <1>3, SgSat
<1>5. \A t \in Group(s), a \in DOMAIN graph : graph[a].merged = Node(t) => ~Misplaced(a)
  BY DEF Alarmed, InPlace, SubjectOf
<1> HIDE DEF x
<1>6. ASSUME NEW t \in Group(s), t.b.type \in SgTypes, q \in ToSet(h[Node(t)].rules)
      PROVE  SgHarm(t)
  <2>1. t \in Sites /\ ~t.unread /\ Node(t) \in DOMAIN graph
    BY <1>1, MemberIs
  <2>2. PICK i, env : h[Node(t)] = Referred(Built(t.b, i, env), Node(t)) /\ MadeFor(t, i, env)
    BY <1>1, <2>1, ExactIs, SiteFirst
  <2> QED BY <1>4, <1>6, <2>2, SgSiteOpens
<1>7. CASE q \in ToSet(h[x].rules)
  BY <1>2, <1>6, <1>7 DEF x
<1>8. CASE q \notin ToSet(h[x].rules)
  <2>1. PICK t \in Group(s) :
          /\ graph[Node(t)].merged = x /\ graph[Node(t)].merged # None
          /\ q \in Offered(h, Node(t))
    BY <1>1, <1>4, <1>8, RuleOrigin DEF x
  <2>2. /\ Node(t) \in DOMAIN graph /\ graph[Node(t)].type = t.b.type
        /\ h[Node(t)].type = t.b.type
    BY <1>1, MemberIs
  <2>3. t.b.type = "sgrule"
    <3>1. ~Misplaced(Node(t))
      BY <1>2, <1>5, <2>1, <2>2 DEF x
    <3>2. ParentType(t.b.type) = s.b.type
      BY <1>2, <2>1, <2>2, <3>1 DEF Misplaced
    <3>3. ParentType(t.b.type) # None
      BY <1>1, <2>1, <2>2 DEF AttachedFrom, MergedFrom
    <3> QED BY <3>2, <3>3, ParentsAre DEF SgTypes
  <2>4. q \in ToSet(graph[Node(t)].rules)
    BY <2>1, <2>2, <2>3 DEF Offered
  <2>5. q \in ToSet(h[Node(t)].rules)
    <3> SUFFICES ASSUME q \notin ToSet(h[Node(t)].rules) PROVE FALSE
      OBVIOUS
    <3>1. PICK c \in DOMAIN graph : graph[c].merged = Node(t) /\ graph[c].merged # None
      BY <1>1, <2>2, <2>4 DEF AttachedFrom, RulesFrom
    <3>2. ParentType(graph[c].type) = "sgrule"
      BY <1>5, <2>2, <2>3, <3>1 DEF Misplaced
    <3>3. ParentType(graph[c].type) # None
      BY <1>1, <3>1 DEF AttachedFrom, MergedFrom, SameFrom
    <3> QED BY <3>2, <3>3, ParentsAre
  <2> QED BY <1>6, <2>3, <2>5, TypesApart
<1> QED BY <1>7, <1>8

-----------------------------------------------------------------------------
(* SAT of a network security group.                                         *)

LEMMA FieldSaid ==
  ASSUME NEW v, NEW w, Above(v, w), NEW a, ~NsgFieldUnknown(w)
  PROVE  To(v, a) = v /\ v = w
<1>1. v = w
  <2>1. Sources(Gone) = {Gone} /\ IsUnresolved(Gone)
    BY SourcesFacts, UnresolvedFacts DEF Is, Gone
  <2> QED BY <2>1 DEF Above, NsgFieldUnknown
<1>2. ~Is(v, "res")
  <2>1. Is(v, "res") => Sources(v) = {v}
    BY FormsApart, SourcesFacts
  <2> QED BY <1>1, <2>1 DEF NsgFieldUnknown, IsUnresolved
<1>3. Is(v, "items") => \A k \in DOMAIN v.items : ~Is(v.items[k], "res")
  <2> SUFFICES ASSUME Is(v, "items"), NEW k \in DOMAIN v.items, Is(v.items[k], "res") PROVE FALSE
    OBVIOUS
  <2> DEFINE y == v.items[k]
  <2>1. y \in Entries(v) /\ Entries(y) = {y}
    BY FormsApart DEF Entries, ToSet
  <2>2. y \in Sources(v)
    BY <2>1 DEF Sources
  <2> QED BY <1>1, <2>2 DEF NsgFieldUnknown, IsUnresolved
<1>4. To(v, a) = v
  BY <1>2, <1>3 DEF To, ReferTo
<1> QED BY <1>1, <1>4

LEMMA PrioritySaid ==
  ASSUME NEW v, NEW w, Above(v, w), PortOf(w) # Absent
  PROVE  PortOf(v) = PortOf(w)
<1>1. Is(w, "lit")
  BY DEF PortOf
<1>2. ~Is(w, "items") /\ w # Gone
  BY <1>1, FormsApart DEF Is, Gone
<1> QED BY <1>2 DEF Above

LEMMA NsgRuleSaid ==
  ASSUME Exact, NEW t, NEW i, NEW env, MadeFor(t, i, env), i.lost = Absent,
         NEW k \in DOMAIN t.b.rules, NEW x,
         DeclaredRule(t, k).prio # Absent, ~NsgUnknown(DeclaredRule(t, k))
  PROVE  RuleReferTo(NsgRule(t.b.rules[k], i, env), x) = Read(DeclaredRule(t, k))
<1> DEFINE e == t.b.rules[k]
           d == DeclaredRule(t, k)
           p == PortOf(AttrOf(e.prio, i, env))
<1>1. RuleReferTo(NsgRule(e, i, env), x) =
        [prio |-> IF p = Absent THEN None ELSE Number[p.lit],
         access |-> To(AttrOf(e.access, i, env), x),
         from |-> To(AttrOf(e.from, i, env), x),
         to |-> To(AttrOf(e.to, i, env), x),
         port |-> To(AttrOf(e.port, i, env), x)]
  BY NsgReferred
<1>2. /\ d.prio = PortOf(True(t, e.prio)) /\ d.access = True(t, e.access)
      /\ d.from = True(t, e.from) /\ d.to = True(t, e.to) /\ d.port = True(t, e.port)
  BY DEF DeclaredRule
<1>3. d.prio # Absent /\ ~NsgFieldUnknown(d.access) /\ ~NsgFieldUnknown(d.from)
      /\ ~NsgFieldUnknown(d.to) /\ ~NsgFieldUnknown(d.port)
  BY DEF NsgUnknown
<1> HIDE DEF d, e
<1>4. p = d.prio
  BY <1>2, <1>3, AttrAbove, PrioritySaid
<1>5. To(AttrOf(e.access, i, env), x) = d.access
  BY <1>2, <1>3, AttrAbove, FieldSaid
<1>6. To(AttrOf(e.from, i, env), x) = d.from
  BY <1>2, <1>3, AttrAbove, FieldSaid
<1>7. To(AttrOf(e.to, i, env), x) = d.to
  BY <1>2, <1>3, AttrAbove, FieldSaid
<1>8. To(AttrOf(e.port, i, env), x) = d.port
  BY <1>2, <1>3, AttrAbove, FieldSaid
<1> HIDE DEF p
<1>9. RuleReferTo(NsgRule(e, i, env), x) =
        [prio |-> Number[d.prio.lit], access |-> d.access, from |-> d.from, to |-> d.to,
         port |-> d.port]
  BY <1>1, <1>3, <1>4, <1>5, <1>6, <1>7, <1>8
<1> QED BY <1>9 DEF Read, d, e

(* All is known of a site's rules, and they are in a list that is judged.    *)
NsgSaid(t) ==
  /\ t \in Sites /\ t.b.type \in NsgTypes /\ ~t.unread /\ Node(t) \in DOMAIN graph /\ ~Unsaid(t)
  /\ \A k \in DOMAIN t.b.rules : DeclaredRule(t, k).prio # Absent /\ ~NsgUnknown(DeclaredRule(t, k))

LEMMA NsgSiteSaid ==
  ASSUME Exact, NEW h, AttachedFrom(h), NEW t, NsgSaid(t), NEW l, IsList(l),
         VerifyAzureNsg(l) = "sat", ToSet(h[Node(t)].rules) \subseteq ToSet(l)
  PROVE  /\ \A k \in DOMAIN t.b.rules : Read(DeclaredRule(t, k)) \in ToSet(h[Node(t)].rules)
         /\ \A v \in ToSet(h[Node(t)].rules) : \E k \in DOMAIN t.b.rules : v = Read(DeclaredRule(t, k))
<1> DEFINE x == Node(t)
<1>1. PICK i, env : h[x] = Referred(Built(t.b, i, env), x) /\ MadeFor(t, i, env)
  BY ExactIs, SiteFirst DEF NsgSaid
<1> DEFINE r == Built(t.b, i, env)
<1>2. \A v : v \in ToSet(h[x].rules) <=> \E p \in ToSet(r.rules) : v = RuleReferTo(p, x)
  <2>1. DOMAIN r = Fields
    BY BuiltFields
  <2> HIDE DEF r
  <2>2. \A v : v \in ToSet(Referred(r, x).rules) <=>
               \E p \in ToSet(r.rules) : v = RuleReferTo(p, x)
    BY <2>1, ReferredRules
  <2> QED BY <1>1, <2>2 DEF r
<1>3. t.b.type \in NsgTypes
  BY DEF NsgSaid
<1>4. i.lost = Absent
  <2> SUFFICES ASSUME i.lost # Absent PROVE FALSE
    OBVIOUS
  <2>1. IsUnresolved(i.lost) /\ t.i.lost # Absent
    BY <1>1, InstanceFacts DEF MadeFor, Exact
  <2>2. t.b.type = "nsgrule"
    BY <1>3, <2>1 DEF NsgSaid, Unsaid, NsgTypes
  <2>3. NsgLost(i.lost) \in ToSet(r.rules)
    BY <1>3, <2>2, NsgBuilt
  <2> DEFINE v == RuleReferTo(NsgLost(i.lost), x)
  <2>4. v \in ToSet(l)
    BY <1>2, <2>3
  <2>5. Has(v, "prio") /\ v.access = To(i.lost, x)
    BY DEF RuleReferTo, NsgLost, Has, To
  <2> HIDE DEF v
  <2>6. IsUnresolved(v.access) \/ Is(v.access, "ref")
    BY <2>1, <2>5, ToIs, FormsApart DEF IsUnresolved
  <2>7. v.access \in Sources(v.access)
    BY <2>6, FormsApart, SourcesFacts DEF IsUnresolved
  <2>8. NsgUnknown(v)
    BY <2>6, <2>7 DEF NsgUnknown, NsgFieldUnknown
  <2> QED BY <2>4, <2>5, <2>8, NsgKnown
<1>5. ASSUME NEW k \in DOMAIN t.b.rules
      PROVE  RuleReferTo(NsgRule(t.b.rules[k], i, env), x) = Read(DeclaredRule(t, k))
  BY <1>1, <1>4, NsgRuleSaid DEF NsgSaid
<1>6. ASSUME NEW k \in DOMAIN t.b.rules PROVE NsgRule(t.b.rules[k], i, env) \in ToSet(r.rules)
  BY <1>3, <1>4, NsgBuilt
<1>7. ASSUME NEW p \in ToSet(r.rules)
      PROVE  \E k \in DOMAIN t.b.rules : p = NsgRule(t.b.rules[k], i, env)
  BY <1>3, <1>4, NsgBuilt
<1> HIDE DEF r
<1> QED BY <1>2, <1>5, <1>6, <1>7

LEMMA GroupSaid ==
  ASSUME Exact, NEW h, AttachedFrom(h), NEW g, NEW c, Hears(h, c, g),
         VerifyAzureNsg(graph[c].rules) = "sat", IsList(graph[c].rules), ~Tied(g),
         \A t \in g : t.b.type \in NsgTypes =>
           /\ t \in Sites /\ ~t.unread /\ Node(t) \in DOMAIN graph
           /\ ~Unsaid(t) /\ Holds(h, t, c)
  PROVE  NsgHarm(g)
<1> DEFINE l == graph[c].rules
           D == NsgRules(g)
<1> SUFFICES ASSUME ~NsgHarm(g) PROVE FALSE
  OBVIOUS
<1>1. \A d \in D : d.prio # Absent /\ ~NsgUnknown(d)
  BY DEF NsgHarm, RulesHarm
<1>2. ASSUME NEW t \in g, t.b.type \in NsgTypes
      PROVE  NsgSaid(t) /\ \A k \in DOMAIN t.b.rules : DeclaredRule(t, k) \in D
  <2>1. \A k \in DOMAIN t.b.rules : DeclaredRule(t, k) \in D
    BY <1>2, NsgRulesAre
  <2> QED BY <1>1, <1>2, <2>1 DEF NsgSaid
<1>3. ASSUME NEW v \in ToSet(l), Has(v, "prio") PROVE \E d \in D : v = Read(d)
  <2>1. PICK t \in g :
          t.b.type \in NsgTypes /\ v \in ToSet(h[Node(t)].rules) /\ Holds(h, t, c)
    BY <1>3 DEF Hears
  <2>2. PICK k \in DOMAIN t.b.rules : v = Read(DeclaredRule(t, k))
    <3>1. NsgSaid(t) /\ ToSet(h[Node(t)].rules) \subseteq ToSet(l)
      BY <1>2, <2>1 DEF Holds
    <3>2. \A u \in ToSet(h[Node(t)].rules) : \E k \in DOMAIN t.b.rules : u = Read(DeclaredRule(t, k))
      BY <3>1, NsgSiteSaid
    <3> QED BY <2>1, <3>2
  <2>3. DeclaredRule(t, k) \in D
    BY <1>2, <2>1
  <2> HIDE DEF D
  <2> QED BY <2>2, <2>3
<1>4. ASSUME NEW d \in D PROVE Read(d) \in ToSet(l)
  <2>1. PICK t \in g : t.b.type \in NsgTypes /\ \E k \in DOMAIN t.b.rules : d = DeclaredRule(t, k)
    BY NsgRulesAre
  <2>2. PICK k \in DOMAIN t.b.rules : d = DeclaredRule(t, k)
    BY <2>1
  <2>3. Holds(h, t, c) /\ NsgSaid(t)
    BY <1>2, <2>1
  <2>4. Read(d) \in ToSet(h[Node(t)].rules)
    BY <2>2, <2>3, NsgSiteSaid DEF Holds
  <2> QED BY <2>3, <2>4 DEF Holds
<1>5. \A d : Has(Read(d), "prio")
  BY DEF Has, Read
<1>6. \A v : Has(v, "prio") /\ (\E k \in 1..Len(l) : l[k] = v) <=> \E d \in D : v = Read(d)
  BY <1>3, <1>4, <1>5, MembersAre
<1>7. ASSUME NEW d \in D PROVE HasNumber(d)
  <2>1. PICK t \in g : t.b.type \in NsgTypes /\ \E k \in DOMAIN t.b.rules : d = DeclaredRule(t, k)
    BY NsgRulesAre
  <2>2. PICK k \in DOMAIN t.b.rules : d = DeclaredRule(t, k)
    BY <2>1
  <2>3. d.prio = PortOf(True(t, t.b.rules[k].prio))
    BY <2>2 DEF DeclaredRule
  <2> QED BY <1>1, <2>3, PortIs DEF HasNumber
<1> HIDE DEF l, D
<1>8. IsList(l) /\ Gives(l, D)
  BY <1>6 DEF Gives, l
<1>9. VerifyAzureNsg(l) = "sat" /\ ~RuleTie(D)
  BY DEF l, D, Tied
<1> QED BY <1>7, <1>8, <1>9, NsgSatIsHarm DEF NsgHarm, D

(* The resource of a group has the rules of the sites of the group, and no    *)
(* others.                                                                  *)
LEMMA NsgMembers ==
  ASSUME Exact, NEW h, AttachedFrom(h), NEW s, Alarmed(s), s.b.type = "nsg",
         NEW t \in Group(s), t.b.type \in NsgTypes
  PROVE  /\ t \in Sites /\ ~t.unread /\ Node(t) \in DOMAIN graph
         /\ ~Unsaid(t) /\ Holds(h, t, Node(s))
<1>1. t \in Sites /\ ~t.unread /\ Node(t) \in DOMAIN graph /\ h[Node(t)].type = t.b.type
  BY MemberIs
<1>2. CASE t = s
  BY <1>1, <1>2, AlarmedIs DEF Holds, Alarmed, InWords, SubjectOf
<1>3. CASE t # s
  <2>1. s.at \in Home(t)
    BY <1>3 DEF Group
  <2>2. t.b.type = "nsgrule"
    BY <2>1, HomeOne, ParentsAre DEF NsgTypes
  <2>3. ~Unsaid(t)
    BY <2>2, TypesApart DEF Unsaid
  <2>4. graph[Node(t)].merged = Node(s) /\ graph[Node(t)].merged # None
    BY <1>3, MemberIs
  <2>6. Holds(h, t, Node(s))
    BY <1>1, <2>2, <2>4 DEF AttachedFrom, MergedFrom, Holds
  <2> QED BY <1>1, <2>3, <2>6
<1> QED BY <1>2, <1>3
LEMMA NsgOrigin ==
  ASSUME Exact, NEW h, AttachedFrom(h), NEW s, Alarmed(s), s.b.type = "nsg"
  PROVE  Hears(h, Node(s), Group(s))
<1> DEFINE x == Node(s)
<1>1. /\ x \in DOMAIN graph /\ graph[x].merged = None /\ graph[x].type = "nsg"
      /\ h[x].type = "nsg" /\ s \in Group(s) /\ s.b.type \in NsgTypes
  BY AlarmedIs DEF Group, NsgTypes
<1> HIDE DEF x
<1>2. ASSUME NEW v \in ToSet(graph[x].rules), Has(v, "prio")
      PROVE  \E t \in Group(s) :
               t.b.type \in NsgTypes /\ v \in ToSet(h[Node(t)].rules) /\ Holds(h, t, x)
  <2>1. CASE v \in ToSet(h[x].rules)
    BY <1>1, <2>1, NsgMembers DEF x
  <2>2. CASE v \notin ToSet(h[x].rules)
    <3>1. PICK t \in Group(s) :
            /\ graph[Node(t)].merged = x /\ graph[Node(t)].merged # None
            /\ v \in Offered(h, Node(t))
      BY <1>2, <2>2, RuleOrigin DEF x
    <3> DEFINE b == Node(t)
    <3>2. b \in DOMAIN graph /\ graph[b].type = t.b.type /\ h[b].type = t.b.type
      BY MemberIs
    <3> HIDE DEF b
    <3>3. ~IsSgRule(v)
      BY <1>2 DEF IsSgRule, Has
    <3>4. h[b].type # "sgrule"
      <4> SUFFICES ASSUME h[b].type = "sgrule" PROVE FALSE
        OBVIOUS
      <4>1. v \in ToSet(graph[b].rules) /\ graph[b].type = "sgrule"
        BY <3>1, <3>2 DEF Offered, b
      <4> QED BY <3>2, <3>3, <4>1 DEF AttachedFrom, SgRulesOnly
    <3>5. h[b].type = "nsgrule"
      <4>1. ParentType(h[b].type) # None /\ ParentType(h[b].type) = "nsg"
        BY <1>1, <3>1, <3>2, <3>4 DEF AttachedFrom, MergedFrom, b
      <4> QED BY <4>1, ParentsAre
    <3>6. v \in ToSet(graph[b].rules)
      BY <3>1, <3>5 DEF Offered, b
    <3>7. v \in ToSet(h[b].rules)
      BY <3>2, <3>3, <3>5, <3>6, RulesOfRule
    <3>8. t.b.type \in NsgTypes
      BY <3>2, <3>5 DEF NsgTypes
    <3> QED BY <3>7, <3>8, NsgMembers DEF b, x
  <2> QED BY <2>1, <2>2
<1> QED BY <1>1, <1>2 DEF Hears, NsgTypes, x

LEMMA NsgAlarm ==
  ASSUME Exact, NEW s, Alarmed(s)
  PROVE  /\ s.b.type = "nsg" => NsgHarm(Group(s))
         /\ s.b.type = "nsgrule" => Homeless(s) /\ NsgHarm({s})
<1>1. PICK h : AttachedFrom(h)
  BY DEF Exact, AtEnd, TruthInv, MadeInv
<1>2. /\ s \in Sites /\ ~s.unread /\ Node(s) \in DOMAIN graph /\ graph[Node(s)].merged = None
      /\ graph[Node(s)].type = s.b.type /\ ~NotRead(s) /\ ~Tied(Group(s))
      /\ Node(s) \in DOMAIN verdicts /\ verdicts[Node(s)] = "sat"
  BY <1>1, AlarmedIs DEF Alarmed
<1>3. s.b.type \in NsgTypes =>
        IsList(graph[Node(s)].rules) /\ VerifyAzureNsg(graph[Node(s)].rules) = "sat"
  BY <1>2, SatIs
<1>4. ASSUME s.b.type = "nsg" PROVE NsgHarm(Group(s))
  <2>1. Hears(h, Node(s), Group(s))
    BY <1>1, <1>4, NsgOrigin
  <2> QED BY <1>1, <1>2, <1>3, <1>4, <2>1, NsgMembers, GroupSaid DEF NsgTypes
<1>5. ASSUME s.b.type = "nsgrule" PROVE Homeless(s) /\ NsgHarm({s})
  <2>1. Homeless(s)
    BY <1>5, TypesApart DEF Alarmed, InPlace, SubjectOf
  <2>2. Hears(h, Node(s), {s}) /\ Holds(h, s, Node(s))
    BY <1>1, <1>2, <1>5, ExactIs, RuleHears
  <2>3. ~Unsaid(s)
    BY DEF Alarmed, InWords, SubjectOf
  <2>4. NsgRules({s}) \subseteq NsgRules(Group(s))
    BY NsgRulesAre DEF Group
  <2>5. ~Tied({s})
    BY <1>2, <2>4 DEF Tied, RuleTie
  <2> QED BY <1>1, <1>2, <1>3, <1>5, <2>1, <2>2, <2>3, <2>5, GroupSaid, TypesApart
<1> QED BY <1>4, <1>5

-----------------------------------------------------------------------------
(* SAT of a policy.                                                         *)

(* What "sat" says of the rules of a policy.                                 *)
GrantedBy(l, q) ==
  \/ \E r \in ToSet(l) : IsStatement(r) /\ IsWildAllow(r) /\ q \in Requests(r)
  \/ Managed \in ToSet(l) /\ q \in Actions \X Resources

LEMMA IamSat ==
  ASSUME NEW l, VerifyIamPolicy(l) = "sat"
  PROVE  /\ \A v \in ToSet(l) : ~IsUnresolved(v)
         /\ \E q : GrantedBy(l, q) /\ ~Denied(l, q)
<1> DEFINE all == ToSet(l)
           stmts == {s \in all : IsStatement(s)}
           granted == UNION ({Requests(s) : s \in {t \in stmts : IsWildAllow(t)}}
                               \cup {Actions \X Resources : s \in all \cap {Managed}})
           denied == UNION {Requests(s) : s \in {t \in stmts : t.effect = "Deny"}}
<1>1. (\A v \in all : ~IsUnresolved(v)) /\ granted \ denied # {}
  BY DEF VerifyIamPolicy
<1>2. \A q : Denied(l, q) => q \in denied
  BY DEF Denied
<1>3. ASSUME NEW q \in granted PROVE GrantedBy(l, q)
  BY <1>3 DEF GrantedBy
<1> HIDE DEF granted, denied
<1> QED BY <1>1, <1>2, <1>3

(* A statement that is not widened is as it is declared.                     *)
LEMMA CopiedAllows ==
  ASSUME NEW t, t.b.type \in IamTypes, ~Widened(t, "Allow"), NEW k \in DOMAIN t.b.rules,
         DOMAIN t.b.rules[k] = StatementFields, IsWildAllow(Copied(t.b.rules[k]))
  PROVE  /\ IsWildAllow(t.b.rules[k])
         /\ Requests(Copied(t.b.rules[k])) = Requests(t.b.rules[k])
<1> DEFINE r == t.b.rules[k]
           c == Copied(r)
<1>1. /\ c.actions = r.actions /\ c.resources = r.resources /\ c.effect = r.effect
      /\ IF cfg.entry = "cli" THEN c = r ELSE c.notActions = {} /\ c.notResources = {}
  BY CopiedIs
<1>2. r.effect = "Allow"
  BY <1>1 DEF IsWildAllow
<1>3. cfg.entry = "cli" \/ r.notActions \cup r.notResources = {}
  BY <1>2 DEF Widened
<1>4. IsWildAllow(c)
  OBVIOUS
<1> HIDE DEF c, r
<1>5. c.notActions = r.notActions /\ c.notResources = r.notResources
  BY <1>1, <1>3
<1>6. IsWildAllow(r)
  BY <1>1, <1>4, <1>5 DEF IsWildAllow
<1>7. Requests(c) = Requests(r)
  BY <1>1, <1>5 DEF Requests
<1> QED BY <1>6, <1>7 DEF c, r

(* The policies of a group and the list that its verdict is about.           *)
Worded(g, policies, l) ==
  /\ \A t \in policies : t \in Sites /\ t.b.type \in IamTypes /\ ~Widened(t, "Allow")
  /\ \A v \in ToSet(l) : IsStatement(v) =>
       \E t \in policies : \E k \in DOMAIN t.b.rules : v = Copied(t.b.rules[k])
  /\ Managed \in ToSet(l) =>
       \E u \in g : u.b.type = "attachment" /\ IsGranted(True(u, u.b.arn))
  /\ \A t \in policies :
       \/ IsUnresolved(True(t, t.b.within))
       \/ \A k \in DOMAIN t.b.rules : Copied(t.b.rules[k]) \in ToSet(l)

LEMMA WordedIsHarm ==
  ASSUME TypeInv, NEW g, NEW policies, NEW l, Worded(g, policies, l),
         VerifyIamPolicy(l) = "sat"
  PROVE  IamHarm(g, policies)
<1> SUFFICES ASSUME \A t \in policies : ~IsUnresolved(True(t, t.b.within))
             PROVE  IamHarm(g, policies)
  BY DEF IamHarm
<1> DEFINE stmts == UNION {ToSet(s.b.rules) : s \in policies}
           attached == {True(s, s.b.arn) : s \in {t \in g : t.b.type = "attachment"}}
           managed == {v \in attached : v = Gone \/ IsManaged(v)}
           granted == UNION ({Requests(r) : r \in {x \in stmts : IsWildAllow(x)}}
                               \cup {Actions \X Resources : v \in managed})
           denied == UNION {Requests(d) : d \in {x \in stmts : x.effect = "Deny"}}
<1>1. \A t \in policies : \A k \in DOMAIN t.b.rules :
        DOMAIN t.b.rules[k] = StatementFields /\ Copied(t.b.rules[k]) \in ToSet(l)
  BY StatementsAre DEF Worded
<1>2. PICK q : GrantedBy(l, q) /\ ~Denied(l, q)
  BY IamSat
<1>3. \A r : r \in stmts <=> \E t \in policies : \E k \in DOMAIN t.b.rules : r = t.b.rules[k]
  BY DEF ToSet
<1>4. \A u \in g : u.b.type = "attachment" /\ IsGranted(True(u, u.b.arn)) =>
        True(u, u.b.arn) \in managed
  BY DEF IsGranted
<1> HIDE DEF stmts, managed
<1>5. q \in granted
  <2>1. CASE \E r \in ToSet(l) : IsStatement(r) /\ IsWildAllow(r) /\ q \in Requests(r)
    <3>1. PICK r \in ToSet(l) : IsStatement(r) /\ IsWildAllow(r) /\ q \in Requests(r)
      BY <2>1
    <3>2. PICK t \in policies : \E k \in DOMAIN t.b.rules : r = Copied(t.b.rules[k])
      BY <3>1 DEF Worded
    <3>3. PICK k \in DOMAIN t.b.rules : r = Copied(t.b.rules[k])
      BY <3>2
    <3>4. IsWildAllow(t.b.rules[k]) /\ Requests(r) = Requests(t.b.rules[k])
      BY <1>1, <3>1, <3>3, CopiedAllows DEF Worded
    <3>5. t.b.rules[k] \in stmts
      BY <1>3
    <3> QED BY <3>1, <3>4, <3>5
  <2>2. CASE Managed \in ToSet(l) /\ q \in Actions \X Resources
    <3>1. \E v : v \in managed
      BY <1>4, <2>2 DEF Worded
    <3> QED BY <2>2, <3>1
  <2> QED BY <1>2, <2>1, <2>2 DEF GrantedBy
<1>6. q \notin denied
  <2> SUFFICES ASSUME NEW d \in stmts, d.effect = "Deny", q \in Requests(d) PROVE FALSE
    OBVIOUS
  <2>1. PICK t \in policies : \E k \in DOMAIN t.b.rules : d = t.b.rules[k]
    BY <1>3
  <2>2. PICK k \in DOMAIN t.b.rules : d = t.b.rules[k]
    BY <2>1
  <2> DEFINE c == Copied(d)
  <2>3. c \in ToSet(l) /\ DOMAIN d = StatementFields
    BY <1>1, <2>2
  <2>4. DOMAIN c = StatementFields /\ c.effect = "Deny" /\ q \in Requests(c)
    BY <2>3, CopiedIs, CopiedGrants
  <2> HIDE DEF c
  <2>5. IsStatement(c)
    BY <2>4 DEF IsStatement, Has, StatementFields
  <2> QED BY <1>2, <2>3, <2>4, <2>5 DEF Denied
<1>7. granted \ denied # {}
  <2> HIDE DEF granted, denied
  <2> QED BY <1>5, <1>6
<1> QED BY <1>7 DEF IamHarm, stmts, managed

(* A policy as the pipeline read it.                                         *)
IamSaid(t) ==
  /\ t \in Sites /\ t.b.type \in IamTypes /\ ~t.unread /\ ~NotRead(t) /\ ~Unsaid(t)
  /\ Node(t) \in DOMAIN graph

LEMMA IamSiteSaid ==
  ASSUME Exact, NEW h, AttachedFrom(h), NEW t, IamSaid(t), NEW l, VerifyIamPolicy(l) = "sat",
         ToSet(h[Node(t)].rules) \subseteq ToSet(l)
  PROVE  \/ IsUnresolved(True(t, t.b.within))
         \/ \A k \in DOMAIN t.b.rules : Copied(t.b.rules[k]) \in ToSet(l)
<1> DEFINE x == Node(t)
<1>1. PICK i, env : h[x] = Referred(Built(t.b, i, env), x) /\ MadeFor(t, i, env)
  BY ExactIs, SiteFirst DEF IamSaid
<1> DEFINE r == Built(t.b, i, env)
           w == AttrOf(t.b.within, i, env)
<1>2. \A p \in ToSet(r.rules) : RuleReferTo(p, x) \in ToSet(h[x].rules)
  <2>1. DOMAIN r = Fields
    BY BuiltFields
  <2> HIDE DEF r
  <2>2. \A v : v \in ToSet(Referred(r, x).rules) <=>
               \E p \in ToSet(r.rules) : v = RuleReferTo(p, x)
    BY <2>1, ReferredRules
  <2> QED BY <1>1, <2>2 DEF r
<1>3. i.lost = Absent
  BY <1>1 DEF MadeFor, Exact, IamSaid, Unsaid
<1>4. CASE IsUnresolved(w)
  <2>1. Above(w, True(t, t.b.within))
    BY <1>1, <1>3, AttrAbove
  <2>2. ~Is(w, "items")
    BY <1>4, FormsApart DEF IsUnresolved
  <2> QED BY <1>4, <2>1, <2>2, UnresolvedFacts DEF Above
<1>5. CASE ~IsUnresolved(w)
  <2>1. ASSUME NEW k \in DOMAIN t.b.rules PROVE Copied(t.b.rules[k]) \in ToSet(l)
    <3>1. Copied(t.b.rules[k]) \in ToSet(r.rules)
      BY <1>3, <1>5, IamBuilt DEF IamSaid
    <3>2. RuleReferTo(Copied(t.b.rules[k]), x) = Copied(t.b.rules[k])
      BY ExactIs, StatementsAre, CopiedIs DEF IamSaid
    <3> QED BY <1>2, <3>1, <3>2
  <2> QED BY <2>1
<1> QED BY <1>4, <1>5

(* A policy's own rules are no policy that AWS manages.                      *)
LEMMA OwnNotManaged ==
  ASSUME Exact, NEW h, AttachedFrom(h), NEW t, IamSaid(t)
  PROVE  Managed \notin ToSet(h[Node(t)].rules)
<1> SUFFICES ASSUME Managed \in ToSet(h[Node(t)].rules) PROVE FALSE
  OBVIOUS
<1> DEFINE x == Node(t)
<1>1. PICK i, env : h[x] = Referred(Built(t.b, i, env), x) /\ MadeFor(t, i, env)
  BY ExactIs, SiteFirst DEF IamSaid
<1>2. PICK p \in ToSet(Built(t.b, i, env).rules) : Managed = RuleReferTo(p, x)
  BY <1>1, BuiltRules
<1>3. i.lost = Absent
  BY <1>1 DEF MadeFor, Exact, IamSaid, Unsaid
<1>4. ~IsUnresolved(p)
  <2>1. ~IsUnresolved(Managed) /\ ~Is(Managed, "ref")
    BY DEF Managed, IsUnresolved, Is
  <2> QED BY <1>2, <2>1, UnresolvedRule
<1>5. PICK k \in DOMAIN t.b.rules : p = Copied(t.b.rules[k])
  <2>1. t.b.type \in IamTypes
    BY DEF IamSaid
  <2>2. IF IsUnresolved(AttrOf(t.b.within, i, env)) THEN p = AttrOf(t.b.within, i, env)
        ELSE \E k \in DOMAIN t.b.rules : p = Copied(t.b.rules[k])
    BY <1>2, <1>3, <2>1, IamBuilt
  <2> QED BY <1>4, <2>2
<1>6. DOMAIN t.b.rules[k] = StatementFields
  BY ExactIs, StatementsAre DEF IamSaid
<1>7. DOMAIN Managed = StatementFields
  BY <1>2, <1>5, <1>6, CopiedIs
<1> QED BY <1>7 DEF Managed, StatementFields

(* An attachment of a policy that AWS manages is one as it is declared.      *)
LEMMA AttachedIsGranted ==
  ASSUME Exact, NEW h, AttachedFrom(h), NEW t \in Sites, ~t.unread, Node(t) \in DOMAIN graph,
         IsManaged(h[Node(t)].arn)
  PROVE  IsGranted(True(t, t.b.arn))
<1> DEFINE x == Node(t)
<1>1. PICK i, env : h[x] = Referred(Built(t.b, i, env), x) /\ MadeFor(t, i, env)
  BY ExactIs, SiteFirst
<1> DEFINE r == Built(t.b, i, env)
           v == AttrOf(t.b.arn, i, env)
<1>2. h[x].arn = To(v, x)
  <2>1. DOMAIN r = Fields /\ r.arn = v
    BY BuiltFields
  <2> HIDE DEF r, v
  <2>2. Referred(r, x).arn = To(v, x)
    BY <2>1, ReferredFields DEF To
  <2> QED BY <1>1, <2>2 DEF r
<1>3. To(v, x) = v /\ IsManaged(v) /\ Is(v, "lit")
  <2>1. Is(To(v, x), "lit")
    BY <1>2 DEF IsManaged
  <2> HIDE DEF v
  <2>2. ~Is(v, "items") /\ ~Is(v, "res")
    BY <2>1, ToIs, FormsApart
  <2> QED BY <1>2, <2>1, <2>2, ToIs DEF v
<1>4. i.lost = Absent
  <2> SUFFICES ASSUME i.lost # Absent PROVE FALSE
    OBVIOUS
  <2>1. IsUnresolved(i.lost)
    BY <1>1, InstanceFacts DEF MadeFor
  <2>2. v = Absent \/ v = i.lost
    BY DEF AttrOf
  <2> QED BY <1>3, <2>1, <2>2, FormsApart DEF IsUnresolved
<1>5. Above(v, True(t, t.b.arn))
  BY <1>1, <1>4, AttrAbove
<1>6. ~Is(v, "items")
  BY <1>3, FormsApart
<1> HIDE DEF v
<1> QED BY <1>3, <1>5, <1>6 DEF Above, IsGranted

(* What an attachment of the group names.                                    *)
LEMMA AttachedPolicy ==
  ASSUME Exact, NEW h, AttachedFrom(h), NEW s, Alarmed(s), NEW u \in Group(s),
         u.b.type = "attachment", PolicyFound(h[Node(u)]) # None
  PROVE  \E t \in Policies(Group(s)) :
           /\ t.b.type = "policy" /\ t.at = PolicyFound(h[Node(u)]) /\ t.at \in PolicyOf(u)
<1>1. graph[Node(u)].arn = h[Node(u)].arn /\ ~PolicyAstray(u)
  BY MemberIs DEF Alarmed, InWords, SubjectOf
<1>2. PolicyFound(graph[Node(u)]) = PolicyFound(h[Node(u)])
  BY <1>1, PolicyByArn
<1>3. PICK t \in Sites : t.b.type = "policy" /\ t.at \in PolicyOf(u) /\ t.at = PolicyFound(h[Node(u)])
  BY <1>1, <1>2 DEF PolicyAstray
<1> QED BY <1>3, PoliciesAre

LEMMA PoliciesSaid ==
  ASSUME Exact, NEW h, AttachedFrom(h), NEW s, Alarmed(s), NEW t \in Policies(Group(s))
  PROVE  /\ IamSaid(t) /\ ~Widened(t, "Allow")
         /\ graph[Node(t)].type = t.b.type /\ h[Node(t)].type = t.b.type
<1>1. t \in Sites /\ t.b.type \in IamTypes
  BY MemberIs, PoliciesAre DEF IamTypes
<1>2. ~NotRead(t) /\ ~Widened(t, "Allow") /\ ~Unsaid(t)
  BY DEF Alarmed, InWords, SubjectOf
<1>3. ~t.unread /\ Node(t) \in DOMAIN graph
  BY <1>1, <1>2, ExactIs, SiteMade DEF NotRead
<1> QED BY <1>1, <1>2, <1>3, ExactIs, SiteFirst DEF IamSaid

(* What the list of a group has that was merged into it, and that is no rule  *)
(* of a security group.                                                     *)
LEMMA IamOrigin ==
  ASSUME Exact, NEW h, AttachedFrom(h), NEW s, Alarmed(s), s.b.type \in IamTypes,
         NEW v \in ToSet(graph[Node(s)].rules), ~IsSgRule(v)
  PROVE  \/ \E t \in Policies(Group(s)) : v \in ToSet(h[Node(t)].rules)
         \/ /\ v = Managed
            /\ \E u \in Group(s) : u.b.type = "attachment" /\ IsManaged(h[Node(u)].arn)
<1> DEFINE x == Node(s)
<1>1. x \in DOMAIN graph /\ graph[x].type = s.b.type /\ s \in Policies(Group(s))
  BY AlarmedIs, PoliciesAre DEF Group
<1>2. CASE v \in ToSet(h[x].rules)
  BY <1>1, <1>2
<1>3. CASE v \notin ToSet(h[x].rules)
  <2> HIDE DEF x
  <2>1. PICK t \in Group(s) :
          /\ graph[Node(t)].merged = x /\ graph[Node(t)].merged # None
          /\ v \in Offered(h, Node(t))
    BY <1>3, RuleOrigin DEF x
  <2> DEFINE b == Node(t)
  <2>2. b \in DOMAIN graph /\ graph[b].type = t.b.type /\ h[b].type = t.b.type
    BY MemberIs
  <2> HIDE DEF b
  <2>3. h[b].type # "sgrule"
    <3> SUFFICES ASSUME h[b].type = "sgrule" PROVE FALSE
      OBVIOUS
    <3>1. v \in ToSet(graph[b].rules) /\ graph[b].type = "sgrule"
      BY <2>1, <2>2 DEF Offered, b
    <3> QED BY <2>2, <3>1 DEF AttachedFrom, SgRulesOnly
  <2>4. ParentType(h[b].type) # None /\ ParentType(h[b].type) = s.b.type
    BY <1>1, <2>1, <2>2, <2>3 DEF AttachedFrom, MergedFrom, b
  <2>5. h[b].type \in {"rolepolicy", "attachment"}
    <3>1. ParentType(h[b].type) = "role"
      BY <2>4, ParentsAre DEF IamTypes
    <3> QED BY <2>4, <3>1, ParentsAre
  <2>6. CASE h[b].type = "rolepolicy"
    <3>1. v \in ToSet(graph[b].rules)
      BY <2>1, <2>6 DEF Offered, b
    <3>2. v \in ToSet(h[b].rules)
      BY <2>2, <2>6, <3>1, RulesOfRule
    <3>3. t \in Policies(Group(s))
      BY <2>2, <2>6, PoliciesAre DEF IamTypes
    <3> QED BY <3>2, <3>3 DEF b
  <2>7. CASE h[b].type = "attachment"
    <3>1. CASE IsManaged(h[b].arn)
      BY <2>1, <2>2, <2>7, <3>1 DEF Offered, b
    <3>2. CASE ~IsManaged(h[b].arn)
      <4>1. PolicyFound(h[b]) # None /\ v \in ToSet(graph[PolicyFound(h[b])].rules)
        BY <2>1, <2>7, <3>2 DEF Offered, b
      <4>2. PICK p \in Policies(Group(s)) :
              p.b.type = "policy" /\ p.at = PolicyFound(h[b]) /\ p.at \in PolicyOf(t)
        BY <2>2, <2>7, <4>1, AttachedPolicy DEF b
      <4>3. Node(p) = p.at /\ Node(p) \in DOMAIN graph /\ graph[Node(p)].type = "policy"
        BY <4>2, ExactIs, PoliciesSaid DEF IamSaid
      <4>4. v \in ToSet(h[Node(p)].rules)
        BY <4>1, <4>2, <4>3, RulesOfRule
      <4> QED BY <4>4
    <3> QED BY <3>1, <3>2
  <2> QED BY <2>5, <2>6, <2>7
<1> QED BY <1>2, <1>3

(* All that a group's policies say is in the list.                           *)
LEMMA IamKept ==
  ASSUME Exact, NEW h, AttachedFrom(h), NEW s, Alarmed(s), s.b.type \in IamTypes,
         NEW t \in Policies(Group(s))
  PROVE  ToSet(h[Node(t)].rules) \subseteq ToSet(graph[Node(s)].rules)
<1>1. CASE t = s
  BY <1>1, AlarmedIs
<1>2. CASE t # s /\ t \in Group(s) /\ t.b.type \in IamTypes
  <2>1. /\ Node(t) \in DOMAIN graph /\ h[Node(t)].type = t.b.type
        /\ graph[Node(t)].merged # None /\ graph[Node(t)].merged = Node(s)
    BY <1>2, MemberIs
  <2>2. t.b.type # "attachment"
    BY <1>2 DEF IamTypes
  <2> QED BY <2>1, <2>2 DEF AttachedFrom, MergedFrom
<1>3. CASE t.b.type = "policy" /\ \E u \in Group(s) : t.at \in PolicyOf(u)
  <2>1. PICK u \in Group(s) : t.at \in PolicyOf(u)
    BY <1>3
  <2>2. u.b.type = "attachment" /\ ~IsManaged(True(u, u.b.arn))
        /\ t.at \in NamedBy(True(u, u.b.arn), u, "policy")
    BY <2>1 DEF PolicyOf
  <2>3. True(u, u.b.arn) # Gone
    <3> SUFFICES ASSUME True(u, u.b.arn) = Gone PROVE FALSE
      OBVIOUS
    <3>1. ~Is(Gone, "res") /\ ~Is(Gone, "lit")
      BY DEF Is, Gone
    <3>2. NamedBy(Gone, u, "policy") = {}
      BY <3>1 DEF NamedBy
    <3> QED BY <2>2, <3>2
  <2>4. u # s
    BY <2>2 DEF IamTypes
  <2> DEFINE b == Node(u)
  <2>5. /\ u \in Sites /\ ~u.unread /\ b \in DOMAIN graph /\ h[b].type = "attachment"
        /\ graph[b].merged # None /\ graph[b].merged = Node(s)
    BY <2>2, <2>4, MemberIs
  <2>6. ~IsManaged(h[b].arn)
    BY <2>2, <2>3, <2>5, AttachedIsGranted DEF IsGranted
  <2>7. PolicyFound(h[b]) # None
        /\ ToSet(h[PolicyFound(h[b])].rules) \subseteq ToSet(graph[Node(s)].rules)
    BY <2>5, <2>6 DEF AttachedFrom, MergedFrom
  <2>8. PolicyFound(h[b]) \in PolicyOf(u)
    BY <2>2, <2>7, AttachedPolicy
  <2>9. PolicyFound(h[b]) = t.at
    <3>1. PolicyFound(h[b]) \in NamedBy(True(u, u.b.arn), u, "policy")
      BY <2>2, <2>8 DEF PolicyOf
    <3> QED BY <2>2, <3>1, NamedByOne
  <2> QED BY <2>7, <2>9, ExactIs
<1> QED BY <1>1, <1>2, <1>3, PoliciesAre

LEMMA GroupWorded ==
  ASSUME Exact, NEW h, AttachedFrom(h), NEW s, Alarmed(s), s.b.type \in IamTypes,
         VerifyIamPolicy(graph[Node(s)].rules) = "sat"
  PROVE  Worded(Group(s), Policies(Group(s)), graph[Node(s)].rules)
<1> DEFINE l == graph[Node(s)].rules
           g == Group(s)
           policies == Policies(g)
<1>1. \A t \in policies : IamSaid(t) /\ ~Widened(t, "Allow")
  BY PoliciesSaid
<1>2. ASSUME NEW v \in ToSet(l), IsStatement(v)
      PROVE  \E t \in policies : \E k \in DOMAIN t.b.rules : v = Copied(t.b.rules[k])
  <2>1. ~IsSgRule(v) /\ Has(v, "effect")
    BY <1>2 DEF IsSgRule, IsStatement, Has
  <2>2. v # Managed
    BY <2>1 DEF Managed, Has
  <2>3. PICK t \in policies : v \in ToSet(h[Node(t)].rules)
    BY <2>1, <2>2, IamOrigin
  <2>4. \E k \in DOMAIN t.b.rules : v = Copied(t.b.rules[k])
    BY <1>1, <2>1, <2>3, ExactIs, IamOwn DEF IamSaid
  <2> QED BY <2>4
<1>3. ASSUME Managed \in ToSet(l)
      PROVE  \E u \in g : u.b.type = "attachment" /\ IsGranted(True(u, u.b.arn))
  <2>1. ~IsSgRule(Managed)
    BY DEF IsSgRule, Managed
  <2>2. \A t \in policies : Managed \notin ToSet(h[Node(t)].rules)
    BY <1>1, OwnNotManaged
  <2>3. PICK u \in g : u.b.type = "attachment" /\ IsManaged(h[Node(u)].arn)
    BY <1>3, <2>1, <2>2, IamOrigin
  <2>4. IsGranted(True(u, u.b.arn))
    BY <2>3, MemberIs, AttachedIsGranted
  <2> QED BY <2>3, <2>4
<1>4. ASSUME NEW t \in policies
      PROVE  \/ IsUnresolved(True(t, t.b.within))
             \/ \A k \in DOMAIN t.b.rules : Copied(t.b.rules[k]) \in ToSet(l)
  <2>1. ToSet(h[Node(t)].rules) \subseteq ToSet(l)
    BY IamKept
  <2> QED BY <1>1, <2>1, IamSiteSaid
<1>5. \A t \in policies : t \in Sites /\ t.b.type \in IamTypes
  BY <1>1 DEF IamSaid
<1> HIDE DEF l, policies, g
<1>6. Worded(g, policies, l)
  BY <1>1, <1>2, <1>3, <1>4, <1>5 DEF Worded
<1> QED BY <1>6 DEF l, policies, g

LEMMA AloneWorded ==
  ASSUME Exact, NEW h, AttachedFrom(h), NEW s, Alarmed(s), s.b.type = "rolepolicy",
         VerifyIamPolicy(graph[Node(s)].rules) = "sat"
  PROVE  Worded({s}, {s}, graph[Node(s)].rules)
<1> DEFINE l == graph[Node(s)].rules
<1>1. s \in Policies(Group(s)) /\ s.b.type \in IamTypes
  BY PoliciesAre DEF Group, IamTypes
<1>2. IamSaid(s) /\ ~Widened(s, "Allow") /\ graph[Node(s)].type = "rolepolicy"
  BY <1>1, PoliciesSaid
<1>3. ASSUME NEW v \in ToSet(l), ~IsSgRule(v) PROVE v \in ToSet(h[Node(s)].rules)
  BY <1>2, <1>3, RulesOfRule DEF IamSaid
<1>4. ASSUME NEW v \in ToSet(l), IsStatement(v)
      PROVE  \E k \in DOMAIN s.b.rules : v = Copied(s.b.rules[k])
  <2>1. ~IsSgRule(v) /\ Has(v, "effect")
    BY <1>4 DEF IsSgRule, IsStatement, Has
  <2> QED BY <1>2, <1>3, <2>1, ExactIs, IamOwn DEF IamSaid
<1>5. Managed \notin ToSet(l)
  <2>1. ~IsSgRule(Managed)
    BY DEF IsSgRule, Managed
  <2> QED BY <1>2, <1>3, <2>1, OwnNotManaged
<1>6. \/ IsUnresolved(True(s, s.b.within))
      \/ \A k \in DOMAIN s.b.rules : Copied(s.b.rules[k]) \in ToSet(l)
  BY <1>2, AlarmedIs, IamSiteSaid
<1>7. s \in Sites
  BY <1>2 DEF IamSaid
<1> HIDE DEF l
<1>8. Worded({s}, {s}, l)
  BY <1>1, <1>2, <1>4, <1>5, <1>6, <1>7 DEF Worded
<1> QED BY <1>8 DEF l

LEMMA IamAlarm ==
  ASSUME Exact, NEW s, Alarmed(s)
  PROVE  /\ s.b.type \in {"role", "policy"} => IamHarm(Group(s), Policies(Group(s)))
         /\ s.b.type = "rolepolicy" => Homeless(s) /\ IamHarm({s}, Policies({s}))
<1>1. PICK h : AttachedFrom(h)
  BY DEF Exact, AtEnd, TruthInv, MadeInv
<1>2. /\ Node(s) \in DOMAIN verdicts /\ verdicts[Node(s)] = "sat"
      /\ graph[Node(s)].type = s.b.type
  BY <1>1, AlarmedIs DEF Alarmed
<1>3. s.b.type \in IamTypes => VerifyIamPolicy(graph[Node(s)].rules) = "sat"
  BY <1>2, SatIs
<1>4. ASSUME s.b.type \in {"role", "policy"} PROVE IamHarm(Group(s), Policies(Group(s)))
  <2>1. s.b.type \in IamTypes
    BY <1>4 DEF IamTypes
  <2>2. Worded(Group(s), Policies(Group(s)), graph[Node(s)].rules)
    BY <1>1, <1>3, <2>1, GroupWorded
  <2> QED BY <1>3, <2>1, <2>2, ExactIs, WordedIsHarm
<1>5. ASSUME s.b.type = "rolepolicy" PROVE Homeless(s) /\ IamHarm({s}, Policies({s}))
  <2>1. s.b.type \in IamTypes /\ s.b.type \notin SgTypes
    BY <1>5 DEF IamTypes, SgTypes
  <2>2. Homeless(s)
    BY <2>1 DEF Alarmed, InPlace, SubjectOf
  <2>3. Worded({s}, {s}, graph[Node(s)].rules)
    BY <1>1, <1>3, <1>5, <2>1, AloneWorded
  <2>4. IamHarm({s}, {s})
    BY <1>3, <2>1, <2>3, ExactIs, WordedIsHarm
  <2>5. Policies({s}) = {s}
    <3>1. PolicyOf(s) = {}
      BY <1>5 DEF PolicyOf
    <3>2. \A t : t \in Policies({s}) <=> t = s
      BY <2>1, <3>1, PoliciesAre
    <3> QED BY <3>2 DEF Policies
  <2> QED BY <2>2, <2>4, <2>5
<1> QED BY <1>4, <1>5

LEMMA DoneIsAlarm == TruthInv => NoFalseAlarm
<1> SUFFICES ASSUME TruthInv, phase = "done", cfg.entry # "cli", ~HasListLocal,
                    NEW j \in Subjects, ~NotRead(j.site), Node(j.site) \in DOMAIN verdicts,
                    verdicts[Node(j.site)] = "sat", ~Tied(j.group), InPlace(j), InWords(j)
             PROVE  Harmful(j) \/ \E t \in j.group : t.b.type \in SgTypes /\ SgHarm(t)
  BY DEF NoFalseAlarm
<1>1. PICK s \in Sites : j = SubjectOf(s)
  BY DEF Subjects, SubjectOf
<1>2. Exact
  <2>1. Terraform
    BY NoSites, <1>1 DEF TruthInv, IInv
  <2> QED BY <2>1 DEF Exact, AtEnd
<1>3. j.site = s /\ j.group = Group(s) /\ j.policies = Policies(Group(s))
  BY <1>1 DEF SubjectOf
<1>4. Alarmed(s)
  BY <1>1, <1>3 DEF Alarmed
<1>5. s.b.type \in Verified
  <2>1. PICK h : AttachedFrom(h)
    BY <1>2 DEF Exact, AtEnd, TruthInv, MadeInv
  <2> QED BY <1>2, <1>4, <2>1, AlarmedIs
<1>6. CASE s.b.type \in SgTypes
  BY <1>2, <1>3, <1>4, <1>6, SgAlarm
<1>7. CASE s.b.type = "nsg"
  <2>1. NsgHarm(j.group)
    BY <1>2, <1>3, <1>4, <1>7, NsgAlarm
  <2> QED BY <1>3, <1>7, <2>1 DEF Harmful, SgTypes
<1>8. CASE s.b.type = "nsgrule"
  <2>1. Homeless(s) /\ NsgHarm({s})
    BY <1>2, <1>4, <1>8, NsgAlarm
  <2> QED BY <1>3, <1>8, <2>1 DEF Harmful, SgTypes
<1>9. CASE s.b.type \in {"role", "policy"}
  <2>1. IamHarm(j.group, j.policies)
    BY <1>2, <1>3, <1>4, <1>9, IamAlarm
  <2> QED BY <1>3, <1>9, <2>1 DEF Harmful, SgTypes
<1>10. CASE s.b.type = "rolepolicy"
  <2>1. Homeless(s) /\ IamHarm({s}, Policies({s}))
    BY <1>2, <1>4, <1>10, IamAlarm
  <2> QED BY <1>3, <1>10, <2>1 DEF Harmful, SgTypes
<1> QED BY <1>5, <1>6, <1>7, <1>8, <1>9, <1>10 DEF Verified, NsgTypes, IamTypes

(* master_plan.md, "SAT: Mathematical proof of invariant violation": when     *)
(* verify_graph finds a resource SAT, something that is declared to belong   *)
(* to it is harmful, in whatever order blocks, module calls and attachments  *)
(* came, where every rule and policy is in its place (InPlace, InWords).     *)
THEOREM SatIsHarm == Spec => []NoFalseAlarm
BY PipelineMade, DoneIsAlarm, PTL
=============================================================================
