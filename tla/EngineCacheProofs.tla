-------------------------- MODULE EngineCacheProofs --------------------------
(***************************************************************************)
(* Proofs, for any runs, files, contents, answers of the solver and bounds *)
(* on edits and faults, of the invariants of module EngineCache.  IInv is  *)
(* the inductive invariant; its heart is Known: whatever status there is   *)
(* of a check on a view, in the cache, in a run's hand or in its results,  *)
(* was given by the solver for that check on that very view.               *)
(***************************************************************************)
EXTENDS EngineCache, OrderLemmas

Busy == {"lookup", "solve", "put", "write"}

(* The solver was asked, and status is its answer, or what the check makes  *)
(* of a query given up on.                                                  *)
Known(c, v, status) ==
  /\ \E d \in BOOLEAN : [check |-> c, view |-> v, decided |-> d] \in answers
  /\ status = Truth(c, v) \/ (GivenUpOn(c, v) /\ status \in Undecided(c))

PlanOf(m, g) ==
  CASE m = "cli" -> CliPlan(g)
    [] m = "verify_graph" -> GraphPlan(g)
    [] m = "verify_incremental" -> IncrementalPlan(g)
    [] OTHER -> {}

TypeInv ==
  /\ content \in [File -> Version]
  /\ edits \in 0..MaxEdits /\ faults \in 0..MaxFaults
  /\ cache \in [Key -> Status \cup {Absent, Partial}]
  /\ pc \in [Proc -> Busy \cup {"idle", "files", "done", "crashed"}]
  /\ mode \in [Proc -> {None, "cli", "verify_graph", "verify_incremental"}]
  /\ limit \in [Proc -> BOOLEAN] /\ flag \in [Proc -> BOOLEAN]
  /\ files \in [Proc -> SUBSET File] /\ changed \in [Proc -> SUBSET File]
  /\ snap \in [Proc -> View] /\ todo \in [Proc -> SUBSET PlanStep]
  /\ at \in [Proc -> {1, 2}] /\ ans \in [Proc -> Status \cup {None}]
  /\ results \in [Proc -> SUBSET Finding]
  /\ report \in [Proc -> SUBSET Finding]
  /\ exit \in [Proc -> {0, 1, 2, NoExit}]
  /\ answers \subseteq [check : Check, view : View, decided : BOOLEAN]

CacheInv ==
  \A key \in Key :
    cache[key] \in Status => Known(key.check, key.view, cache[key])

(* Where a run stands.                                                      *)
WorkOf(p) ==
  /\ pc[p] \in Busy <=> todo[p] # {}
  /\ IF pc[p] \in Busy THEN at[p] \in 1..Len(Step(p).caps) ELSE at[p] = 1
  /\ todo[p] \subseteq PlanOf(mode[p], snap[p])
  /\ pc[p] = "idle" => /\ mode[p] = None /\ ~flag[p]
                       /\ report[p] = {} /\ results[p] = {}
  /\ mode[p] = None => pc[p] = "idle"
  /\ pc[p] = "files" => mode[p] = "cli"

(* What a run knows.                                                        *)
KnownOf(p) ==
  /\ pc[p] \in {"put", "write"} =>
       /\ ans[p] \in Status
       /\ Known(Step(p).check, ViewOf(Step(p).check, snap[p]), ans[p])
  /\ \A r \in report[p] \cup results[p] : Known(r.check, r.view, r.status)

(* A step of an incremental run is still to do, or has an answer.           *)
CoverOf(p) ==
  mode[p] = "verify_incremental" /\ pc[p] \in Busy \cup {"done"} =>
    \A s \in IncrementalPlan(snap[p]) :
      \/ s \in todo[p]
      \/ \E r \in results[p] : r.check = s.check
      \/ \E a \in answers :
           a.check = s.check /\ a.view = ViewOf(s.check, snap[p])

(* As long as the CLI's flag is down it goes by single files, each read one *)
(* has a result or a step still to do, and nothing is unresolved.           *)
CliOf(p) ==
  mode[p] = "cli" /\ ~flag[p] =>
    /\ pc[p] \in Busy => /\ ~Unresolved(snap[p])
                         /\ \E f \in File : DOMAIN snap[p] = {f}
    /\ \A r \in report[p] \cup results[p] : ~Unresolved(r.view)
    /\ pc[p] # "crashed" => \A f \in File \ files[p] :
         \/ \E r \in report[p] \cup results[p] : r.check.file = f
         \/ \E s \in todo[p] : s.check.file = f

(* What an exit code says.                                                  *)
ExitOf(p) ==
  /\ exit[p] # NoExit => pc[p] = "done"
  /\ exit[p] \in {0, 1} => \A f \in File : \E r \in report[p] : r.check.file = f
  /\ exit[p] = 0 => \A r \in report[p] :
       Truth(r.check, r.view) = "SAT" => GivenUpOn(r.check, r.view)
  /\ exit[p] = 1 => /\ \E r \in report[p] : Truth(r.check, r.view) = "SAT"
                    /\ \A r \in report[p] : ~Unresolved(r.view)

RunOf(p) == WorkOf(p) /\ KnownOf(p) /\ CoverOf(p) /\ CliOf(p) /\ ExitOf(p)

IInv == TypeInv /\ CacheInv /\ \A p \in Proc : RunOf(p)

-----------------------------------------------------------------------------
(* Graphs, checks and plans.                                                *)

LEMMA Restricted ==
  ASSUME NEW v \in View, NEW S
  PROVE  /\ RestrictTo(v, S) \in View
         /\ DOMAIN RestrictTo(v, S) = DOMAIN v \cap S
         /\ DOMAIN v \subseteq S => RestrictTo(v, S) = v
<1>1. PICK D \in SUBSET File : v \in [D -> Version]
  BY DEF View
<1>2. RestrictTo(v, S) \in [D \cap S -> Version]
  BY <1>1 DEF RestrictTo
<1>3. D \cap S \in SUBSET File
  BY <1>1
<1>4. RestrictTo(v, S) \in View
  BY <1>2, <1>3 DEF View
<1>5. ASSUME D \subseteq S PROVE RestrictTo(v, S) = v
  BY <1>1, <1>5 DEF RestrictTo
<1> QED BY <1>1, <1>2, <1>4, <1>5

LEMMA ViewDomain == \A v \in View : DOMAIN v \in SUBSET File
BY DEF View

LEMMA ContentIsView == [File -> Version] \subseteq View
BY DEF View

LEMMA NoGraphIsView == NoGraph \in View
BY DEF View, NoGraph

LEMMA ViewTyped ==
  ASSUME NEW c \in Check, NEW g \in View, c.kind = "local" => c.file \in File
  PROVE  /\ ViewOf(c, g) \in View
         /\ c.kind # "local" => ViewOf(c, g) = g
         /\ c.kind = "local" /\ DOMAIN g = {c.file} => ViewOf(c, g) = g
<1>1. CASE c.kind = "local"
  <2>1. c.file \in Reads[c.file]
    BY <1>1, CacheAssumption
  <2>2. ViewOf(c, g) = RestrictTo(g, Reads[c.file])
    BY <1>1 DEF ViewOf
  <2>3. DOMAIN g = {c.file} => DOMAIN g \subseteq Reads[c.file]
    BY <2>1
  <2> DEFINE S == Reads[c.file]
  <2>4. RestrictTo(g, S) \in View
    BY Restricted
  <2>5. DOMAIN g \subseteq S => RestrictTo(g, S) = g
    BY Restricted
  <2> QED BY <1>1, <2>2, <2>3, <2>4, <2>5
<1>2. CASE c.kind # "local"
  BY <1>2 DEF ViewOf
<1> QED BY <1>1, <1>2

LEMMA KindOfCheck ==
  \A c \in Check : c.kind \in {"local", "policy", "escalation"} /\ c.file \in 0..NFiles
BY DEF Check, Kind

LEMMA CapsTyped ==
  \A caps \in {Plain, Nested, Inner} :
    /\ Len(caps) \in {1, 2}
    /\ \A i \in 1..Len(caps) : caps[i] \in Cap
<1>1. Len(Plain) = 1 /\ Plain[1] = "None"
  BY DEF Plain
<1>2. Len(Inner) = 1 /\ Inner[1] = "10"
  BY DEF Inner
<1>3. Len(Nested) = 2 /\ Nested[1] = "None" /\ Nested[2] = "10"
  BY DEF Nested
<1> QED BY <1>1, <1>2, <1>3 DEF Cap

(* A step has one or two caps and a place in the order.                     *)
LEMMA StepTyped ==
  ASSUME NEW s \in PlanStep
  PROVE  /\ s.check \in Check /\ Len(s.caps) \in {1, 2}
         /\ \A i \in 1..Len(s.caps) : s.caps[i] \in Cap
         /\ Rank(s) \in Nat
<1>1. s.check \in Check /\ s.caps \in {Plain, Nested, Inner}
  BY DEF PlanStep
<1>2. /\ Len(s.caps) \in {1, 2}
      /\ \A i \in 1..Len(s.caps) : s.caps[i] \in Cap
  BY <1>1, CapsTyped
<1>3. Rank(s) \in Nat
  <2>1. /\ s.check.file \in Nat /\ NFiles \in Nat /\ Len(s.caps) \in {1, 2}
        /\ s.check.kind \in {"local", "policy", "escalation"}
    BY <1>1, <1>2, KindOfCheck, CacheAssumption
  <2>2. CASE s.check.kind = "local"
    BY <2>1, <2>2 DEF Rank
  <2>3. CASE s.check.kind = "policy"
    BY <2>1, <2>3 DEF Rank
  <2>4. CASE s.check.kind = "escalation"
    <3>1. \A n \in Nat, l \in {1, 2} : 2 * n + 4 - l \in Nat
      OBVIOUS
    <3>2. 2 * NFiles + 4 - Len(s.caps) \in Nat
      BY <2>1, <3>1
    <3> QED BY <2>4, <3>2 DEF Rank
  <2> QED BY <2>1, <2>2, <2>3, <2>4
<1> QED BY <1>1, <1>2, <1>3

(* The next step of a plan is one of it.                                    *)
LEMMA FirstChosen ==
  ASSUME NEW T \in SUBSET PlanStep, T # {}
  PROVE  First(T) \in T
<1> DEFINE R == {Rank(s) : s \in T}
<1>1. \A s \in T : Rank(s) \in Nat
  BY StepTyped
<1>2. \E b \in R : \A c \in R : b <= c
  <2>1. R \in SUBSET Nat /\ R # {}
    BY <1>1
  <2> HIDE DEF R
  <2> QED BY <2>1, LeastElement
<1>3. \E s \in T : \A t \in T : Rank(s) <= Rank(t)
  BY <1>2
<1> QED BY <1>3 DEF First

LEMMA FirstCaps ==
  ASSUME NEW T \in SUBSET PlanStep, T # {}
  PROVE  1 \in 1..Len(First(T).caps)
<1>1. Len(First(T).caps) \in {1, 2}
  BY FirstChosen, StepTyped
<1>2. \A l \in {1, 2} : 1 \in 1..l
  OBVIOUS
<1> QED BY <1>1, <1>2

(* The steps of a plan, and the files they are of.                          *)
LEMMA PlanTyped ==
  ASSUME NEW g \in View, NEW m,
         NEW s \in PlanOf(m, g), m \in {None, "cli", "verify_graph", "verify_incremental"}
  PROVE  /\ s \in PlanStep
         /\ s.check.kind \in {"local", "policy"} => s.check.file \in DOMAIN g
         /\ s.check.file \in File => s.check.file \in DOMAIN g
         /\ DOMAIN g \subseteq File
<1>1. DOMAIN g \subseteq File /\ File \subseteq 0..NFiles /\ 0 \in 0..NFiles /\ 0 \notin File
  <2>1. DOMAIN g \subseteq File
    BY ViewDomain
  <2> QED BY <2>1, CacheAssumption DEF File
<1>2. /\ LocalSteps(g) \subseteq PlanStep /\ PolicySteps(g) \subseteq PlanStep
      /\ Escalation(Nested) \in PlanStep /\ Escalation(Inner) \in PlanStep
  <2>1. \A f \in DOMAIN g : /\ [kind |-> "local", file |-> f] \in Check
                            /\ [kind |-> "policy", file |-> f] \in Check
    BY <1>1 DEF Check, Kind
  <2>2. [kind |-> "escalation", file |-> 0] \in Check
    BY <1>1 DEF Check, Kind
  <2> HIDE DEF Check
  <2>3. \A c \in Check, caps \in {Plain, Nested, Inner} :
          [check |-> c, caps |-> caps] \in PlanStep
    BY DEF PlanStep
  <2> HIDE DEF PlanStep
  <2>4. \A f \in DOMAIN g :
          /\ [check |-> [kind |-> "local", file |-> f], caps |-> Plain] \in PlanStep
          /\ [check |-> [kind |-> "policy", file |-> f], caps |-> Plain] \in PlanStep
    BY <2>1, <2>3
  <2>5. LocalSteps(g) \subseteq PlanStep /\ PolicySteps(g) \subseteq PlanStep
    BY <2>4 DEF LocalSteps, PolicySteps
  <2> QED BY <2>2, <2>3, <2>5 DEF Escalation
<1>3. \A t \in LocalSteps(g) \cup PolicySteps(g) : t.check.file \in DOMAIN g
  BY DEF LocalSteps, PolicySteps
<1>4. \A caps : /\ Escalation(caps).check.kind = "escalation"
                /\ Escalation(caps).check.file = 0
  BY DEF Escalation
<1>5. \/ s \in LocalSteps(g) \cup PolicySteps(g)
      \/ s = Escalation(Nested) \/ s = Escalation(Inner)
  BY DEF PlanOf, CliPlan, GraphPlan, IncrementalPlan, None
<1> QED BY <1>1, <1>2, <1>3, <1>4, <1>5

LEMMA UndecidedTyped ==
  \A c \in Check : /\ Undecided(c) \subseteq Status
                   /\ "SAT" \notin Undecided(c) /\ "UNRESOLVABLE" \notin Undecided(c)
                   /\ c.kind = "local" => Undecided(c) \cap Definite = {}
                   /\ Undecided(c) \cap Definite \subseteq {"UNSAT", "UNSAT_BOUNDED"}
BY KindOfCheck DEF Undecided, Status, GivenUp, Definite

LEMMA TruthTyped ==
  \A c \in Check, v \in View : Truth(c, v) \in Definite /\ Truth(c, v) \in Status
BY CacheAssumption DEF Status

(* The history only grows, and what is known stays known.                   *)
LEMMA StaysKnown ==
  ASSUME answers \subseteq answers', NEW c, NEW v, NEW status, Known(c, v, status)
  PROVE  Known(c, v, status)'
BY DEF Known, GivenUpOn

-----------------------------------------------------------------------------
(* Runs.                                                                    *)

(* What a run has in hand while it is busy with a check.                    *)
LEMMA BusyFacts ==
  ASSUME TypeInv, NEW p \in Proc, WorkOf(p), pc[p] \in Busy
  PROVE  /\ Step(p) \in todo[p] /\ Step(p) \in PlanStep
         /\ Step(p).check \in Check
         /\ ViewOf(Step(p).check, snap[p]) \in View
         /\ \A f : DOMAIN snap[p] = {f} => ViewOf(Step(p).check, snap[p]) = snap[p]
         /\ Len(Step(p).caps) \in {1, 2} /\ at[p] \in 1..Len(Step(p).caps)
         /\ CurrentKey(p) \in Key /\ CurrentKey(p).check = Step(p).check
         /\ CurrentKey(p).view = ViewOf(Step(p).check, snap[p])
<1>1. /\ todo[p] \in SUBSET PlanStep /\ todo[p] # {} /\ snap[p] \in View
      /\ mode[p] \in {None, "cli", "verify_graph", "verify_incremental"}
      /\ todo[p] \subseteq PlanOf(mode[p], snap[p])
      /\ at[p] \in 1..Len(Step(p).caps)
  BY DEF TypeInv, WorkOf
<1>2. Step(p) \in todo[p] /\ Step(p) \in PlanStep
  BY <1>1, FirstChosen DEF Step
<1> DEFINE c == Step(p).check
<1> DEFINE g == snap[p]
<1>3. /\ c \in Check /\ Len(Step(p).caps) \in {1, 2}
      /\ Step(p).caps[at[p]] \in Cap
  BY <1>1, <1>2, StepTyped
<1>4. /\ c.kind = "local" => c.file \in DOMAIN g
      /\ DOMAIN g \subseteq File
  BY <1>1, <1>2, PlanTyped
<1>5. /\ ViewOf(c, g) \in View
      /\ c.kind # "local" => ViewOf(c, g) = g
      /\ c.kind = "local" /\ DOMAIN g = {c.file} => ViewOf(c, g) = g
  <2>1. c \in Check /\ g \in View /\ (c.kind = "local" => c.file \in File)
    BY <1>1, <1>3, <1>4
  <2> HIDE DEF c, g
  <2> QED BY <2>1, ViewTyped
<1>6. \A f : DOMAIN g = {f} => ViewOf(c, g) = g
  BY <1>4, <1>5
<1>7. /\ CurrentKey(p) \in Key /\ CurrentKey(p).check = c
      /\ CurrentKey(p).view = ViewOf(c, g)
  BY <1>3, <1>5 DEF CurrentKey, KeyOf, Key
<1> QED BY <1>1, <1>2, <1>3, <1>5, <1>6, <1>7

(* A step of a run leaves the state of the others as it is.                 *)
Same(q) ==
  /\ pc'[q] = pc[q] /\ mode'[q] = mode[q] /\ files'[q] = files[q]
  /\ snap'[q] = snap[q] /\ todo'[q] = todo[q] /\ at'[q] = at[q]
  /\ ans'[q] = ans[q] /\ results'[q] = results[q] /\ report'[q] = report[q]
  /\ flag'[q] = flag[q] /\ exit'[q] = exit[q]

LEMMA Others ==
  ASSUME NEW q \in Proc, RunOf(q), Same(q), answers \subseteq answers'
  PROVE  RunOf(q)'
<1>1. WorkOf(q)'
  BY DEF RunOf, Same, WorkOf, Step
<1>2. KnownOf(q)'
  <2>1. KnownOf(q) /\ Step(q)' = Step(q)
    BY DEF RunOf, Same, Step
  <2>2. ASSUME pc'[q] \in {"put", "write"}
        PROVE  /\ ans'[q] \in Status
               /\ Known(Step(q).check, ViewOf(Step(q).check, snap[q]), ans[q])'
    BY <2>1, <2>2, StaysKnown DEF Same, KnownOf
  <2>3. \A r \in report'[q] \cup results'[q] : Known(r.check, r.view, r.status)'
    BY <2>1, StaysKnown DEF Same, KnownOf
  <2> QED BY <2>2, <2>3 DEF KnownOf
<1>3. CoverOf(q)'
  BY DEF RunOf, Same, CoverOf
<1>4. CliOf(q)'
  BY DEF RunOf, Same, CliOf
<1>5. ExitOf(q)'
  BY DEF RunOf, Same, ExitOf, GivenUpOn
<1> QED BY <1>1, <1>2, <1>3, <1>4, <1>5 DEF RunOf

(* A check is over: it has a result, or its answer is known and the run is  *)
(* an incremental one, which leaves it out.                                 *)
LEMMA Over ==
  ASSUME IInv, NEW p \in Proc, pc[p] \in Busy,
         NEW status \in Status, NEW new \in {{}, Result(p, status)},
         Known(Step(p).check, ViewOf(Step(p).check, snap[p]), status),
         new = {} => mode[p] = "verify_incremental",
         Advance(p, new),
         UNCHANGED <<mode, files, snap, report, flag, exit, answers>>
  PROVE  /\ pc' \in [Proc -> Busy \cup {"idle", "files", "done", "crashed"}]
         /\ todo' \in [Proc -> SUBSET PlanStep] /\ at' \in [Proc -> {1, 2}]
         /\ ans' \in [Proc -> Status \cup {None}]
         /\ results' \in [Proc -> SUBSET Finding]
         /\ \A q \in Proc : RunOf(q)'
<1> DEFINE c == Step(p).check
<1> DEFINE v == ViewOf(c, snap[p])
<1> DEFINE next == todo[p] \ {Step(p)}
<1>1. TypeInv /\ RunOf(p) /\ WorkOf(p)
  BY DEF IInv, RunOf
<1>2. /\ Step(p) \in todo[p] /\ c \in Check /\ v \in View
      /\ \A f : DOMAIN snap[p] = {f} => v = snap[p]
  BY <1>1, BusyFacts
<1>3. Result(p, status) = {[check |-> c, view |-> v, status |-> status]}
  BY DEF Result, Asked
<1>4. new \in SUBSET Finding
  BY <1>2, <1>3 DEF Finding
<1>5. /\ pc' \in [Proc -> Busy \cup {"idle", "files", "done", "crashed"}]
      /\ todo' \in [Proc -> SUBSET PlanStep] /\ at' \in [Proc -> {1, 2}]
      /\ ans' \in [Proc -> Status \cup {None}]
      /\ results' \in [Proc -> SUBSET Finding]
  BY <1>1, <1>4 DEF TypeInv, Advance, Busy
<1>6. /\ todo'[p] = next /\ at'[p] = 1 /\ results'[p] = results[p] \cup new
      /\ pc'[p] = IF todo[p] # {Step(p)} THEN "lookup"
                  ELSE IF mode[p] = "cli" THEN "files" ELSE "done"
  BY <1>1 DEF TypeInv, Advance
<1>7. /\ next # {} <=> todo[p] # {Step(p)}
      /\ pc'[p] \in Busy <=> next # {}
      /\ pc'[p] = "lookup" \/ pc'[p] = "files" \/ pc'[p] = "done"
      /\ pc'[p] = "files" => mode[p] = "cli"
      /\ mode[p] = "cli" => pc'[p] # "done"
      /\ pc[p] # "idle" /\ mode[p] # None
  BY <1>1, <1>2, <1>6 DEF Busy, WorkOf
<1>8. WorkOf(p)'
  <2>1. next \in SUBSET PlanStep /\ next \subseteq PlanOf(mode[p], snap[p])
    BY <1>1 DEF TypeInv, WorkOf
  <2>2. next # {} => 1 \in 1..Len(First(next).caps)
    BY <2>1, FirstCaps
  <2>3. Step(p)' = First(next)
    BY <1>6 DEF Step
  <2> HIDE DEF next
  <2>4. /\ pc'[p] \in Busy <=> todo'[p] # {}
        /\ todo'[p] \subseteq PlanOf(mode'[p], snap'[p])
        /\ pc'[p] # "idle" /\ mode'[p] # None
        /\ pc'[p] = "files" => mode'[p] = "cli"
    BY <1>6, <1>7, <2>1
  <2>5. pc'[p] \in Busy => at'[p] \in 1..Len((Step(p)').caps)
    BY <1>6, <1>7, <2>2, <2>3
  <2> QED BY <1>6, <2>4, <2>5 DEF WorkOf
<1>9. KnownOf(p)'
  <2>1. pc'[p] \notin {"put", "write"}
    BY <1>7
  <2>2. ASSUME NEW r \in report'[p] \cup results'[p]
        PROVE  Known(r.check, r.view, r.status)'
    <3>1. r \in report[p] \cup results[p] \/ r \in new
      BY <1>6
    <3>2. CASE r \in report[p] \cup results[p]
      BY <1>1, <3>2, StaysKnown DEF RunOf, KnownOf
    <3>3. CASE r \in new
      <4>1. r.check = c /\ r.view = v /\ r.status = status
        BY <1>3, <3>3
      <4>2. Known(r.check, r.view, r.status)
        BY <4>1
      <4> HIDE DEF c, v
      <4> QED BY <4>2, StaysKnown
    <3> QED BY <3>1, <3>2, <3>3
  <2> QED BY <2>1, <2>2 DEF KnownOf
<1>10. CoverOf(p)'
  <2>1. \E a \in answers : a.check = c /\ a.view = v
    BY DEF Known
  <2>2. ASSUME mode[p] = "verify_incremental"
        PROVE  \A s \in IncrementalPlan(snap[p]) :
                 \/ s \in next
                 \/ \E r \in results'[p] : r.check = s.check
                 \/ \E a \in answers :
                      a.check = s.check /\ a.view = ViewOf(s.check, snap[p])
    BY <1>1, <1>6, <2>1, <2>2 DEF RunOf, CoverOf
  <2> QED BY <1>6, <2>2 DEF CoverOf
<1>11. CliOf(p)'
  <2>1. SUFFICES ASSUME mode[p] = "cli", ~flag[p]
                 PROVE  CliOf(p)'
    BY DEF CliOf
  <2>2. /\ ~Unresolved(snap[p]) /\ v = snap[p]
        /\ \E f \in File : DOMAIN snap[p] = {f}
        /\ \A r \in report[p] \cup results[p] : ~Unresolved(r.view)
        /\ \A f \in File \ files[p] :
             \/ \E r \in report[p] \cup results[p] : r.check.file = f
             \/ \E s \in todo[p] : s.check.file = f
    BY <1>1, <1>2, <2>1 DEF RunOf, CliOf, Busy
  <2>3. new = {[check |-> c, view |-> v, status |-> status]}
    BY <1>3, <2>1
  <2>4. \A r \in report[p] \cup results'[p] : ~Unresolved(r.view)
    BY <1>6, <2>2, <2>3
  <2>5. \A f \in File \ files[p] :
          \/ \E r \in report[p] \cup results'[p] : r.check.file = f
          \/ \E s \in next : s.check.file = f
    <3>1. TAKE f \in File \ files[p]
    <3>2. CASE \E r \in report[p] \cup results[p] : r.check.file = f
      BY <1>6, <3>2
    <3>3. CASE c.file = f
      <4> DEFINE r == [check |-> c, view |-> v, status |-> status]
      <4>1. r \in results'[p] /\ r.check.file = f
        BY <1>6, <2>3, <3>3
      <4> QED BY <4>1
    <3>4. CASE \E s \in todo[p] : s.check.file = f /\ s # Step(p)
      BY <3>4
    <3> QED BY <2>2, <3>2, <3>3, <3>4
  <2> HIDE DEF v, next
  <2> QED BY <1>6, <1>7, <2>2, <2>4, <2>5 DEF CliOf
<1>12. ExitOf(p)'
  <2>1. exit[p] = NoExit
    BY <1>1 DEF RunOf, ExitOf, Busy
  <2> QED BY <2>1 DEF ExitOf, NoExit
<1>13. \A q \in Proc \ {p} : RunOf(q)'
  <2>1. TAKE q \in Proc \ {p}
  <2>2. Same(q)
    BY <1>1 DEF TypeInv, Advance, Same
  <2> QED BY <2>2, Others DEF IInv
<1>14. RunOf(p)'
  BY <1>8, <1>9, <1>10, <1>11, <1>12 DEF RunOf
<1> QED BY <1>5, <1>13, <1>14

-----------------------------------------------------------------------------
(* The steps.                                                               *)

LEMMA InitInv == Init => IInv
<1> SUFFICES ASSUME Init PROVE IInv
  OBVIOUS
<1>1. TypeInv
  <2>1. snap \in [Proc -> View]
    BY NoGraphIsView DEF Init
  <2>2. MaxEdits \in Nat /\ MaxFaults \in Nat
    BY CacheAssumption
  <2> QED BY <2>1, <2>2 DEF Init, TypeInv
<1>2. CacheInv
  BY DEF Init, CacheInv, Absent, Status, Definite, GivenUp
<1>3. ASSUME NEW p \in Proc PROVE RunOf(p)
  <2>1. /\ pc[p] = "idle" /\ mode[p] = None /\ todo[p] = {} /\ at[p] = 1
        /\ results[p] = {} /\ report[p] = {} /\ flag[p] = FALSE
        /\ exit[p] = NoExit
    BY DEF Init
  <2> QED BY <2>1 DEF RunOf, WorkOf, KnownOf, CoverOf, CliOf, ExitOf, Busy,
                      None, NoExit
<1> QED BY <1>1, <1>2, <1>3 DEF IInv

LEMMA EditInv == IInv /\ Edit => IInv'
<1> SUFFICES ASSUME IInv, Edit PROVE IInv'
  OBVIOUS
<1>1. TypeInv'
  <2>1. content' \in [File -> Version] /\ edits' \in 0..MaxEdits
    BY CacheAssumption DEF IInv, TypeInv, Edit
  <2> QED BY <2>1 DEF IInv, TypeInv, Edit, call
<1>2. CacheInv'
  BY DEF IInv, CacheInv, Edit, Known, GivenUpOn
<1>3. ASSUME NEW q \in Proc PROVE RunOf(q)'
  <2>1. Same(q) /\ answers \subseteq answers'
    BY DEF Edit, call, Same
  <2> QED BY <2>1, Others DEF IInv
<1> QED BY <1>1, <1>2, <1>3 DEF IInv

(* As long as the cache is as it is, so is what it knows.                   *)
LEMMA CacheKept ==
  ASSUME CacheInv, UNCHANGED cache, answers \subseteq answers'
  PROVE  CacheInv'
BY StaysKnown DEF CacheInv

LEMMA BeginCliInv ==
  ASSUME IInv, NEW p \in Proc, BeginCli(p)
  PROVE  IInv'
<1> USE DEF world, call
<1>1. TypeInv /\ RunOf(p)
  BY DEF IInv
<1>2. TypeInv'
  BY <1>1 DEF TypeInv, BeginCli
<1>3. CacheInv'
  BY CacheKept DEF IInv, BeginCli
<1>4. RunOf(p)'
  <2>1. /\ pc[p] = "idle" /\ pc'[p] = "files" /\ mode'[p] = "cli"
        /\ files'[p] = File
        /\ todo'[p] = todo[p] /\ at'[p] = at[p] /\ results'[p] = results[p]
        /\ report'[p] = report[p] /\ flag'[p] = flag[p] /\ exit'[p] = exit[p]
    BY <1>1 DEF TypeInv, BeginCli
  <2>2. /\ todo[p] = {} /\ at[p] = 1 /\ report[p] = {} /\ results[p] = {}
        /\ exit[p] = NoExit
    BY <1>1, <2>1 DEF RunOf, WorkOf, ExitOf, Busy
  <2>3. WorkOf(p)'
    BY <2>1, <2>2 DEF WorkOf, Busy, None
  <2>4. KnownOf(p)' /\ CoverOf(p)' /\ CliOf(p)' /\ ExitOf(p)'
    BY <2>1, <2>2 DEF KnownOf, CoverOf, CliOf, ExitOf, Busy, NoExit
  <2> QED BY <2>3, <2>4 DEF RunOf
<1>5. ASSUME NEW q \in Proc \ {p} PROVE RunOf(q)'
  <2>1. Same(q) /\ answers \subseteq answers'
    BY <1>1 DEF TypeInv, BeginCli, Same
  <2> QED BY <2>1, Others DEF IInv
<1> QED BY <1>2, <1>3, <1>4, <1>5 DEF IInv

LEMMA BeginCallInv ==
  ASSUME IInv, NEW p \in Proc, BeginCall(p)
  PROVE  IInv'
<1> USE DEF world
<1>1. TypeInv /\ RunOf(p)
  BY DEF IInv
<1>2. PICK S \in Graphs, m \in {"verify_graph", "verify_incremental"},
           C \in SUBSET File, lim \in BOOLEAN :
        /\ mode' = [mode EXCEPT ![p] = m]
        /\ changed' = [changed EXCEPT ![p] = C]
        /\ limit' = [limit EXCEPT ![p] = lim]
        /\ snap' = [snap EXCEPT ![p] = RestrictTo(content, S)]
        /\ todo' = [todo EXCEPT ![p] =
                      IF m = "verify_graph"
                      THEN GraphPlan(RestrictTo(content, S))
                      ELSE IncrementalPlan(RestrictTo(content, S))]
  BY DEF BeginCall
<1> DEFINE g == RestrictTo(content, S)
<1>3. g \in View
  BY <1>1, ContentIsView, Restricted DEF TypeInv
<1>4. /\ PlanOf(m, g) \in SUBSET PlanStep
      /\ PlanOf(m, g) = IF m = "verify_graph" THEN GraphPlan(g)
                        ELSE IncrementalPlan(g)
  <2>1. \A s \in PlanOf(m, g) : s \in PlanStep
    BY <1>3, PlanTyped
  <2> QED BY <2>1 DEF PlanOf
<1>5. Escalation(Nested) \in PlanOf(m, g)
  BY DEF PlanOf, GraphPlan, IncrementalPlan
<1> HIDE DEF g
<1>6. TypeInv'
  <2>1. snap' \in [Proc -> View] /\ todo' \in [Proc -> SUBSET PlanStep]
    BY <1>1, <1>2, <1>3, <1>4 DEF TypeInv, g
  <2> QED BY <1>1, <1>2, <2>1 DEF TypeInv, BeginCall, Busy
<1>7. CacheInv'
  BY CacheKept DEF IInv, BeginCall
<1>8. RunOf(p)'
  <2>1. /\ pc[p] = "idle" /\ pc'[p] = "lookup" /\ mode'[p] = m
        /\ snap'[p] = g /\ todo'[p] = PlanOf(m, g)
        /\ at'[p] = at[p] /\ results'[p] = results[p]
        /\ report'[p] = report[p] /\ flag'[p] = flag[p] /\ exit'[p] = exit[p]
    BY <1>1, <1>2, <1>4 DEF TypeInv, BeginCall, g
  <2>2. /\ at[p] = 1 /\ report[p] = {} /\ results[p] = {} /\ exit[p] = NoExit
    BY <1>1, <2>1 DEF RunOf, WorkOf, ExitOf, Busy
  <2>3. Step(p)' = First(PlanOf(m, g)) /\ 1 \in 1..Len(First(PlanOf(m, g)).caps)
    BY <1>4, <1>5, <2>1, FirstCaps DEF Step
  <2>4. WorkOf(p)'
    BY <1>5, <2>1, <2>2, <2>3 DEF WorkOf, Busy, None
  <2>5. KnownOf(p)' /\ CliOf(p)' /\ ExitOf(p)'
    BY <2>1, <2>2 DEF KnownOf, CliOf, ExitOf, Busy, NoExit
  <2>6. CoverOf(p)'
    BY <2>1 DEF CoverOf, PlanOf
  <2> QED BY <2>4, <2>5, <2>6 DEF RunOf
<1>9. ASSUME NEW q \in Proc \ {p} PROVE RunOf(q)'
  <2>1. Same(q) /\ answers \subseteq answers'
    BY <1>1, <1>2 DEF TypeInv, BeginCall, Same
  <2> QED BY <2>1, Others DEF IInv
<1> QED BY <1>6, <1>7, <1>8, <1>9 DEF IInv

(* The least file left is a file left.                                      *)
LEMMA NextFileTyped ==
  ASSUME TypeInv, NEW p \in Proc, files[p] # {}
  PROVE  NextFile(p) \in files[p] /\ NextFile(p) \in File
<1>1. files[p] \in SUBSET Nat /\ files[p] \subseteq File
  BY CacheAssumption DEF TypeInv, File
<1>2. \E b \in files[p] : \A c \in files[p] : b <= c
  BY <1>1, LeastElement
<1> QED BY <1>1, <1>2 DEF NextFile

LEMMA ReadFileInv ==
  ASSUME IInv, NEW p \in Proc, ReadFile(p)
  PROVE  IInv'
<1> USE DEF world, call
<1>1. TypeInv /\ RunOf(p)
  BY DEF IInv
<1> DEFINE n == NextFile(p)
<1> DEFINE g == RestrictTo(content, {n})
<1> DEFINE parses == content[n] \notin Unparsable
<1>2. n \in files[p] /\ n \in File
  BY <1>1, NextFileTyped DEF ReadFile
<1>3. g \in View /\ DOMAIN g = {n}
  <2>1. content \in View /\ DOMAIN content = File
    BY <1>1, ContentIsView DEF TypeInv
  <2> QED BY <1>2, <2>1, Restricted
<1>4. /\ CliPlan(g) \in SUBSET PlanStep /\ PlanOf("cli", g) = CliPlan(g)
  <2>1. \A s \in PlanOf("cli", g) : s \in PlanStep
    BY <1>3, PlanTyped
  <2> QED BY <2>1 DEF PlanOf
<1>5. /\ Escalation(Nested) \in CliPlan(g)
      /\ \E s \in CliPlan(g) : s.check.file = n
  <2>1. [check |-> [kind |-> "local", file |-> n], caps |-> Plain] \in CliPlan(g)
    BY <1>3 DEF CliPlan, GraphPlan, LocalSteps
  <2> QED BY <2>1 DEF CliPlan, GraphPlan
<1>6. Unresolved(g) \in BOOLEAN
  BY <1>3, CacheAssumption
<1>7. /\ files' = [files EXCEPT ![p] = @ \ {n}]
      /\ report' = [report EXCEPT ![p] = @ \cup results[p]]
      /\ results' = [results EXCEPT ![p] = {}]
      /\ snap' = [snap EXCEPT ![p] = IF parses THEN g ELSE NoGraph]
      /\ todo' = [todo EXCEPT ![p] = IF parses THEN CliPlan(g) ELSE {}]
      /\ pc' = [pc EXCEPT ![p] = IF parses THEN "lookup" ELSE "files"]
      /\ flag' = [flag EXCEPT ![p] = @ \/ ~parses \/ Unresolved(g)]
      /\ pc[p] = "files"
  BY DEF ReadFile
<1> HIDE DEF n, g, parses
<1>8. TypeInv'
  <2>1. snap' \in [Proc -> View] /\ todo' \in [Proc -> SUBSET PlanStep]
    BY <1>1, <1>3, <1>4, <1>7, NoGraphIsView DEF TypeInv
  <2>2. flag' \in [Proc -> BOOLEAN]
    <3>1. (flag[p] \/ ~parses \/ Unresolved(g)) \in BOOLEAN
      OBVIOUS
    <3> QED BY <1>1, <1>7, <3>1 DEF TypeInv
  <2>3. pc' \in [Proc -> Busy \cup {"idle", "files", "done", "crashed"}]
    BY <1>1, <1>7 DEF TypeInv, Busy
  <2>4. /\ files' \in [Proc -> SUBSET File]
        /\ report' \in [Proc -> SUBSET Finding]
        /\ results' \in [Proc -> SUBSET Finding]
    BY <1>1, <1>7 DEF TypeInv
  <2> QED BY <1>1, <2>1, <2>2, <2>3, <2>4 DEF TypeInv, ReadFile
<1>9. CacheInv'
  BY CacheKept DEF IInv, ReadFile
<1>10. RunOf(p)'
  <2>1. /\ pc'[p] = IF parses THEN "lookup" ELSE "files"
        /\ mode'[p] = mode[p] /\ at'[p] = at[p] /\ exit'[p] = exit[p]
        /\ snap'[p] = IF parses THEN g ELSE NoGraph
        /\ todo'[p] = IF parses THEN CliPlan(g) ELSE {}
        /\ results'[p] = {} /\ report'[p] = report[p] \cup results[p]
        /\ flag'[p] = (flag[p] \/ ~parses \/ Unresolved(g))
        /\ files'[p] = files[p] \ {n}
    BY <1>1, <1>7 DEF TypeInv, ReadFile
  <2>2. mode[p] = "cli" /\ at[p] = 1 /\ exit[p] = NoExit /\ todo[p] = {}
    BY <1>1, <1>7 DEF RunOf, WorkOf, ExitOf, Busy
  <2>3. report'[p] \cup results'[p] = report[p] \cup results[p]
    BY <2>1
  <2>4. WorkOf(p)'
    <3>1. Step(p)' = First(todo'[p])
      BY DEF Step
    <3>2. CASE parses
      <4>1. Step(p)' = First(CliPlan(g)) /\ 1 \in 1..Len(First(CliPlan(g)).caps)
        BY <1>4, <1>5, <2>1, <3>1, <3>2, FirstCaps
      <4> QED BY <1>4, <1>5, <2>1, <2>2, <3>2, <4>1 DEF WorkOf, Busy, None
    <3>3. CASE ~parses
      BY <2>1, <2>2, <3>3 DEF WorkOf, Busy, None
    <3> QED BY <3>2, <3>3
  <2>5. KnownOf(p)'
    <3>1. pc'[p] \notin {"put", "write"}
      BY <2>1
    <3>2. \A r \in report'[p] \cup results'[p] : Known(r.check, r.view, r.status)'
      BY <1>1, <2>3, StaysKnown DEF RunOf, KnownOf, ReadFile
    <3> QED BY <3>1, <3>2 DEF KnownOf
  <2>6. CoverOf(p)' /\ ExitOf(p)'
    BY <2>1, <2>2 DEF CoverOf, ExitOf, NoExit
  <2>7. CliOf(p)'
    <3>1. SUFFICES ASSUME ~flag'[p] PROVE CliOf(p)'
      BY DEF CliOf
    <3>2. ~flag[p] /\ parses /\ ~Unresolved(g)
      BY <2>1, <3>1
    <3>3. /\ \A r \in report[p] \cup results[p] : ~Unresolved(r.view)
          /\ \A f \in File \ files[p] :
               \E r \in report[p] \cup results[p] : r.check.file = f
      BY <1>1, <1>7, <2>2, <3>2 DEF RunOf, CliOf
    <3>4. /\ snap'[p] = g /\ todo'[p] = CliPlan(g)
          /\ \E f \in File : DOMAIN g = {f}
      BY <1>2, <1>3, <2>1, <3>2
    <3>5. \A f \in File \ files'[p] :
            \/ \E r \in report[p] \cup results[p] : r.check.file = f
            \/ \E s \in todo'[p] : s.check.file = f
      BY <1>5, <2>1, <3>3, <3>4
    <3> QED BY <2>3, <3>2, <3>3, <3>4, <3>5 DEF CliOf
  <2> QED BY <2>4, <2>5, <2>6, <2>7 DEF RunOf
<1>11. ASSUME NEW q \in Proc \ {p} PROVE RunOf(q)'
  <2>1. Same(q) /\ answers \subseteq answers'
    BY <1>1, <1>7 DEF TypeInv, ReadFile, Same
  <2> QED BY <2>1, Others DEF IInv
<1> QED BY <1>8, <1>9, <1>10, <1>11 DEF IInv

LEMMA ExitInv ==
  ASSUME IInv, NEW p \in Proc, Exit(p)
  PROVE  IInv'
<1> USE DEF world, call
<1>1. TypeInv /\ RunOf(p)
  BY DEF IInv
<1> DEFINE R == report[p] \cup results[p]
<1> DEFINE code == ExitCode(flag[p], {r.status : r \in R})
<1>2. code \in {0, 1, 2}
  BY DEF ExitCode
<1>3. /\ pc' = [pc EXCEPT ![p] = "done"] /\ pc[p] = "files" /\ files[p] = {}
      /\ report' = [report EXCEPT ![p] = @ \cup results[p]]
      /\ results' = [results EXCEPT ![p] = {}]
      /\ exit' = [exit EXCEPT ![p] = code]
  BY DEF Exit
<1> HIDE DEF code
<1>4. TypeInv'
  BY <1>1, <1>2, <1>3 DEF TypeInv, Exit, Busy
<1>5. CacheInv'
  BY CacheKept DEF IInv, Exit
<1>6. RunOf(p)'
  <2>1. /\ pc'[p] = "done" /\ results'[p] = {} /\ report'[p] = R
        /\ exit'[p] = code
        /\ mode'[p] = mode[p] /\ at'[p] = at[p] /\ snap'[p] = snap[p]
        /\ todo'[p] = todo[p] /\ flag'[p] = flag[p] /\ files'[p] = files[p]
    BY <1>1, <1>3 DEF TypeInv, Exit
  <2>2. mode[p] = "cli" /\ at[p] = 1 /\ todo[p] = {}
    BY <1>1, <1>3 DEF RunOf, WorkOf, Busy
  <2>3. WorkOf(p)'
    BY <2>1, <2>2 DEF WorkOf, Busy, None
  <2>4. \A r \in R : Known(r.check, r.view, r.status)
    BY <1>1 DEF RunOf, KnownOf
  <2>5. KnownOf(p)'
    <3>1. \A r \in report'[p] \cup results'[p] : Known(r.check, r.view, r.status)'
      BY <2>1, <2>4, StaysKnown DEF Exit
    <3> QED BY <2>1, <3>1 DEF KnownOf
  <2>6. CoverOf(p)'
    BY <2>1, <2>2 DEF CoverOf
  <2>7. ~flag[p] => /\ \A r \in R : ~Unresolved(r.view)
                    /\ \A f \in File : \E r \in R : r.check.file = f
    BY <1>1, <1>3, <2>2 DEF RunOf, CliOf
  <2>8. CliOf(p)'
    BY <2>1, <2>7 DEF CliOf, Busy
  <2>9. ExitOf(p)'
    <3>1. /\ code \in {0, 1} => ~flag[p]
          /\ code = 0 => "SAT" \notin {r.status : r \in R}
          /\ code = 1 => "SAT" \in {r.status : r \in R}
      BY <1>1 DEF code, ExitCode, TypeInv
    <3>2. code = 0 => \A r \in R : Truth(r.check, r.view) = "SAT"
                                     => GivenUpOn(r.check, r.view)'
      BY <2>4, <3>1 DEF Known, GivenUpOn, Exit
    <3>3. code = 1 => \E r \in R : Truth(r.check, r.view) = "SAT"
      <4>1. SUFFICES ASSUME code = 1 PROVE \E r \in R : Truth(r.check, r.view) = "SAT"
        OBVIOUS
      <4>2. PICK r \in R : r.status = "SAT"
        BY <3>1, <4>1
      <4>3. r.check \in Check
        BY <1>1 DEF TypeInv, Finding
      <4> QED BY <2>4, <4>2, <4>3, UndecidedTyped DEF Known
    <3> QED BY <2>1, <2>7, <3>1, <3>2, <3>3 DEF ExitOf
  <2> QED BY <2>3, <2>5, <2>6, <2>8, <2>9 DEF RunOf
<1>7. ASSUME NEW q \in Proc \ {p} PROVE RunOf(q)'
  <2>1. Same(q) /\ answers \subseteq answers'
    BY <1>1, <1>3 DEF TypeInv, Exit, Same
  <2> QED BY <2>1, Others DEF IInv
<1> QED BY <1>4, <1>5, <1>6, <1>7 DEF IInv

(* A run goes on with the check it is at.                                   *)
LEMMA GoesOn ==
  ASSUME IInv, NEW p \in Proc, pc[p] \in Busy, answers \subseteq answers',
         UNCHANGED <<mode, files, snap, todo, results, report, flag, exit>>,
         \A q \in Proc \ {p} :
           pc'[q] = pc[q] /\ at'[q] = at[q] /\ ans'[q] = ans[q],
         pc'[p] \in Busy, at'[p] \in 1..Len(Step(p).caps),
         pc'[p] \in {"put", "write"} =>
           /\ ans'[p] \in Status
           /\ Known(Step(p).check, ViewOf(Step(p).check, snap[p]), ans[p])'
  PROVE  \A q \in Proc : RunOf(q)'
<1>1. TypeInv /\ RunOf(p)
  BY DEF IInv
<1>2. Step(p)' = Step(p)
  BY DEF Step
<1>3. WorkOf(p)'
  <2>1. todo[p] # {} /\ todo[p] \subseteq PlanOf(mode[p], snap[p]) /\ mode[p] # None
    BY <1>1 DEF RunOf, WorkOf, Busy
  <2> QED BY <1>2, <2>1 DEF WorkOf, Busy
<1>4. KnownOf(p)'
  <2>1. \A r \in report'[p] \cup results'[p] : Known(r.check, r.view, r.status)'
    BY <1>1, StaysKnown DEF RunOf, KnownOf
  <2> QED BY <2>1 DEF KnownOf
<1>5. CoverOf(p)'
  BY <1>1 DEF RunOf, CoverOf
<1>6. CliOf(p)'
  BY <1>1 DEF RunOf, CliOf, Busy
<1>7. ExitOf(p)'
  <2>1. exit[p] = NoExit
    BY <1>1 DEF RunOf, ExitOf, Busy
  <2> QED BY <2>1 DEF ExitOf, NoExit
<1>8. ASSUME NEW q \in Proc \ {p} PROVE RunOf(q)'
  <2>1. Same(q)
    BY DEF Same
  <2> QED BY <2>1, Others DEF IInv
<1>9. RunOf(p)'
  BY <1>3, <1>4, <1>5, <1>6, <1>7 DEF RunOf
<1> QED BY <1>8, <1>9

LEMMA FaultTyped ==
  ASSUME TypeInv, NEW odd \in BOOLEAN, Fault(odd)
  PROVE  faults' \in 0..MaxFaults
<1>1. faults \in Nat /\ MaxFaults \in Nat /\ faults <= MaxFaults
  BY CacheAssumption DEF TypeInv
<1>2. CASE odd
  BY <1>1, <1>2 DEF Fault
<1>3. CASE ~odd
  BY <1>1, <1>3 DEF Fault
<1> QED BY <1>2, <1>3

(* What a run is served is known of the check it is at.                     *)
LEMMA ServedKnown ==
  ASSUME IInv, NEW p \in Proc, pc[p] \in Busy, cache[CurrentKey(p)] \in Status
  PROVE  Known(Step(p).check, ViewOf(Step(p).check, snap[p]),
               cache[CurrentKey(p)])
<1>1. /\ CurrentKey(p) \in Key /\ CurrentKey(p).check = Step(p).check
      /\ CurrentKey(p).view = ViewOf(Step(p).check, snap[p])
  BY BusyFacts DEF IInv, RunOf
<1> QED BY <1>1 DEF IInv, CacheInv

LEMMA HitInv ==
  ASSUME IInv, NEW p \in Proc, Hit(p)
  PROVE  IInv'
<1> USE DEF world, call
<1> DEFINE status == cache[CurrentKey(p)]
<1> DEFINE new == IF mode[p] = "verify_incremental" THEN {} ELSE Result(p, status)
<1>1. /\ pc[p] \in Busy /\ status \in Status /\ Advance(p, new)
      /\ UNCHANGED <<content, edits, faults, answers, cache, mode, limit,
                     changed, files, snap, report, flag, exit>>
  BY DEF Hit, Served, Busy
<1>2. Known(Step(p).check, ViewOf(Step(p).check, snap[p]), status)
  BY <1>1, ServedKnown
<1>3. new \in {{}, Result(p, status)}
  OBVIOUS
<1>4. new = {} => mode[p] = "verify_incremental"
  BY DEF Result
<1> HIDE DEF new, status
<1>5. /\ pc' \in [Proc -> Busy \cup {"idle", "files", "done", "crashed"}]
      /\ todo' \in [Proc -> SUBSET PlanStep] /\ at' \in [Proc -> {1, 2}]
      /\ ans' \in [Proc -> Status \cup {None}]
      /\ results' \in [Proc -> SUBSET Finding]
      /\ \A q \in Proc : RunOf(q)'
  BY <1>1, <1>2, <1>3, <1>4, Over
<1>6. TypeInv'
  BY <1>1, <1>5 DEF IInv, TypeInv
<1>7. CacheInv'
  BY <1>1, CacheKept DEF IInv
<1> QED BY <1>5, <1>6, <1>7 DEF IInv

LEMMA InnerHitInv ==
  ASSUME IInv, NEW p \in Proc, InnerHit(p)
  PROVE  IInv'
<1> USE DEF world, call
<1> DEFINE status == cache[CurrentKey(p)]
<1>1. /\ pc[p] \in Busy /\ status \in Status /\ at[p] > 1
      /\ ans' = [ans EXCEPT ![p] = status]
      /\ at' = [at EXCEPT ![p] = @ - 1]
      /\ pc' = [pc EXCEPT ![p] = "put"]
      /\ UNCHANGED <<content, edits, faults, answers, cache, mode, limit,
                     changed, files, snap, todo, results, report, flag, exit>>
  BY DEF InnerHit, Served, Busy
<1>2. Known(Step(p).check, ViewOf(Step(p).check, snap[p]), status)
  BY <1>1, ServedKnown
<1>3. TypeInv
  BY DEF IInv
<1>4. /\ pc'[p] = "put" /\ ans'[p] = status /\ at'[p] = at[p] - 1
      /\ at[p] \in {1, 2}
      /\ \A q \in Proc \ {p} :
           pc'[q] = pc[q] /\ at'[q] = at[q] /\ ans'[q] = ans[q]
  BY <1>1, <1>3 DEF TypeInv
<1>5. at'[p] = 1
  BY <1>1, <1>4
<1>6. TypeInv'
  <2>1. at' \in [Proc -> {1, 2}]
    BY <1>1, <1>3, <1>4, <1>5 DEF TypeInv
  <2> QED BY <1>1, <1>3, <2>1 DEF TypeInv, Busy
<1>7. CacheInv'
  BY <1>1, CacheKept DEF IInv
<1>8. \A q \in Proc : RunOf(q)'
  <2>1. at'[p] \in 1..Len(Step(p).caps)
    <3>1. Len(Step(p).caps) \in {1, 2}
      BY <1>1, BusyFacts DEF IInv, RunOf
    <3>2. \A l \in {1, 2} : 1 \in 1..l
      OBVIOUS
    <3> QED BY <1>5, <3>1, <3>2
  <2>2. Known(Step(p).check, ViewOf(Step(p).check, snap[p]), ans[p])'
    BY <1>1, <1>2, <1>4 DEF Known, GivenUpOn, Step
  <2> HIDE DEF status
  <2> QED BY <1>1, <1>4, <2>1, <2>2, GoesOn DEF Busy
<1> QED BY <1>6, <1>7, <1>8 DEF IInv

LEMMA MissInv ==
  ASSUME IInv, NEW p \in Proc, Miss(p)
  PROVE  IInv'
<1> USE DEF world, call
<1>1. TypeInv /\ pc[p] = "lookup" /\ pc[p] \in Busy
  BY DEF IInv, Miss, Busy
<1>2. Len(Step(p).caps) \in {1, 2} /\ at[p] \in 1..Len(Step(p).caps)
  BY <1>1, BusyFacts DEF IInv, RunOf
<1>3. /\ pc' \in [Proc -> Busy \cup {"idle", "files", "done", "crashed"}]
      /\ at' \in [Proc -> {1, 2}]
      /\ pc'[p] \in {"lookup", "solve"}
      /\ at'[p] \in 1..Len(Step(p).caps)
      /\ \A q \in Proc \ {p} : pc'[q] = pc[q] /\ at'[q] = at[q]
  <2>1. CASE at[p] < Len(Step(p).caps)
    <3>1. at' = [at EXCEPT ![p] = @ + 1] /\ pc' = pc
      BY <2>1 DEF Miss
    <3>2. \A l \in {1, 2}, i \in {1, 2} :
            i \in 1..l /\ i < l => i + 1 \in 1..l /\ i + 1 \in {1, 2}
      OBVIOUS
    <3>3. at[p] + 1 \in 1..Len(Step(p).caps) /\ at[p] + 1 \in {1, 2}
      <4>1. at[p] \in {1, 2}
        BY <1>1 DEF TypeInv
      <4> QED BY <1>2, <2>1, <3>2, <4>1
    <3> QED BY <1>1, <3>1, <3>3 DEF TypeInv
  <2>2. CASE ~(at[p] < Len(Step(p).caps))
    <3>1. pc' = [pc EXCEPT ![p] = "solve"] /\ at' = at
      BY <2>2 DEF Miss
    <3> QED BY <1>1, <1>2, <3>1 DEF TypeInv, Busy
  <2> QED BY <2>1, <2>2
<1>4. TypeInv'
  BY <1>1, <1>3 DEF TypeInv, Miss
<1>5. CacheInv'
  BY CacheKept DEF IInv, Miss
<1>6. \A q \in Proc : RunOf(q)'
  <2>1. /\ UNCHANGED <<mode, files, snap, todo, results, report, flag, exit>>
        /\ UNCHANGED <<ans, answers>>
    BY DEF Miss
  <2> QED BY <1>1, <1>3, <2>1, GoesOn DEF Busy
<1> QED BY <1>4, <1>5, <1>6 DEF IInv

(* The solver answers, or is given up on: what it was asked is on record.   *)
LEMMA AnswerInv ==
  ASSUME IInv, NEW p \in Proc, pc[p] = "solve",
         NEW answer, NEW decided \in BOOLEAN, Answer(p, answer),
         faults' \in 0..MaxFaults,
         answers' = answers \cup {Query(p, decided)},
         IF decided THEN answer = Truth(Asked(p).check, Asked(p).view)
                    ELSE answer \in Undecided(Asked(p).check)
  PROVE  IInv'
<1> USE DEF world, call
<1> DEFINE c == Step(p).check
<1> DEFINE v == ViewOf(c, snap[p])
<1>1. TypeInv /\ pc[p] \in Busy
  BY DEF IInv, Busy
<1>2. /\ c \in Check /\ v \in View /\ at[p] \in 1..Len(Step(p).caps)
      /\ Asked(p).check = c /\ Asked(p).view = v
  BY <1>1, BusyFacts DEF IInv, RunOf, Asked
<1>3. Query(p, decided) = [check |-> c, view |-> v, decided |-> decided]
  BY <1>2 DEF Query
<1>4. answer \in Status
  BY <1>2, TruthTyped, UndecidedTyped
<1>5. Known(c, v, answer)'
  <2>1. /\ Step(p)' = Step(p) /\ snap' = snap
        /\ answers' = answers \cup {[check |-> c, view |-> v, decided |-> decided]}
    BY <1>3 DEF Answer, Step
  <2>2. \E d \in BOOLEAN : [check |-> c, view |-> v, decided |-> d] \in answers'
    BY <2>1
  <2>3. \/ answer = Truth(c, v)
        \/ /\ [check |-> c, view |-> v, decided |-> FALSE] \in answers'
           /\ answer \in Undecided(c)
    BY <1>2, <2>1
  <2> QED BY <2>1, <2>2, <2>3 DEF Known, GivenUpOn
<1>6. TypeInv'
  <2>1. answers' \subseteq [check : Check, view : View, decided : BOOLEAN]
    BY <1>1, <1>2, <1>3 DEF TypeInv
  <2>2. /\ ans' \in [Proc -> Status \cup {None}]
        /\ pc' \in [Proc -> Busy \cup {"idle", "files", "done", "crashed"}]
    BY <1>1, <1>4 DEF TypeInv, Answer, Busy
  <2> QED BY <1>1, <2>1, <2>2 DEF TypeInv, Answer
<1>7. CacheInv'
  BY CacheKept DEF IInv, Answer
<1>8. \A q \in Proc : RunOf(q)'
  <2>1. /\ pc'[p] = "put" /\ ans'[p] = answer /\ at'[p] = at[p]
        /\ \A q \in Proc \ {p} :
             pc'[q] = pc[q] /\ at'[q] = at[q] /\ ans'[q] = ans[q]
        /\ UNCHANGED <<mode, files, snap, todo, results, report, flag, exit>>
    BY <1>1 DEF TypeInv, Answer
  <2>2. Known(c, v, ans[p])'
    BY <1>5, <2>1 DEF Known
  <2> QED BY <1>1, <1>2, <1>4, <2>1, <2>2, GoesOn DEF Busy
<1> QED BY <1>6, <1>7, <1>8 DEF IInv

LEMMA SolveInv ==
  ASSUME IInv, NEW p \in Proc, Solve(p)
  PROVE  IInv'
<1>1. /\ pc[p] = "solve" /\ faults' = faults
      /\ Answer(p, Truth(Asked(p).check, Asked(p).view))
      /\ answers' = answers \cup {Query(p, TRUE)}
  BY DEF Solve
<1>2. faults' \in 0..MaxFaults
  BY <1>1 DEF IInv, TypeInv
<1> QED BY <1>1, <1>2, AnswerInv

LEMMA GiveUpInv ==
  ASSUME IInv, NEW p \in Proc, GiveUp(p)
  PROVE  IInv'
<1>1. PICK answer \in Undecided(Asked(p).check) : Answer(p, answer)
  BY DEF GiveUp
<1>2. /\ pc[p] = "solve" /\ Fault(TRUE)
      /\ answers' = answers \cup {Query(p, FALSE)}
  BY DEF GiveUp
<1>3. faults' \in 0..MaxFaults
  BY <1>2, FaultTyped DEF IInv
<1> QED BY <1>1, <1>2, <1>3, AnswerInv

LEMMA RaiseInv ==
  ASSUME IInv, NEW p \in Proc, Raise(p)
  PROVE  IInv'
<1> USE DEF world, call
<1>1. TypeInv /\ RunOf(p) /\ pc[p] = "solve"
  BY DEF IInv, Raise
<1>2. TypeInv'
  <2>1. faults' \in 0..MaxFaults
    BY <1>1, FaultTyped DEF Raise
  <2>2. pc' \in [Proc -> Busy \cup {"idle", "files", "done", "crashed"}]
    BY <1>1 DEF TypeInv, Raise
  <2> QED BY <1>1, <2>1, <2>2 DEF TypeInv, Raise
<1>3. CacheInv'
  BY CacheKept DEF IInv, Raise
<1>4. RunOf(p)'
  <2>1. /\ pc'[p] = IF mode[p] = "cli" THEN "files" ELSE "crashed"
        /\ flag'[p] = TRUE /\ results'[p] = {} /\ todo'[p] = {} /\ at'[p] = 1
        /\ mode'[p] = mode[p] /\ report'[p] = report[p] /\ exit'[p] = exit[p]
    BY <1>1 DEF TypeInv, Raise
  <2>2. mode[p] # None /\ exit[p] = NoExit
    BY <1>1 DEF RunOf, WorkOf, ExitOf
  <2>3. WorkOf(p)'
    BY <2>1, <2>2 DEF WorkOf, Busy
  <2>4. KnownOf(p)'
    <3>1. \A r \in report'[p] \cup results'[p] : Known(r.check, r.view, r.status)'
      BY <1>1, <2>1, StaysKnown DEF RunOf, KnownOf, Raise
    <3> QED BY <2>1, <3>1 DEF KnownOf
  <2>5. CoverOf(p)' /\ CliOf(p)' /\ ExitOf(p)'
    BY <2>1, <2>2 DEF CoverOf, CliOf, ExitOf, Busy, NoExit
  <2> QED BY <2>3, <2>4, <2>5 DEF RunOf
<1>5. ASSUME NEW q \in Proc \ {p} PROVE RunOf(q)'
  <2>1. Same(q) /\ answers \subseteq answers'
    BY <1>1 DEF TypeInv, Raise, Same
  <2> QED BY <2>1, Others DEF IInv
<1> QED BY <1>2, <1>3, <1>4, <1>5 DEF IInv

LEMMA CrashInv ==
  ASSUME IInv, NEW p \in Proc, Crash(p)
  PROVE  IInv'
<1> USE DEF world, call
<1>1. TypeInv /\ RunOf(p) /\ pc[p] \notin {"idle", "done", "crashed"}
  BY DEF IInv, Crash
<1>2. TypeInv'
  <2>1. faults' \in 0..MaxFaults
    BY <1>1, FaultTyped DEF Crash
  <2> QED BY <1>1, <2>1 DEF TypeInv, Crash
<1>3. CacheInv'
  BY CacheKept DEF IInv, Crash
<1>4. RunOf(p)'
  <2>1. /\ pc'[p] = "crashed" /\ todo'[p] = {} /\ at'[p] = 1
        /\ mode'[p] = mode[p] /\ report'[p] = report[p]
        /\ results'[p] = results[p] /\ exit'[p] = exit[p] /\ flag'[p] = flag[p]
    BY <1>1 DEF TypeInv, Crash
  <2>2. mode[p] # None /\ exit[p] = NoExit
    BY <1>1 DEF RunOf, WorkOf, ExitOf
  <2>3. WorkOf(p)'
    BY <2>1, <2>2 DEF WorkOf, Busy
  <2>4. KnownOf(p)'
    <3>1. \A r \in report'[p] \cup results'[p] : Known(r.check, r.view, r.status)'
      BY <1>1, <2>1, StaysKnown DEF RunOf, KnownOf, Crash
    <3> QED BY <2>1, <3>1 DEF KnownOf
  <2>5. CoverOf(p)' /\ ExitOf(p)'
    BY <2>1, <2>2 DEF CoverOf, ExitOf, Busy, NoExit
  <2>6. CliOf(p)'
    BY <1>1, <2>1 DEF RunOf, CliOf, Busy
  <2> QED BY <2>3, <2>4, <2>5, <2>6 DEF RunOf
<1>5. ASSUME NEW q \in Proc \ {p} PROVE RunOf(q)'
  <2>1. Same(q) /\ answers \subseteq answers'
    BY <1>1 DEF TypeInv, Crash, Same
  <2> QED BY <2>1, Others DEF IInv
<1> QED BY <1>2, <1>3, <1>4, <1>5 DEF IInv

(* What is written to an entry is known of its key.                         *)
LEMMA CacheWritten ==
  ASSUME TypeInv, CacheInv, NEW k \in Key, NEW entry,
         cache' = [cache EXCEPT ![k] = entry], answers' = answers,
         entry \in Status => Known(k.check, k.view, entry)
  PROVE  CacheInv'
<1>2. \A key \in Key : cache'[key] = IF key = k THEN entry ELSE cache[key]
  BY DEF TypeInv
<1>3. ASSUME NEW key \in Key, cache'[key] \in Status
      PROVE  Known(key.check, key.view, cache[key])'
  <2>1. CASE key = k
    <3>1. cache'[key] = entry /\ Known(key.check, key.view, entry)
      BY <1>2, <1>3, <2>1
    <3> QED BY <3>1 DEF Known, GivenUpOn
  <2>2. CASE key # k
    <3>1. cache'[key] = cache[key] /\ Known(key.check, key.view, cache[key])
      BY <1>2, <1>3, <2>2 DEF CacheInv
    <3> QED BY <3>1 DEF Known, GivenUpOn
  <2> QED BY <2>1, <2>2
<1> QED BY <1>3 DEF CacheInv

(* An entry is opened: whoever reads it now finds no result.                *)
LEMMA OpenEntryInv ==
  ASSUME IInv, NEW p \in Proc, OpenEntry(p)
  PROVE  IInv'
<1> USE DEF world, call
<1>1. TypeInv /\ RunOf(p) /\ pc[p] = "put" /\ pc[p] \in Busy
  BY DEF IInv, OpenEntry, Busy
<1>2. TypeInv'
  <2>1. cache' \in [Key -> Status \cup {Absent, Partial}]
    BY <1>1 DEF TypeInv, OpenEntry
  <2> QED BY <1>1, <2>1 DEF TypeInv, OpenEntry, Busy
<1>3. CacheInv'
  <2>1. Partial \notin Status
    BY DEF Partial, Status, Definite, GivenUp
  <2>2. CurrentKey(p) \in Key
    BY <1>1, BusyFacts DEF RunOf
  <2> QED BY <2>1, <2>2, CacheWritten DEF IInv, OpenEntry
<1>4. \A q \in Proc : RunOf(q)'
  <2>1. /\ pc'[p] = "write"
        /\ \A q \in Proc \ {p} : pc'[q] = pc[q]
        /\ UNCHANGED <<mode, files, snap, todo, results, report, flag, exit>>
        /\ UNCHANGED <<at, ans, answers>>
    BY <1>1 DEF TypeInv, OpenEntry
  <2>2. at[p] \in 1..Len(Step(p).caps)
    BY <1>1 DEF RunOf, WorkOf
  <2>3. /\ ans[p] \in Status
        /\ Known(Step(p).check, ViewOf(Step(p).check, snap[p]), ans[p])'
    BY <1>1, <2>1 DEF RunOf, KnownOf, Known, GivenUpOn, Step
  <2> QED BY <1>1, <2>1, <2>2, <2>3, GoesOn DEF Busy
<1> QED BY <1>2, <1>3, <1>4 DEF IInv

(* What a put leaves of a run: on to the put before, or to the next check.  *)
LEMMA AfterPutRuns ==
  ASSUME IInv, NEW p \in Proc, pc[p] \in {"put", "write"}, AfterPut(p),
         UNCHANGED <<mode, files, snap, report, flag, exit, answers>>
  PROVE  /\ pc' \in [Proc -> Busy \cup {"idle", "files", "done", "crashed"}]
         /\ todo' \in [Proc -> SUBSET PlanStep] /\ at' \in [Proc -> {1, 2}]
         /\ ans' \in [Proc -> Status \cup {None}]
         /\ results' \in [Proc -> SUBSET Finding]
         /\ \A q \in Proc : RunOf(q)'
<1>1. TypeInv /\ RunOf(p) /\ pc[p] \in Busy /\ at[p] \in {1, 2}
  BY DEF IInv, TypeInv, Busy
<1>2. /\ ans[p] \in Status
      /\ Known(Step(p).check, ViewOf(Step(p).check, snap[p]), ans[p])
  BY <1>1 DEF RunOf, KnownOf
<1>3. CASE at[p] > 1
  <2>1. /\ at' = [at EXCEPT ![p] = @ - 1] /\ pc' = [pc EXCEPT ![p] = "put"]
        /\ UNCHANGED <<todo, ans, results>>
    BY <1>3 DEF AfterPut
  <2>2. at[p] = 2 /\ at[p] - 1 = 1
    BY <1>1, <1>3
  <2>3. /\ pc' \in [Proc -> Busy \cup {"idle", "files", "done", "crashed"}]
        /\ at' \in [Proc -> {1, 2}] /\ pc'[p] = "put" /\ at'[p] = 1
        /\ \A q \in Proc \ {p} : pc'[q] = pc[q] /\ at'[q] = at[q]
    BY <1>1, <2>1, <2>2 DEF TypeInv, Busy
  <2>4. 1 \in 1..Len(Step(p).caps)
    BY <1>1, FirstCaps DEF TypeInv, RunOf, WorkOf, Step
  <2>5. Known(Step(p).check, ViewOf(Step(p).check, snap[p]), ans[p])'
    BY <1>2, <2>1 DEF Known, GivenUpOn, Step
  <2>6. \A q \in Proc : RunOf(q)'
    BY <1>1, <1>2, <2>1, <2>3, <2>4, <2>5, GoesOn DEF Busy
  <2> QED BY <1>1, <2>1, <2>3, <2>6 DEF TypeInv
<1>4. CASE ~(at[p] > 1)
  <2>1. Advance(p, Result(p, ans[p]))
    BY <1>4 DEF AfterPut
  <2>2. Result(p, ans[p]) # {}
    BY DEF Result
  <2>3. \A status \in Status : status = ans[p] =>
          Known(Step(p).check, ViewOf(Step(p).check, snap[p]), status)
    BY <1>2
  <2> QED BY <1>1, <1>2, <2>1, <2>2, <2>3, Over
<1> QED BY <1>3, <1>4

LEMMA OpenFailsInv ==
  ASSUME IInv, NEW p \in Proc, OpenFails(p)
  PROVE  IInv'
<1> USE DEF world, call
<1>1. /\ pc' \in [Proc -> Busy \cup {"idle", "files", "done", "crashed"}]
      /\ todo' \in [Proc -> SUBSET PlanStep] /\ at' \in [Proc -> {1, 2}]
      /\ ans' \in [Proc -> Status \cup {None}]
      /\ results' \in [Proc -> SUBSET Finding]
      /\ \A q \in Proc : RunOf(q)'
  BY AfterPutRuns DEF OpenFails
<1>2. TypeInv'
  <2>1. faults' \in 0..MaxFaults
    BY FaultTyped DEF IInv, OpenFails
  <2> QED BY <1>1, <2>1 DEF IInv, TypeInv, OpenFails
<1>3. CacheInv'
  BY CacheKept DEF IInv, OpenFails
<1> QED BY <1>1, <1>2, <1>3 DEF IInv

LEMMA WriteEntryInv ==
  ASSUME IInv, NEW p \in Proc, WriteEntry(p)
  PROVE  IInv'
<1> USE DEF world, call
<1>1. TypeInv /\ RunOf(p) /\ pc[p] = "write" /\ pc[p] \in Busy
  BY DEF IInv, WriteEntry, Busy
<1>2. PICK entry \in {ans[p], Partial} :
        /\ cache' = [cache EXCEPT ![CurrentKey(p)] = entry]
        /\ Fault(entry = Partial)
  BY DEF WriteEntry
<1>3. /\ ans[p] \in Status
      /\ Known(Step(p).check, ViewOf(Step(p).check, snap[p]), ans[p])
      /\ CurrentKey(p) \in Key /\ CurrentKey(p).check = Step(p).check
      /\ CurrentKey(p).view = ViewOf(Step(p).check, snap[p])
  BY <1>1, BusyFacts DEF RunOf, KnownOf
<1>4. /\ pc' \in [Proc -> Busy \cup {"idle", "files", "done", "crashed"}]
      /\ todo' \in [Proc -> SUBSET PlanStep] /\ at' \in [Proc -> {1, 2}]
      /\ ans' \in [Proc -> Status \cup {None}]
      /\ results' \in [Proc -> SUBSET Finding]
      /\ \A q \in Proc : RunOf(q)'
  BY <1>1, AfterPutRuns DEF WriteEntry
<1>5. TypeInv'
  <2>1. faults' \in 0..MaxFaults
    BY <1>1, <1>2, FaultTyped
  <2>2. cache' \in [Key -> Status \cup {Absent, Partial}]
    BY <1>1, <1>2, <1>3 DEF TypeInv
  <2> QED BY <1>1, <1>4, <2>1, <2>2 DEF TypeInv, WriteEntry
<1>6. CacheInv'
  <2>1. Partial \notin Status
    BY DEF Partial, Status, Definite, GivenUp
  <2>2. entry \in Status => Known(CurrentKey(p).check, CurrentKey(p).view, entry)
    BY <1>2, <1>3, <2>1
  <2> QED BY <1>1, <1>2, <1>3, <2>2, CacheWritten DEF IInv, WriteEntry
<1> QED BY <1>4, <1>5, <1>6 DEF IInv

LEMMA StutterInv == IInv /\ UNCHANGED vars => IInv'
<1> SUFFICES ASSUME IInv, UNCHANGED vars PROVE IInv'
  OBVIOUS
<1>1. TypeInv'
  BY DEF IInv, TypeInv, vars
<1>2. CacheInv'
  BY CacheKept DEF IInv, vars
<1>3. ASSUME NEW q \in Proc PROVE RunOf(q)'
  BY Others DEF IInv, vars, Same
<1> QED BY <1>1, <1>2, <1>3 DEF IInv

-----------------------------------------------------------------------------
(* The results.                                                             *)

(* IInv is an invariant of the runs, whatever they are, however they        *)
(* overlap and fail, and whatever is edited under them.                     *)
THEOREM CacheInvariant == Spec => []IInv
<1>1. Init => IInv
  BY InitInv
<1>2. IInv /\ [Next]_vars => IInv'
  <2> SUFFICES ASSUME IInv, [Next]_vars PROVE IInv'
    OBVIOUS
  <2>1. CASE UNCHANGED vars
    BY <2>1, StutterInv
  <2>2. CASE Edit
    BY <2>2, EditInv
  <2>3. ASSUME NEW p \in Proc, BeginCli(p) PROVE IInv'
    BY <2>3, BeginCliInv
  <2>4. ASSUME NEW p \in Proc, BeginCall(p) PROVE IInv'
    BY <2>4, BeginCallInv
  <2>5. ASSUME NEW p \in Proc, ReadFile(p) PROVE IInv'
    BY <2>5, ReadFileInv
  <2>6. ASSUME NEW p \in Proc, Exit(p) PROVE IInv'
    BY <2>6, ExitInv
  <2>7. ASSUME NEW p \in Proc, Hit(p) PROVE IInv'
    BY <2>7, HitInv
  <2>8. ASSUME NEW p \in Proc, InnerHit(p) PROVE IInv'
    BY <2>8, InnerHitInv
  <2>9. ASSUME NEW p \in Proc, Miss(p) PROVE IInv'
    BY <2>9, MissInv
  <2>10. ASSUME NEW p \in Proc, Solve(p) PROVE IInv'
    BY <2>10, SolveInv
  <2>11. ASSUME NEW p \in Proc, GiveUp(p) PROVE IInv'
    BY <2>11, GiveUpInv
  <2>12. ASSUME NEW p \in Proc, Raise(p) PROVE IInv'
    BY <2>12, RaiseInv
  <2>13. ASSUME NEW p \in Proc, OpenEntry(p) PROVE IInv'
    BY <2>13, OpenEntryInv
  <2>14. ASSUME NEW p \in Proc, OpenFails(p) PROVE IInv'
    BY <2>14, OpenFailsInv
  <2>15. ASSUME NEW p \in Proc, WriteEntry(p) PROVE IInv'
    BY <2>15, WriteEntryInv
  <2>16. ASSUME NEW p \in Proc, Crash(p) PROVE IInv'
    BY <2>16, CrashInv
  <2> QED BY <2>1, <2>2, <2>3, <2>4, <2>5, <2>6, <2>7, <2>8, <2>9, <2>10,
             <2>11, <2>12, <2>13, <2>14, <2>15, <2>16 DEF Next
<1> QED BY <1>1, <1>2, PTL DEF Spec

(* The state of the runs and of the cache is well typed; a busy run has a   *)
(* step, and a cap of it, to look up.                                       *)
THEOREM CacheTypes == Spec => []TypeOK
<1>1. IInv => TypeOK
  <2> SUFFICES ASSUME IInv PROVE TypeOK
    OBVIOUS
  <2>1. ASSUME NEW p \in Proc
        PROVE  /\ snap[p] \in View /\ todo[p] \subseteq PlanStep
               /\ pc[p] \in {"lookup", "solve", "put", "write"} =>
                    todo[p] # {} /\ at[p] \in 1..Len(Step(p).caps)
               /\ pc[p] \in {"put", "write"} => ans[p] \in Status
               /\ AllResults(p) \subseteq Finding
    <3>1. TypeInv /\ RunOf(p)
      BY DEF IInv
    <3>2. snap[p] \in View /\ todo[p] \subseteq PlanStep /\ AllResults(p) \subseteq Finding
      BY <3>1 DEF TypeInv, AllResults
    <3> QED BY <3>1, <3>2 DEF RunOf, WorkOf, KnownOf, Busy
  <2> QED BY <2>1 DEF IInv, TypeInv, TypeOK, Busy
<1> QED BY <1>1, CacheInvariant, PTL

(* Content addressing holds: a definite verdict is the truth for the files  *)
(* as the run read them, or was given up on in a check that passes over it. *)
THEOREM CachedVerdictsAreTrue == Spec => []VerdictsAreTrue
<1>1. IInv => VerdictsAreTrue
  <2> SUFFICES ASSUME IInv, NEW p \in Proc, NEW r \in AllResults(p),
                      r.status \in Definite
               PROVE  \/ r.status = Truth(r.check, r.view)
                      \/ /\ r.check.kind # "local"
                         /\ r.status \in {"UNSAT", "UNSAT_BOUNDED"}
                         /\ GivenUpOn(r.check, r.view)
    BY DEF VerdictsAreTrue
  <2>1. Known(r.check, r.view, r.status) /\ r.check \in Check
    BY DEF IInv, RunOf, KnownOf, TypeInv, AllResults, Finding
  <2> QED BY <2>1, UndecidedTyped DEF Known
<1> QED BY <1>1, CacheInvariant, PTL

(* What verify_incremental leaves out was put to the solver before, for     *)
(* these very contents.                                                     *)
THEOREM IncrementalLosesNothing == Spec => []IncrementalCovers
<1>1. IInv => IncrementalCovers
  <2> SUFFICES ASSUME IInv, NEW p \in Proc,
                      mode[p] = "verify_incremental", pc[p] = "done",
                      NEW s \in IncrementalPlan(snap[p])
               PROVE  \/ \E r \in results[p] : r.check = s.check
                      \/ \E a \in answers :
                           a.check = s.check /\ a.view = ViewOf(s.check, snap[p])
    BY DEF IncrementalCovers
  <2>1. todo[p] = {} /\ CoverOf(p)
    BY DEF IInv, RunOf, WorkOf, Busy
  <2> QED BY <2>1 DEF CoverOf
<1> QED BY <1>1, CacheInvariant, PTL

(* The exit codes 0 and 1 of the CLI can be relied on as far as the solver  *)
(* was not given up on.                                                     *)
THEOREM ExitCodesAreSound == Spec => []ExitCodeIsSound
<1>1. IInv => ExitCodeIsSound
  BY DEF IInv, RunOf, ExitOf, ExitCodeIsSound
<1> QED BY <1>1, CacheInvariant, PTL

(* As long as nothing has gone wrong, no query was given up on.             *)
FaultInv == faults = 0 => \A a \in answers : a.decided

LEMMA FaultsAreCounted == Spec => []FaultInv
<1>1. Init => FaultInv
  BY DEF Init, FaultInv
<1>2. IInv /\ FaultInv /\ [Next]_vars => FaultInv'
  <2> SUFFICES ASSUME IInv, FaultInv, [Next]_vars PROVE FaultInv'
    OBVIOUS
  <2>1. faults \in Nat
    BY CacheAssumption DEF IInv, TypeInv
  <2>2. CASE UNCHANGED <<faults, answers>>
    BY <2>2 DEF FaultInv
  <2>3. ASSUME Fault(TRUE) PROVE FaultInv'
    BY <2>1, <2>3 DEF Fault, FaultInv
  <2>4. ASSUME NEW p \in Proc, Solve(p) PROVE FaultInv'
    BY <2>4 DEF Solve, Query, FaultInv
  <2>5. ASSUME NEW p \in Proc, WriteEntry(p) PROVE FaultInv'
    <3>1. PICK entry : Fault(entry = Partial)
      BY <2>5 DEF WriteEntry
    <3>2. answers' = answers
      BY <2>5 DEF WriteEntry
    <3>3. CASE entry = Partial
      BY <2>3, <3>1, <3>3
    <3>4. CASE entry # Partial
      BY <2>1, <2>2, <3>1, <3>2, <3>4 DEF Fault
    <3> QED BY <3>3, <3>4
  <2>6. ASSUME NEW p \in Proc,
               BeginCli(p) \/ BeginCall(p) \/ ReadFile(p) \/ Exit(p)
                 \/ Hit(p) \/ InnerHit(p) \/ Miss(p) \/ OpenEntry(p)
        PROVE  UNCHANGED <<faults, answers>>
    BY <2>6 DEF BeginCli, BeginCall, ReadFile, Exit, Hit, InnerHit, Miss,
                OpenEntry
  <2>7. ASSUME NEW p \in Proc, GiveUp(p) \/ Raise(p) \/ OpenFails(p) \/ Crash(p)
        PROVE  Fault(TRUE)
    BY <2>7 DEF GiveUp, Raise, OpenFails, Crash
  <2>8. Edit \/ UNCHANGED vars => UNCHANGED <<faults, answers>>
    BY DEF Edit, vars
  <2> QED BY <2>2, <2>3, <2>4, <2>5, <2>6, <2>7, <2>8 DEF Next
<1> QED BY <1>1, <1>2, CacheInvariant, PTL DEF Spec

(* What the documentation says of exit code 0 does hold as long as nothing  *)
(* has gone wrong in any run that shares the cache: then every check on     *)
(* everything the CLI went by answers no.                                   *)
SafeUnlessFaults ==
  faults = 0 => \A p \in Proc : exit[p] = 0 =>
    \A r \in report[p] : Truth(r.check, r.view) # "SAT"

THEOREM ExitZeroIsSafeUnlessFaults == Spec => []SafeUnlessFaults
<1>1. IInv /\ FaultInv => SafeUnlessFaults
  <2> SUFFICES ASSUME IInv, FaultInv, faults = 0, NEW p \in Proc, exit[p] = 0,
                      NEW r \in report[p], Truth(r.check, r.view) = "SAT"
               PROVE  FALSE
    BY DEF SafeUnlessFaults
  <2>1. GivenUpOn(r.check, r.view)
    BY DEF IInv, RunOf, ExitOf
  <2> QED BY <2>1 DEF GivenUpOn, FaultInv
<1> QED BY <1>1, CacheInvariant, FaultsAreCounted, PTL
=============================================================================
