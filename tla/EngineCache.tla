------------------------------ MODULE EngineCache ------------------------------
(***************************************************************************)
(* Verification runs that share the cache directory .iac_cache: the CLI's  *)
(* run_verify, and library calls of verify_graph and verify_incremental,   *)
(* while the files are edited.  A cache entry is a file that is truncated  *)
(* and then written, with no lock, and a run may be killed at any point.   *)
(***************************************************************************)
EXTENDS Integers, Sequences, TLC

CONSTANTS
  Proc,           \* the runs; each is one process or one library call
  NFiles,         \* number of files
  Version,        \* contents a file may have
  Unparsable,     \* those parse_iac_file raises on
  Reads,          \* the files a resource check's content comes from
  Graphs,         \* the sets of files a library caller builds a graph from
  Governed,       \* whether there are Azure policy assignments
  Truth(_, _),    \* the answer to a check on a view, given time
  Unresolved(_),  \* whether a graph has unresolved resources
  MaxEdits,       \* bound on the edits
  MaxFaults       \* bound on what goes wrong: queries given up on, exceptions,
                  \* writes that fail, runs that are killed

File == 1..NFiles

(* What part of the files a check sees; a graph is a view too.              *)
View == UNION {[S -> Version] : S \in SUBSET File}

NoGraph == [f \in {} |-> f]

Kind == {"local", "policy", "escalation"}

(* One check per resource and pattern, a file standing for its resource;    *)
(* file 0 for the check of the whole graph.                                 *)
Check == [kind : Kind, file : 0..NFiles]

(* configured_cap as the key has it: verify_graph keys without, the         *)
(* escalation check itself with its default.                                *)
Cap == {"None", "10"}

Key == [check : Check, cap : Cap, view : View]

Definite == {"SAT", "UNSAT", "UNSAT_BOUNDED", "UNRESOLVABLE"}
GivenUp == {"TIMEOUT", "UNKNOWN"}
Status == Definite \cup GivenUp

Absent == "absent"
Partial == "partial"

ASSUME CacheAssumption ==
  /\ NFiles \in Nat \ {0} /\ MaxEdits \in Nat /\ MaxFaults \in Nat
  /\ Unparsable \subseteq Version
  /\ Reads \in [File -> SUBSET File] /\ \A f \in File : f \in Reads[f]
  /\ Graphs \subseteq (SUBSET File) \ {{}}
  /\ Governed \in BOOLEAN
  /\ \A c \in Check, v \in View : Truth(c, v) \in Definite
  /\ \A v \in View : Unresolved(v) \in BOOLEAN

VARIABLES
  content,  \* the files
  edits,    \* how many edits there were
  faults,   \* how much has gone wrong
  cache,    \* the cache directory
  pc,       \* where each run stands
  mode,     \* which entry point it is
  limit,    \* whether its engine has a time limit
  files,    \* files run_verify has still to process
  snap,     \* the graph at hand
  changed,  \* changed_files
  todo,     \* the checks still to do on it
  at,       \* which of the check's cache keys is in use
  ans,      \* the result in hand
  results,  \* results on the graph at hand
  report,   \* overall_results, of earlier graphs
  flag,     \* has_unresolvable
  exit,     \* the exit code
  answers   \* history: what the solver was asked, and whether it decided

world == <<content, edits>>
call == <<mode, limit, changed>>
vars == <<content, edits, faults, cache, pc, mode, limit, files, snap, changed,
          todo, at, ans, results, report, flag, exit, answers>>

NoExit == 3
None == "none"

-----------------------------------------------------------------------------
RestrictTo(v, S) == [f \in DOMAIN v \cap S |-> v[f]]

(* The part of a graph a check depends on.                                  *)
ViewOf(c, g) ==
  IF c.kind = "local" THEN RestrictTo(g, Reads[c.file]) ELSE g

(* Faulty variants of the definitions that follow, to show that the         *)
(* properties can fail: a key that leaves the attached resources out, exit  *)
(* code 1 before 2, an undecided resource check taken for safe; further     *)
(* down, a half-written entry taken for a result, and an incremental run    *)
(* that skips whatever is not affected.                                     *)
KeyOfShallow(c, cap, g) ==
  [check |-> c, cap |-> cap,
   view |-> IF c.kind = "local" THEN RestrictTo(g, {c.file}) ELSE g]
ExitCodeFindings(unresolvable, statuses) ==
  IF "SAT" \in statuses THEN 1
  ELSE IF unresolvable \/ statuses \cap {"UNRESOLVABLE", "UNKNOWN"} # {} THEN 2
  ELSE 0
UndecidedSafe(c) == {"UNSAT"}

(* compute_cache_key.                                                       *)
KeyOf(c, cap, g) == [check |-> c, cap |-> cap, view |-> ViewOf(c, g)]

(* The end of run_verify.                                                   *)
ExitCode(unresolvable, statuses) ==
  IF unresolvable \/ statuses \cap {"UNRESOLVABLE", "UNKNOWN"} # {} THEN 2
  ELSE IF "SAT" \in statuses THEN 1
  ELSE 0

(* What a check can answer.  A query that ends undecided is reported by the *)
(* resource checks, passed over by the policy check, and by the escalation  *)
(* check either reported or, in the detection of targets, passed over.      *)
Undecided(c) ==
  CASE c.kind = "local"      -> GivenUp
    [] c.kind = "policy"     -> {"UNSAT"}
    [] c.kind = "escalation" -> GivenUp \cup {"UNSAT", "UNSAT_BOUNDED"}

(* A step is a check and the caps under which it is looked up in turn.  The *)
(* escalation check looks its own key up once verify_graph has missed.      *)
Plain == <<"None">>
Nested == <<"None", "10">>
Inner == <<"10">>
PlanStep == [check : Check, caps : {Plain, Nested, Inner}]

LocalSteps(g) ==
  {[check |-> [kind |-> "local", file |-> f], caps |-> Plain]
     : f \in DOMAIN g}

PolicySteps(g) ==
  IF Governed
  THEN {[check |-> [kind |-> "policy", file |-> f], caps |-> Plain]
          : f \in DOMAIN g}
  ELSE {}

Escalation(caps) ==
  [check |-> [kind |-> "escalation", file |-> 0], caps |-> caps]

(* verify_graph goes through the resources, each with its patterns.  The    *)
(* CLI then asks for escalation once more, unless something is unresolved.  *)
GraphPlan(g) ==
  LocalSteps(g) \cup PolicySteps(g) \cup {Escalation(Nested)}

CliPlan(g) ==
  GraphPlan(g) \cup (IF Unresolved(g) THEN {} ELSE {Escalation(Inner)})

IncrementalPlan(g) == LocalSteps(g) \cup {Escalation(Nested)}

(* The order of the steps of a plan: by resource, by pattern, then the      *)
(* escalation checks.                                                       *)
Rank(s) ==
  CASE s.check.kind = "local"      -> 2 * s.check.file
    [] s.check.kind = "policy"     -> 2 * s.check.file + 1
    [] s.check.kind = "escalation" -> 2 * NFiles + 4 - Len(s.caps)

First(steps) == CHOOSE s \in steps : \A t \in steps : Rank(s) <= Rank(t)

-----------------------------------------------------------------------------
Init ==
  /\ content \in [File -> Version] /\ edits = 0 /\ faults = 0
  /\ cache = [key \in Key |-> Absent]
  /\ pc = [p \in Proc |-> "idle"]
  /\ mode = [p \in Proc |-> None]
  /\ limit = [p \in Proc |-> FALSE]
  /\ files = [p \in Proc |-> {}]
  /\ snap = [p \in Proc |-> NoGraph]
  /\ changed = [p \in Proc |-> {}]
  /\ todo = [p \in Proc |-> {}]
  /\ at = [p \in Proc |-> 1]
  /\ ans = [p \in Proc |-> None]
  /\ results = [p \in Proc |-> {}] /\ report = [p \in Proc |-> {}]
  /\ flag = [p \in Proc |-> FALSE]
  /\ exit = [p \in Proc |-> NoExit]
  /\ answers = {}

Edit ==
  /\ edits < MaxEdits
  /\ edits' = edits + 1
  /\ \E f \in File : \E v \in Version \ {content[f]} :
       content' = [content EXCEPT ![f] = v]
  /\ UNCHANGED <<faults, cache, pc, call, files, snap, todo, at, ans,
                 results, report, flag, exit, answers>>

(* Something goes wrong, or may, when odd holds.                            *)
Fault(odd) == /\ odd => faults < MaxFaults
              /\ faults' = faults + (IF odd THEN 1 ELSE 0)

(* run_verify on a directory; its engine has no time limit.                 *)
BeginCli(p) ==
  /\ pc[p] = "idle"
  /\ pc' = [pc EXCEPT ![p] = "files"]
  /\ mode' = [mode EXCEPT ![p] = "cli"]
  /\ files' = [files EXCEPT ![p] = File]
  /\ UNCHANGED <<world, faults, answers, cache, limit, changed, snap, todo,
                 at, ans, results, report, flag, exit>>

(* A library call on a graph of some files: verify_graph, or                *)
(* verify_incremental with any argument for the changed files.              *)
BeginCall(p) ==
  /\ pc[p] = "idle"
  /\ \E S \in Graphs, m \in {"verify_graph", "verify_incremental"},
        C \in SUBSET File, lim \in BOOLEAN :
       /\ \A f \in S : content[f] \notin Unparsable
       /\ m = "verify_graph" => C = {}
       /\ mode' = [mode EXCEPT ![p] = m]
       /\ changed' = [changed EXCEPT ![p] = C]
       /\ limit' = [limit EXCEPT ![p] = lim]
       /\ LET g == RestrictTo(content, S) IN
          /\ snap' = [snap EXCEPT ![p] = g]
          /\ todo' = [todo EXCEPT ![p] =
                        IF m = "verify_graph" THEN GraphPlan(g)
                                              ELSE IncrementalPlan(g)]
  /\ pc' = [pc EXCEPT ![p] = "lookup"]
  /\ UNCHANGED <<world, faults, answers, cache, files, at, ans, results,
                 report, flag, exit>>

NextFile(p) == CHOOSE f \in files[p] : \A h \in files[p] : f <= h

(* run_verify goes on to the next file, which may not parse.                *)
ReadFile(p) ==
  /\ pc[p] = "files" /\ files[p] # {}
  /\ files' = [files EXCEPT ![p] = @ \ {NextFile(p)}]
  /\ report' = [report EXCEPT ![p] = @ \cup results[p]]
  /\ results' = [results EXCEPT ![p] = {}]
  /\ LET g == RestrictTo(content, {NextFile(p)})
         parses == content[NextFile(p)] \notin Unparsable IN
     /\ snap' = [snap EXCEPT ![p] = IF parses THEN g ELSE NoGraph]
     /\ todo' = [todo EXCEPT ![p] = IF parses THEN CliPlan(g) ELSE {}]
     /\ pc' = [pc EXCEPT ![p] = IF parses THEN "lookup" ELSE "files"]
     /\ flag' = [flag EXCEPT ![p] = @ \/ ~parses \/ Unresolved(g)]
  /\ UNCHANGED <<world, faults, answers, cache, call, at, ans, exit>>

Exit(p) ==
  /\ pc[p] = "files" /\ files[p] = {}
  /\ pc' = [pc EXCEPT ![p] = "done"]
  /\ report' = [report EXCEPT ![p] = @ \cup results[p]]
  /\ results' = [results EXCEPT ![p] = {}]
  /\ exit' = [exit EXCEPT ![p] =
                ExitCode(flag[p], {r.status : r \in report[p] \cup results[p]})]
  /\ UNCHANGED <<world, faults, answers, cache, call, files, snap, todo, at,
                 ans, flag>>

-----------------------------------------------------------------------------
(* One check of a run.                                                      *)
Step(p) == First(todo[p])
Asked(p) == [check |-> Step(p).check, view |-> ViewOf(Step(p).check, snap[p])]
Query(p, decided) ==
  [check |-> Asked(p).check, view |-> Asked(p).view, decided |-> decided]
CurrentKey(p) == KeyOf(Step(p).check, Step(p).caps[at[p]], snap[p])

(* is_affected: verify_incremental asks the solver about a check that reads *)
(* a changed file, whatever the cache has.                                  *)
Affected(p, c) == c.kind = "local" /\ Reads[c.file] \cap changed[p] # {}

ServedPartial(p) ==
  ~Affected(p, Step(p).check) /\ cache[CurrentKey(p)] # Absent
ServedUntouched(p) ==
  \/ mode[p] = "verify_incremental" /\ ~Affected(p, Step(p).check)
  \/ cache[CurrentKey(p)] \in Status

(* VerificationCache.get: no file, or one that does not read as a result,   *)
(* is a miss.                                                               *)
Served(p) == ~Affected(p, Step(p).check) /\ cache[CurrentKey(p)] \in Status

(* The check is over; its result, if any, goes into the results.            *)
Advance(p, new) ==
  /\ results' = [results EXCEPT ![p] = @ \cup new]
  /\ todo' = [todo EXCEPT ![p] = @ \ {Step(p)}]
  /\ at' = [at EXCEPT ![p] = 1]
  /\ ans' = [ans EXCEPT ![p] = None]
  /\ pc' = [pc EXCEPT ![p] = IF todo[p] # {Step(p)} THEN "lookup"
                             ELSE IF mode[p] = "cli" THEN "files" ELSE "done"]

Result(p, answer) == {[check |-> Step(p).check, view |-> Asked(p).view,
                       status |-> answer]}

(* An entry under the first key.  verify_incremental leaves such a check    *)
(* out of its results.                                                      *)
Hit(p) ==
  /\ pc[p] = "lookup" /\ at[p] = 1
  /\ Served(p)
  /\ Advance(p, IF mode[p] = "verify_incremental" THEN {}
                ELSE Result(p, cache[CurrentKey(p)]))
  /\ UNCHANGED <<world, faults, answers, cache, call, files, snap, report,
                 flag, exit>>

(* An entry under a later key is stored under the earlier ones as well.     *)
InnerHit(p) ==
  /\ pc[p] = "lookup" /\ at[p] > 1
  /\ Served(p)
  /\ ans' = [ans EXCEPT ![p] = cache[CurrentKey(p)]]
  /\ at' = [at EXCEPT ![p] = @ - 1]
  /\ pc' = [pc EXCEPT ![p] = "put"]
  /\ UNCHANGED <<world, faults, answers, cache, call, files, snap, todo,
                 results, report, flag, exit>>

Miss(p) ==
  /\ pc[p] = "lookup"
  /\ ~Served(p)
  /\ IF at[p] < Len(Step(p).caps)
     THEN at' = [at EXCEPT ![p] = @ + 1] /\ UNCHANGED pc
     ELSE pc' = [pc EXCEPT ![p] = "solve"] /\ UNCHANGED at
  /\ UNCHANGED <<world, faults, answers, cache, call, files, snap, todo, ans,
                 results, report, flag, exit>>

Answer(p, answer) ==
  /\ ans' = [ans EXCEPT ![p] = answer]
  /\ pc' = [pc EXCEPT ![p] = "put"]
  /\ UNCHANGED <<world, cache, call, files, snap, todo, at, results, report,
                 flag, exit>>

Solve(p) ==
  /\ pc[p] = "solve"
  /\ Answer(p, Truth(Asked(p).check, Asked(p).view))
  /\ UNCHANGED faults
  /\ answers' = answers \cup {Query(p, TRUE)}

(* A query times out; Z3 may also give up by itself.                        *)
GiveUp(p) ==
  /\ pc[p] = "solve" /\ Fault(TRUE)
  /\ \E answer \in Undecided(Asked(p).check) :
       /\ answer = "TIMEOUT" => limit[p]
       /\ Answer(p, answer)
  /\ answers' = answers \cup {Query(p, FALSE)}

(* An exception in a check: run_verify drops the results of the file, a     *)
(* library call ends.                                                       *)
Raise(p) ==
  /\ pc[p] = "solve" /\ Fault(TRUE)
  /\ pc' = [pc EXCEPT ![p] = IF mode[p] = "cli" THEN "files" ELSE "crashed"]
  /\ flag' = [flag EXCEPT ![p] = TRUE]
  /\ results' = [results EXCEPT ![p] = {}]
  /\ todo' = [todo EXCEPT ![p] = {}] /\ at' = [at EXCEPT ![p] = 1]
  /\ UNCHANGED <<world, answers, cache, call, files, snap, ans, report,
                 exit>>

-----------------------------------------------------------------------------
(* VerificationCache.put: opening the file truncates it.                    *)
OpenEntry(p) ==
  /\ pc[p] = "put"
  /\ cache' = [cache EXCEPT ![CurrentKey(p)] = Partial]
  /\ pc' = [pc EXCEPT ![p] = "write"]
  /\ UNCHANGED <<world, faults, answers, call, files, snap, todo, at, ans,
                 results, report, flag, exit>>

(* After a put, on to the put under the key before, or to the next check.   *)
AfterPut(p) ==
  IF at[p] > 1
  THEN /\ at' = [at EXCEPT ![p] = @ - 1]
       /\ pc' = [pc EXCEPT ![p] = "put"]
       /\ UNCHANGED <<todo, ans, results>>
  ELSE Advance(p, Result(p, ans[p]))

(* The file cannot be opened: the exception is swallowed.                   *)
OpenFails(p) ==
  /\ pc[p] = "put" /\ Fault(TRUE)
  /\ AfterPut(p)
  /\ UNCHANGED <<world, answers, cache, call, files, snap, report, flag,
                 exit>>

(* The text is written.  It stays unreadable when the write fails, or when  *)
(* another run's write of a text of another length overlaps it.             *)
WriteEntry(p) ==
  /\ pc[p] = "write"
  /\ \E entry \in {ans[p], Partial} :
       /\ cache' = [cache EXCEPT ![CurrentKey(p)] = entry]
       /\ Fault(entry = Partial)
  /\ AfterPut(p)
  /\ UNCHANGED <<world, answers, call, files, snap, report, flag, exit>>

(* The process is killed; what it has written stays.                        *)
Crash(p) ==
  /\ pc[p] \notin {"idle", "done", "crashed"} /\ Fault(TRUE)
  /\ pc' = [pc EXCEPT ![p] = "crashed"]
  /\ todo' = [todo EXCEPT ![p] = {}] /\ at' = [at EXCEPT ![p] = 1]
  /\ ans' = [ans EXCEPT ![p] = None]
  /\ UNCHANGED <<world, answers, cache, call, files, snap, results, report,
                 flag, exit>>

Next ==
  \/ Edit
  \/ \E p \in Proc :
       \/ BeginCli(p) \/ BeginCall(p) \/ ReadFile(p) \/ Exit(p)
       \/ Hit(p) \/ InnerHit(p) \/ Miss(p) \/ Solve(p) \/ GiveUp(p) \/ Raise(p)
       \/ OpenEntry(p) \/ OpenFails(p) \/ WriteEntry(p) \/ Crash(p)

Spec == Init /\ [][Next]_vars

-----------------------------------------------------------------------------
Finding == [check : Check, view : View, status : Status]

AllResults(p) == report[p] \cup results[p]

TypeOK ==
  /\ content \in [File -> Version]
  /\ edits \in 0..MaxEdits /\ faults \in 0..MaxFaults
  /\ cache \in [Key -> Status \cup {Absent, Partial}]
  /\ pc \in [Proc -> {"idle", "files", "lookup", "solve", "put", "write",
                      "done", "crashed"}]
  /\ mode \in [Proc -> {None, "cli", "verify_graph", "verify_incremental"}]
  /\ limit \in [Proc -> BOOLEAN] /\ flag \in [Proc -> BOOLEAN]
  /\ files \in [Proc -> SUBSET File] /\ changed \in [Proc -> SUBSET File]
  /\ \A p \in Proc :
       /\ snap[p] \in View /\ todo[p] \subseteq PlanStep
       /\ pc[p] \in {"lookup", "solve", "put", "write"} =>
            todo[p] # {} /\ at[p] \in 1..Len(Step(p).caps)
       /\ pc[p] \in {"put", "write"} => ans[p] \in Status
       /\ AllResults(p) \subseteq Finding
  /\ ans \in [Proc -> Status \cup {None}]
  /\ exit \in [Proc -> {0, 1, 2, NoExit}]
  /\ answers \subseteq [check : Check, view : View, decided : BOOLEAN]

(* Some query for this check on this view was given up on.                  *)
GivenUpOn(c, v) == [check |-> c, view |-> v, decided |-> FALSE] \in answers

(* Content addressing: whatever runs overlap, die or find half-written      *)
(* entries, a verdict a run reports is the true answer for the files as     *)
(* that run read them, also when it comes from the cache.  The one way to a *)
(* wrong verdict is a query that was given up on in a check that passes     *)
(* over that.                                                               *)
VerdictsAreTrue ==
  \A p \in Proc : \A r \in AllResults(p) :
    r.status \in Definite =>
      \/ r.status = Truth(r.check, r.view)
      \/ /\ r.check.kind # "local" /\ r.status \in {"UNSAT", "UNSAT_BOUNDED"}
         /\ GivenUpOn(r.check, r.view)

(* verify_incremental returns less than verify_graph, but nothing is lost:  *)
(* a resource or escalation check it leaves out was put to the solver for   *)
(* these very contents before, whichever files the caller named.            *)
IncrementalCovers ==
  \A p \in Proc : mode[p] = "verify_incremental" /\ pc[p] = "done" =>
    \A s \in IncrementalPlan(snap[p]) :
      \/ \E r \in results[p] : r.check = s.check
      \/ \E a \in answers :
           a.check = s.check /\ a.view = ViewOf(s.check, snap[p])

(* cli/main.py: "0 - Success", "1 - Finding", "2 - Engine Exception /       *)
(* Unresolvable Dependency".  On 0 and 1 every file was read and each of    *)
(* its resources answered for.  On 0, what is nevertheless vulnerable was   *)
(* given up on by some run; on 1 something is vulnerable, and nothing       *)
(* unresolved.                                                              *)
ExitCodeIsSound ==
  \A p \in Proc :
    /\ exit[p] \in {0, 1} => \A f \in File : \E r \in report[p] : r.check.file = f
    /\ exit[p] = 0 => \A r \in report[p] :
         Truth(r.check, r.view) = "SAT" => GivenUpOn(r.check, r.view)
    /\ exit[p] = 1 => /\ \E r \in report[p] : Truth(r.check, r.view) = "SAT"
                      /\ \A r \in report[p] : ~Unresolved(r.view)

(* docs/master_plan.md: "`0`: Success / Safe: All checked invariants are    *)
(* verified UNSAT (safe)".  Not so: run_verify has no time limit itself,    *)
(* but it takes a TIMEOUT that another run left in the cache, and exits 0.  *)
ExitZeroMeansSafe ==
  \A p \in Proc : exit[p] = 0 =>
    \A r \in report[p] : Truth(r.check, r.view) # "SAT"
=============================================================================
