# A formal model of iac-verifier

iac-verifier reads Terraform and ARM files, builds a graph of resources, encodes
safety questions about the graph as SMT formulas, and acts on Z3's answers: a CLI
with exit codes, a Kubernetes admission webhook, an auto-repair search. The
modules here follow an answer from the text to the exit code or the admission:
how variables, loops, modules, references and attachments become a graph, and
ARM templates with their expressions; what the encoders make of rules and
policies; the trust graph and the bounded search for escalation paths in it; the
webhook's threads and timers; the shared result cache; the repair search and its
patch. TLC checks them on small instances; TLAPS proves the invariants of the
trust graph, Azure policies, the escalation search, the webhook, the cache, the
repair search with its patch and the passes of the pipeline for every instance,
what the verdicts of the encoders say of the rules they are given, and that a
configuration whose verdicts are all `UNSAT` declares nothing harmful outside a
list of named cases; a template that the CLI passes does not, either.

Paths below are relative to `src/`.

## The system

| Component | State | Operations | Talks to |
|---|---|---|---|
| HCL and ARM parsers (`parser/hcl_parser.py`, `parser/arm_parser.py`) | none | `parse_file`, `build_graph`, `parse_iac_file` | called by CLI, webhook |
| Modules, variables, expansion, references, attachments (`parser/*.py`) | the `ResourceGraph` they rewrite in place | `parse_directory`, `build_graph_with_expansion`, `resolve_resource_references`, `resolve_rule_attachments` | each other, in a fixed order |
| Encoders (`encoder/*.py`) | none | one formula per question: security groups, NSGs, IAM policies, Azure policies | the engine |
| Trust graphs (`graph/*.py`) | `nodes`, `edges`, entry points, targets, unresolvable roles | `build_trust_graph`, `build_azure_trust_graph` | the engine's escalation check |
| Engine (`solver/engine.py`) | the solver in use, the time limit | `verify_graph`, `verify_incremental`, one `verify_*` per pattern | encoders, Z3, cache |
| Watchdog (`_check_solver_with_timeout`) | one timer per query | arm, cancel, interrupt | Z3's one main context |
| Cache (`VerificationCache`) | one JSON file per key in `.iac_cache` | `get`, `put` | every process in the directory |
| Escalation search (`verify_privilege_escalation`) | hop bound, targets | one query per bound | trust graph, BMC encoder |
| Repair (`solver/repair.py`) | candidates, the subset under test | `repair_resource` | engine |
| CLI (`cli/main.py`) | `has_sat`, `has_unresolvable` | `run_verify`, `run_repair` | parsers, engine |
| Webhook (`cli/webhook.py`) | the event loop's requests, the executor's queue | `validate_resource`, `_process_and_verify` | API server, engine in threads |

What makes them correct, and what makes that hard:

- *Escalation search.* `UNSAT` must mean that no path of any length exists,
  although only `min(cap, role_count)` hops are unrolled; `UNSAT_BOUNDED` must
  not claim more than was searched; a `SAT` witness must be a shortest path.
  The hard part is the bound: whether `role_count` hops are enough, with
  stuttering steps, an entry principal that may be anything, and early returns.
- *Webhook and watchdog.* Nothing the engine rejects may be admitted and every
  review must be answered, while jobs outlive their deadline, queued jobs are
  cancelled, timers fire late and interrupt a context that all threads share,
  and the process may die.
- *Cache.* A verdict served from the cache must be the verdict for the files as
  they are now, with several processes writing the same files without locks and
  being killed at any point; and what `verify_incremental` leaves out must have
  been verified.
- *Exit codes.* They must account for files that do not parse, for exceptions in
  the middle of a file and for undecided queries.
- *Repair.* The fix must be safe, minimal and the first in a fixed order, while
  verdicts are not monotone in the set of deleted rules (a Deny may be deleted)
  and queries may stay undecided.
- *Patch.* It must delete the statements the search verified the deletion of;
  the search names them by an index into the rules, the patch reads the index in
  the file.
- *Trust graphs.* An edge needs both sides' policies, whatever the order of the
  files; data without a value must be reported; Azure scopes are compared as
  texts and must neither leak between subscriptions nor miss control.
- *From text to graph.* What the formulas talk about has to be what the files
  say: locals that name one another in any order, loops without a value, modules
  whose addresses clash with the root's, rules attached by reference or by name,
  what is merged and then skipped, expressions in ARM templates. "Fail-closed"
  (README) asks that nothing is lost on the way without a verdict that says so.
- *Encoders.* The priority chain of an NSG, ranges of addresses, Deny statements
  and wildcards must mean what the clouds mean by them; an Azure policy's
  condition must not turn data without a value into compliance.

`PROJECT.json` lists all components and, under `hazards`, each of these
difficulties at its line.

## The modules

| Module | Models | Composes |
|---|---|---|
| `Reachability` | `verify_privilege_escalation`, `encode_reachability_bmc`, `compute_hop_bound` | |
| `ReachabilityProofs` | the theorems about it | extends `Reachability` |
| `AdmissionPromise` | what the gate promises the cluster | |
| `Admission` | `cli/webhook.py`, the executor, `_check_solver_with_timeout`, the API server's side | implements `AdmissionPromise` |
| `AdmissionProofs` | the theorems about it | extends `Admission` |
| `Repair` | `AutoRepairEngine.repair_resource` | |
| `RepairProofs` | the theorems about it and about `RepairPatch` | extends `RepairPatch` |
| `RepairPatch` | `generate_unified_diff`, `ASTRepairEngine.repair_hcl` | extends `Repair` |
| `OrderLemmas` | least and minimal elements, sorted lists and places in them, induction over the naturals, functions defined by recursion, for the proof modules | |
| `EngineCache` | `VerificationCache`, `compute_cache_key`, `verify_graph`, `verify_incremental`, `run_verify` | |
| `EngineCacheProofs` | the theorems about it | extends `EngineCache` |
| `AzureScope` | `IsScopeSubsumed` and the role classification of `azure_trust_graph.py` | |
| `TrustGraph` | `build_trust_graph`, `build_azure_trust_graph` | extends `AzureScope`; its edges feed `Reachability` |
| `AzurePolicy` | `verify_azure_policy`, `azure_policy_encoder.py` | extends `TrustGraph` for the scopes |
| `TrustGraphProofs` | the theorems about `TrustGraph` and `AzurePolicy` | extends `AzurePolicy` |
| `Expressions` | values, `resolve_value`, references as values | |
| `Encoders` | the SG, NSG and IAM encoders and their verdicts | extends `Expressions` |
| `ArmTemplate` | `arm_parser.py`: expressions, rules, addresses | extends `Encoders` |
| `Pipeline` | `variables.py`, `expansion.py`, `modules.py`, `references.py`, `attachments.py`, `build_graph`, `verify_graph` | extends `ArmTemplate` |
| `PipelineTruth` | what a configuration declares, and the properties | extends `Pipeline` |
| `TemplateTruth` | what a template declares, and the properties | extends `PipelineTruth` |
| `PipelineProofs` | the theorems about the passes, the encoders and templates | extends `TemplateTruth` |
| `PipelineTruthProofs` | the theorems from declaration to verdict | extends `PipelineProofs` |

Each has an `MC...` module with the values of its constants, and one `.cfg` per
run. A few definitions come with variants named after a mistake
(`HopBoundShort`, `KeyOfShallow`, ...). Nothing uses them: they are for
substituting into the definition they stand before, to see that the properties
notice.

### Reachability

A behaviour is one call. `Call` picks the graph (`external`, `edges`), the cap
and the entry principal, or returns `UNRESOLVABLE` when a role's trust data is
unresolved; `ExplicitTarget`, `UnknownTarget` and `DetectTargets` are the three
ways to the target set, each followed by the early returns of `Enter`;
`QuerySat`, `QueryUnsat` and `QueryUnknown` are the answers of one iteration of
the loop over `current_k`. The formula is not written symbolically:
`Assignments(k)` is the set of its models, `hop_0 .. hop_k`, built from the same
three constraints. `seen` is a history variable for the proofs.

Assumptions: edges end in roles, as both builders make them; a `target_resource`
that is an `account:` node is left out; an entry principal given as a bare
account number counts as the node it resolves to. The cache around the search is
in `EngineCache`.

### Admission

One review each for `Request`. `Receive` is `validate_resource` up to
`wait_for`, with the answers that need no work; `Start` .. `Finish` are the steps
of `_process_and_verify` in a thread of the pool; `BeginCheck` and `EndCheck`
are the two halves of `_check_solver_with_timeout`; `Expire` and `Interrupt` are
the timer thread, split between its test for cancellation and the call of
`ctx.interrupt()`, since `cancel()` may come between the two; `Interrupt` cuts
whatever queries run in the context at that moment. `Deadline` is `wait_for`
giving up (a queued job is cancelled, a running one goes on and keeps its
thread), `ServerTimeout` the API server's ten seconds, `Crash` a restart. A
payload is the list of the checks `verify_graph` will make of it, each with the
answers its queries would give in time. `Reported` says how each kind of check
turns answers into a status; this is where an undecided query is reported by
some checks and passed over by others.

Clocks are left out: a timer may expire at any moment it is armed. This
over-approximates the code; a property that needs the 8 s limit to be below the
10 s one is not stated. Two threads using Z3's context at once is undefined
behaviour of Z3; the model allows that the process dies, not that answers come
out wrong.

### Repair

A behaviour is one call of `repair_resource`. The solver is a function
`verdict` from the set of deleted rules to an answer, arbitrary and in
particular not monotone; an engine that is not `patient` may also give up on
any query. `TryFails` and `TryRestores` are one turn of the search loop,
`SubRestores` and `SubFails` one turn of the minimality check, `Final` the last
verification. `Prefilter` takes any subset as what the heuristics single out,
with the code's fallback to all candidates.

`RepairPatch` adds what is handed out. A file is the resource's statements with
their lines, the turn in which the parser reads each (`InTurn`: ingress before
egress, trust policy before inline ones) and whether the patch knows the way it
is written; `Collected` are those the patch finds, in the order of the file.
`MakePatch` turns the deleted rules into indices, takes the statements at these
indices and cuts their lines one after the other, the last first. It falls back
to the sketch where the code does: no such file, no such resource, nothing
changed. A file that cannot be read raises in the handler itself, because
`repair.py` does not import `logging` (`Lost`). A resource of an escalation has a
part of the candidates only (`skip`, `count`).

### EngineCache

Each process is one run: `run_verify` over the files one after the other, or a
library call of `verify_graph` or `verify_incremental` on a graph of several. A
file stands for its resource and for what `parse_iac_file` makes of it; `Reads`
says whose content a resource check depends on (merged rules, referenced
groups; `compute_cache_key` always puts the resource itself among them). The
run's plan is the set of checks that are left, each with the cache keys it is
looked up under; `Rank` is the order of the code, resources before attached
policies before the escalation check, and `First` the step at hand. The
escalation check has two keys, one by `verify_graph` and one of
its own, and `run_verify` asks it a second time. `Hit`, `InnerHit` and `Miss`
are `get`; `OpenEntry`, `WriteEntry` and `OpenFails` are `put`, with the file
truncated in between. `WriteEntry` may leave the entry unreadable, for a failed
write and for an overlapping one of another length. `content` changes under all
of it (`Edit`).

Truths are arbitrary functions of what a check sees. `answers` is a history
variable: what the solver was asked and whether it decided.

### TrustGraph and AzureScope

The passes of both builders, in sequence: `Register` (names of roles), `Collect`
(trust and identity policies), `Intersect` (the edges, and the nodes of the Azure
part), `Assign` or `RejectAssign` (role assignments). Each takes its elements in
any order, since the code takes the order of the files. A value is literal, a
reference, a path (an Azure id, given by its parts), `Gone` (Unresolved) or
absent; `AzureScope` has the comparison of an id with the attributes of a
resource. The search begins where this ends: `edges`, `entries` and `targets` are
`Reachability`'s `edges`, external nodes and targets, and `FeedsReachability` is
what that module assumes of them. The statements kept on edges for messages are
left out.

`AzurePolicy` adds the check of one resource under its policy assignments, one
after the other: definition, scope, effect, condition. Conditions are
finite trees, given with their depth (`Depth`), so that what is defined by
recursion over them is a function. What a condition may mean is stated apart
(`MayBe`: the set of its possible truth values).

### Pipeline

A behaviour is one verification of one configuration, given as values and not as
text (`Expressions`: literals, names, lists, texts made around a name, loop keys,
references to resources). The `entry` says which of the program's ways it goes:
`cli` resolves no name and expands nothing, `webhook` does, `modules` inlines
local modules too (only the tests call it), `arm` reads a template.
`TryLocal` and `NextPass` are the passes of `load_local_values`, in an order of
the locals chosen at the start; after a pass that resolves none, `GiveUp` makes
one local after the other Unresolved, of those before it still without a value,
and `EndLocals` ends the passes when none is left. `Expand` and `InlineModule`
take blocks and module calls in any order; `ResolveReferences` is one step;
`Attach` takes the attachments in any order; `Verify` skips what was merged and
asks `Encoders`.
`ReadResource` reads a template's resources in the order of its list. `EvalStep`
is one call of `_eval_arm_expr`, `EvalArm` the recursion: calls nested up to
`RecursionLimit`, over `ArmExprs`, the expressions of the templates and their
parts. What would go deeper is `Endless`, Python's `RecursionError`, and the
review ends in `failed`.

`Encoders` computes a formula's models: a security group is `sat` if a set of
public addresses is not empty, an NSG goes through its priority chain with
Azure's defaults, an IAM policy is about a small set of requests. What an NSG is
asked about are `Packets`, a public source and any destination, on the sensitive
ports; text that is no number is every port, as in the code.

`PipelineTruth` states what is declared without any pass: `Meaning` is what the
locals come to in as many rounds over all of them at once as there are locals,
of which only what is `Whole` is kept: nothing of what it consists of (`Sources`,
the entries of its entries) is missing. `Sites` are the instances of all
blocks, `Home` is where a rule belongs, `PolicyOf` what policy an attachment is
of, `Subjects` a site with all that belongs to it; `SgHarm`, `NsgHarm` and
`IamHarm` say what is dangerous by the clouds' rules ("allowed, and no earlier Deny"), with
data that has no value counting as dangerous. `TemplateTruth` does the same for
templates, where `Means` is the meaning of an expression: `concat` of lists is a
list, the inside of an object is as good as what is written elsewhere, and a
circle has no value.

### Blind spots

The two directions of the pipeline's properties hold outside a list of cases,
each a definition of its own in the truth modules. Each of them was met as a
counterexample, and without any of them the run fails. They are cases in which
the program answers `UNSAT` to something it has not looked at:

- `NotRead`: modules are inlined by `build_graph_with_modules` only, which
  neither CLI nor webhook calls; remote and nested modules, and those with an
  unresolved loop, are placeholders that `verify_graph` ignores. `Displaced`
  belongs here: a loop over a list local that lost an item has one instance
  under the key of the loss where several are declared.
- `BlocksVanished`: a group with an unresolved `count` loses its inline rules
  (`parser/expansion.py:309`).
- `Misplaced`: `aws_security_group_rule` is merged into whatever its reference
  names, of any type (`parser/attachments.py:67`), another rule included.
- `Astray`: a reference in a module finds the root's resource of the same
  address first (`parser/references.py:69`).
- `PolicyAstray`: an attachment that names a policy by text gets the one whose
  block is so called, too (`_find_tier_b_candidates`, `parser/attachments.py:16`);
  its Deny then hides what the role may do.
- `PolicySkipped`: a policy whose text refers to a resource of the graph becomes
  a reference, which `encoder/iam_encoder.py:168` passes over.
- `PriorityUnknown`: a rule without a priority comes after Azure's default Deny.
- `Muted`: a rule field that is a list in the place of text, or text made of a
  list, is a prefix that matches nothing; as a port it is every port, that of a
  Deny too (`encoder/azure_nsg_encoder.py:53`).
- `Aside`, and `RulesAside` of a template: an Allow whose destination is an
  application security group, or a service tag that the encoder does not know,
  matches nothing (`encoder/azure_nsg_encoder.py:251`). The docstring there calls
  this failing closed, but what the rule opens is judged `UNSAT`. In the truth such
  a destination is an address one does not know (`MayMatch`).
- `ShowsLoss`: the text of a policy shows a list local that lost an item; what was
  lost is text by then, and nobody asks what it was.
- `Surplus`: what the CLI merges although its `count` is zero.
- `Refused`: priorities and kinds of access that Azure does not accept.
- `NotAttached`: an attachment whose role or policy is not found, or found
  twice, is dropped with a printed line.
- `Widened`: rule sources are copied without `NotAction` and `NotResource`
  (`parser/variables.py:301`), so that a Deny denies everything.
- Templates: `Overwritten` (names that differ in punctuation only share an
  address, `parser/arm_parser.py:459`), `RulesByExpression` (`securityRules`
  given by an expression is ignored, `:404`), `MadeText` (`concat` of lists is
  text, `:173`, and so is what an object in a default contains), `ChildUnknown`
  (the port of a rule among a group's resources that has no value, and the access
  that has none or has a part without one, is absent and not reported). `PriorityUnknown` and
  `RulesRefused` are the same as above: a priority without a value is no attribute
  and puts the rule behind the default Deny.

`AzurePolicy` has its own list in `Blind` (aliases and types by another name,
operators that are not supported, references and unresolved list items,
false or an empty list after `notEquals` or `notIn`, `exists` "false", the
definition found by a part of its name),
and `RepairPatch` in `OutOfOrder`, `Elsewhere` and `Crowded`. `OutOfOrder` is the
one to know: in a security group whose egress block stands before its ingress
block, the patch under the status `REMEDIATED_MINIMAL` deletes the egress block.

## The runs

| Run | Checks | Result |
|---|---|---|
| `reachability` | `TypeOK`, `CompleteProof`, `BoundedProof`, `ShortestWitness`, `IInv` | hold |
| `reachability_entry` | `UnsatMeansUnreachable` | violated |
| `admission` | `TypeOK`, `GateIsSound`, `NoWastedStart` | hold |
| `admission_live` | `ThreadsReturn`, `ImplementsPromise` | hold |
| `admission_fail_closed` | `FailClosed` | violated |
| `admission_own_timeout` | `OwnTimeout` | violated |
| `repair` | `TypeOK`, `FixIsMinimal`, `FixIsFirst`, `UnremediableIsExhaustive`, `PatchIsFix`, `Terminates` | hold |
| `cache_shared` | `VerdictsAreTrue`, `IncrementalCovers` | hold |
| `cache_faults` | `TypeOK`, `VerdictsAreTrue`, `ExitCodeIsSound` | hold |
| `cache_exit_zero` | `ExitZeroMeansSafe` | violated |
| `trust` | `TypeOK`, `FeedsReachability`, `BothSidesAgree`, `UnresolvedIsReported`, `ScopesIsolate`, `ControlIsFound`, `ViolationsAreFound`, `NoFalseViolation` | hold |
| `pipeline` | `TypeOK`, `LocalsSettle`, `RulesAreKept`, `NoFalseSafe`, `NoFalseAlarm`, `TemplateNoFalseSafe`, `TemplateNoFalseAlarm` | hold |

What they show:

- `CompleteProof`: `UNSAT` is a proof of unreachability by any number of hops,
  stated with a separating set and not with a bound. It is stated for calls that
  name no entry principal or whose graph has an external entry point.
  `UnsatMeansUnreachable` is the docstring's unconditional form, and fails: with
  an internal entry principal and no external entry point the code answers
  `UNSAT` without a query.
- `GateIsSound`: a review is admitted only if none of its checks would find a
  violation, or one of its queries stayed undecided and the violation is in a
  check that passes over undecided queries. `FailClosed`, the stronger claim of
  the master plan, fails on exactly these. `OwnTimeout` fails because the
  interrupt belongs to the context and not to the solver.
- `ImplementsPromise`: with the fairness below, the webhook decides each review
  once, never admits a guilty one, and decides all of them.
- `FixIsMinimal`: a reported fix restores `UNSAT`; when no query stays
  undecided, no proper subset of it does.
- `PatchIsFix`: where statements stand in the order of their rules, all of them
  in the resource's own block and on lines of their own, the patch removes the
  lines of the verified deletion and no others.
- `BothSidesAgree`: an edge between roles needs the trust policy of one and the
  identity policy of the other, and both are enough unless two roles share a
  name, in any order of the files. `UnresolvedIsReported`: what has no value is
  in `unresolvable_roles` and leaves nothing else behind.
- `ScopesIsolate`: an edge to an identity is justified by an assignment whose
  scope no literal attribute contradicts (`sub "a"` is not in scope `"ab"`).
  `ControlIsFound`: nobody with a control role over a literal subscription or
  group is without an edge to what can be used there.
- `ViolationsAreFound`, `NoFalseViolation`: the verdict on a resource under policy
  assignments agrees with the conditions' possible truth values.
- `LocalsSettle`: locals get their meaning in any order of the file; lists settle
  in the first pass with their later names lost for good, and are left out.
- `RulesAreKept`: what is merged and skipped is in a resource that is verified,
  of the right kind and with all its rules, for any order of the attachments.
- `NoFalseSafe`, `NoFalseAlarm`: the verdicts agree with what is declared, in
  both directions; `TemplateNoFalseSafe` and `TemplateNoFalseAlarm` say so of
  templates, the first of the CLI's exit code 0. `NoFalseSafe` excepts the cases
  of `Blind`, each a definition with its reason. `NoFalseAlarm` is about resources
  of which every part is in its place (`InPlace`: what is merged into it is what
  is declared to belong there) and says all of itself (`InWords`: no policy is
  attached that was not declared, none lost its `NotAction`, and no placeholder
  stands for a group or policy whose inside it does not show), and whose rules of
  one priority agree.
- `VerdictsAreTrue`: a reported verdict is true for the files as the run read
  them, whether solved or served, unless a query was given up on in a check that
  passes over that. `IncrementalCovers`: what `verify_incremental` leaves out
  was asked for the same contents before, whatever the caller gave as changed
  files. (It plans no Azure policy check at all, so the claim is about the
  others.)
- `ExitCodeIsSound`: on exit 0 and 1 every file was read and every resource
  answered for; on 0 whatever is vulnerable was given up on by some run.
  `ExitZeroMeansSafe`, the master plan's wording, fails: `TIMEOUT` is not among
  the statuses `run_verify` looks at, and while its own engine has no time limit
  and never answers `TIMEOUT`, the cache serves it one that another run left.

### Bounds

- `reachability`: three roles, one account, every set of edges among them except
  self-loops, caps 0..4. Path lengths 0..3 and caps below,
  at and above the role count all occur; an extra role adds longer chains only,
  and the proofs cover any number.
- `admission`: two reviews and two threads, so that two queries overlap and one
  review's late interrupt can meet the other's query; one restart. One review
  carries any body, one for each way through the handler and each kind of check,
  the other one that disturbs. `admission_live` has two reviews on one thread, so
  that one waits for the other, and for its own deadline.
- `repair`: three rules and up to two attacks, each with any sets of rules it
  needs and is stopped by, and any result of the heuristics. Three rules are
  needed for a minimality check with subsets of two sizes. Files: three
  statements, each written in one of four ways, on one line or two, so that any
  order of kinds and any set of deletions occurs; files with shared lines, with
  merged rules, with a part of the candidates, and files that cannot be used.
- `trust`: two roles with every pair of their policies from a set that has each
  kind of item, one bearing the other's short name or not; one account, one
  outside principal. One host with two identities, two assignments over every
  scope and role of the instance, so that one may justify what the other may
  not. For policies: one resource, up to two assignments and two definitions,
  and conditions two levels deep over every operator, with `notIn` of false and of
  an empty list among them. Names such as `a` and `ab`
  make one id the start of another.
- `pipeline`: addresses of three bits (a private net, a narrower one inside it, a
  public one with a host bit, the probes' address), for sources and destinations
  alike, two actions, two resources.
  The configurations come in families, each for one mechanism with all that meets
  it: chains and cycles of three locals with layers of variables; a group, a
  second one of its name and a rule with every loop and link; an NSG with rules
  inside and beside it; a role with two policies and an attached one; a module with
  clashing addresses and every loop, one whose rule names its group in text and one
  with a role; two rules beside a group with lists that lose items and what Azure
  refuses; rules to every kind of destination, beside Denies to a part of it;
  templates with every way to write a value or
  a rule, and what is no template. Families keep the product small; a mechanism
  of one meets one of another through its values only. `RecursionLimit` is 8,
  more than any expression of the instance needs that is not a circle; Python's
  is about a thousand frames, and the proofs take any number.
- `cache_shared`: two runs, two files, one depending on the other, one edit.
  `cache_faults`: two runs, one file with four contents, two faults of any
  kind. Two runs are what an overlapping write takes, and two faults what it
  takes to damage both keys of the escalation check or to time out twice.

`MaxCap`, `MaxCrashes`, `MaxEdits` and `MaxFaults` are the only bounds on
unbounded quantities.

Deadlock checking is off where the system stops by itself: a call that has
returned, reviews that are all decided, runs that are over.

### Fairness

`Admission` assumes weak fairness of each thread's next step and of each
handler's deadline: the operating system runs threads, asyncio runs timers, and
`solver.check()` returns because the `timeout` parameter is set next to the
timer. No fairness is assumed of the clients, the API server, the watchdogs or
the delivery of a result, so that an answer is guaranteed by the deadline alone.
`Repair` assumes that the one call keeps running; `RepairPatch` assumes it of the
search. The other modules state no liveness: they are loops over finite
collections, and only their results are of interest.

## What is proved

`ReachabilityProofs`, for any finite set of roles, any graph and any cap, from
`ReachabilityAssumption` only:

| Theorem | States |
|---|---|
| `InvariantHolds` | `Spec => []IInv` |
| `TypeCorrect` | `Spec => []TypeOK` |
| `UnsatIsComplete` | `Spec => []CompleteProof` |
| `BoundedIsHonest` | `Spec => []BoundedProof` |
| `WitnessIsShortest` | `Spec => []ShortestWitness` |
| `UnreachableBlocks` | a separating set excludes models of every length |

The argument. `CompleteProof` is not inductive: it says nothing while the loop
runs. `IInv` adds `LoopInv`, about the set `seen` of the values `hop_i` can have
in the last formula (`Unrolling(hop - 1)`). `seen` misses the targets after an
unsat bound; it keeps all entry points because nodes may stutter; and as long as
some edge leaves it, the next bound adds a role to it. So after `hop - 1` bounds
either no edge leaves it or it has `hop - 1` roles (`Closed(seen) \/
Cardinality(seen \cap Role) >= hop - 1`). When the loop ends with
`hop = RoleCount`, it is closed or holds all roles, and then it is closed too
because edges end in roles: it is the separating set. The lemmas follow these
sentences: `UnrollingZero` and `UnrollingStep` (what one more hop adds),
`ImageClosed`, `ImageGrows`, `ImageCounts`, `FullIsClosed`, `ClosedSeparates`;
`DropStutter` is the shortening argument behind `ShortestWitness`. One lemma per
action shows that `IInv` is kept.

`RepairProofs`, for any number of rules, any set of resources and any files, from
`RepairAssumption` and `FilesAssumption` only: a file's statements are in the
order of their first lines, each on one line or more of the file.

| Theorem | States |
|---|---|
| `Inductive` | `Spec => []IInv` |
| `RepairTypes` | `Spec => []TypeOK` |
| `RepairMinimal` | `Spec => []FixIsMinimal` |
| `RepairFirst` | `Spec => []FixIsFirst` |
| `RepairExhaustive` | `Spec => []UnremediableIsExhaustive` |
| `RepairPatchIsFix` | `PatchSpec => []PatchIsFix` |

The argument. What is returned depends on the whole search, so `IInv` keeps what
the search has ruled out: `SearchInv` says that every deletion of fewer than `k`
rules, and every one of `k` rules no longer in `untried`, fails (`Passed`; an
engine that is not `patient` may have given up on it instead), and
`CheckInv` that the parts of `trial` already visited fail. `AdvanceInv` carries
`SearchInv` over to the next size, where all combinations of size `k` are
passed; when no size is left, all deletions are, which is
`UnremediableIsExhaustive`. `SubRestoresInv` shows in passing that the code's
minimality check can only find something if a query timed out earlier: the
smaller deletion it would find was tried before. All of it rests on `First`
being well defined, i.e. on the order of combinations being a strict total order
(`BeforeTotal`, `BeforeTransitive`), whose least element exists by
`MinimalElement`.

The patch is made from what the search has found, which nothing changes any more
(`PatchInv`). Where the statements stand in the order of their rules, each index
names its own statement (`DeletesItsOwn`). `DeletionOrder` runs from the last to
the first, so that below the last cut every line is still where it was in the
file (`Kept`, `CutKeeps`): the line numbers, read before the first cut, are right
for every later one. `KeptAlways` is the induction over the cuts;
`DeletionRemoves` says what is gone in the end, and `GoneIs` that only the rules
of the fix lose a line. Deleting from the top (`InFileOrder`) breaks `Kept`, and
TLC shows how.

`TrustGraphProofs`, for any configurations, from `TrustGraphAssumption` only:
they are well formed, i.e. addresses, names of roles, account ids and account
nodes are different texts, a principal given as text is an identity or an
object id from outside, and a management group's path contains no resource
group.

| Theorem | States |
|---|---|
| `GraphInvariant` | `Spec => []IInv` |
| `GraphTypes` | `Spec => []TypeOK` |
| `GraphFeedsSearch` | `Spec => []FeedsReachability` |
| `GraphIsIntersection` | `Spec => []BothSidesAgree` |
| `GraphReportsUnresolved` | `Spec => []UnresolvedIsReported` |
| `GraphIsolatesScopes` | `Spec => []ScopesIsolate` |
| `GraphFindsControl` | `Spec => []ControlIsFound` |

The argument. The result must not depend on the order of the files, so `IInv`
gives what each pass has made so far as a function of the set of elements it has
visited, without their order: `trust` and `identity` are what the policies of the
visited roles say, the edges to identities those of the visited assignments. The
one exception is `owner`, where a shared name belongs to the last role; hence
`NoSharedNames` in one half of `BothSidesAgree`. `GraphFeedsSearch` is the
assumption `Reachability` makes of its edges, so the two modules' theorems add
up: `UNSAT` from the search is about the graph the policies describe.

`AdmissionProofs`, for any reviews, bodies, number of threads and restarts, from
`AdmissionAssumption` only:

| Theorem | States |
|---|---|
| `AdmissionInvariant` | `Spec => []IInv` |
| `AdmissionTypes` | `Spec => []TypeOK` |
| `AdmissionIsSound` | `Spec => []GateIsSound` |
| `AdmissionWastesNothing` | `Spec => NoWastedStart` |
| `AdmissionKeepsPromise` | every step is one of `AdmissionPromise`, or none |

The argument. `GateIsSound` looks at an admission only; `WorkInv` says what it
rests on: of a running job, every check is still to do, or the job has a status
that blocks, or the check is excused (it hides no violation, or one of the
review's queries was given up on in a check that passes over that). The answers
kept of the check at hand are the true ones unless the review is in `gaveUp`
(`Honest`), so the status `Reported` from them keeps `WorkInv`. `QueueInv` (a
queued job is in the queue once, its handler waiting) and `FreshInv` (nothing
exists of a review before its work begins) carry it through the pool.
`AdmissionKeepsPromise` is the safety half of the refinement; that every review
is decided stays with TLC.

`EngineCacheProofs`, for any number of runs and files, any contents, answers of
the solver and bounds on edits and faults, from `CacheAssumption` only: what a
check depends on includes its own file, graphs are sets of files, and truths are
definite verdicts.

| Theorem | States |
|---|---|
| `CacheInvariant` | `Spec => []IInv` |
| `CacheTypes` | `Spec => []TypeOK` |
| `CachedVerdictsAreTrue` | `Spec => []VerdictsAreTrue` |
| `IncrementalLosesNothing` | `Spec => []IncrementalCovers` |
| `ExitCodesAreSound` | `Spec => []ExitCodeIsSound` |
| `ExitZeroIsSafeUnlessFaults` | as long as nothing has gone wrong, exit 0 means that no result is of a vulnerable check |

The argument. A status travels from the solver through a run's hand into an
entry, from there, perhaps after an edit and in another run, into results and a
report. `IInv` says one thing of it wherever it is, `Known(c, v, status)`: the
solver was asked check `c` on view `v`, and the status is its answer, or what `c`
makes of a query it gave up on. So it says of the cache that the entry under a
key has the status of that key's check and view (`CacheInv`), and this holds
because the key contains the whole view: two runs whose writes to one key overlap
write answers to the same question, and an interrupted write leaves `Absent` or
`Partial`, which `get` takes for a miss. `CoverOf` follows the steps of an
incremental run, `CliOf` the files of the CLI's, and `ExitOf` what is left of both
when the process ends. `ExitZeroIsSafeUnlessFaults` shows what
`MCEngineCacheExitZero` refutes without its hypothesis: only a query that was
given up on can hide behind exit 0.

`PipelineProofs`, for any configurations of any size and any entry, from
`ConfigAssumption` (rules are lists, of statements in a policy; what is named has
a value; no resource has the address `module`; a template has no security group,
its resources are a list and its rules are rules), `ArmAssumption` (of an
expression in `ArmExprs` the parts are there too, and it has one of the forms)
and `TruthAssumption` (text made of a list is neither a number nor a CIDR, and
more text around it does not change that):

| Theorem | States |
|---|---|
| `PipelineInv` | `Spec => []IInv` |
| `PipelineTypes` | `Spec => []TypeOK` |
| `LocalsComeToTheirMeaning` | `Spec => []LocalsSettle` |
| `AttachedRulesAreKept` | `Spec => []RulesAreKept` |
| `NsgUnsatIsHarmless` | when `VerifyAzureNsg` says `unsat`, the declared rules do no harm (`RulesHarm`) |
| `NsgSatIsHarm` | when it says `sat`, they do, unless two rules of one priority disagree (`RuleTie`) |
| `SgVerdictIsHarm` | `VerifySecurityGroup` says `sat` or `unsat` as a rule opens a sensitive port to the public or none does |
| `ArmGraphIsRead` | `Spec => []ArmInv` |
| `TemplateUnsatIsSafe` | `Spec => []TemplateNoFalseSafe` |
| `TemplateSatIsHarm` | `Spec => []TemplateNoFalseAlarm` |

The argument. The passes compute with the locals known so far, `Meaning` with
rounds over all of them, and neither is a prefix of the other: a pass may use a
value it has just made, and a list may settle with items that are lost.
`WholeIsMeant` relates them by counting: a known local whose value is whole has
the value of some round `k`, with `k` at most the number of known locals, since
a whole result comes of whole values only and each step adds one local. As there
are as many rounds as locals, and values do not change in later rounds, this is
its meaning. The other half, that a scalar with a meaning is never given up,
rests on `PassInv`: a local is made Unresolved only after a pass without
progress, and then no local left could be resolved; nor can it be later, since
an Unresolved name gives no value to what is made around it. For the rules,
`KeptOf` follows a merged resource to its target: types that receive rules have
no `ParentType`, so a target is never merged itself and is verified in the end,
with all it received.

The next three theorems are about lists of rules of any length, any addresses,
ports and names of networks. What is declared is a set of rules, what the encoder
gets a list of sources, in some order, with other things among them (`Gives`);
priorities are numbers below that of `DenyAllInBound` (Azure takes 100 to 4096)
and the access is `Allow` or `Deny` where it is known (`IsRule`). For SAT
(`NsgSatIsHarm`) a priority that is a number is enough (`HasNumber`).
`ChainIsFirstMatch` is the heart: the nested `If`, built from the end of the
sorted list, allows what the first rule that matches allows, "first" by priority
and then by place in the list. It goes by induction from the end of the chain,
after `SortedIs` has shown that the places of the rules are a permutation
(`Places` of `OrderLemmas`). `DefaultsDeny` says that of the defaults only the
Deny meets an address the verdict is about. They rest on `NumberAssumption` and,
for entries without a value, on `EverywhereAssumption`: some public address is in
`0.0.0.0/0`.

The last three are about templates, with expressions of any depth. The two
properties look at the last state only; `ArmInv` is what the steps keep: after
`at - 1` resources each of them is at its address, as `ArmResource` makes it,
unless a later one took its place, nothing else is in the graph, and no value that
was read is `Endless`. What is no template leaves the one placeholder, which is
unresolved, so that the CLI does not pass it.

The rest compares two evaluations. `EvalArm` and `Means` are recursive functions
of the depth, so a proof by induction on it needs no `RECURSIVE` operator: `Levels`
shows that each is what its definition says. `Tells(v, m)` relates the value found
to the meaning: they are equal, or both lists and told entry by entry, or both
rules, or both without a value, or `v` is the text that a list became (`ListText`). `EvalTells` says
that what `n` nested calls find, if they come to an end, tells the meaning at
every depth from `n + 2` on; the two further steps are for the inside of an
object, which the parser takes as it is written (`Written`) while it may have to be
evaluated itself. So a value that is not `MadeText` agrees with the declaration,
field by field of each rule (`FieldTells`), and the lists of rules `Gives` and
`HasNumber` ask for are those of the group. From there `NsgUnsatIsHarmless` and
`NsgSatIsHarm` finish, as they do for Terraform.

`PipelineTruthProofs`, from these assumptions and no other, joins the two ends:

| Theorem | States |
|---|---|
| `PipelineMade` | `Spec => []TruthInv` |
| `UnsatIsSafe` | `Spec => []NoFalseSafe` |
| `SatIsHarm` | `Spec => []NoFalseAlarm` |

The argument. `NoFalseSafe` looks at the last state only. What makes it inductive
is `MadeInv`: whatever order blocks, module calls and attachments come in, each
resource of the graph is what `Extract` made of one block and one instance under
the names its module sees (`MadeAt`), plus the rules that attachments appended;
what a merged resource offered is among those of its target; and nothing is there
that did not come in this way. `TruthInv` is `IInv`, `MadeInv` and `KnownInv` (a
local that is resolved has a value).

From there it is about values. The code computes with `known`, the truth with
`Meaning`, and they differ; but what the code makes of an expression is `Below`
what is meant: equal, or it shows a loss (it is not `Whole`). `ValueBelow` and
`AttrBelow` carry this through names, lists, interpolation and instances, `Firm`
goes the other way for what has no value where it is meant. `InstancesMeet` and
`CallsMeet` match the loops: each declared instance has its own in the graph, or
one with a key that is lost took its place. So every site that was read has its
node (`SiteMade`), made of its block (`SiteFirst`, `MadeForBelow`), and its rules
are in the resource that was verified for it (`Carrier`).

Then one argument per question. `SgSafe`: an entry that is not known counts as
`0.0.0.0/0`, so a rule that may be open is open in the graph. `NsgSafe`: outside
the cases of `Blind` the declared rules are, field by field, among those of the
verified resource and the other way round (`NsgHears`), which is what
`NsgUnsatIsHarmless` takes. `IamSafe`: what is declared to be granted is granted
in the graph (`CopiedGrants`), and what denies it in the graph is declared to deny
it. A template has no sites (`NoSites`); it is `TemplateTruth`'s.

`SatIsHarm` goes from the graph back to the declarations. `Below` alone would not
do: an item that is meant and lost in the graph might be what makes the alarm
false. Where no local is a list, the converse holds (`AttrAbove`): what has a value
where it is meant has that value in the graph, or what is meant is itself without
one. It goes through root variables, module calls and loops (`RootAbove`,
`CallAbove`). A rule of the verified resource is its own or was appended from
something merged into it (`RulesOfRule`), and `InPlace` says that this is a member
of its declared group (`MemberIs`, `RuleOrigin`). Then again one argument per
question: in `SgAlarm` an entry that is open in the graph is declared open or
has no value; in `NsgAlarm` the rules are those of the group, field by field
(`GroupSaid`), and `NsgSatIsHarm` names the one that harms; in `IamAlarm` a grant
comes from a statement of the role or of an attached policy (`IamOrigin`), and a
statement that denies where it is declared denies in the graph (`IamKept`).

The proofs changed the model. `LocalsSettle` used to ask for wholeness of a value
and its items, two levels, which is enough for the instance and false for deeper
lists, where an inner item may be lost and the outer list still counts as known:
hence `Whole` by `Sources`. `RuleTie` used to compare the texts of two priorities;
it compares the numbers, which is what the sort does. `IamHarm` left out the
statements of attached policies, whose Deny counts as much as the role's own; with
them came `PolicyAstray`. `None`, of numbers, used to stand for attributes that
are not there as well; these are `Absent`, a value like any other. A text names
the one resource of that name, or no home at all, where `Home` used to have all of
them. And the attempt on `NoFalseSafe` found five cases in which it fails for
configurations that the instance did not have: `Displaced`, `Muted`, `ShowsLoss`,
`Surplus` and `Refused`. They are in `Blind` now, each with configurations in
`MCPipeline` that meet it.

So did the attempt on `NoFalseAlarm`. It had hypotheses about the whole
configuration that were at once too strong for the reader and too weak for the
proof: a group whose inside a placeholder hides, or a rule that came from a
resource the configuration does not declare, could make an alarm outside of
them. `InPlace` and `InWords` say it of the one resource. `IamHarm` counts a
managed policy as a grant only if it is one (`IsManaged`) or has no value, which
is what the encoder asks of it.

And so did templates. The meaning was a recursive operator, and the evaluation
counted the names it followed, which is not what ends it; both are functions of
the depth now, and Python's limit is a constant. `TemplateNoFalseSafe` failed for
templates the instance did not have: a priority of a group's rule that has no
value, or is above 4096 (`PriorityUnknown`, `RulesRefused`); a child rule whose
access is a list with an entry that has none (`ChildUnknown` looks at the
`Leaves` now, where it looked at the value); a list in the `value` of a default,
whose entries are expressions (`MadeText`). `TemplateNoFalseAlarm` needs
`~RulesByExpression`: the rules that were not read may have an earlier Deny.

`TrustGraphProofs` also has the theorems of `AzurePolicy`, for any resources, definitions, conditions of any depth and
lists of assignments, from `PolicyAssumption` only: conditions are finite trees,
`in` and `notIn` alone compare with lists, and scopes are values as in
`TrustGraph`.

| Theorem | States |
|---|---|
| `PolicyInvariant` | `CheckSpec => []PolicyInv` |
| `PolicyViolationsAreFound` | `CheckSpec => []ViolationsAreFound` |
| `PolicyAlarmIsTrue` | `CheckSpec => []NoFalseViolation` |

The argument has two parts. `PolicyInv` is about the loop: the assignments before
`at` left the result open, and a result is that of the last one considered. The
other part is about one condition (`ReadAsMeant`): if the encoder tells its value,
and misreads none of its tests, then `MayBe` is the one value it tells, whatever
the unresolved attributes are. It goes by induction on the depth; one part
without a value makes the whole one without a value (`Reasons`), so that `not`
and `anyOf` cannot turn it into compliance. Each of the recursive functions is
first shown to be what its definition says (`RecursionHolds` of `OrderLemmas`).
Scopes come from the trust graph's lemmas (`InsideIsCovered`,
`CoveredIsNotElsewhere`).

Only model-checked: `ThreadsReturn`, `Terminates`, and the liveness half of
`ImplementsPromise`, since the prover does not handle fairness. Every invariant of
a passing run is a theorem. The violated properties of the other runs are
refuted by their counterexamples.

## What is not modelled

- Text: `python-hcl2` and the grammar, quotes, heredocs, the shapes of policy
  documents, metrics, logs, certificates, manifests, the wording of diffs.
- In the encoders: ranges of ports (one port, or a list of them, instead), the
  protocol and the source port of an NSG rule (`encoder/azure_nsg_encoder.py:216`,
  `:233`), the two directions, conditions and principals of IAM statements where
  the code itself leaves them out, service tags other than those of the instance.
- What the parser does not read: `ipv6_cidr_blocks` and prefix lists of a security
  group (`parser/hcl_parser.py:352`). The model's rules have none either, so that
  `NoFalseSafe` says nothing of a rule that opens a port to `::/0` only: such a
  rule gets no verdict but `UNSAT`.
- In `ArmTemplate`: `toLower` and `toUpper`; role and policy resources (what
  they are made into is `TrustGraph`'s and `AzurePolicy`'s input); parameter
  files, nested deployments, `condition` and `dependsOn`, for which the code has
  nothing although `docs/` speaks of the last.
- In `Pipeline`: the fallback to the rule's own group reference
  (`parser/attachments.py:59`); files that do not parse and are skipped
  (`parser/modules.py:37`) are absent from the configuration; the match of an
  attachment on the full address or on an attribute `id` (`Candidates`,
  `parser/attachments.py:29`, `:39`).
- In `Expressions`: lists written in lists, into which `resolve_attribute` recurses
  (`parser/variables.py:150`); a name may mean a list of lists.
- In `TrustGraph`: an identity's `principal_id` (`IdentityKey`,
  `graph/azure_trust_graph.py:442`) and the keys of workloads by name (`Reaches`,
  `:509`). In `AzurePolicy`: the text of a reference as an id (`IdText`,
  `solver/engine.py:512`).
- Two steps are only taken where they make a difference: `Admission`'s `Raise`
  while parsing, although `cli/webhook.py:185` also catches what `verify_graph`
  raises (the same rejection), and `EngineCache`'s `Raise` at a query.
- In `RepairPatch`: which parser the library offers, line ends.
- That two threads in one Z3 context may make an answer wrong.
- GCP: `solver/engine.py` imports `parser.gcp_parser` and `graph.gcp_trust_graph`,
  which the repository does not contain; the encoders are stubs.
- Benchmarks and scripts: drivers of the program.
- Real time.

## Plan

Done: the escalation search, the trust graphs, the webhook, the repair search and
the cache with their proofs; the pipeline from text to verdict for Terraform and
ARM, with proofs from declaration to verdict; Azure policies and the patch, with
theirs. The order was that of the answers' reach: first what decides a verdict, then what the
verdict is about.

Left:

1. Order facts of `Attach`: that the graph after all attachments does not depend
   on their order outside `Misplaced`, which `RulesAreKept` states by its result
   only.
2. Ranges of ports and both directions in `Encoders`, with the instance's
   addresses as they are.
