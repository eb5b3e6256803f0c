----------------------------- MODULE Admission -----------------------------
(***************************************************************************)
(* The admission webhook: AdmissionReviews arrive at an event loop, each   *)
(* is verified in a thread of a bounded pool under a deadline, and every   *)
(* thread's solver is guarded by a timer that interrupts the one Z3        *)
(* context the whole process shares.                                       *)
(*                                                                         *)
(* Clocks are left out: a deadline or a timer may expire at any moment it  *)
(* is set.  Using the context from two threads at once may bring the       *)
(* process down (Crash); that it would answer wrongly is not modelled.     *)
(***************************************************************************)
EXTENDS Integers, Sequences, SequencesExt, FiniteSets

CONSTANTS
  Request,     \* the AdmissionReviews of a behaviour
  Payload,     \* the bodies of reviews, see PayloadType
  Carries,     \* for each review, the bodies it may carry
  NoPayload,   \* of a review not submitted yet
  PoolSize,    \* threads of asyncio's default executor
  MaxCrashes   \* bound on the restarts of the process

(* What a query answers when it is left to finish.  "bounded" is the unsat  *)
(* of a hop bound below the role count; "unresolved" is an encoding that    *)
(* fails before any solver is asked.                                        *)
Truth == {"sat", "unsat", "bounded", "unresolved"}

(* What it does answer.                                                     *)
Answer == Truth \cup {"timeout", "unknown"}

(* A check of verify_graph: its pattern, as far as the use it makes of the  *)
(* answers goes, and the answers of its successive queries.                 *)
CheckType == [kind : {"direct", "nsg", "policy", "reach"}, answers : Seq(Truth)]

(* The body of a review: whether it is an AdmissionReview, whether its data *)
(* has .tf keys, with text under them, and the checks that the graph of the *)
(* files that parse gives rise to (parse_directory skips the others).       *)
Form == {"malformed", "no_tf", "no_text", "text"}

PayloadType == [form : Form, checks : Seq(CheckType)]

ASSUME AdmissionAssumption ==
  /\ IsFiniteSet(Request)
  /\ Payload \subseteq PayloadType
  /\ \A p \in Payload :
       /\ p.form # "text" => p.checks = <<>>
       /\ \A c \in ToSet(p.checks) :
            c.answers # <<>> /\ (c.kind = "reach" => Len(c.answers) = 2)
  /\ Carries \in [Request -> SUBSET Payload]
  /\ NoPayload \notin Payload
  /\ PoolSize \in Nat \ {0}
  /\ MaxCrashes \in Nat

VARIABLES
  decision,  \* the API server's view of each review
  payload,   \* the body of each review
  handler,   \* validate_resource: "idle", "awaiting" wait_for, "replied"
  job,       \* _process_and_verify: where the review's work stands
  queue,     \* reviews waiting for a thread
  todo,      \* checks the job has still to finish, the current one first
  got,       \* answers of the current check so far
  found,     \* statuses of the finished checks
  timer,     \* the watchdog of the current query is armed
  released,  \* watchdogs past their expiry test, about to interrupt
  cut,       \* whose watchdog interrupted the current query
  gaveUp,    \* history: reviews one of whose queries stayed undecided
  crashes    \* history: restarts so far

server == <<decision, payload>>
work == <<todo, got, found>>
watch == <<timer, released, cut>>
vars == <<decision, payload, handler, job, queue, todo, got, found, timer,
          released, cut, gaveUp, crashes>>

Status == {"SAT", "UNSAT", "UNSAT_BOUNDED", "TIMEOUT", "UNKNOWN",
           "UNRESOLVABLE", "ERROR"}

Nobody == "nobody"

Busy == {r \in Request : job[r] \in {"parsing", "encoding", "solving"}}

-----------------------------------------------------------------------------
(* The engine's use of the answers.                                         *)

StatusOf(answer) ==
  CASE answer = "sat" -> "SAT"
    [] answer = "unsat" -> "UNSAT"
    [] answer = "bounded" -> "UNSAT_BOUNDED"
    [] answer = "unresolved" -> "UNRESOLVABLE"
    [] answer = "timeout" -> "TIMEOUT"
    [] OTHER -> "UNKNOWN"

(* The statuses a check reports after the answers a: none while it has      *)
(* further queries to ask.                                                  *)
Reported(check, a) ==
  LET last == a[Len(a)]
      complete == Len(a) = Len(check.answers)
  IN  CASE check.kind = "direct" -> {StatusOf(last)}
        [] check.kind = "nsg" ->
             IF a[1] # "sat" THEN {StatusOf(a[1])}
             ELSE IF complete THEN {"SAT"} ELSE {}
        [] check.kind = "policy" ->
             IF last \in {"sat", "unresolved"} THEN {StatusOf(last)}
             ELSE IF complete THEN {"UNSAT"} ELSE {}
        [] OTHER ->
             IF complete \/ a[1] = "unresolved" THEN {StatusOf(last)}
             ELSE IF a[1] = "sat" THEN {} ELSE {"UNSAT"}

(* Faulty variants of the definitions that follow, to show that the         *)
(* properties can fail: UNKNOWN overlooked, a queued job that is not        *)
(* cancelled, a timer that is not, a timed out query that is asked again.   *)
AllowedUnknown(statuses) ==
  statuses \cap {"SAT", "UNRESOLVABLE", "TIMEOUT", "ERROR"} = {}
WithoutNone(r) == queue
DisarmedNone(r) == timer
NextOfRetry(r, answer) ==
  IF answer = "timeout" THEN <<got[r], {}>>
  ELSE LET a == Append(got[r], answer) IN <<a, Reported(Head(todo[r]), a)>>

(* is_safe over the results.                                                *)
Allowed(statuses) ==
  statuses \cap {"SAT", "UNRESOLVABLE", "UNKNOWN", "TIMEOUT", "ERROR"} = {}

(* A response reaches a server that is still waiting for it.                *)
Respond(r, d) ==
  decision' = IF decision[r] = "pending" THEN [decision EXCEPT ![r] = d]
              ELSE decision

(* A queue without the job of r, and the watchdogs with that of r stopped.  *)
Without(r) ==
  IF r \in ToSet(queue)
  THEN RemoveAt(queue, CHOOSE i \in DOMAIN queue : queue[i] = r) ELSE queue

Disarmed(r) == [timer EXCEPT ![r] = FALSE]

(* The answers of the current check of r once this one has come in, and the *)
(* statuses they are enough to report.                                      *)
NextOf(r, answer) ==
  LET a == Append(got[r], answer) IN <<a, Reported(Head(todo[r]), a)>>

-----------------------------------------------------------------------------
Init ==
  /\ decision = [r \in Request |-> "none"]
  /\ payload = [r \in Request |-> NoPayload]
  /\ handler = [r \in Request |-> "idle"]
  /\ job = [r \in Request |-> "none"]
  /\ queue = <<>>
  /\ todo = [r \in Request |-> <<>>]
  /\ got = [r \in Request |-> <<>>]
  /\ found = [r \in Request |-> {}]
  /\ timer = [r \in Request |-> FALSE]
  /\ released = {}
  /\ cut = [r \in Request |-> Nobody]
  /\ gaveUp = {}
  /\ crashes = 0

(* validate_resource up to wait_for.  A body that is no AdmissionReview     *)
(* raises outside the try block: HTTP 500, which failurePolicy Fail turns   *)
(* into a rejection.  Without .tf keys the review is allowed at once.       *)
Receive(r) ==
  /\ decision[r] = "none"
  /\ \E p \in Carries[r] :
       /\ payload' = [payload EXCEPT ![r] = p]
       /\ IF p.form \in {"no_text", "text"}
          THEN /\ decision' = [decision EXCEPT ![r] = "pending"]
               /\ handler' = [handler EXCEPT ![r] = "awaiting"]
               /\ job' = [job EXCEPT ![r] = "queued"]
               /\ queue' = Append(queue, r)
          ELSE /\ decision' = [decision EXCEPT ![r] =
                                 IF p.form = "no_tf" THEN "admitted"
                                 ELSE "rejected"]
               /\ handler' = [handler EXCEPT ![r] = "replied"]
               /\ UNCHANGED <<job, queue>>
  /\ UNCHANGED <<work, watch, gaveUp, crashes>>

(* A thread of the pool takes the oldest job.                               *)
Start(r) ==
  /\ queue # <<>> /\ Head(queue) = r
  /\ Cardinality(Busy) < PoolSize
  /\ queue' = Tail(queue)
  /\ job' = [job EXCEPT ![r] = "parsing"]
  /\ UNCHANGED <<server, handler, work, watch, gaveUp, crashes>>

(* The files are written and parsed and the graph is built; with no text    *)
(* file there is no check and the job reports the review allowed.           *)
Parse(r) ==
  /\ job[r] = "parsing"
  /\ todo' = [todo EXCEPT ![r] = payload[r].checks]
  /\ job' = [job EXCEPT ![r] = "encoding"]
  /\ UNCHANGED <<server, handler, queue, got, found, watch, gaveUp, crashes>>

(* Writing a file or building the graph raises.                             *)
Raise(r) ==
  /\ job[r] = "parsing"
  /\ found' = [found EXCEPT ![r] = {"ERROR"}]
  /\ job' = [job EXCEPT ![r] = "done"]
  /\ UNCHANGED <<server, handler, queue, todo, got, watch, gaveUp, crashes>>

(* One more answer for the current check of r; the check is finished when   *)
(* it has a status to report.                                               *)
Record(r, answer) ==
  LET a == NextOf(r, answer)[1]
      s == NextOf(r, answer)[2]
  IN  /\ found' = [found EXCEPT ![r] = @ \cup s]
      /\ got' = [got EXCEPT ![r] = IF s = {} THEN a ELSE <<>>]
      /\ todo' = [todo EXCEPT ![r] = IF s = {} THEN @ ELSE Tail(@)]
      /\ job' = [job EXCEPT ![r] = "encoding"]

NextTruth(r) == Head(todo[r]).answers[Len(got[r]) + 1]

(* The encoder fails: the status is known without a solver.                 *)
EncodeFails(r) ==
  /\ job[r] = "encoding" /\ todo[r] # <<>>
  /\ NextTruth(r) = "unresolved"
  /\ Record(r, "unresolved")
  /\ UNCHANGED <<server, handler, queue, watch, gaveUp, crashes>>

(* _check_solver_with_timeout up to solver.check().                         *)
BeginCheck(r) ==
  /\ job[r] = "encoding" /\ todo[r] # <<>>
  /\ NextTruth(r) # "unresolved"
  /\ job' = [job EXCEPT ![r] = "solving"]
  /\ timer' = [timer EXCEPT ![r] = TRUE]
  /\ cut' = [cut EXCEPT ![r] = Nobody]
  /\ UNCHANGED <<server, handler, queue, work, released, gaveUp, crashes>>

(* solver.check() returns and the finally block cancels the timer, which    *)
(* stops it only while it is still waiting.                                 *)
EndCheck(r) ==
  /\ job[r] = "solving"
  /\ \E answer \in {"timeout", "unknown"} \cup
                   (IF cut[r] = Nobody THEN {NextTruth(r)} ELSE {}) :
       /\ cut[r] # Nobody => answer = "timeout"
       /\ Record(r, answer)
       /\ gaveUp' = IF answer \in {"timeout", "unknown"} THEN gaveUp \cup {r}
                    ELSE gaveUp
  /\ timer' = Disarmed(r)
  /\ UNCHANGED <<server, handler, queue, released, cut, crashes>>

(* The watchdog finds itself not cancelled ...                              *)
Expire(r) ==
  /\ timer[r]
  /\ timer' = [timer EXCEPT ![r] = FALSE]
  /\ released' = released \cup {r}
  /\ UNCHANGED <<server, handler, job, queue, work, cut, gaveUp, crashes>>

(* ... and interrupts the context, whichever queries run in it by then.     *)
Interrupt(r) ==
  /\ r \in released
  /\ released' = released \ {r}
  /\ cut' = [q \in Request |->
               IF job[q] = "solving" /\ cut[q] = Nobody THEN r ELSE cut[q]]
  /\ UNCHANGED <<server, handler, job, queue, work, timer, gaveUp, crashes>>

(* verify_graph returns and _process_and_verify sums the results up.        *)
Finish(r) ==
  /\ job[r] = "encoding" /\ todo[r] = <<>>
  /\ job' = [job EXCEPT ![r] = "done"]
  /\ UNCHANGED <<server, handler, queue, work, watch, gaveUp, crashes>>

(* wait_for yields the result of the job.                                   *)
Deliver(r) ==
  /\ handler[r] = "awaiting" /\ job[r] = "done"
  /\ handler' = [handler EXCEPT ![r] = "replied"]
  /\ Respond(r, IF Allowed(found[r]) THEN "admitted" ELSE "rejected")
  /\ UNCHANGED <<payload, job, queue, work, watch, gaveUp, crashes>>

(* wait_for times out: a job still queued is cancelled, a running one keeps *)
(* its thread and its result is dropped.                                    *)
Deadline(r) ==
  /\ handler[r] = "awaiting"
  /\ handler' = [handler EXCEPT ![r] = "replied"]
  /\ Respond(r, "rejected")
  /\ queue' = Without(r)
  /\ job' = [job EXCEPT ![r] = IF @ = "queued" THEN "none" ELSE @]
  /\ UNCHANGED <<payload, work, watch, gaveUp, crashes>>

(* The API server's own timeout; failurePolicy Fail rejects the review.     *)
ServerTimeout(r) ==
  /\ decision[r] = "pending"
  /\ decision' = [decision EXCEPT ![r] = "rejected"]
  /\ UNCHANGED <<payload, handler, job, queue, work, watch, gaveUp, crashes>>

(* The process dies with every job in it; the reviews whose connection      *)
(* breaks are rejected by failurePolicy Fail.                               *)
Crash ==
  /\ crashes < MaxCrashes
  /\ crashes' = crashes + 1
  /\ decision' = [r \in Request |->
                    IF decision[r] = "pending" THEN "rejected" ELSE decision[r]]
  /\ handler' = [r \in Request |->
                   IF handler[r] = "awaiting" THEN "replied" ELSE handler[r]]
  /\ job' = [r \in Request |-> "none"]
  /\ queue' = <<>>
  /\ todo' = [r \in Request |-> <<>>]
  /\ got' = [r \in Request |-> <<>>]
  /\ timer' = [r \in Request |-> FALSE]
  /\ released' = {}
  /\ cut' = [r \in Request |-> Nobody]
  /\ UNCHANGED <<payload, found, gaveUp>>

Thread(r) ==
  \/ Start(r) \/ Parse(r) \/ Raise(r) \/ EncodeFails(r) \/ BeginCheck(r)
  \/ EndCheck(r) \/ Finish(r)

Next ==
  \/ \E r \in Request :
       \/ Receive(r) \/ Thread(r) \/ Expire(r) \/ Interrupt(r)
       \/ Deliver(r) \/ Deadline(r) \/ ServerTimeout(r)
  \/ Crash

(* The threads and the event loop keep running.  No fairness is assumed of  *)
(* the clients, the API server, the watchdogs or crashes: solver.check()    *)
(* returns by itself because the timeout parameter is set as well.          *)
Fairness == \A r \in Request : WF_vars(Thread(r)) /\ WF_vars(Deadline(r))

Spec == Init /\ [][Next]_vars /\ Fairness

-----------------------------------------------------------------------------
TypeOK ==
  /\ decision \in [Request -> {"none", "pending", "admitted", "rejected"}]
  /\ payload \in [Request -> Payload \cup {NoPayload}]
  /\ handler \in [Request -> {"idle", "awaiting", "replied"}]
  /\ job \in [Request -> {"none", "queued", "parsing", "encoding", "solving",
                          "done"}]
  /\ \A r \in Request : job[r] = "queued" <=> r \in ToSet(queue)
  /\ IsInjective(queue)
  /\ \A r \in Request : ToSet(got[r]) \subseteq Answer
  /\ found \in [Request -> SUBSET Status]
  /\ \A r \in Request : timer[r] => job[r] = "solving"
  /\ released \subseteq Request /\ gaveUp \subseteq Request
  /\ cut \in [Request -> Request \cup {Nobody}]
  /\ crashes \in 0..MaxCrashes

(* What a check would report if nothing cut its queries short is a          *)
(* violation, or data the engine refuses to reason about.                   *)
Violates(c) ==
  CASE c.kind \in {"direct", "nsg"} -> c.answers[1] \in {"sat", "unresolved"}
    [] c.kind = "policy" -> ToSet(c.answers) \cap {"sat", "unresolved"} # {}
    [] OTHER -> c.answers[1] = "unresolved" \/ c.answers = <<"sat", "sat">>

(* An admitted review holds no violation in any file that parses, unless    *)
(* one of its own queries stayed undecided; then at least the checks that   *)
(* turn an undecided query into a rejection hold none.                      *)
GateIsSound ==
  \A r \in Request : decision[r] = "admitted" =>
    \A c \in ToSet(payload[r].checks) :
      Violates(c) => c.kind \in {"policy", "reach"} /\ r \in gaveUp

(* docs/master_plan.md: "Enforces fail-closed admission on solver UNKNOWN,  *)
(* UNRESOLVABLE, or any verification timeout".                              *)
FailClosed == \A r \in Request : decision[r] = "admitted" => r \notin gaveUp

(* cli/webhook.py: "thread-safe per-instance Z3 solver timeout": a query is *)
(* cut short by the watchdog of its own review only.                        *)
OwnTimeout ==
  \A r \in Request : job[r] = "solving" => cut[r] \in {r, Nobody}

(* A review that was answered while its job waited for a thread never       *)
(* occupies one: wait_for cancels queued work.                              *)
NoWastedStart ==
  [][\A r \in Request : job[r] # "parsing" /\ job'[r] = "parsing"
                          => handler[r] = "awaiting"]_vars

(* Threads given up on at the deadline return to the pool.                  *)
ThreadsReturn == \A r \in Request : r \in Busy ~> r \notin Busy

(* The webhook implements the promise: reviews are decided once, none that  *)
(* the engine rejects whatever its solver does is admitted, and all are     *)
(* decided.                                                                 *)
Promise == INSTANCE AdmissionPromise WITH
  Guilty <- {p \in Payload : \E c \in ToSet(p.checks) :
                               Violates(c) /\ c.kind \in {"direct", "nsg"}}

ImplementsPromise == Promise!Spec
=============================================================================
