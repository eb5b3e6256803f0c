-------------------------- MODULE AdmissionPromise --------------------------
(***************************************************************************)
(* What the admission gate promises the cluster, apart from how the        *)
(* webhook process works: each review is decided once, a guilty payload is *)
(* never admitted, and every review submitted is decided.                  *)
(***************************************************************************)
CONSTANTS
  Request,    \* the AdmissionReviews of a behaviour
  Payload,    \* the contents a review may carry
  Guilty,     \* those of Payload that must not be admitted
  NoPayload   \* not in Payload: of a review not submitted yet

VARIABLES
  decision,  \* what the API server knows of each review
  payload    \* what each review carries

vars == <<decision, payload>>

Init ==
  /\ decision = [r \in Request |-> "none"]
  /\ payload = [r \in Request |-> NoPayload]

(* A review may be decided in the step that submits it, or later.          *)
Submit(r, p) ==
  /\ decision[r] = "none"
  /\ payload' = [payload EXCEPT ![r] = p]
  /\ \/ decision' = [decision EXCEPT ![r] = "pending"]
     \/ decision' = [decision EXCEPT ![r] = "rejected"]
     \/ p \notin Guilty /\ decision' = [decision EXCEPT ![r] = "admitted"]

Decide(R) ==
  /\ R # {} /\ \A r \in R : decision[r] = "pending"
  /\ UNCHANGED payload
  /\ \E d \in [R -> {"admitted", "rejected"}] :
       /\ \A r \in R : d[r] = "admitted" => payload[r] \notin Guilty
       /\ decision' = [r \in Request |->
                         IF r \in R THEN d[r] ELSE decision[r]]

Next == \/ \E r \in Request, p \in Payload : Submit(r, p)
        \/ \E R \in SUBSET Request : Decide(R)

Decided(r) == decision[r] \in {"admitted", "rejected"}

Answered == \A r \in Request : decision[r] = "pending" ~> Decided(r)

Spec == Init /\ [][Next]_vars /\ Answered
=============================================================================
