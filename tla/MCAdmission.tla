---------------------------- MODULE MCAdmission ----------------------------
EXTENDS Admission, TLC

CONSTANTS q1, q2

MCRequest == {q1, q2}

Check(kind, answers) == [kind |-> kind, answers |-> answers]

Text(checks) == [form |-> "text", checks |-> checks]

(* The review that disturbs: two queries, of which the second counts.       *)
MCPolicy == Text(<<Check("policy", <<"unsat", "sat">>)>>)

(* One body for each way through the handler and each kind of check.        *)
MCPayload ==
  {[form |-> f, checks |-> <<>>] : f \in {"malformed", "no_tf", "no_text"}} \cup
  {MCPolicy,
   Text(<<Check("direct", <<"unsat">>), Check("direct", <<"sat">>)>>),
   Text(<<Check("nsg", <<"sat", "sat">>)>>),
   Text(<<Check("direct", <<"unresolved">>)>>),
   Text(<<Check("policy", <<"unsat", "unresolved">>)>>),
   Text(<<Check("reach", <<"sat", "sat">>)>>),
   Text(<<Check("reach", <<"sat", "bounded">>)>>)}

MCCarries == (q1 :> MCPayload) @@ (q2 :> {MCPolicy})

(* For the liveness run: a guilty body, an innocent one of two checks and   *)
(* one that needs no thread, against a review of one query.                 *)
MCFewPayload ==
  {[form |-> "no_tf", checks |-> <<>>],
   Text(<<Check("direct", <<"sat">>)>>),
   Text(<<Check("policy", <<"unsat", "unsat">>)>>)}

MCFewCarries ==
  (q1 :> MCFewPayload) @@ (q2 :> {Text(<<Check("direct", <<"sat">>)>>)})
=============================================================================
