--------------------------- MODULE AdmissionProofs ---------------------------
(***************************************************************************)
(* Proofs, for any reviews, bodies, number of threads and restarts, of the *)
(* invariants of module Admission.  IInv is the inductive invariant; its   *)
(* heart is WorkInv: a check of a running job is still to do, or the job   *)
(* has a status that blocks, or the check hides no violation.              *)
(***************************************************************************)
EXTENDS Admission, SequenceTheorems, TLAPS

Blocking == {"SAT", "UNRESOLVABLE", "UNKNOWN", "TIMEOUT", "ERROR"}

(* The checks AdmissionAssumption admits.                                   *)
GoodCheck ==
  {c \in CheckType : c.answers # <<>> /\ (c.kind = "reach" => Len(c.answers) = 2)}

(* What GateIsSound asks of an admitted review and a check.                 *)
Excused(r, c) == Violates(c) => c.kind \in {"policy", "reach"} /\ r \in gaveUp

(* The answers a to a check c that has more to ask.                         *)
Pending(c, a) ==
  /\ Len(a) < Len(c.answers)
  /\ c.kind = "direct" => a = <<>>
  /\ c.kind \in {"nsg", "reach"} /\ a # <<>> => a[1] = "sat"
  /\ c.kind = "policy" => \A i \in 1..Len(a) : a[i] \notin {"sat", "unresolved"}

(* The answers are the true ones where none was cut short.                  *)
Honest(c, a, r, G) ==
  \A i \in 1..Len(a) :
    a[i] = c.answers[i] \/ (r \in G /\ a[i] \in {"timeout", "unknown"})

TypeInv ==
  /\ decision \in [Request -> {"none", "pending", "admitted", "rejected"}]
  /\ payload \in [Request -> Payload \cup {NoPayload}]
  /\ handler \in [Request -> {"idle", "awaiting", "replied"}]
  /\ job \in [Request -> {"none", "queued", "parsing", "encoding", "solving",
                          "done"}]
  /\ queue \in Seq(Request)
  /\ todo \in [Request -> Seq(GoodCheck)]
  /\ got \in [Request -> Seq(Answer)]
  /\ found \in [Request -> SUBSET Status]
  /\ timer \in [Request -> BOOLEAN]
  /\ released \subseteq Request /\ gaveUp \subseteq Request
  /\ cut \in [Request -> Request \cup {Nobody}]
  /\ crashes \in 0..MaxCrashes

QueueInv ==
  /\ IsInjective(queue)
  /\ \A r \in Request : job[r] = "queued" <=> r \in ToSet(queue)
  /\ \A r \in Request : job[r] = "queued" => handler[r] = "awaiting"

(* A review is queued once, before any work for it; while it is not         *)
(* submitted there is nothing of it.                                        *)
FreshOf(r) ==
  /\ decision[r] = "none" => job[r] = "none" /\ handler[r] = "idle"
  /\ decision[r] = "none" \/ job[r] \in {"queued", "parsing"} =>
       got[r] = <<>> /\ found[r] = {}
  /\ decision[r] # "none" => payload[r] \in Payload
  /\ timer[r] => job[r] = "solving"

FreshInv == \A r \in Request : FreshOf(r)

(* What an admission rests on.                                              *)
Cleared(r) == \A c \in ToSet(payload[r].checks) : Excused(r, c)

(* The work of a running or finished job.                                   *)
WorkOf(r) ==
  /\ job[r] \in {"encoding", "solving"} =>
       /\ \A c \in ToSet(payload[r].checks) :
            \/ c \in ToSet(todo[r]) \/ Excused(r, c)
            \/ found[r] \cap Blocking # {}
       /\ todo[r] = <<>> => got[r] = <<>>
       /\ todo[r] # <<>> => /\ Pending(Head(todo[r]), got[r])
                            /\ Honest(Head(todo[r]), got[r], r, gaveUp)
  /\ job[r] = "solving" => todo[r] # <<>>
  /\ job[r] = "done" => found[r] \cap Blocking # {} \/ Cleared(r)
  /\ decision[r] = "admitted" => Cleared(r)

WorkInv == \A r \in Request : WorkOf(r)

IInv == TypeInv /\ QueueInv /\ FreshInv /\ WorkInv

-----------------------------------------------------------------------------
(* What one more answer makes of a check.                                   *)

LEMMA StatusTyped ==
  \A answer \in Answer :
    /\ StatusOf(answer) \in Status
    /\ StatusOf(answer) \in Blocking <=> answer \notin {"unsat", "bounded"}
BY DEF StatusOf, Answer, Truth, Status, Blocking

(* The statuses reported are statuses; none are reported only while there   *)
(* is more to ask; and a violation is passed over only for an answer that   *)
(* was cut short, in a check that takes it for the answer no.               *)
LEMMA ReportSound ==
  ASSUME NEW c \in GoodCheck, NEW b \in Seq(Answer), NEW x \in Answer,
         NEW r, NEW G, NEW a \in Seq(Answer), a = Append(b, x),
         Pending(c, b), Honest(c, a, r, G)
  PROVE  /\ Reported(c, a) \subseteq Status
         /\ Reported(c, a) = {} => Pending(c, a)
         /\ \/ Reported(c, a) = {} \/ Reported(c, a) \cap Blocking # {}
            \/ Violates(c) => c.kind \in {"policy", "reach"} /\ r \in G
<1>1. /\ a \in Seq(Answer) /\ Len(a) = Len(b) + 1 /\ a[Len(a)] = x
      /\ \A i \in 1..Len(b) : a[i] = b[i]
      /\ c.answers \in Seq(Truth) /\ Len(c.answers) \in Nat /\ Len(b) \in Nat
      /\ Len(a) <= Len(c.answers)
  BY DEF Pending, GoodCheck, CheckType
<1>2. /\ StatusOf(x) \in Status
      /\ StatusOf(x) \in Blocking <=> x \notin {"unsat", "bounded"}
  BY StatusTyped
<1>3. c.kind \in {"direct", "nsg", "policy", "reach"}
  BY DEF GoodCheck, CheckType
<1>4. \A i \in 1..Len(a) :
        a[i] = c.answers[i] \/ (r \in G /\ a[i] \in {"timeout", "unknown"})
  BY DEF Honest
<1>5. CASE c.kind = "direct"
  <2>1. Len(b) = 0 /\ Len(a) = 1
    BY <1>1, <1>5 DEF Pending
  <2>2. Reported(c, a) = {StatusOf(x)}
    BY <1>1, <1>5 DEF Reported
  <2>3. Violates(c) <=> c.answers[1] \in {"sat", "unresolved"}
    BY <1>5 DEF Violates
  <2>4. x = c.answers[1] \/ x \in {"timeout", "unknown"}
    BY <1>1, <1>4, <2>1
  <2>5. x \notin {"unsat", "bounded"} \/ ~Violates(c)
    BY <2>3, <2>4
  <2> QED BY <1>2, <2>2, <2>5
<1>6. CASE c.kind = "nsg"
  <2>1. Violates(c) <=> c.answers[1] \in {"sat", "unresolved"}
    BY <1>6 DEF Violates
  <2>2. CASE a[1] # "sat"
    <3>1. Len(b) = 0 /\ Len(a) = 1
      BY <1>1, <1>6, <2>2 DEF Pending
    <3>2. Reported(c, a) = {StatusOf(x)}
      BY <1>1, <1>6, <2>2, <3>1 DEF Reported
    <3>3. x = c.answers[1] \/ x \in {"timeout", "unknown"}
      BY <1>1, <1>4, <3>1
    <3>4. x \notin {"unsat", "bounded"} \/ ~Violates(c)
      BY <2>1, <3>3
    <3> QED BY <1>2, <3>2, <3>4
  <2>3. CASE a[1] = "sat"
    <3>1. Reported(c, a) = IF Len(a) = Len(c.answers) THEN {"SAT"} ELSE {}
      BY <1>6, <2>3 DEF Reported
    <3>2. Len(a) # Len(c.answers) => Pending(c, a)
      BY <1>1, <1>6, <2>3 DEF Pending
    <3> QED BY <3>1, <3>2 DEF Status, Blocking
  <2> QED BY <2>2, <2>3
<1>7. CASE c.kind = "policy"
  <2>1. CASE x \in {"sat", "unresolved"}
    <3>1. Reported(c, a) = {StatusOf(x)}
      BY <1>1, <1>7, <2>1 DEF Reported
    <3> QED BY <1>2, <2>1, <3>1
  <2>2. CASE x \notin {"sat", "unresolved"}
    <3>1. Reported(c, a) = IF Len(a) = Len(c.answers) THEN {"UNSAT"} ELSE {}
      BY <1>1, <1>7, <2>2 DEF Reported
    <3>2. \A i \in 1..Len(a) : a[i] \notin {"sat", "unresolved"}
      BY <1>1, <1>7, <2>2 DEF Pending
    <3>3. Len(a) # Len(c.answers) => Pending(c, a)
      BY <1>1, <1>7, <3>2 DEF Pending
    <3>4. ASSUME Len(a) = Len(c.answers), Violates(c) PROVE r \in G
      <4>1. PICK i \in DOMAIN c.answers : c.answers[i] \in {"sat", "unresolved"}
        BY <1>7, <3>4 DEF Violates, ToSet
      <4>2. i \in 1..Len(a)
        BY <1>1, <3>4
      <4> QED BY <1>4, <3>2, <4>1, <4>2
    <3> QED BY <1>7, <3>1, <3>3, <3>4 DEF Status
  <2> QED BY <2>1, <2>2
<1>8. CASE c.kind = "reach"
  <2>1. Len(c.answers) = 2
    BY <1>8 DEF GoodCheck
  <2>2. Violates(c) =>
          c.answers[1] = "unresolved" \/ (c.answers[1] = "sat" /\ c.answers[2] = "sat")
    BY <1>8 DEF Violates
  <2>3. CASE Len(a) = 2
    <3>1. a[1] = "sat"
      BY <1>1, <1>8, <2>3 DEF Pending
    <3>2. Reported(c, a) = {StatusOf(x)}
      BY <1>1, <1>8, <2>1, <2>3 DEF Reported
    <3>3. c.answers[1] = "sat" /\ (x = c.answers[2] \/ x \in {"timeout", "unknown"})
      BY <1>1, <1>4, <2>3, <3>1
    <3> QED BY <1>2, <2>2, <3>2, <3>3
  <2>4. CASE Len(a) = 1
    <3>1. x = a[1] /\ (x = c.answers[1] \/ (r \in G /\ x \in {"timeout", "unknown"}))
      BY <1>1, <1>4, <2>4
    <3>2. /\ x = "unresolved" => Reported(c, a) = {StatusOf(x)}
          /\ x = "sat" => Reported(c, a) = {}
          /\ x \notin {"unresolved", "sat"} => Reported(c, a) = {"UNSAT"}
      <4>1. Len(a) # Len(c.answers) /\ a[Len(a)] = x
        BY <1>1, <2>1, <2>4
      <4> QED BY <1>8, <3>1, <4>1 DEF Reported
    <3>3. x = "sat" => Pending(c, a)
      BY <1>1, <1>8, <2>1, <2>4, <3>1 DEF Pending
    <3> QED BY <1>2, <1>8, <2>2, <3>1, <3>2, <3>3 DEF Status
  <2> QED BY <1>1, <2>1, <2>3, <2>4
<1> QED BY <1>3, <1>5, <1>6, <1>7, <1>8

-----------------------------------------------------------------------------
(* Sequences of distinct elements, and the bodies of reviews.               *)

LEMMA ChecksGood == \A p \in Payload : p.checks \in Seq(GoodCheck)
<1> SUFFICES ASSUME NEW p \in Payload PROVE p.checks \in Seq(GoodCheck)
  OBVIOUS
<1>1. p.checks \in Seq(CheckType)
  BY AdmissionAssumption DEF AdmissionAssumption, PayloadType
<1>2. \A i \in 1..Len(p.checks) : p.checks[i] \in GoodCheck
  <2> TAKE i \in 1..Len(p.checks)
  <2>1. p.checks[i] \in CheckType /\ p.checks[i] \in ToSet(p.checks)
    BY <1>1 DEF ToSet
  <2> QED BY <2>1, AdmissionAssumption DEF AdmissionAssumption, GoodCheck
<1> QED BY <1>1, <1>2

LEMMA HeadOrTail ==
  ASSUME NEW S, NEW s \in Seq(S), s # <<>>
  PROVE  /\ Tail(s) \in Seq(S) /\ Head(s) \in S /\ Head(s) \in ToSet(s)
         /\ \A x : x \in ToSet(s) <=> x = Head(s) \/ x \in ToSet(Tail(s))
<1>1. /\ Tail(s) \in Seq(S) /\ Len(Tail(s)) = Len(s) - 1 /\ Len(s) \in Nat \ {0}
      /\ Head(s) = s[1]
      /\ \A i \in 1..Len(s) - 1 : Tail(s)[i] = s[i + 1]
  OBVIOUS
<1>2. ASSUME NEW x, x \in ToSet(s), x # Head(s) PROVE x \in ToSet(Tail(s))
  <2>1. PICK i \in 1..Len(s) : x = s[i]
    BY <1>1, <1>2 DEF ToSet
  <2>2. i - 1 \in 1..Len(Tail(s)) /\ Tail(s)[i - 1] = x
    BY <1>1, <1>2, <2>1
  <2>3. i - 1 \in DOMAIN Tail(s)
    BY <1>1, <2>2
  <2> QED BY <2>2, <2>3 DEF ToSet
<1>3. ASSUME NEW x, x \in ToSet(Tail(s)) PROVE x \in ToSet(s)
  <2>1. PICK i \in 1..Len(Tail(s)) : x = Tail(s)[i]
    BY <1>1, <1>3 DEF ToSet
  <2>2. i + 1 \in 1..Len(s) /\ s[i + 1] = x
    BY <1>1, <2>1
  <2> QED BY <1>1, <2>2 DEF ToSet
<1>4. Head(s) \in ToSet(s) /\ Head(s) \in S
  BY <1>1 DEF ToSet
<1> QED BY <1>1, <1>2, <1>3, <1>4

LEMMA DistinctTail ==
  ASSUME NEW S, NEW s \in Seq(S), s # <<>>, IsInjective(s)
  PROVE  IsInjective(Tail(s)) /\ Head(s) \notin ToSet(Tail(s))
<1>1. /\ Tail(s) \in Seq(S) /\ Len(Tail(s)) = Len(s) - 1 /\ Len(s) \in Nat \ {0}
      /\ Head(s) = s[1]
      /\ \A i \in 1..Len(s) - 1 : Tail(s)[i] = s[i + 1]
      /\ DOMAIN s = 1..Len(s) /\ DOMAIN Tail(s) = 1..Len(s) - 1
  OBVIOUS
<1>2. \A i, j \in 1..Len(s) : s[i] = s[j] => i = j
  BY <1>1 DEF IsInjective
<1>3. \A i, j \in 1..Len(s) - 1 : Tail(s)[i] = Tail(s)[j] => i = j
  <2> TAKE i, j \in 1..Len(s) - 1
  <2>1. i + 1 \in 1..Len(s) /\ j + 1 \in 1..Len(s)
    BY <1>1
  <2> QED BY <1>1, <1>2, <2>1
<1>4. \A i \in 1..Len(s) - 1 : Tail(s)[i] # s[1]
  <2> TAKE i \in 1..Len(s) - 1
  <2>1. i + 1 \in 1..Len(s) /\ 1 \in 1..Len(s) /\ i + 1 # 1
    BY <1>1
  <2> QED BY <1>1, <1>2, <2>1
<1> QED BY <1>1, <1>3, <1>4 DEF IsInjective, ToSet

LEMMA DistinctAppend ==
  ASSUME NEW S, NEW s \in Seq(S), IsInjective(s), NEW x \in S, x \notin ToSet(s)
  PROVE  /\ Append(s, x) \in Seq(S) /\ IsInjective(Append(s, x))
         /\ \A y : y \in ToSet(Append(s, x)) <=> y = x \/ y \in ToSet(s)
<1> DEFINE t == Append(s, x)
<1>1. /\ t \in Seq(S) /\ Len(s) \in Nat /\ DOMAIN t = 1..Len(s) + 1
      /\ DOMAIN s = 1..Len(s)
      /\ t[Len(s) + 1] = x /\ \A i \in 1..Len(s) : t[i] = s[i]
  OBVIOUS
<1> HIDE DEF t
<1>2. \A i \in 1..Len(s) + 1 : i \in 1..Len(s) \/ i = Len(s) + 1
  BY <1>1
<1>3. \A i \in 1..Len(s) : i \in 1..Len(s) + 1 /\ s[i] # x
  BY <1>1 DEF ToSet
<1>4. IsInjective(t)
  BY <1>1, <1>2, <1>3 DEF IsInjective
<1>5. \A y : y \in ToSet(t) <=> y = x \/ y \in ToSet(s)
  <2>1. Len(s) + 1 \in 1..Len(s) + 1
    BY <1>1
  <2> QED BY <1>1, <1>2, <1>3, <2>1 DEF ToSet
<1> QED BY <1>1, <1>4, <1>5 DEF t

LEMMA WithoutOne ==
  ASSUME NEW r \in Request, queue \in Seq(Request), IsInjective(queue)
  PROVE  /\ Without(r) \in Seq(Request) /\ IsInjective(Without(r))
         /\ \A q : q \in ToSet(Without(r)) <=> q \in ToSet(queue) /\ q # r
<1>1. CASE r \notin ToSet(queue)
  BY <1>1 DEF Without
<1>2. CASE r \in ToSet(queue)
  <2> DEFINE n == Len(queue)
             k == CHOOSE i \in DOMAIN queue : queue[i] = r
             t == SubSeq(queue, 1, k - 1) \o SubSeq(queue, k + 1, n)
  <2>1. n \in Nat /\ DOMAIN queue = 1..n
    OBVIOUS
  <2>2. k \in 1..n /\ queue[k] = r
    <3>1. \E i \in DOMAIN queue : queue[i] = r
      BY <1>2 DEF ToSet
    <3> QED BY <2>1, <3>1
  <2>3. Without(r) = t
    BY <1>2 DEF Without, RemoveAt
  <2>4. \A i, j \in 1..n : queue[i] = queue[j] => i = j
    BY <2>1 DEF IsInjective
  <2> HIDE DEF k, n
  <2>5. /\ SubSeq(queue, 1, k - 1) \in Seq(Request)
        /\ Len(SubSeq(queue, 1, k - 1)) = k - 1
        /\ \A i \in 1..k - 1 : SubSeq(queue, 1, k - 1)[i] = queue[i]
    BY <2>1, <2>2, SubSeqProperties DEF n
  <2>6. /\ SubSeq(queue, k + 1, n) \in Seq(Request)
        /\ Len(SubSeq(queue, k + 1, n)) = n - k
        /\ \A i \in 1..n - k : SubSeq(queue, k + 1, n)[i] = queue[k + i]
    <3> DEFINE z == SubSeq(queue, k + 1, n)
    <3>1. \A i \in k + 1..n : queue[i] \in Request
      BY <2>1, <2>2 DEF n
    <3>2. /\ z \in Seq(Request) /\ Len(z) = IF k + 1 <= n THEN n - (k + 1) + 1 ELSE 0
          /\ \A i \in 1..n - (k + 1) + 1 : z[i] = queue[k + 1 + i - 1]
      BY <2>1, <2>2, <3>1, SubSeqProperties
    <3> HIDE DEF z
    <3>3. Len(z) = n - k
      BY <2>1, <2>2, <3>2
    <3>4. \A i \in 1..n - k : k + 1 + i - 1 = k + i /\ i \in 1..n - (k + 1) + 1
      BY <2>1, <2>2
    <3> QED BY <3>2, <3>3, <3>4 DEF z
  <2>7. /\ t \in Seq(Request) /\ DOMAIN t = 1..n - 1
        /\ \A i \in 1..n - 1 : t[i] = queue[IF i < k THEN i ELSE i + 1]
    <3>1. t \in Seq(Request) /\ Len(t) = n - 1
      BY <2>1, <2>2, <2>5, <2>6, ConcatProperties
    <3>2. \A i \in 1..n - 1 : t[i] = queue[IF i < k THEN i ELSE i + 1]
      <4> TAKE i \in 1..n - 1
      <4>1. CASE i < k
        BY <2>1, <2>2, <2>5, <2>6, <4>1, ConcatProperties
      <4>2. CASE ~(i < k)
        <5>1. i - (k - 1) \in 1..n - k /\ k + (i - (k - 1)) = i + 1
          BY <2>1, <2>2, <4>2
        <5>2. t[i] = SubSeq(queue, k + 1, n)[i - (k - 1)]
          BY <2>1, <2>2, <2>5, <2>6, <4>2, ConcatProperties
        <5>3. SubSeq(queue, k + 1, n)[i - (k - 1)] = queue[k + (i - (k - 1))]
          BY <2>6, <5>1
        <5>4. t[i] = queue[i + 1]
          <6> HIDE DEF t
          <6> QED BY <5>1, <5>2, <5>3
        <5> HIDE DEF t
        <5> QED BY <4>2, <5>4
      <4> QED BY <4>1, <4>2
    <3> HIDE DEF t
    <3> QED BY <3>1, <3>2
  <2> HIDE DEF t
  <2>8. \A i \in 1..n - 1 : (IF i < k THEN i ELSE i + 1) \in 1..n \ {k}
    BY <2>1, <2>2
  <2>9. IsInjective(t)
    <3> SUFFICES ASSUME NEW i \in 1..n - 1, NEW j \in 1..n - 1, t[i] = t[j]
                 PROVE  i = j
      BY <2>7 DEF IsInjective
    <3>1. (IF i < k THEN i ELSE i + 1) = (IF j < k THEN j ELSE j + 1)
      BY <2>4, <2>7, <2>8
    <3> QED BY <2>1, <2>2, <3>1
  <2>10. ASSUME NEW q, q \in ToSet(queue), q # r PROVE q \in ToSet(t)
    <3>1. PICK i \in 1..n : queue[i] = q
      BY <2>1, <2>10 DEF ToSet
    <3>2. i # k
      BY <2>2, <2>10, <3>1
    <3>3. CASE i < k
      <4>1. i \in 1..n - 1 /\ t[i] = q
        BY <2>1, <2>2, <2>7, <3>1, <3>3
      <4> QED BY <2>7, <4>1 DEF ToSet
    <3>4. CASE i > k
      <4>1. i - 1 \in 1..n - 1 /\ ~(i - 1 < k)
        BY <2>1, <2>2, <3>4
      <4>2. t[i - 1] = q
        BY <2>7, <3>1, <4>1
      <4> QED BY <2>7, <4>1, <4>2 DEF ToSet
    <3> QED BY <2>1, <2>2, <3>2, <3>3, <3>4
  <2>11. ASSUME NEW q, q \in ToSet(t) PROVE q \in ToSet(queue) /\ q # r
    <3>1. PICK i \in 1..n - 1 : t[i] = q
      BY <2>7, <2>11 DEF ToSet
    <3> QED BY <2>1, <2>2, <2>4, <2>7, <2>8, <3>1 DEF ToSet
  <2> QED BY <2>3, <2>7, <2>9, <2>10, <2>11
<1> QED BY <1>1, <1>2

-----------------------------------------------------------------------------
(* The invariant holds initially, and each action keeps it.                 *)

LEMMA InitInv == Init => IInv
<1> SUFFICES ASSUME Init PROVE IInv
  OBVIOUS
<1> USE DEF Init
<1>1. TypeInv
  BY EmptySeq, AdmissionAssumption DEF TypeInv, AdmissionAssumption
<1>2. QueueInv
  BY DEF QueueInv, IsInjective, ToSet
<1>3. FreshInv /\ WorkInv
  BY DEF FreshInv, FreshOf, WorkInv, WorkOf
<1> QED BY <1>1, <1>2, <1>3 DEF IInv

(* What a step leaves alone for a review stays true of it.                  *)
LEMMA WorkFrame ==
  ASSUME NEW q \in Request, WorkOf(q), gaveUp \subseteq gaveUp',
         payload'[q] = payload[q], todo'[q] = todo[q], got'[q] = got[q],
         found'[q] = found[q], job'[q] = job[q] \/ job'[q] = "none",
         decision'[q] = "admitted" => decision[q] = "admitted"
  PROVE  WorkOf(q)'
<1>1. \A c : Excused(q, c) => Excused(q, c)'
  BY DEF Excused
<1>2. Cleared(q) => Cleared(q)'
  BY <1>1 DEF Cleared
<1>3. \A c, a : Honest(c, a, q, gaveUp) => Honest(c, a, q, gaveUp')
  BY DEF Honest
<1>4. job'[q] \in {"encoding", "solving"} =>
       /\ \A c \in ToSet(payload'[q].checks) :
            \/ c \in ToSet(todo'[q]) \/ Excused(q, c)'
            \/ found'[q] \cap Blocking # {}
       /\ todo'[q] = <<>> => got'[q] = <<>>
       /\ todo'[q] # <<>> => /\ Pending(Head(todo'[q]), got'[q])
                             /\ Honest(Head(todo'[q]), got'[q], q, gaveUp')
  BY <1>1, <1>3 DEF WorkOf
<1> QED BY <1>2, <1>4 DEF WorkOf

LEMMA ReceiveInv ==
  ASSUME IInv, NEW r \in Request, Receive(r)
  PROVE  IInv'
<1> USE DEF IInv
<1>1. PICK p \in Carries[r] :
       /\ payload' = [payload EXCEPT ![r] = p]
       /\ IF p.form \in {"no_text", "text"}
          THEN /\ decision' = [decision EXCEPT ![r] = "pending"]
               /\ handler' = [handler EXCEPT ![r] = "awaiting"]
               /\ job' = [job EXCEPT ![r] = "queued"]
               /\ queue' = Append(queue, r)
          ELSE /\ decision' = [decision EXCEPT ![r] =
                                 IF p.form = "no_tf" THEN "admitted"
                                 ELSE "rejected"]
               /\ handler' = [handler EXCEPT ![r] = "replied"]
               /\ UNCHANGED <<job, queue>>
  BY DEF Receive
<1> DEFINE awaits == p.form \in {"no_text", "text"}
<1>2. /\ UNCHANGED <<todo, got, found, timer, released, cut, gaveUp, crashes>>
      /\ decision[r] = "none"
  BY DEF Receive, work, watch
<1>3. p \in Payload /\ (p.form # "text" => p.checks = <<>>)
  BY AdmissionAssumption DEF AdmissionAssumption
<1>4. job[r] = "none" /\ handler[r] = "idle" /\ r \notin ToSet(queue)
  BY <1>2 DEF FreshInv, FreshOf, QueueInv
<1>5. /\ IsInjective(queue') /\ queue' \in Seq(Request)
      /\ \A q \in Request : q \in ToSet(queue') <=> job'[q] = "queued"
  <2>1. CASE awaits
    <3>1. queue' = Append(queue, r) /\ job' = [job EXCEPT ![r] = "queued"]
      BY <1>1, <2>1
    <3> HIDE DEF awaits
    <3> QED BY <1>4, <3>1, DistinctAppend DEF TypeInv, QueueInv
  <2>2. CASE ~awaits
    <3>1. queue' = queue /\ job' = job
      BY <1>1, <2>2
    <3> HIDE DEF awaits
    <3> QED BY <3>1 DEF TypeInv, QueueInv
  <2> QED BY <2>1, <2>2
<1>6. /\ payload' \in [Request -> Payload \cup {NoPayload}] /\ payload'[r] = p
      /\ decision' \in [Request -> {"none", "pending", "admitted", "rejected"}]
      /\ handler' \in [Request -> {"idle", "awaiting", "replied"}]
      /\ job' \in [Request -> {"none", "queued", "parsing", "encoding", "solving",
                               "done"}]
      /\ decision'[r] # "none" /\ job'[r] \in {"none", "queued"}
      /\ job'[r] = "queued" => handler'[r] = "awaiting"
      /\ decision'[r] = "admitted" => p.checks = <<>>
      /\ \A q \in Request \ {r} :
           /\ payload'[q] = payload[q] /\ job'[q] = job[q]
           /\ handler'[q] = handler[q] /\ decision'[q] = decision[q]
  <2>1. CASE awaits
    <3>1. /\ decision' = [decision EXCEPT ![r] = "pending"]
          /\ handler' = [handler EXCEPT ![r] = "awaiting"]
          /\ job' = [job EXCEPT ![r] = "queued"]
      BY <1>1, <2>1
    <3> HIDE DEF awaits
    <3> QED BY <1>1, <1>3, <3>1 DEF TypeInv
  <2>2. CASE ~awaits
    <3> DEFINE d == IF p.form = "no_tf" THEN "admitted" ELSE "rejected"
    <3>1. /\ decision' = [decision EXCEPT ![r] = d]
          /\ handler' = [handler EXCEPT ![r] = "replied"]
          /\ job' = job
      BY <1>1, <2>2
    <3>2. d \in {"admitted", "rejected"} /\ p.checks = <<>>
      BY <1>3, <2>2
    <3> HIDE DEF d, awaits
    <3> QED BY <1>1, <1>3, <1>4, <3>1, <3>2 DEF TypeInv
  <2> QED BY <2>1, <2>2
<1> HIDE DEF awaits
<1>7. TypeInv'
  BY <1>5, <1>6, <1>2 DEF TypeInv
<1>8. QueueInv'
  BY <1>5, <1>6 DEF QueueInv
<1>9. FreshInv'
  BY <1>3, <1>4, <1>6, <1>2 DEF FreshInv, FreshOf
<1>10. WorkInv'
  <2> SUFFICES ASSUME NEW q \in Request PROVE WorkOf(q)'
    BY DEF WorkInv
  <2>1. WorkOf(q)
    BY DEF WorkInv
  <2>2. CASE q = r
    BY <1>6, <2>2 DEF WorkOf, Cleared, ToSet
  <2>3. CASE q # r
    BY <1>6, <1>2, <2>1, <2>3, WorkFrame
  <2> QED BY <2>2, <2>3
<1> QED BY <1>7, <1>8, <1>9, <1>10

LEMMA StartInv ==
  ASSUME IInv, NEW r \in Request, Start(r)
  PROVE  IInv'
<1> USE DEF IInv, Start, server, work, watch
<1>1. job[r] = "queued"
  <2>1. r \in ToSet(queue)
    BY HeadOrTail DEF TypeInv
  <2> QED BY <2>1 DEF QueueInv
<1>2. /\ IsInjective(queue') /\ queue' \in Seq(Request)
      /\ \A q \in Request : q \in ToSet(queue') <=> job'[q] = "queued"
  BY HeadOrTail, DistinctTail DEF TypeInv, QueueInv
<1>3. TypeInv'
  BY <1>2 DEF TypeInv
<1>4. QueueInv'
  BY <1>2 DEF TypeInv, QueueInv
<1>5. FreshInv'
  BY <1>1 DEF TypeInv, FreshInv, FreshOf
<1>6. WorkInv'
  <2> SUFFICES ASSUME NEW q \in Request PROVE WorkOf(q)'
    BY DEF WorkInv
  <2>1. WorkOf(q)
    BY DEF WorkInv
  <2>2. CASE q = r
    <3>1. job'[r] = "parsing" /\ decision'[r] = decision[r]
      BY DEF TypeInv
    <3> QED BY <2>1, <2>2, <3>1 DEF WorkOf, Cleared, Excused
  <2>3. CASE q # r
    BY <2>1, <2>3, WorkFrame DEF TypeInv
  <2> QED BY <2>2, <2>3
<1> QED BY <1>3, <1>4, <1>5, <1>6

LEMMA ParseInv ==
  ASSUME IInv, NEW r \in Request, Parse(r)
  PROVE  IInv'
<1> USE DEF IInv, Parse, server, watch
<1>1. payload[r] \in Payload /\ got[r] = <<>> /\ payload[r].checks \in Seq(GoodCheck)
  BY ChecksGood DEF TypeInv, FreshInv, FreshOf
<1>2. TypeInv'
  BY <1>1 DEF TypeInv
<1>3. QueueInv'
  BY DEF TypeInv, QueueInv
<1>4. FreshInv'
  BY DEF TypeInv, FreshInv, FreshOf
<1>5. WorkInv'
  <2> SUFFICES ASSUME NEW q \in Request PROVE WorkOf(q)'
    BY DEF WorkInv
  <2>1. WorkOf(q)
    BY DEF WorkInv
  <2>2. CASE q = r
    <3>1. /\ job'[r] = "encoding" /\ todo'[r] = payload[r].checks
          /\ payload'[r] = payload[r] /\ got'[r] = <<>>
      BY <1>1 DEF TypeInv
    <3>2. todo'[r] # <<>> => Pending(Head(todo'[r]), <<>>)
      <4>1. ASSUME todo'[r] # <<>> PROVE Head(todo'[r]) \in GoodCheck
        BY <1>1, <3>1, <4>1, HeadOrTail
      <4>2. \A c \in GoodCheck : Len(c.answers) > 0
        BY EmptySeq DEF GoodCheck, CheckType
      <4> QED BY <4>1, <4>2 DEF Pending
    <3>3. \A c : Honest(c, <<>>, r, gaveUp')
      BY DEF Honest
    <3>4. Cleared(r) => Cleared(r)'
      BY DEF Cleared, Excused
    <3> QED BY <2>1, <2>2, <3>1, <3>2, <3>3, <3>4 DEF WorkOf
  <2>3. CASE q # r
    BY <2>1, <2>3, WorkFrame DEF TypeInv
  <2> QED BY <2>2, <2>3
<1> QED BY <1>2, <1>3, <1>4, <1>5

LEMMA RaiseInv ==
  ASSUME IInv, NEW r \in Request, Raise(r)
  PROVE  IInv'
<1> USE DEF IInv, Raise, server, watch
<1>1. TypeInv'
  BY DEF TypeInv, Status
<1>2. QueueInv'
  BY DEF TypeInv, QueueInv
<1>3. FreshInv'
  BY DEF TypeInv, FreshInv, FreshOf
<1>4. WorkInv'
  <2> SUFFICES ASSUME NEW q \in Request PROVE WorkOf(q)'
    BY DEF WorkInv
  <2>1. WorkOf(q)
    BY DEF WorkInv
  <2>2. CASE q = r
    <3>1. job'[r] = "done" /\ found'[r] \cap Blocking # {}
      BY DEF TypeInv, Blocking
    <3>2. Cleared(r) => Cleared(r)'
      BY DEF Cleared, Excused
    <3> QED BY <2>1, <2>2, <3>1, <3>2 DEF WorkOf
  <2>3. CASE q # r
    BY <2>1, <2>3, WorkFrame DEF TypeInv
  <2> QED BY <2>2, <2>3
<1> QED BY <1>1, <1>2, <1>3, <1>4

LEMMA BeginCheckInv ==
  ASSUME IInv, NEW r \in Request, BeginCheck(r)
  PROVE  IInv'
<1> USE DEF IInv, BeginCheck, server, work
<1>1. TypeInv'
  BY DEF TypeInv
<1>2. QueueInv'
  BY DEF TypeInv, QueueInv
<1>3. FreshInv'
  BY DEF TypeInv, FreshInv, FreshOf
<1>4. WorkInv'
  <2> SUFFICES ASSUME NEW q \in Request PROVE WorkOf(q)'
    BY DEF WorkInv
  <2>1. WorkOf(q)
    BY DEF WorkInv
  <2>2. CASE q = r
    <3>1. job'[r] = "solving"
      BY DEF TypeInv
    <3>2. \A c : Excused(r, c) => Excused(r, c)'
      BY DEF Excused
    <3>3. Cleared(r) => Cleared(r)'
      BY <3>2 DEF Cleared
    <3> QED BY <2>1, <2>2, <3>1, <3>2, <3>3 DEF WorkOf
  <2>3. CASE q # r
    BY <2>1, <2>3, WorkFrame DEF TypeInv
  <2> QED BY <2>2, <2>3
<1> QED BY <1>1, <1>2, <1>3, <1>4

LEMMA ExpireInv ==
  ASSUME IInv, NEW r \in Request, Expire(r)
  PROVE  IInv'
<1> USE DEF IInv, Expire, server, work
<1>1. TypeInv'
  BY DEF TypeInv
<1>2. QueueInv'
  BY DEF TypeInv, QueueInv
<1>3. FreshInv'
  BY DEF TypeInv, FreshInv, FreshOf
<1>4. WorkInv'
  <2> SUFFICES ASSUME NEW q \in Request PROVE WorkOf(q)'
    BY DEF WorkInv
  <2>1. WorkOf(q)
    BY DEF WorkInv
  <2> QED BY <2>1, WorkFrame DEF TypeInv
<1> QED BY <1>1, <1>2, <1>3, <1>4

LEMMA InterruptInv ==
  ASSUME IInv, NEW r \in Request, Interrupt(r)
  PROVE  IInv'
<1> USE DEF IInv, Interrupt, server, work
<1>1. TypeInv'
  BY DEF TypeInv
<1>2. QueueInv'
  BY DEF TypeInv, QueueInv
<1>3. FreshInv'
  BY DEF TypeInv, FreshInv, FreshOf
<1>4. WorkInv'
  <2> SUFFICES ASSUME NEW q \in Request PROVE WorkOf(q)'
    BY DEF WorkInv
  <2>1. WorkOf(q)
    BY DEF WorkInv
  <2> QED BY <2>1, WorkFrame DEF TypeInv
<1> QED BY <1>1, <1>2, <1>3, <1>4

LEMMA FinishInv ==
  ASSUME IInv, NEW r \in Request, Finish(r)
  PROVE  IInv'
<1> USE DEF IInv, Finish, server, work, watch
<1>1. TypeInv'
  BY DEF TypeInv
<1>2. QueueInv'
  BY DEF TypeInv, QueueInv
<1>3. FreshInv'
  BY DEF TypeInv, FreshInv, FreshOf
<1>4. WorkInv'
  <2> SUFFICES ASSUME NEW q \in Request PROVE WorkOf(q)'
    BY DEF WorkInv
  <2>1. WorkOf(q)
    BY DEF WorkInv
  <2>2. CASE q = r
    <3>1. job'[r] = "done"
      BY DEF TypeInv
    <3>2. found[r] \cap Blocking # {} \/ Cleared(r)
      BY <2>1, <2>2 DEF WorkOf, Cleared, ToSet
    <3>3. Cleared(r) => Cleared(r)'
      BY DEF Cleared, Excused
    <3> QED BY <2>1, <2>2, <3>1, <3>2, <3>3 DEF WorkOf
  <2>3. CASE q # r
    BY <2>1, <2>3, WorkFrame DEF TypeInv
  <2> QED BY <2>2, <2>3
<1> QED BY <1>1, <1>2, <1>3, <1>4

LEMMA DeliverInv ==
  ASSUME IInv, NEW r \in Request, Deliver(r)
  PROVE  IInv'
<1> USE DEF IInv, Deliver, Respond, work, watch
<1>1. TypeInv'
  BY DEF TypeInv
<1>2. QueueInv'
  BY DEF TypeInv, QueueInv
<1>3. FreshInv'
  BY DEF TypeInv, FreshInv, FreshOf
<1>4. WorkInv'
  <2> SUFFICES ASSUME NEW q \in Request PROVE WorkOf(q)'
    BY DEF WorkInv
  <2>1. WorkOf(q)
    BY DEF WorkInv
  <2>2. CASE q = r
    <3>1. decision'[r] = "admitted" => decision[r] = "admitted" \/ Allowed(found[r])
      BY DEF TypeInv
    <3>2. Allowed(found[r]) => Cleared(r)
      BY <2>1, <2>2 DEF WorkOf, Allowed, Blocking
    <3>3. Cleared(r) => Cleared(r)'
      BY DEF Cleared, Excused
    <3> QED BY <2>1, <2>2, <3>1, <3>2, <3>3 DEF WorkOf
  <2>3. CASE q # r
    BY <2>1, <2>3, WorkFrame DEF TypeInv
  <2> QED BY <2>2, <2>3
<1> QED BY <1>1, <1>2, <1>3, <1>4

LEMMA DeadlineInv ==
  ASSUME IInv, NEW r \in Request, Deadline(r)
  PROVE  IInv'
<1> USE DEF IInv, Deadline, Respond, work, watch
<1>1. /\ queue' \in Seq(Request) /\ IsInjective(queue')
      /\ \A q \in Request : q \in ToSet(queue') <=> q \in ToSet(queue) /\ q # r
  BY WithoutOne DEF TypeInv, QueueInv
<1>2. \A q \in Request : job'[q] = IF q = r /\ job[q] = "queued" THEN "none" ELSE job[q]
  BY DEF TypeInv
<1>3. TypeInv'
  BY <1>1 DEF TypeInv
<1>4. QueueInv'
  BY <1>1, <1>2 DEF TypeInv, QueueInv
<1>5. FreshInv'
  BY <1>2 DEF TypeInv, FreshInv, FreshOf
<1>6. WorkInv'
  <2> SUFFICES ASSUME NEW q \in Request PROVE WorkOf(q)'
    BY DEF WorkInv
  <2>1. WorkOf(q)
    BY DEF WorkInv
  <2>2. decision'[q] = "admitted" => decision[q] = "admitted"
    BY DEF TypeInv
  <2> QED BY <1>2, <2>1, <2>2, WorkFrame
<1> QED BY <1>3, <1>4, <1>5, <1>6

LEMMA ServerTimeoutInv ==
  ASSUME IInv, NEW r \in Request, ServerTimeout(r)
  PROVE  IInv'
<1> USE DEF IInv, ServerTimeout, work, watch
<1>1. TypeInv'
  BY DEF TypeInv
<1>2. QueueInv'
  BY DEF TypeInv, QueueInv
<1>3. FreshInv'
  BY DEF TypeInv, FreshInv, FreshOf
<1>4. WorkInv'
  <2> SUFFICES ASSUME NEW q \in Request PROVE WorkOf(q)'
    BY DEF WorkInv
  <2>1. WorkOf(q)
    BY DEF WorkInv
  <2> QED BY <2>1, WorkFrame DEF TypeInv
<1> QED BY <1>1, <1>2, <1>3, <1>4

LEMMA CrashInv ==
  ASSUME IInv, Crash
  PROVE  IInv'
<1> USE DEF IInv, Crash
<1>1. TypeInv'
  <2>1. crashes' \in 0..MaxCrashes
    BY AdmissionAssumption DEF TypeInv, AdmissionAssumption
  <2> QED BY <2>1, EmptySeq DEF TypeInv
<1>2. QueueInv'
  BY DEF QueueInv, IsInjective, ToSet
<1>3. FreshInv'
  BY DEF TypeInv, FreshInv, FreshOf
<1>4. WorkInv'
  BY DEF TypeInv, WorkInv, WorkOf, Cleared, Excused
<1> QED BY <1>1, <1>2, <1>3, <1>4

(* One more answer: the current check goes on, or its status is enough.     *)
LEMMA RecordWork ==
  ASSUME TypeInv, FreshInv, WorkInv, NEW r \in Request, NEW answer \in Answer,
         job[r] \in {"encoding", "solving"}, todo[r] # <<>>, Record(r, answer),
         payload' = payload, decision' = decision, gaveUp \subseteq gaveUp',
         \/ answer = NextTruth(r)
         \/ r \in gaveUp' /\ answer \in {"timeout", "unknown"}
  PROVE  /\ todo' \in [Request -> Seq(GoodCheck)]
         /\ got' \in [Request -> Seq(Answer)]
         /\ found' \in [Request -> SUBSET Status]
         /\ job' = [job EXCEPT ![r] = "encoding"]
         /\ \A q \in Request \ {r} : got'[q] = got[q] /\ found'[q] = found[q]
         /\ WorkInv'
<1> DEFINE c == Head(todo[r])
           a == Append(got[r], answer)
           s == Reported(c, a)
<1>1. /\ todo[r] \in Seq(GoodCheck) /\ got[r] \in Seq(Answer) /\ found[r] \in SUBSET Status
      /\ c \in GoodCheck /\ Tail(todo[r]) \in Seq(GoodCheck)
      /\ \A x : x \in ToSet(todo[r]) <=> x = c \/ x \in ToSet(Tail(todo[r]))
  BY HeadOrTail DEF TypeInv
<1>2. /\ found' = [found EXCEPT ![r] = found[r] \cup s]
      /\ got' = [got EXCEPT ![r] = IF s = {} THEN a ELSE <<>>]
      /\ todo' = [todo EXCEPT ![r] = IF s = {} THEN todo[r] ELSE Tail(todo[r])]
      /\ job' = [job EXCEPT ![r] = "encoding"]
  BY DEF Record, NextOf
<1>3. Pending(c, got[r]) /\ Honest(c, got[r], r, gaveUp)
  BY DEF WorkInv, WorkOf
<1>4. /\ a \in Seq(Answer) /\ Len(a) = Len(got[r]) + 1 /\ a[Len(a)] = answer
      /\ Len(got[r]) \in Nat /\ \A i \in 1..Len(got[r]) : a[i] = got[r][i]
  BY <1>1
<1>5. Honest(c, a, r, gaveUp')
  <2> HIDE DEF a
  <2>1. \A i \in 1..Len(a) : i \in 1..Len(got[r]) \/ i = Len(a)
    BY <1>4
  <2>2. answer = c.answers[Len(a)] \/ (r \in gaveUp' /\ answer \in {"timeout", "unknown"})
    BY <1>4 DEF NextTruth
  <2> QED BY <1>3, <1>4, <2>1, <2>2 DEF Honest
<1>6. /\ s \subseteq Status /\ (s = {} => Pending(c, a))
      /\ s = {} \/ s \cap Blocking # {}
         \/ (Violates(c) => c.kind \in {"policy", "reach"} /\ r \in gaveUp')
  <2>1. a = Append(got[r], answer)
    OBVIOUS
  <2> HIDE DEF a, c
  <2>2. /\ Reported(c, a) \subseteq Status
        /\ Reported(c, a) = {} => Pending(c, a)
        /\ \/ Reported(c, a) = {} \/ Reported(c, a) \cap Blocking # {}
           \/ Violates(c) => c.kind \in {"policy", "reach"} /\ r \in gaveUp'
    BY <1>1, <1>3, <1>4, <1>5, <2>1, ReportSound
  <2> QED BY <2>2
<1> HIDE DEF a, s, c
<1>7. /\ todo' \in [Request -> Seq(GoodCheck)]
      /\ got' \in [Request -> Seq(Answer)]
      /\ found' \in [Request -> SUBSET Status]
  BY <1>1, <1>2, <1>4, <1>6, EmptySeq DEF TypeInv
<1>8. WorkInv'
  <2> SUFFICES ASSUME NEW q \in Request PROVE WorkOf(q)'
    BY DEF WorkInv
  <2>1. WorkOf(q)
    BY DEF WorkInv
  <2>2. CASE q = r
    <3>1. /\ job'[r] = "encoding" /\ found'[r] = found[r] \cup s
          /\ s = {} => todo'[r] = todo[r] /\ got'[r] = a
          /\ s # {} => todo'[r] = Tail(todo[r]) /\ got'[r] = <<>>
      BY <1>2 DEF TypeInv
    <3>2. \A x : Excused(r, x) => Excused(r, x)'
      BY DEF Excused
    <3>3. \A x \in ToSet(payload'[r].checks) :
            x \in ToSet(todo'[r]) \/ Excused(r, x)' \/ found'[r] \cap Blocking # {}
      <4> TAKE x \in ToSet(payload'[r].checks)
      <4>1. x \in ToSet(todo[r]) \/ Excused(r, x)' \/ found[r] \cap Blocking # {}
        BY <2>1, <2>2, <3>2 DEF WorkOf
      <4>2. found[r] \cap Blocking # {} \/ s \cap Blocking # {} =>
              found'[r] \cap Blocking # {}
        BY <3>1
      <4>3. CASE s = {}
        BY <3>1, <4>1, <4>2, <4>3
      <4>4. CASE s # {}
        <5>1. x \in ToSet(todo[r]) => x = c \/ x \in ToSet(todo'[r])
          BY <1>1, <3>1, <4>4
        <5>2. s \cap Blocking # {} \/ (x = c => Excused(r, x)')
          BY <1>6, <4>4 DEF Excused
        <5> QED BY <4>1, <4>2, <5>1, <5>2
      <4> QED BY <4>3, <4>4
    <3>4. \A x : Honest(x, <<>>, r, gaveUp')
      BY DEF Honest
    <3>5. todo'[r] # <<>> => /\ Pending(Head(todo'[r]), got'[r])
                            /\ Honest(Head(todo'[r]), got'[r], r, gaveUp')
      <4>1. CASE s = {}
        BY <1>5, <1>6, <3>1, <4>1 DEF c
      <4>2. CASE s # {}
        <5>1. \A x \in GoodCheck : Pending(x, <<>>)
          BY EmptySeq DEF GoodCheck, CheckType, Pending
        <5>2. todo'[r] # <<>> => Head(todo'[r]) \in GoodCheck
          BY <1>1, <3>1, <4>2, HeadOrTail
        <5> QED BY <3>1, <3>4, <4>2, <5>1, <5>2
      <4> QED BY <4>1, <4>2
    <3>6. todo'[r] = <<>> => got'[r] = <<>>
      BY <3>1
    <3>7. Cleared(r) => Cleared(r)'
      BY <3>2 DEF Cleared
    <3> QED BY <2>1, <2>2, <3>1, <3>3, <3>5, <3>6, <3>7 DEF WorkOf
  <2>3. CASE q # r
    <3>1. /\ todo'[q] = todo[q] /\ got'[q] = got[q] /\ found'[q] = found[q]
          /\ job'[q] = job[q]
      BY <1>2, <2>3 DEF TypeInv
    <3> QED BY <2>1, <3>1, WorkFrame
  <2> QED BY <2>2, <2>3
<1>9. \A q \in Request \ {r} : got'[q] = got[q] /\ found'[q] = found[q]
  BY <1>2 DEF TypeInv
<1> QED BY <1>2, <1>7, <1>8, <1>9

LEMMA EncodeFailsInv ==
  ASSUME IInv, NEW r \in Request, EncodeFails(r)
  PROVE  IInv'
<1> USE DEF IInv
<1>1. /\ job[r] = "encoding" /\ todo[r] # <<>> /\ Record(r, "unresolved")
      /\ NextTruth(r) = "unresolved"
      /\ UNCHANGED <<server, handler, queue, watch, gaveUp, crashes>>
  BY DEF EncodeFails
<1>2. "unresolved" \in Answer
  BY DEF Answer, Truth
<1>3. /\ todo' \in [Request -> Seq(GoodCheck)]
      /\ got' \in [Request -> Seq(Answer)]
      /\ found' \in [Request -> SUBSET Status]
      /\ job' = [job EXCEPT ![r] = "encoding"]
      /\ \A q \in Request \ {r} : got'[q] = got[q] /\ found'[q] = found[q]
      /\ WorkInv'
  BY <1>1, <1>2, RecordWork DEF server
<1>4. TypeInv'
  BY <1>1, <1>3 DEF TypeInv, server, watch
<1>5. QueueInv'
  BY <1>1, <1>3 DEF TypeInv, QueueInv, server, watch
<1>6. FreshInv'
  BY <1>1, <1>3 DEF TypeInv, FreshInv, FreshOf, server, watch
<1> QED BY <1>3, <1>4, <1>5, <1>6

LEMMA EndCheckInv ==
  ASSUME IInv, NEW r \in Request, EndCheck(r)
  PROVE  IInv'
<1> USE DEF IInv
<1>1. /\ job[r] = "solving" /\ timer' = [timer EXCEPT ![r] = FALSE]
      /\ UNCHANGED <<server, handler, queue, released, cut, crashes>>
  BY DEF EndCheck, Disarmed
<1>2. PICK answer \in {"timeout", "unknown", NextTruth(r)} :
        /\ Record(r, answer)
        /\ gaveUp' = IF answer \in {"timeout", "unknown"} THEN gaveUp \cup {r} ELSE gaveUp
  BY DEF EndCheck
<1>3. todo[r] # <<>>
  BY <1>1 DEF WorkInv, WorkOf
<1>4. NextTruth(r) \in Truth
  <2>1. Head(todo[r]) \in GoodCheck /\ Pending(Head(todo[r]), got[r])
    BY <1>1, <1>3, HeadOrTail DEF TypeInv, WorkInv, WorkOf
  <2>2. Head(todo[r]).answers \in Seq(Truth) /\ got[r] \in Seq(Answer)
    BY <2>1 DEF GoodCheck, CheckType, TypeInv
  <2> QED BY <2>1, <2>2 DEF NextTruth, Pending
<1>5. answer \in Answer
  BY <1>4 DEF Answer
<1>6. gaveUp \subseteq gaveUp' /\ gaveUp' \subseteq Request
  BY <1>2 DEF TypeInv
<1>7. answer = NextTruth(r) \/ (r \in gaveUp' /\ answer \in {"timeout", "unknown"})
  BY <1>2
<1>8. /\ todo' \in [Request -> Seq(GoodCheck)]
      /\ got' \in [Request -> Seq(Answer)]
      /\ found' \in [Request -> SUBSET Status]
      /\ job' = [job EXCEPT ![r] = "encoding"]
      /\ \A q \in Request \ {r} : got'[q] = got[q] /\ found'[q] = found[q]
      /\ WorkInv'
  BY <1>1, <1>2, <1>3, <1>5, <1>6, <1>7, RecordWork DEF server
<1>9. TypeInv'
  BY <1>1, <1>6, <1>8 DEF TypeInv, server
<1>10. QueueInv'
  BY <1>1, <1>8 DEF TypeInv, QueueInv, server
<1>11. FreshInv'
  BY <1>1, <1>8 DEF TypeInv, FreshInv, FreshOf, server
<1> QED BY <1>8, <1>9, <1>10, <1>11

-----------------------------------------------------------------------------
(* The theorems.                                                            *)

LEMMA StepInv ==
  ASSUME IInv, [Next]_vars
  PROVE  IInv'
<1>1. CASE UNCHANGED vars
  BY <1>1 DEF vars, IInv, TypeInv, QueueInv, FreshInv, FreshOf, WorkInv, WorkOf,
              Cleared, Excused
<1>2. ASSUME NEW r \in Request, Thread(r) PROVE IInv'
  BY <1>2, StartInv, ParseInv, RaiseInv, EncodeFailsInv, BeginCheckInv,
     EndCheckInv, FinishInv DEF Thread
<1> QED BY <1>1, <1>2, ReceiveInv, ExpireInv, InterruptInv, DeliverInv,
           DeadlineInv, ServerTimeoutInv, CrashInv DEF Next

(* A review passes through the webhook once, and a running job's checks are *)
(* all accounted for: to do, blocking, or without a violation.              *)
THEOREM AdmissionInvariant == Spec => []IInv
BY InitInv, StepInv, PTL DEF Spec

(* The state is well typed; queued jobs are the ones in the queue, once     *)
(* each, and a watchdog is armed only while its query runs.                 *)
THEOREM AdmissionTypes == Spec => []TypeOK
<1>1. IInv => TypeOK
  <2> SUFFICES ASSUME IInv PROVE TypeOK
    OBVIOUS
  <2>1. \A r \in Request : ToSet(got[r]) \subseteq Answer
    BY DEF IInv, TypeInv, ToSet
  <2> QED BY <2>1 DEF IInv, TypeInv, QueueInv, FreshInv, FreshOf, TypeOK
<1> QED BY <1>1, AdmissionInvariant, PTL

(* Whatever the reviews, the pool, the watchdogs and the restarts: an       *)
(* admitted review hides no violation, unless one of its own queries was    *)
(* given up on in a check that takes that for the answer no.                *)
THEOREM AdmissionIsSound == Spec => []GateIsSound
<1>1. IInv => GateIsSound
  BY DEF IInv, WorkInv, WorkOf, Cleared, Excused, GateIsSound
<1> QED BY <1>1, AdmissionInvariant, PTL

(* Work that was cancelled in the queue never takes a thread.               *)
THEOREM AdmissionWastesNothing == Spec => NoWastedStart
<1> DEFINE Waits == \A r \in Request : job[r] # "parsing" /\ job'[r] = "parsing"
                                         => handler[r] = "awaiting"
<1>1. ASSUME IInv, [Next]_vars PROVE [Waits]_vars
  <2> SUFFICES ASSUME NEW r \in Request, job[r] # "parsing", job'[r] = "parsing",
                      Next
               PROVE  handler[r] = "awaiting"
    BY <1>1
  <2> USE <1>1 DEF IInv
  <2>1. ASSUME NEW q \in Request, Start(q) PROVE job[r] = "queued"
    <3>1. job' = [job EXCEPT ![q] = "parsing"] /\ queue # <<>> /\ Head(queue) = q
      BY <2>1 DEF Start
    <3>2. q \in ToSet(queue)
      BY <3>1, HeadOrTail DEF TypeInv
    <3>3. q = r
      BY <3>1 DEF TypeInv
    <3> QED BY <3>2, <3>3 DEF QueueInv
  <2>2. ASSUME NEW q \in Request, ~Start(q),
               \/ Receive(q) \/ Thread(q) \/ Expire(q) \/ Interrupt(q)
               \/ Deliver(q) \/ Deadline(q) \/ ServerTimeout(q)
        PROVE  FALSE
    BY <2>2 DEF TypeInv, Receive, Thread, Parse, Raise, EncodeFails, BeginCheck,
                EndCheck, Record, Finish, Expire, Interrupt, Deliver, Deadline,
                ServerTimeout
  <2>3. ~Crash
    BY DEF Crash
  <2> QED BY <2>1, <2>2, <2>3 DEF Next, QueueInv, Thread
<1> QED BY <1>1, AdmissionInvariant, PTL DEF Spec, NoWastedStart

-----------------------------------------------------------------------------
(* The promise, apart from its liveness.                                    *)

Guilt == {p \in Payload : \E c \in ToSet(p.checks) :
                             Violates(c) /\ c.kind \in {"direct", "nsg"}}

(* A step that decides one pending review as the promise allows, or none.   *)
LEMMA DecidesOne ==
  ASSUME TypeInv, NEW r \in Request, NEW d \in {"admitted", "rejected"},
         d = "admitted" => payload[r] \notin Guilt,
         payload' = payload, Respond(r, d)
  PROVE  [Promise!Next]_<<decision, payload>>
<1>1. CASE decision[r] # "pending"
  BY <1>1 DEF Respond
<1>2. CASE decision[r] = "pending"
  <2> DEFINE e == [q \in {r} |-> d]
  <2>1. decision' = [q \in Request |-> IF q \in {r} THEN e[q] ELSE decision[q]]
    BY <1>2 DEF Respond, TypeInv
  <2>2. e \in [{r} -> {"admitted", "rejected"}] /\ e[r] = d
    OBVIOUS
  <2> HIDE DEF e
  <2>3. Promise!Decide({r})
    BY <1>2, <2>1, <2>2 DEF Promise!Decide, Guilt
  <2>4. {r} \in SUBSET Request
    OBVIOUS
  <2> QED BY <2>3, <2>4 DEF Promise!Next
<1> QED BY <1>1, <1>2

LEMMA PromisedStep ==
  ASSUME IInv, [Next]_vars
  PROVE  [Promise!Next]_<<decision, payload>>
<1> USE DEF IInv
<1>1. ASSUME NEW r \in Request, Receive(r) PROVE [Promise!Next]_<<decision, payload>>
  <2>1. PICK p \in Carries[r] :
          /\ payload' = [payload EXCEPT ![r] = p]
          /\ \/ decision' = [decision EXCEPT ![r] = "pending"]
             \/ decision' = [decision EXCEPT ![r] = "rejected"]
             \/ p.form = "no_tf" /\ decision' = [decision EXCEPT ![r] = "admitted"]
    BY <1>1 DEF Receive
  <2>2. p \in Payload /\ (p.form = "no_tf" => p.checks = <<>>)
    BY AdmissionAssumption DEF AdmissionAssumption
  <2>3. p.form = "no_tf" => p \notin Guilt
    BY <2>2 DEF Guilt, ToSet
  <2>4. Promise!Submit(r, p)
    BY <1>1, <2>1, <2>3 DEF Promise!Submit, Receive, Guilt
  <2> QED BY <2>2, <2>4 DEF Promise!Next
<1>2. ASSUME NEW r \in Request, Deliver(r) PROVE [Promise!Next]_<<decision, payload>>
  <2> DEFINE d == IF Allowed(found[r]) THEN "admitted" ELSE "rejected"
  <2>1. payload' = payload /\ Respond(r, d) /\ job[r] = "done"
    BY <1>2 DEF Deliver
  <2>2. Allowed(found[r]) => payload[r] \notin Guilt
    BY <2>1 DEF WorkInv, WorkOf, Allowed, Blocking, Cleared, Excused, Guilt
  <2>3. d \in {"admitted", "rejected"} /\ (d = "admitted" => payload[r] \notin Guilt)
    BY <2>2
  <2> HIDE DEF d
  <2> QED BY <2>1, <2>3, DecidesOne
<1>3. ASSUME NEW r \in Request, Deadline(r) PROVE [Promise!Next]_<<decision, payload>>
  BY <1>3, DecidesOne DEF Deadline
<1>4. ASSUME NEW r \in Request, ServerTimeout(r)
      PROVE [Promise!Next]_<<decision, payload>>
  BY <1>4, DecidesOne DEF ServerTimeout, Respond
<1>5. ASSUME Crash PROVE [Promise!Next]_<<decision, payload>>
  <2> DEFINE R == {r \in Request : decision[r] = "pending"}
             e == [r \in R |-> "rejected"]
  <2>1. CASE R = {}
    BY <1>5, <2>1 DEF Crash, TypeInv
  <2>2. CASE R # {}
    <3>1. decision' = [r \in Request |-> IF r \in R THEN e[r] ELSE decision[r]]
      BY <1>5 DEF Crash
    <3>2. e \in [R -> {"admitted", "rejected"}] /\ \A r \in R : e[r] # "admitted"
      OBVIOUS
    <3>3. \A r \in R : decision[r] = "pending"
      OBVIOUS
    <3>4. payload' = payload
      BY <1>5 DEF Crash
    <3>5. R \in SUBSET Request
      OBVIOUS
    <3> HIDE DEF R, e
    <3>6. Promise!Decide(R)
      BY <2>2, <3>1, <3>2, <3>3, <3>4 DEF Promise!Decide
    <3> QED BY <3>5, <3>6 DEF Promise!Next
  <2> QED BY <2>1, <2>2
<1>6. ASSUME NEW r \in Request, Thread(r) \/ Expire(r) \/ Interrupt(r)
      PROVE  UNCHANGED <<decision, payload>>
  BY <1>6 DEF Thread, Start, Parse, Raise, EncodeFails, BeginCheck, EndCheck,
              Finish, Expire, Interrupt, server
<1>7. CASE UNCHANGED vars
  BY <1>7 DEF vars
<1> QED BY <1>1, <1>2, <1>3, <1>4, <1>5, <1>6, <1>7 DEF Next

(* The webhook implements the safety part of its promise: each review is    *)
(* decided once, and none that a direct check rejects is admitted.          *)
THEOREM AdmissionKeepsPromise ==
  Spec => Promise!Init /\ [][Promise!Next]_<<decision, payload>>
<1>1. Init => Promise!Init
  BY DEF Init, Promise!Init
<1> QED BY <1>1, PromisedStep, AdmissionInvariant, PTL DEF Spec
=============================================================================
