---------------------------- MODULE RepairProofs ----------------------------
(***************************************************************************)
(* Proofs, for every number of rules and every resource, of the            *)
(* invariants of module Repair.  IInv is the inductive invariant: it keeps *)
(* what the search has ruled out so far.  The first part shows that the    *)
(* order of the combinations is an order, so that First is well defined.   *)
(***************************************************************************)
EXTENDS RepairPatch, OrderLemmas, SequenceTheorems

-----------------------------------------------------------------------------
(* The order of combinations.                                              *)

(* Sets of rules are finite, and so are sets of them.                      *)
LEMMA RulesFinite ==
  /\ \A S \in SUBSET Rule : IsFiniteSet(S) /\ Cardinality(S) \in Nat
  /\ \A X \in SUBSET SUBSET Rule : IsFiniteSet(X)
<1>1. IsFiniteSet(Rule)
  BY RepairAssumption, FS_Interval DEF Rule
<1>2. IsFiniteSet(SUBSET Rule)
  BY <1>1, FS_SUBSET
<1>3. \A S \in SUBSET Rule : IsFiniteSet(S)
  BY <1>1, FS_Subset
<1>4. \A X \in SUBSET SUBSET Rule : IsFiniteSet(X)
  BY <1>2, FS_Subset
<1> QED BY <1>3, <1>4, FS_CardinalityType

(* The first rule in which two sets differ decides: before it they agree.  *)
Leads(S, T, a) ==
  /\ a \in S \ T
  /\ \A c \in Rule : c < a => (c \in S <=> c \in T)

LEMMA Differ ==
  ASSUME NEW S \in SUBSET Rule, NEW T \in SUBSET Rule, S # T
  PROVE  \/ Leads(S, T, Least((S \ T) \cup (T \ S)))
         \/ Leads(T, S, Least((S \ T) \cup (T \ S)))
<1> DEFINE D == (S \ T) \cup (T \ S)
<1>1. D \in SUBSET Nat /\ D \subseteq Rule /\ D # {}
  BY RepairAssumption DEF Rule
<1> DEFINE a == Least(D)
<1>2. a \in D /\ \A y \in D : a <= y
  <2> HIDE DEF D
  <2>1. \E b \in D : \A c \in D : b <= c
    BY <1>1, LeastElement
  <2> QED BY <2>1 DEF Least
<1> HIDE DEF a
<1>3. a \in D /\ \A c \in Rule : c < a => c \notin D
  <2> HIDE DEF D
  <2>1. a \in Nat /\ \A c \in Rule : c \in Nat
    BY <1>1, <1>2, RepairAssumption DEF Rule
  <2> QED BY <1>2, <2>1
<1>4. Leads(S, T, a) \/ Leads(T, S, a)
  BY <1>3 DEF Leads
<1> QED BY <1>4 DEF a

LEMMA BeforeIff ==
  ASSUME NEW S \in SUBSET Rule, NEW T \in SUBSET Rule, S # T
  PROVE  Before(S, T) <=> \E a \in Rule : Leads(S, T, a)
<1> DEFINE d == Least((S \ T) \cup (T \ S))
<1>1. Leads(S, T, d) \/ Leads(T, S, d)
  BY Differ
<1>2. Before(S, T) <=> d \in S
  BY DEF Before
<1> HIDE DEF d
<1>3. d \in Rule
  BY <1>1 DEF Leads
<1>4. ASSUME NEW a \in Rule, Leads(S, T, a), Leads(T, S, d) PROVE FALSE
  BY <1>3, <1>4, RepairAssumption DEF Leads, Rule
<1> QED BY <1>1, <1>2, <1>3, <1>4 DEF Leads

LEMMA BeforeTotal ==
  ASSUME NEW S \in SUBSET Rule, NEW T \in SUBSET Rule, S # T
  PROVE  Before(S, T) <=> ~Before(T, S)
<1>1. Before(S, T) \/ Before(T, S)
  <2> DEFINE d == Least((S \ T) \cup (T \ S))
  <2>1. Leads(S, T, d) \/ Leads(T, S, d)
    BY Differ
  <2> HIDE DEF d
  <2>2. d \in Rule
    BY <2>1 DEF Leads
  <2> QED BY <2>1, <2>2, BeforeIff
<1>2. ASSUME NEW a \in Rule, NEW b \in Rule, Leads(S, T, a), Leads(T, S, b)
      PROVE  FALSE
  BY <1>2, RepairAssumption DEF Leads, Rule
<1> QED BY <1>1, <1>2, BeforeIff

LEMMA BeforeTransitive ==
  ASSUME NEW S \in SUBSET Rule, NEW T \in SUBSET Rule, NEW U \in SUBSET Rule,
         S # T, T # U, Before(S, T), Before(T, U)
  PROVE  S # U /\ Before(S, U)
<1>1. PICK a \in Rule : Leads(S, T, a)
  BY BeforeIff
<1>2. PICK b \in Rule : Leads(T, U, b)
  BY BeforeIff
<1>3. \E c \in Rule : Leads(S, U, c)
  <2>1. CASE a < b
    <3>1. Leads(S, U, a)
      BY <1>1, <1>2, <2>1, RepairAssumption DEF Leads, Rule
    <3> QED BY <3>1
  <2>2. CASE b <= a
    <3>1. b < a
      BY <1>1, <1>2, <2>2, RepairAssumption DEF Leads, Rule
    <3>2. Leads(S, U, b)
      BY <1>1, <1>2, <3>1, RepairAssumption DEF Leads, Rule
    <3> QED BY <3>2
  <2> QED BY <2>1, <2>2, RepairAssumption DEF Rule
<1>4. S # U
  BY <1>3 DEF Leads
<1> QED BY <1>3, <1>4, BeforeIff

(* Some set precedes every other, and First picks it.                     *)
LEMMA FirstExists ==
  ASSUME NEW X \in SUBSET SUBSET Rule, X # {}
  PROVE  \E S \in X : \A T \in X : Precedes(S, T)
<1>1. \A S \in X : Cardinality(S) \in Nat
  BY RulesFinite
<1>2. PICK M \in X : \A T \in X : Cardinality(M) <= Cardinality(T)
  <2> DEFINE C == {Cardinality(T) : T \in X}
  <2>1. C \in SUBSET Nat /\ C # {}
    BY <1>1
  <2>2. \E b \in C : \A c \in C : b <= c
    <3> HIDE DEF C
    <3> QED BY <2>1, LeastElement
  <2> QED BY <2>2
<1> DEFINE Y == {T \in X : Cardinality(T) = Cardinality(M)}
<1> DEFINE R == {p \in Y \X Y : p[1] # p[2] /\ Before(p[1], p[2])}
<1>3. IsFiniteSet(Y) /\ Y # {}
  BY RulesFinite
<1>4. \A S, T \in Y : <<S, T>> \in R <=> S # T /\ Before(S, T)
  <2> HIDE DEF Y
  <2> QED OBVIOUS
<1>5. Y \subseteq SUBSET Rule
  OBVIOUS
<1>6. \E S \in Y : \A T \in Y : <<T, S>> \notin R
  <2> HIDE DEF Y, R
  <2>1. \A S, T, U \in Y : <<S, T>> \in R /\ <<T, U>> \in R => <<S, U>> \in R
    BY <1>4, <1>5, BeforeTransitive
  <2> QED BY <1>3, <1>4, <2>1, MinimalElement
<1>7. PICK S \in Y : \A T \in Y : <<T, S>> \notin R
  BY <1>6
<1>8. ASSUME NEW T \in X PROVE Precedes(S, T)
  <2>1. CASE T \in Y
    <3> HIDE DEF R
    <3>1. S = T \/ Before(S, T)
      BY <1>4, <1>5, <1>7, <2>1, BeforeTotal
    <3> QED BY <2>1, <3>1 DEF Precedes
  <2>2. CASE T \notin Y
    BY <1>1, <1>2, <2>2 DEF Precedes
  <2> QED BY <2>1, <2>2
<1> QED BY <1>8

LEMMA FirstIn ==
  ASSUME NEW X \in SUBSET SUBSET Rule, X # {}
  PROVE  First(X) \in X /\ \A T \in X : Precedes(First(X), T)
BY FirstExists DEF First

LEMMA FirstUnique ==
  ASSUME NEW X \in SUBSET SUBSET Rule,
         NEW S \in X, \A T \in X : Precedes(S, T)
  PROVE  S = First(X)
<1>1. First(X) \in X /\ Precedes(First(X), S) /\ Precedes(S, First(X))
  BY FirstIn
<1>2. Cardinality(S) \in Nat /\ Cardinality(First(X)) \in Nat
  BY <1>1, RulesFinite
<1> QED BY <1>1, <1>2, BeforeTotal DEF Precedes

-----------------------------------------------------------------------------
(* The search.                                                             *)

(* The combination about to be tried is one that is left to try.           *)
LEMMA NextTrialIn ==
  ASSUME TypeOK, untried # {}
  PROVE  /\ NextTrial \in untried
         /\ \A T \in untried : Precedes(NextTrial, T)
<1>1. untried \in SUBSET SUBSET Rule
  BY DEF TypeOK, Combinations
<1> QED BY <1>1, FirstIn DEF NextTrial

LEMMA InitInv == Init => IInv
<1> SUFFICES ASSUME Init PROVE IInv
  OBVIOUS
<1>1. PICK c \in Cases :
        rules = c.rules /\ verdict = c.verdict /\ relevant = c.relevant
  BY DEF Init
<1>2. c \in CaseType /\ c.relevant \subseteq c.rules
  BY RepairAssumption
<1>3. /\ rules \subseteq Rule /\ relevant \subseteq rules
      /\ verdict \in [SUBSET Rule -> Verdicts]
  BY <1>1, <1>2 DEF CaseType
<1>4. TypeOK
  BY <1>3, RepairAssumption DEF Init, TypeOK
<1> QED BY <1>4 DEF Init, IInv, FixIsMinimal, FixIsFirst,
                    UnremediableIsExhaustive, Pending

(* A return before the search has begun.                                   *)
LEMMA EarlyReturn ==
  ASSUME IInv, pc = "start",
         NEW r \in {"UNREMEDIABLE", "NO_VULNERABILITY"}, Return(r)
  PROVE  IInv'
<1>1. TypeOK'
  BY DEF IInv, TypeOK, Return, input, Result, Combinations, Subsets
<1>2. k' = 0 /\ status' = r /\ pc' = "done"
  BY DEF IInv, Return
<1> QED BY <1>1, <1>2 DEF IInv, FixIsMinimal, FixIsFirst,
                          UnremediableIsExhaustive

(* The candidates: their number bounds the search, and every smaller size  *)
(* has a combination.                                                      *)
LEMMA CandsSize ==
  ASSUME NEW S \in SUBSET Rule
  PROVE  /\ Cardinality(S) \in 0..N
         /\ \A T \in SUBSET S : Cardinality(T) \in 0..Cardinality(S)
         /\ \A j \in 0..Cardinality(S) : Combinations(S, j) # {}
         /\ S # {} => Cardinality(S) >= 1
<1>1. IsFiniteSet(Rule) /\ Cardinality(Rule) = N
  BY RepairAssumption, FS_Interval DEF Rule
<1>2. IsFiniteSet(S) /\ Cardinality(S) \in Nat /\ Cardinality(S) <= N
  BY <1>1, FS_Subset, RulesFinite
<1>3. ASSUME NEW T \in SUBSET S PROVE Cardinality(T) \in 0..Cardinality(S)
  BY <1>2, FS_Subset, RulesFinite
<1>4. ASSUME NEW j \in 0..Cardinality(S) PROVE Combinations(S, j) # {}
  BY <1>2, SubsetOfSize DEF Combinations
<1>5. S # {} => Cardinality(S) # 0
  BY <1>2, FS_EmptySet
<1> QED BY <1>2, <1>3, <1>4, <1>5, RepairAssumption

(* The search begins: no combination of fewer than one rule is passed.     *)
LEMMA PrefilterInv == IInv /\ Prefilter => IInv'
<1> SUFFICES ASSUME IInv, Prefilter PROVE IInv'
  OBVIOUS
<1>1. cands' \subseteq rules /\ cands' # {} /\ cands' \in SUBSET Rule
  BY DEF IInv, TypeOK, Prefilter, Filtered
<1>2. /\ LastSize' \in 1..N
      /\ Combinations(cands', 1) # {}
      /\ \A T \in SUBSET cands' : Cardinality(T) \in Nat
  BY <1>1, CandsSize, RepairAssumption DEF LastSize
<1>3. TypeOK'
  <2>1. trial = {} /\ subs = {}
    BY DEF IInv, TypeOK, Prefilter, Subsets
  <2>2. k' = 1 /\ 1 \in 0..N /\ untried' = Combinations(cands', k')
    BY <1>2, RepairAssumption DEF Prefilter
  <2>3. untried' # {} /\ pc' = "search"
    BY <1>2, <2>2 DEF Prefilter
  <2> QED BY <1>1, <2>1, <2>2, <2>3 DEF IInv, TypeOK, Prefilter, input
<1>4. verdict[{}] = "SAT"
  BY DEF Prefilter, Answers
<1>5. SearchInv'
  <2>1. ASSUME NEW T \in Passed' PROVE FALSE
    <3>1. T \in SUBSET cands' /\ T # {} /\ Cardinality(T) < 1
      BY <2>1 DEF Passed, Prefilter, Combinations
    <3> QED BY <1>1, <3>1, CandsSize
  <2> QED BY <1>2, <1>4, <2>1 DEF SearchInv, Prefilter, input
<1> QED BY <1>3, <1>5 DEF IInv, Prefilter, FixIsMinimal, FixIsFirst,
                          UnremediableIsExhaustive, Pending

(* On to the next combination: the one just tried failed, so everything    *)
(* passed fails, and when nothing is left every deletion was passed.       *)
LEMMA AdvanceInv ==
  ASSUME IInv, pc \in {"search", "minimal"}, Advance,
         UNCHANGED <<input, cands, trial>>, subs' \in {subs, {}},
         patient => verdict[NextTrial] # "UNSAT"
  PROVE  IInv'
<1>1. /\ NextTrial \in untried
      /\ Rest(untried) = untried \ {NextTrial}
  BY NextTrialIn DEF IInv, TypeOK, NextTrial, Rest
<1>2. cands \in SUBSET Rule
  BY DEF IInv, TypeOK
<1>3. /\ LastSize \in 0..N /\ LastSize' = LastSize /\ k \in 1..LastSize
      /\ \A T \in SUBSET cands : Cardinality(T) \in 0..LastSize
      /\ \A j \in 0..LastSize : Combinations(cands, j) # {}
  BY <1>2, CandsSize DEF LastSize, IInv, SearchInv
<1>4. \A T \in untried : T \in SUBSET cands /\ Cardinality(T) = k
  BY DEF IInv, TypeOK, Combinations
<1>5. patient => \A T \in Passed \cup {NextTrial} : verdict[T] # "UNSAT"
  BY DEF IInv, SearchInv
<1>6. /\ trial' \subseteq cands' /\ subs' \subseteq Subsets(trial')
      /\ verdict' \in [SUBSET Rule -> Verdicts] /\ patient' \in BOOLEAN
      /\ rules' \subseteq Rule /\ relevant' \subseteq rules' /\ cands' \subseteq rules'
  BY DEF IInv, TypeOK, input
<1>7. patient' = patient /\ verdict' = verdict /\ cands' = cands
  BY DEF input
<1>8. status = Pending /\ verdict[{}] = "SAT"
  BY DEF IInv, SearchInv
<1>9. CASE untried # {NextTrial} /\ untried' = Rest(untried)
           /\ UNCHANGED <<k, status>> /\ pc' = "search"
  <2>1. TypeOK'
    <3>1. untried' # {} /\ untried' \subseteq Combinations(cands', k')
      BY <1>1, <1>7, <1>9 DEF IInv, TypeOK
    <3> QED BY <1>6, <1>9, <3>1 DEF IInv, TypeOK
  <2>2. Passed' \subseteq Passed \cup {NextTrial}
    BY <1>1, <1>7, <1>9 DEF Passed
  <2>3. SearchInv'
    BY <1>3, <1>5, <1>7, <1>8, <1>9, <2>2 DEF SearchInv
  <2> QED BY <1>8, <1>9, <2>1, <2>3 DEF IInv, FixIsMinimal, FixIsFirst,
                                 UnremediableIsExhaustive, Pending
<1>10. CASE untried = {NextTrial} /\ k < LastSize /\ k' = k + 1
            /\ untried' = Combinations(cands, k + 1)
            /\ UNCHANGED status /\ pc' = "search"
  <2>1. k' \in 1..LastSize /\ k' \in 0..N /\ k \in Nat
    BY <1>3, <1>10, RepairAssumption
  <2>2. TypeOK'
    <3>1. untried' # {} /\ untried' = Combinations(cands', k')
      BY <1>3, <1>7, <1>10, <2>1
    <3> QED BY <1>6, <1>10, <2>1, <3>1 DEF IInv, TypeOK
  <2>3. ASSUME NEW T \in Passed' PROVE T \in Passed \cup {NextTrial}
    <3>1. T \in SUBSET cands /\ T # {} /\ Cardinality(T) \in Nat
      BY <1>3, <1>7, <2>3 DEF Passed
    <3>2. Cardinality(T) < k + 1
      BY <1>7, <1>10, <2>3, <3>1 DEF Passed, Combinations
    <3> QED BY <1>10, <2>1, <3>1, <3>2 DEF Passed
  <2>4. SearchInv'
    BY <1>3, <1>5, <1>7, <1>8, <2>1, <2>3 DEF SearchInv
  <2> QED BY <1>8, <1>10, <2>2, <2>4 DEF IInv, FixIsMinimal, FixIsFirst,
                                   UnremediableIsExhaustive, Pending
<1>11. CASE untried = {NextTrial} /\ k >= LastSize
            /\ pc' = "done" /\ status' = "UNREMEDIABLE"
            /\ UNCHANGED <<k, untried>>
  <2>1. TypeOK'
    BY <1>6, <1>7, <1>11 DEF IInv, TypeOK, Result
  <2>2. ASSUME NEW T \in SUBSET cands, T # {}
        PROVE  T \in Passed \cup {NextTrial}
    BY <1>3, <1>11, <2>2 DEF Passed
  <2>3. UnremediableIsExhaustive'
    BY <1>5, <1>7, <2>2 DEF UnremediableIsExhaustive
  <2> QED BY <1>11, <2>1, <2>3 DEF IInv, FixIsMinimal, FixIsFirst
<1> QED BY <1>9, <1>10, <1>11 DEF Advance

LEMMA TryFailsInv == IInv /\ TryFails => IInv'
<1> SUFFICES ASSUME IInv, TryFails PROVE IInv'
  OBVIOUS
<1>1. patient => verdict[NextTrial] # "UNSAT"
  BY DEF TryFails, Answers, Restores
<1>2. subs' \in {subs, {}}
  BY DEF TryFails
<1> QED BY <1>1, <1>2, AdvanceInv DEF TryFails

(* A patient engine never drops a combination for a smaller one: every     *)
(* smaller one was passed, and failed.                                     *)
LEMMA SubRestoresInv == IInv /\ SubRestores => IInv'
<1> SUFFICES ASSUME IInv, SubRestores PROVE IInv'
  OBVIOUS
<1>1. trial \in SUBSET Rule /\ trial \in untried
  BY NextTrialIn DEF IInv, TypeOK, CheckInv, SubRestores
<1>2. First(subs) \in subs
  <2>1. subs \in SUBSET SUBSET Rule /\ subs # {}
    BY <1>1 DEF IInv, TypeOK, Subsets, SubRestores
  <2> QED BY <2>1, FirstIn
<1>3. First(subs) \in Passed
  <2>1. First(subs) \in SUBSET trial /\ First(subs) \notin {trial, {}}
    BY <1>2 DEF IInv, TypeOK, Subsets
  <2>2. Cardinality(trial) = k /\ trial \subseteq cands
    BY <1>1 DEF IInv, TypeOK, Combinations
  <2>3. Cardinality(First(subs)) < Cardinality(trial)
    BY <1>1, <2>1, RulesFinite, FS_Subset
  <2> QED BY <2>1, <2>2, <2>3 DEF Passed
<1>4. ~patient
  BY <1>3 DEF IInv, SearchInv, SubRestores, Answers, Restores
<1>5. subs' \in {subs, {}}
  BY DEF SubRestores
<1> QED BY <1>4, <1>5, AdvanceInv DEF SubRestores

LEMMA TryRestoresInv == IInv /\ TryRestores => IInv'
<1> SUFFICES ASSUME IInv, TryRestores PROVE IInv'
  OBVIOUS
<1>1. NextTrial \in untried
  BY NextTrialIn DEF IInv, TypeOK, TryRestores
<1>2. TypeOK'
  <2>1. trial' \subseteq cands'
    BY <1>1 DEF IInv, TypeOK, TryRestores, Combinations
  <2>2. subs' = Subsets(trial')
    BY DEF TryRestores
  <2> QED BY <2>1, <2>2 DEF IInv, TypeOK, TryRestores, input
<1>3. SearchInv'
  BY DEF IInv, SearchInv, Passed, LastSize, TryRestores, input
<1>4. CheckInv'
  BY DEF TryRestores, CheckInv, NextTrial, Answers, Restores, input
<1> QED BY <1>2, <1>3, <1>4 DEF IInv, TryRestores, FixIsMinimal, FixIsFirst,
                                UnremediableIsExhaustive, Pending

LEMMA SubFailsInv == IInv /\ SubFails => IInv'
<1> SUFFICES ASSUME IInv, SubFails PROVE IInv'
  OBVIOUS
<1>1. TypeOK'
  BY DEF IInv, TypeOK, SubFails, Rest, input
<1>2. SearchInv'
  BY DEF IInv, SearchInv, Passed, LastSize, SubFails, input
<1>3. patient => verdict[First(subs)] # "UNSAT"
  BY DEF SubFails, Answers, Restores
<1>4. CheckInv'
  BY <1>3 DEF IInv, CheckInv, NextTrial, SubFails, Rest, input
<1> QED BY <1>1, <1>2, <1>4 DEF IInv, SubFails, FixIsMinimal, FixIsFirst,
                                UnremediableIsExhaustive, Pending

(* What Final reports is minimal because every part was checked, and first *)
(* because every deletion that precedes it was passed.                     *)
LEMMA FinalInv == IInv /\ Final => IInv'
<1> SUFFICES ASSUME IInv, Final PROVE IInv'
  OBVIOUS
<1>1. /\ pc' = "done" /\ status' \in {"REMEDIATED_MINIMAL", "FAILED"}
      /\ UNCHANGED <<input, cands, k, untried, trial, subs>>
  BY DEF Final, Return
<1>2. TypeOK'
  BY <1>1 DEF IInv, TypeOK, input, Result
<1>3. /\ untried # {} /\ trial \in untried /\ trial = NextTrial
      /\ \A T \in untried : Precedes(trial, T)
  BY NextTrialIn DEF IInv, TypeOK, CheckInv, Final
<1>4. FixIsMinimal'
  <2>1. ASSUME patient, NEW T \in SUBSET trial, T # trial
        PROVE  verdict[T] # "UNSAT"
    BY <2>1 DEF IInv, SearchInv, CheckInv, Final, Subsets
  <2> QED BY <1>1, <2>1 DEF IInv, CheckInv, Final, FixIsMinimal, input
<1>5. FixIsFirst'
  <2> DEFINE X == {T \in SUBSET cands : T # {} /\ verdict[T] = "UNSAT"}
  <2>1. ASSUME patient PROVE trial = First(X)
    <3>1. Cardinality(trial) = k /\ trial \subseteq cands /\ cands \in SUBSET Rule
      BY <1>3 DEF IInv, TypeOK, Combinations
    <3>2. trial \in X
      BY <3>1 DEF IInv, SearchInv, CheckInv, Final
    <3>3. ASSUME NEW T \in X PROVE Precedes(trial, T)
      <4>1. T \notin Passed /\ T \in SUBSET cands /\ T # {}
        BY <2>1 DEF IInv, SearchInv, Final
      <4>2. Cardinality(T) \in Nat /\ k \in Nat
        BY <3>1, <4>1, RulesFinite
      <4>3. Cardinality(T) > k \/ T \in untried
        BY <4>1, <4>2 DEF Passed
      <4> QED BY <1>3, <3>1, <4>2, <4>3 DEF Precedes
    <3>4. X \in SUBSET SUBSET Rule
      BY <3>1
    <3> QED
      <4> HIDE DEF X
      <4> QED BY <3>2, <3>3, <3>4, FirstUnique
  <2> QED BY <1>1, <2>1 DEF FixIsFirst, input
<1> QED BY <1>1, <1>2, <1>4, <1>5 DEF IInv, UnremediableIsExhaustive

-----------------------------------------------------------------------------
(* The theorems.                                                           *)

LEMMA NextInv == IInv /\ [Next]_vars => IInv'
<1> SUFFICES ASSUME IInv, [Next]_vars PROVE IInv'
  OBVIOUS
<1>1. CASE NoTarget
  BY <1>1, EarlyReturn DEF NoTarget
<1>2. CASE NotVulnerable
  BY <1>2, EarlyReturn DEF NotVulnerable
<1>3. CASE NothingToDelete
  BY <1>3, EarlyReturn DEF NothingToDelete
<1>4. CASE Prefilter
  BY <1>4, PrefilterInv
<1>5. CASE TryFails
  BY <1>5, TryFailsInv
<1>6. CASE TryRestores
  BY <1>6, TryRestoresInv
<1>7. CASE SubRestores
  BY <1>7, SubRestoresInv
<1>8. CASE SubFails
  BY <1>8, SubFailsInv
<1>9. CASE Final
  BY <1>9, FinalInv
<1>10. CASE UNCHANGED vars
  BY <1>10 DEF vars, input, IInv, TypeOK, SearchInv, CheckInv, Passed, LastSize,
               NextTrial, FixIsMinimal, FixIsFirst, UnremediableIsExhaustive
<1> QED BY <1>1, <1>2, <1>3, <1>4, <1>5, <1>6, <1>7, <1>8, <1>9, <1>10 DEF Next

(* At any time, what the search has passed has failed, and what it returns *)
(* follows from that.                                                      *)
THEOREM Inductive == Spec => []IInv
BY InitInv, NextInv, PTL DEF Spec

(* The variables of a call keep their types: only candidate rules are ever *)
(* deleted, and there is always a next combination while it searches.      *)
THEOREM RepairTypes == Spec => []TypeOK
<1>1. IInv => TypeOK
  BY DEF IInv
<1> QED BY <1>1, Inductive, PTL

(* A REMEDIATED_MINIMAL deletion restores UNSAT, and with a patient solver *)
(* no part of it does, for any number of rules and any resource.           *)
THEOREM RepairMinimal == Spec => []FixIsMinimal
<1>1. IInv => FixIsMinimal
  BY DEF IInv
<1> QED BY <1>1, Inductive, PTL

(* It is the first of all that work, by size and then in list order.       *)
THEOREM RepairFirst == Spec => []FixIsFirst
<1>1. IInv => FixIsFirst
  BY DEF IInv
<1> QED BY <1>1, Inductive, PTL

(* UNREMEDIABLE after a search means that no deletion of candidates works. *)
THEOREM RepairExhaustive == Spec => []UnremediableIsExhaustive
<1>1. IInv => UnremediableIsExhaustive
  BY DEF IInv
<1> QED BY <1>1, Inductive, PTL

-----------------------------------------------------------------------------
(* The patch.                                                              *)

(* Sorted lists a set in the order given, each member once, when the order *)
(* is a strict total one: what the sequences of statements rest on.        *)
LEMMA InTurnIs ==
  ASSUME NEW f \in Files
  PROVE  /\ InTurn(f) \in Seq(DOMAIN f.statements)
         /\ \A m, n \in DOMAIN InTurn(f) : InTurn(f)[m] = InTurn(f)[n] => m = n
<1> DEFINE s == f.statements
           X == {i \in DOMAIN s : s[i].turn > 0}
           R == {p \in X \X X : \/ s[p[1]].turn < s[p[2]].turn
                                \/ s[p[1]].turn = s[p[2]].turn /\ p[1] < p[2]}
           Lists(q) == \A i, j \in DOMAIN q : i < j =>
                         \/ s[q[i]].turn < s[q[j]].turn
                         \/ s[q[i]].turn = s[q[j]].turn /\ q[i] < q[j]
<1>1. s \in Seq(Statement) /\ DOMAIN s = 1..Len(s) /\ Len(s) \in Nat
  BY FilesAssumption DEF FileType
<1>2. ASSUME NEW i \in DOMAIN s PROVE i \in Nat /\ s[i].turn \in Nat
  <2>1. i \in 1..Len(s) /\ s[i] \in Statement
    <3> HIDE DEF s
    <3> QED BY <1>1
  <2> HIDE DEF s
  <2> QED BY <1>1, <2>1 DEF Statement
<1>3. IsFiniteSet(X) /\ X \subseteq DOMAIN s
  <2>1. IsFiniteSet(DOMAIN s)
    BY <1>1, FS_Interval
  <2>2. X \in SUBSET DOMAIN s
    OBVIOUS
  <2> HIDE DEF s, X
  <2> QED BY <2>1, <2>2, FS_Subset
<1>4. \A i, j \in X : <<i, j>> \in R <=> \/ s[i].turn < s[j].turn
                                         \/ s[i].turn = s[j].turn /\ i < j
  <2> HIDE DEF s, X
  <2> QED OBVIOUS
<1>5. \E q \in [1..Cardinality(X) -> X] :
        \A i, j \in 1..Cardinality(X) : i < j => <<q[i], q[j]>> \in R
  <2>1. \A i \in X : i \in Nat /\ s[i].turn \in Nat
    BY <1>2, <1>3
  <2> HIDE DEF s, X, R
  <2>2. \A x \in X : <<x, x>> \notin R
    BY <1>4, <2>1
  <2>3. \A x, y, z \in X : <<x, y>> \in R /\ <<y, z>> \in R => <<x, z>> \in R
    BY <1>4, <2>1
  <2>4. ASSUME NEW x \in X, NEW y \in X, x # y
        PROVE  <<x, y>> \in R \/ <<y, x>> \in R
    <3>1. x < y \/ y < x
      BY <2>1, <2>4
    <3>2. \/ s[x].turn < s[y].turn \/ s[y].turn < s[x].turn
          \/ s[x].turn = s[y].turn
      BY <2>1
    <3> QED BY <1>4, <3>1, <3>2
  <2> QED BY <1>3, <2>2, <2>3, <2>4, Enumeration
<1>6. \E q \in [1..Cardinality(X) -> X] : Lists(q)
  <2>1. PICK q \in [1..Cardinality(X) -> X] :
          \A i, j \in 1..Cardinality(X) : i < j => <<q[i], q[j]>> \in R
    BY <1>5
  <2>2. Lists(q)
    <3> HIDE DEF s, X, R
    <3> QED BY <1>4, <2>1
  <2> QED BY <2>2
<1>7. InTurn(f) = CHOOSE q \in [1..Cardinality(X) -> X] : Lists(q)
  BY DEF InTurn, Sorted
<1>8. InTurn(f) \in [1..Cardinality(X) -> X] /\ Lists(InTurn(f))
  <2> HIDE DEF X, Lists
  <2> QED BY <1>6, <1>7
<1>9. InTurn(f) \in Seq(DOMAIN s)
  <2>1. Cardinality(X) \in Nat
    BY <1>3, FS_CardinalityType
  <2>2. InTurn(f) \in [1..Cardinality(X) -> DOMAIN s]
    <3> HIDE DEF X
    <3> QED BY <1>3, <1>8
  <2> HIDE DEF X, s
  <2> QED BY <2>1, <2>2
<1>10. ASSUME NEW m \in DOMAIN InTurn(f), NEW n \in DOMAIN InTurn(f), m # n
       PROVE  InTurn(f)[m] # InTurn(f)[n]
  <2>1. m \in Nat /\ n \in Nat /\ InTurn(f)[m] \in X /\ InTurn(f)[n] \in X
    BY <1>8, <1>3, FS_CardinalityType
  <2>2. m < n \/ n < m
    BY <1>10, <2>1
  <2> QED BY <1>2, <1>3, <1>8, <2>1, <2>2
<1> QED BY <1>9, <1>10

(* The deletions run through the statements to delete from the last to the *)
(* first.                                                                  *)
LEMMA DeletionOrderIs ==
  ASSUME NEW D \in SUBSET Nat, IsFiniteSet(D)
  PROVE  LET q == DeletionOrder(D)
         IN  /\ q \in Seq(D)
             /\ \A i, j \in DOMAIN q : i < j => q[i] > q[j]
             /\ \A d \in D : \E i \in DOMAIN q : q[i] = d
<1> DEFINE R == {p \in D \X D : p[1] > p[2]}
           Lists(q) == \A i, j \in DOMAIN q : i < j => q[i] > q[j]
           n == Cardinality(D)
<1>1. n \in Nat
  BY FS_CardinalityType
<1>2. \A i, j \in D : <<i, j>> \in R <=> i > j
  OBVIOUS
<1>3. PICK q \in [1..n -> D] : \A i, j \in 1..n : i < j => <<q[i], q[j]>> \in R
  <2>1. /\ \A x \in D : <<x, x>> \notin R
        /\ \A x, y, z \in D : <<x, y>> \in R /\ <<y, z>> \in R => <<x, z>> \in R
        /\ \A x, y \in D : x = y \/ <<x, y>> \in R \/ <<y, x>> \in R
    BY <1>2
  <2> HIDE DEF R
  <2> QED BY <2>1, Enumeration
<1>4. Lists(q)
  <2> HIDE DEF R, n
  <2> QED BY <1>2, <1>3
<1>5. DeletionOrder(D) = CHOOSE r \in [1..n -> D] : Lists(r)
  BY DEF DeletionOrder, Sorted
<1> DEFINE o == DeletionOrder(D)
<1>6. o \in [1..n -> D] /\ Lists(o)
  <2> HIDE DEF Lists, n
  <2> QED BY <1>4, <1>5
<1>7. \A i, j \in 1..n : i < j => o[i] # o[j]
  <2>1. \A i \in 1..n : o[i] \in Nat
    BY <1>6
  <2>2. \A i, j \in 1..n : i < j => o[i] > o[j]
    BY <1>6
  <2> HIDE DEF o, n
  <2> QED BY <2>1, <2>2
<1>8. \A d \in D : \E i \in 1..n : o[i] = d
  <2> HIDE DEF o
  <2> QED BY <1>6, <1>7, AllListed
<1>9. o \in Seq(D) /\ DOMAIN o = 1..n
  <2> HIDE DEF o, n
  <2> QED BY <1>1, <1>6
<1> QED BY <1>6, <1>8, <1>9

(* A deletion of lines closes the gap: what stands before keeps its place, *)
(* what stands after moves up by the height of the gap.                    *)
LEMMA CutIs ==
  ASSUME NEW text \in Seq(Nat), NEW from \in Nat, NEW to \in Nat,
         1 <= from, from <= to, to <= Len(text)
  PROVE  LET cut == Cut(text, from, to)
             gap == to + 1 - from
         IN  /\ cut \in Seq(Nat) /\ Len(cut) = Len(text) - gap
             /\ \A l \in 1..(from - 1) : cut[l] = text[l]
             /\ \A l \in from..Len(cut) : cut[l] = text[l + gap]
<1> DEFINE above == SubSeq(text, 1, from - 1)
           below == SubSeq(text, to + 1, Len(text))
           cut == Cut(text, from, to)
<1>1. Len(text) \in Nat /\ \A l \in 1..Len(text) : text[l] \in Nat
  OBVIOUS
<1>2. /\ above \in Seq(Nat) /\ Len(above) = from - 1
      /\ \A l \in 1..(from - 1) : above[l] = text[l]
  <2>1. \A l \in 1..(from - 1) : text[l] \in Nat
    BY <1>1
  <2>2. /\ above \in Seq(Nat)
        /\ Len(above) = IF 1 <= from - 1 THEN (from - 1) - 1 + 1 ELSE 0
        /\ \A l \in 1..((from - 1) - 1 + 1) : above[l] = text[1 + l - 1]
    BY <2>1, SubSeqProperties
  <2> HIDE DEF above
  <2> QED BY <2>2
<1>3. /\ below \in Seq(Nat) /\ Len(below) = Len(text) - to
      /\ \A l \in 1..(Len(text) - to) : below[l] = text[to + l]
  <2>1. \A l \in (to + 1)..Len(text) : text[l] \in Nat
    BY <1>1
  <2>2. /\ below \in Seq(Nat)
        /\ Len(below) = IF to + 1 <= Len(text) THEN Len(text) - (to + 1) + 1 ELSE 0
        /\ \A l \in 1..(Len(text) - (to + 1) + 1) : below[l] = text[(to + 1) + l - 1]
    BY <1>1, <2>1, SubSeqProperties
  <2> HIDE DEF below
  <2> QED BY <1>1, <2>2
<1>4. cut = above \o below
  BY DEF Cut
<1>5. /\ cut \in Seq(Nat)
      /\ Len(cut) = Len(above) + Len(below)
      /\ \A l \in 1..(Len(above) + Len(below)) :
           cut[l] = IF l <= Len(above) THEN above[l] ELSE below[l - Len(above)]
  <2> HIDE DEF above, below, cut
  <2> QED BY <1>2, <1>3, <1>4, ConcatProperties
<1> HIDE DEF above, below, cut
<1>6. Len(cut) = Len(text) - (to + 1 - from)
  BY <1>1, <1>2, <1>3, <1>5
<1>7. ASSUME NEW l \in 1..(from - 1) PROVE cut[l] = text[l]
  <2>1. l \in 1..(Len(above) + Len(below)) /\ l <= Len(above)
    BY <1>1, <1>2, <1>3
  <2>2. cut[l] = above[l]
    BY <1>5, <2>1
  <2> QED BY <1>2, <2>2
<1>8. ASSUME NEW l \in from..Len(cut) PROVE cut[l] = text[l + (to + 1 - from)]
  <2>1. l - (from - 1) \in 1..(Len(text) - to) /\ ~(l <= from - 1)
    BY <1>1, <1>6
  <2>2. cut[l] = below[l - (from - 1)]
    BY <1>1, <1>2, <1>3, <1>5, <1>6, <2>1
  <2>3. to + (l - (from - 1)) = l + (to + 1 - from)
    BY <1>1
  <2> QED BY <1>3, <2>1, <2>2, <2>3
<1> QED BY <1>5, <1>6, <1>7, <1>8 DEF cut

(* What holds of a statement of a file.                                    *)
LEMMA StatementIs ==
  ASSUME NEW f \in Files, NEW i \in DOMAIN f.statements
  PROVE  /\ f.size \in Nat /\ i \in Nat
         /\ f.statements[i].first \in Nat /\ f.statements[i].last \in Nat
         /\ 1 <= f.statements[i].first
         /\ f.statements[i].first <= f.statements[i].last
         /\ f.statements[i].last <= f.size
<1>1. f \in FileType /\ InText(f)
  BY FilesAssumption
<1>2. f.statements \in Seq(Statement) /\ f.size \in Nat
  BY <1>1 DEF FileType
<1>3. f.statements[i] \in Statement /\ i \in Nat
  <2> DEFINE s == f.statements
  <2>1. s \in Seq(Statement) /\ i \in DOMAIN s
    BY <1>2
  <2> HIDE DEF s
  <2>2. s[i] \in Statement /\ i \in Nat
    BY <2>1
  <2> QED BY <2>2 DEF s
<1> QED BY <1>1, <1>2, <1>3 DEF Statement, InText

(* The text after each deletion is the one before it, cut.                 *)
LEMMA LeftIs ==
  ASSUME NEW f \in Files, NEW order \in Seq(DOMAIN f.statements)
  PROVE  /\ Left(f, order)[0] = [l \in 1..f.size |-> l]
         /\ \A n \in 1..Len(order) :
              Left(f, order)[n] = Cut(Left(f, order)[n - 1],
                                      f.statements[order[n]].first,
                                      f.statements[order[n]].last)
<1> DEFINE X == 0..Len(order)
           K == Seq(Nat)
           F == [X -> K]
           Of(g, n) == IF n = 0 THEN [l \in 1..f.size |-> l]
                       ELSE Cut(g[n - 1], f.statements[order[n]].first,
                                f.statements[order[n]].last)
           B == [x \in X \X F |-> Of(x[2], x[1])]
           D == [n \in X |-> n]
           Sub == [n \in X |-> IF n = 0 THEN {} ELSE {n - 1}]
           Body(g) == [n \in X |-> Of(g, n)]
<1>1. Len(order) \in Nat /\ f.size \in Nat
  BY FilesAssumption DEF FileType
<1>2. ASSUME NEW n \in X, NEW g \in F PROVE Of(g, n) \in K
  <2>1. CASE n = 0
    <3>1. [l \in 1..f.size |-> l] \in [1..f.size -> Nat]
      OBVIOUS
    <3>2. [l \in 1..f.size |-> l] \in K
      BY <1>1, <3>1
    <3> QED BY <2>1, <3>2
  <2>2. CASE n # 0
    <3> DEFINE text == g[n - 1]
               from == f.statements[order[n]].first
               to == f.statements[order[n]].last
    <3>1. n \in 1..Len(order) /\ n - 1 \in X
      BY <1>1, <2>2
    <3>2. text \in Seq(Nat)
      BY <3>1
    <3>3. from \in Nat /\ to \in Nat /\ 1 <= from /\ from <= to
      <4>1. order[n] \in DOMAIN f.statements
        BY <3>1
      <4> QED BY <4>1, StatementIs
    <3> HIDE DEF text, from, to
    <3>4. Cut(text, from, to) \in K
      <4>1. CASE to <= Len(text)
        BY <3>2, <3>3, <4>1, CutIs
      <4>2. CASE ~(to <= Len(text))
        BY <3>2, <4>2 DEF Cut
      <4> QED BY <4>1, <4>2
    <3> QED BY <2>2, <3>4 DEF text, from, to
  <2> QED BY <2>1, <2>2
<1>3. ASSUME NEW n \in X, NEW g \in F, NEW h \in F,
             \A m \in Sub[n] : g[m] = h[m]
      PROVE  Of(g, n) = Of(h, n)
  BY <1>3
<1>4. \A n \in X : \A m \in Sub[n] : m \in X /\ D[m] < D[n]
  BY <1>1
<1>5. Descends(X, K, D, Sub, B)
  <2>1. B \in [X \X F -> K]
    BY <1>2
  <2>2. ASSUME NEW n \in X, NEW g \in F, NEW h \in F, \A m \in Sub[n] : g[m] = h[m]
        PROVE  B[<<n, g>>] = B[<<n, h>>]
    <3>1. B[<<n, g>>] = Of(g, n) /\ B[<<n, h>>] = Of(h, n)
      OBVIOUS
    <3> HIDE DEF B, Of, Sub, F, X
    <3> QED BY <1>3, <2>2, <3>1
  <2>3. <<>> \in K
    OBVIOUS
  <2>4. D \in [X -> Nat]
    BY <1>1
  <2> HIDE DEF B, Of, K, Sub, D, X
  <2> QED BY <1>4, <2>1, <2>2, <2>3, <2>4 DEF Descends
<1>6. PICK g \in F : \A n \in X : g[n] = B[<<n, g>>]
  <2> HIDE DEF B, D, Sub, X, K
  <2> QED BY <1>5, RecursionHolds
<1>7. g = Body(g)
  <2>1. \A n \in X : B[<<n, g>>] = Of(g, n)
    BY <1>6
  <2> HIDE DEF B, Of, X
  <2>2. g = [n \in X |-> g[n]]
    BY <1>6
  <2> QED BY <1>6, <2>1, <2>2
<1>8. Left(f, order) = CHOOSE h : h = Body(h)
  BY DEF Left
<1>9. Left(f, order) = Body(Left(f, order))
  <2> HIDE DEF Body
  <2> QED BY <1>7, <1>8
<1>10. ASSUME NEW n \in X PROVE Left(f, order)[n] = Of(Left(f, order), n)
  <2>1. Body(Left(f, order))[n] = Of(Left(f, order), n)
    OBVIOUS
  <2> HIDE DEF Body, Of
  <2> QED BY <1>9, <2>1
<1>11. 0 \in X /\ \A n \in 1..Len(order) : n \in X /\ n # 0
  BY <1>1
<1> HIDE DEF X
<1> QED BY <1>10, <1>11

(* The lines a statement stands on.                                        *)
LinesOf(f, i) == f.statements[i].first..f.statements[i].last

(* Where the last deletion was made: below it the text is still that of    *)
(* the file, line by line.                                                 *)
Edge(f, order, n) == IF n = 0 THEN f.size + 1 ELSE f.statements[order[n]].first

(* What holds after n deletions, made from the end of the file.            *)
Kept(f, order, n) ==
  LET text == Left(f, order)[n]
      edge == Edge(f, order, n)
  IN  /\ text \in Seq(Nat) /\ edge <= Len(text) + 1
      /\ \A l \in 1..(edge - 1) : text[l] = l
      /\ \A l \in edge..Len(text) : edge <= text[l]
      /\ \A v \in Nat : (\E l \in 1..Len(text) : text[l] = v) <=>
           v \in 1..f.size /\ \A m \in 1..n : v \notin LinesOf(f, order[m])

(* The first cut of a file that is cut from the end hits the lines it      *)
(* means, and so does every later one, as nothing above it has moved.      *)
LEMMA CutKeeps ==
  ASSUME NEW text \in Seq(Nat), NEW edge \in Nat, NEW from \in Nat, NEW to \in Nat,
         1 <= from, from <= to, to < edge, edge <= Len(text) + 1,
         \A l \in 1..(edge - 1) : text[l] = l,
         \A l \in edge..Len(text) : edge <= text[l]
  PROVE  LET cut == Cut(text, from, to)
         IN  /\ cut \in Seq(Nat) /\ from <= Len(cut) + 1
             /\ \A l \in 1..(from - 1) : cut[l] = l
             /\ \A l \in from..Len(cut) : from <= cut[l]
             /\ \A v \in Nat : (\E l \in 1..Len(cut) : cut[l] = v) <=>
                  /\ \E l \in 1..Len(text) : text[l] = v
                  /\ v \notin from..to
<1> DEFINE cut == Cut(text, from, to)
           gap == to + 1 - from
<1>1. /\ cut \in Seq(Nat) /\ Len(cut) = Len(text) - gap
      /\ \A l \in 1..(from - 1) : cut[l] = text[l]
      /\ \A l \in from..Len(cut) : cut[l] = text[l + gap]
  BY CutIs
<1>2. gap \in Nat /\ from + gap = to + 1 /\ Len(text) \in Nat
  OBVIOUS
<1> HIDE DEF cut, gap
<1>3. Len(cut) \in Nat /\ from <= Len(cut) + 1
  BY <1>1, <1>2
<1>4. \A l \in 1..(from - 1) : cut[l] = l
  BY <1>1
<1>5. \A l \in (to + 1)..Len(text) : text[l] \in Nat /\ to < text[l]
  <2> SUFFICES ASSUME NEW l \in (to + 1)..Len(text)
               PROVE  text[l] \in Nat /\ to < text[l]
    OBVIOUS
  <2>1. text[l] \in Nat
    BY <1>2
  <2>2. CASE l < edge
    BY <2>1, <2>2
  <2>3. CASE edge <= l
    <3>1. edge <= text[l]
      BY <1>2, <2>3
    <3> QED BY <2>1, <3>1
  <2> QED BY <2>2, <2>3
<1>6. \A l \in from..Len(cut) : l + gap \in (to + 1)..Len(text)
  BY <1>1, <1>2, <1>3
<1>7. \A l \in from..Len(cut) : cut[l] \in Nat /\ to < cut[l]
  BY <1>1, <1>5, <1>6
<1>8. ASSUME NEW l \in 1..Len(cut)
      PROVE  /\ \E m \in 1..Len(text) : text[m] = cut[l]
             /\ cut[l] \notin from..to
  <2>1. CASE l < from
    <3>1. l \in 1..(from - 1) /\ l \in 1..Len(text)
      BY <1>1, <1>2, <1>3, <2>1
    <3>2. cut[l] = text[l] /\ cut[l] = l
      BY <1>1, <1>4, <3>1
    <3> QED BY <2>1, <3>1, <3>2
  <2>2. CASE from <= l
    <3>1. l \in from..Len(cut)
      BY <1>3, <2>2
    <3>2. l + gap \in 1..Len(text) /\ cut[l] = text[l + gap]
      BY <1>1, <1>6, <3>1
    <3>3. cut[l] \in Nat /\ to < cut[l]
      BY <1>7, <3>1
    <3>4. cut[l] \notin from..to
      BY <3>3
    <3> QED BY <3>2, <3>4
  <2> QED BY <2>1, <2>2
<1>9. ASSUME NEW m \in 1..Len(text), text[m] \notin from..to
      PROVE  \E l \in 1..Len(cut) : cut[l] = text[m]
  <2>1. CASE m < from
    <3>1. m \in 1..(from - 1) /\ m \in 1..Len(cut)
      BY <1>3, <2>1
    <3> QED BY <1>1, <3>1
  <2>2. CASE from <= m /\ m <= to
    <3>1. text[m] = m
      BY <2>2
    <3> QED BY <1>9, <2>2, <3>1
  <2>3. CASE to < m
    <3>1. m - gap \in from..Len(cut) /\ m - gap \in 1..Len(cut)
      BY <1>1, <1>2, <1>3, <2>3
    <3>2. (m - gap) + gap = m
      BY <1>2
    <3> QED BY <1>1, <3>1, <3>2
  <2> QED BY <2>1, <2>2, <2>3
<1>10. \A l \in from..Len(cut) : from <= cut[l]
  BY <1>7
<1>11. ASSUME NEW v \in Nat
       PROVE  (\E l \in 1..Len(cut) : cut[l] = v) <=>
                /\ \E l \in 1..Len(text) : text[l] = v
                /\ v \notin from..to
  BY <1>8, <1>9
<1> QED BY <1>1, <1>3, <1>4, <1>10, <1>11 DEF cut

LEMMA KeptStep ==
  ASSUME NEW f \in Files, ~Crowded(f),
         NEW order \in Seq(DOMAIN f.statements),
         \A i, j \in DOMAIN order : i < j => order[i] > order[j],
         NEW n \in Nat, n + 1 <= Len(order), Kept(f, order, n)
  PROVE  Kept(f, order, n + 1)
<1> DEFINE i == order[n + 1]
           from == f.statements[i].first
           to == f.statements[i].last
           text == Left(f, order)[n]
           edge == Edge(f, order, n)
           cut == Left(f, order)[n + 1]
<1>1. n + 1 \in DOMAIN order /\ i \in DOMAIN f.statements
  OBVIOUS
<1>2. /\ f.size \in Nat /\ i \in Nat /\ from \in Nat /\ to \in Nat
      /\ 1 <= from /\ from <= to /\ to <= f.size
  BY <1>1, StatementIs
<1>3. edge \in Nat /\ to < edge
  <2>1. CASE n = 0
    BY <1>2, <2>1 DEF Edge
  <2>2. CASE n # 0
    <3> DEFINE j == order[n]
               start == f.statements[j].first
    <3>1. n \in DOMAIN order /\ j \in DOMAIN f.statements
      BY <2>2
    <3>2. start \in Nat /\ start <= f.statements[j].last /\ j \in Nat
          /\ f.statements[j].last \in Nat
      BY <3>1, StatementIs
    <3>3. i < j
      <4>1. n < n + 1
        OBVIOUS
      <4>2. order[n] > order[n + 1]
        BY <1>1, <3>1, <4>1
      <4> QED BY <1>2, <3>2, <4>2
    <3>4. from <= start
      <4>1. InText(f)
        BY FilesAssumption
      <4> HIDE DEF i, j
      <4> QED BY <1>1, <3>1, <3>3, <4>1 DEF InText
    <3>5. LinesOf(f, i) \cap LinesOf(f, j) = {}
      <4>1. i # j
        BY <1>2, <3>2, <3>3
      <4> HIDE DEF i, j
      <4> QED BY <1>1, <3>1, <4>1 DEF Crowded, LinesOf
    <3>6. start \in LinesOf(f, j)
      BY <3>2 DEF LinesOf
    <3>7. edge = start
      BY <2>2 DEF Edge
    <3>8. ~(start <= to)
      <4>1. start <= to => start \in LinesOf(f, i)
        BY <1>2, <3>2, <3>4 DEF LinesOf
      <4> QED BY <3>5, <3>6, <4>1
    <3> HIDE DEF start, edge
    <3> QED BY <1>2, <3>2, <3>7, <3>8
  <2> QED BY <2>1, <2>2
<1>4. cut = Cut(text, from, to)
  <2>1. n + 1 \in 1..Len(order) /\ (n + 1) - 1 = n
    BY <1>1
  <2>2. cut = Cut(Left(f, order)[(n + 1) - 1], from, to)
    <3>1. \A m \in 1..Len(order) :
            Left(f, order)[m] = Cut(Left(f, order)[m - 1],
                                    f.statements[order[m]].first,
                                    f.statements[order[m]].last)
      BY LeftIs
    <3> QED BY <2>1, <3>1
  <2> QED BY <2>1, <2>2
<1>5. /\ text \in Seq(Nat) /\ edge <= Len(text) + 1
      /\ \A l \in 1..(edge - 1) : text[l] = l
      /\ \A l \in edge..Len(text) : edge <= text[l]
      /\ \A v \in Nat : (\E l \in 1..Len(text) : text[l] = v) <=>
           v \in 1..f.size /\ \A m \in 1..n : v \notin LinesOf(f, order[m])
  BY DEF Kept
<1>6. /\ cut \in Seq(Nat) /\ from <= Len(cut) + 1
      /\ \A l \in 1..(from - 1) : cut[l] = l
      /\ \A l \in from..Len(cut) : from <= cut[l]
      /\ \A v \in Nat : (\E l \in 1..Len(cut) : cut[l] = v) <=>
           /\ \E l \in 1..Len(text) : text[l] = v
           /\ v \notin from..to
  <2> DEFINE new == Cut(text, from, to)
  <2>1. /\ new \in Seq(Nat) /\ from <= Len(new) + 1
        /\ \A l \in 1..(from - 1) : new[l] = l
        /\ \A l \in from..Len(new) : from <= new[l]
        /\ \A v \in Nat : (\E l \in 1..Len(new) : new[l] = v) <=>
             /\ \E l \in 1..Len(text) : text[l] = v
             /\ v \notin from..to
    <3> HIDE DEF text, edge, from, to, cut
    <3> QED BY <1>2, <1>3, <1>5, CutKeeps
  <2> HIDE DEF text, edge, from, to, cut, new
  <2>2. cut = new
    BY <1>4 DEF new
  <2> QED BY <2>1, <2>2
<1>7. Edge(f, order, n + 1) = from
  BY DEF Edge
<1>8. from..to = LinesOf(f, order[n + 1])
  BY DEF LinesOf
<1>9. \A m : m \in 1..(n + 1) <=> m \in 1..n \/ m = n + 1
  OBVIOUS
<1>10. \A v \in Nat : (\E l \in 1..Len(cut) : cut[l] = v) <=>
         v \in 1..f.size /\ \A m \in 1..(n + 1) : v \notin LinesOf(f, order[m])
  <2> HIDE DEF text, edge, from, to, cut, i
  <2> QED BY <1>5, <1>6, <1>8, <1>9
<1> HIDE DEF from, to, text, edge
<1> QED BY <1>6, <1>7, <1>10 DEF Kept, cut

LEMMA KeptAlways ==
  ASSUME NEW f \in Files, ~Crowded(f),
         NEW order \in Seq(DOMAIN f.statements),
         \A i, j \in DOMAIN order : i < j => order[i] > order[j]
  PROVE  Kept(f, order, Len(order))
<1> DEFINE S == {n \in Nat : n <= Len(order) => Kept(f, order, n)}
<1>1. 0 \in S
  <2>1. f.size \in Nat
    BY FilesAssumption DEF FileType
  <2> DEFINE text == [l \in 1..f.size |-> l]
  <2>2. Left(f, order)[0] = text
    BY LeftIs
  <2>3. text \in Seq(Nat) /\ Len(text) = f.size
    <3>1. text \in [1..f.size -> Nat]
      OBVIOUS
    <3> QED BY <2>1, <3>1
  <2>4. \A l \in 1..f.size : text[l] = l
    OBVIOUS
  <2>5. Edge(f, order, 0) = f.size + 1
    BY DEF Edge
  <2> HIDE DEF text
  <2>6. Kept(f, order, 0)
    BY <2>1, <2>2, <2>3, <2>4, <2>5 DEF Kept
  <2> QED BY <2>6
<1>2. ASSUME NEW n \in Nat, n \in S PROVE n + 1 \in S
  <2>1. ASSUME n + 1 <= Len(order) PROVE Kept(f, order, n + 1)
    <3>1. Kept(f, order, n)
      BY <1>2, <2>1
    <3> QED BY <2>1, <3>1, KeptStep
  <2> QED BY <2>1
<1>3. \A n \in Nat : n \in S
  <2> HIDE DEF S
  <2> QED BY <1>1, <1>2, Induction
<1> QED BY <1>3

(* What a file loses when statements are deleted: their lines, all of them *)
(* and no others.                                                          *)
LEMMA DeletionRemoves ==
  ASSUME NEW f \in Files, ~Crowded(f), NEW D \in SUBSET DOMAIN f.statements,
         ToDelete(f) = D
  PROVE  Removed(f) = UNION {LinesOf(f, i) : i \in D}
<1> DEFINE s == f.statements
           order == DeletionOrder(D)
           text == Left(f, order)[Len(order)]
<1>1. D \in SUBSET Nat /\ IsFiniteSet(D)
  <2>1. s \in Seq(Statement)
    BY FilesAssumption DEF FileType
  <2> HIDE DEF s
  <2>2. DOMAIN s = 1..Len(s) /\ Len(s) \in Nat
    BY <2>1
  <2>3. IsFiniteSet(1..Len(s))
    BY <2>2, FS_Interval
  <2>4. D \in SUBSET (1..Len(s))
    BY <2>2 DEF s
  <2> QED BY <2>2, <2>3, <2>4, FS_Subset
<1>2. /\ order \in Seq(D)
      /\ \A i, j \in DOMAIN order : i < j => order[i] > order[j]
      /\ \A d \in D : \E i \in DOMAIN order : order[i] = d
  BY <1>1, DeletionOrderIs
<1>3. Kept(f, order, Len(order))
  <2> HIDE DEF order
  <2>1. order \in Seq(DOMAIN f.statements)
    BY <1>2
  <2> QED BY <1>2, <2>1, KeptAlways
<1>4. /\ text \in Seq(Nat)
      /\ \A v \in Nat : (\E l \in 1..Len(text) : text[l] = v) <=>
           v \in 1..f.size /\ \A m \in 1..Len(order) : v \notin LinesOf(f, order[m])
  BY <1>3 DEF Kept
<1>5. Removed(f) = 1..f.size \ {text[l] : l \in DOMAIN text}
  BY DEF Removed, Repaired
<1>6. DOMAIN text = 1..Len(text) /\ DOMAIN order = 1..Len(order) /\ f.size \in Nat
  <2>1. f.size \in Nat
    BY FilesAssumption DEF FileType
  <2> HIDE DEF text, order
  <2> QED BY <1>2, <1>4, <2>1
<1>7. \A v \in Nat : v \in Removed(f) <=>
        v \in 1..f.size /\ \E m \in DOMAIN order : v \in LinesOf(f, order[m])
  <2> HIDE DEF text, order
  <2> QED BY <1>4, <1>5, <1>6
<1>8. \A v \in Nat : (\E m \in DOMAIN order : v \in LinesOf(f, order[m])) <=>
        \E d \in D : v \in LinesOf(f, d)
  <2>1. \A m \in DOMAIN order : order[m] \in D
    <3> HIDE DEF order
    <3> QED BY <1>2
  <2> HIDE DEF order
  <2> QED BY <1>2, <2>1
<1>9. \A d \in D : LinesOf(f, d) \subseteq 1..f.size
  <2> SUFFICES ASSUME NEW d \in D PROVE LinesOf(f, d) \subseteq 1..f.size
    OBVIOUS
  <2>1. /\ f.size \in Nat
        /\ f.statements[d].first \in Nat /\ f.statements[d].last \in Nat
        /\ 1 <= f.statements[d].first /\ f.statements[d].last <= f.size
    BY StatementIs
  <2> QED BY <2>1 DEF LinesOf
<1>10. 1..f.size \subseteq Nat /\ Removed(f) \subseteq 1..f.size
  BY <1>5, <1>6
<1> HIDE DEF order, text, s
<1> QED BY <1>7, <1>8, <1>9, <1>10

(* The index of a rule in rule_sources names its own statement, when the   *)
(* patch sees the statements in the order in which the rules were read.    *)
LEMMA DeletesItsOwn ==
  ASSUME NEW f \in Files, trial \in SUBSET Rule, Fits(f),
         ~OutOfOrder(f), ~Elsewhere(f)
  PROVE  /\ \A r \in trial : r - f.skip \in DOMAIN InTurn(f)
         /\ ToDelete(f) = {InTurn(f)[r - f.skip] : r \in trial}
<1> DEFINE turn == InTurn(f)
<1>1. f.skip \in Nat /\ f.count \in Nat
  BY FilesAssumption DEF FileType
<1>2. /\ Len(turn) \in Nat /\ DOMAIN turn = 1..Len(turn)
      /\ Len(turn) <= f.count /\ Collected(f) = turn
  <2>1. turn \in Seq(DOMAIN f.statements)
    BY InTurnIs
  <2>2. Len(turn) <= f.count /\ Collected(f) = turn
    BY DEF Fits, OutOfOrder
  <2> HIDE DEF turn
  <2> QED BY <2>1, <2>2
<1>3. trial \subseteq (f.skip + 1)..(f.skip + Len(turn))
  BY DEF Elsewhere
<1> HIDE DEF turn
<1>4. ASSUME NEW r \in trial
      PROVE  /\ r \in Nat /\ r - f.skip \in 1..Len(turn)
             /\ r \in (f.skip + 1)..(f.skip + f.count)
             /\ r - f.skip - 1 \in 0..(Len(turn) - 1)
             /\ (r - f.skip - 1) + 1 = r - f.skip
  <2>1. r \in (f.skip + 1)..(f.skip + Len(turn))
    BY <1>3
  <2> QED BY <1>1, <1>2, <2>1
<1>5. Indices(f) = {r - f.skip - 1 : r \in trial}
  BY <1>4 DEF Indices
<1>6. ToDelete(f) = {turn[i + 1] : i \in Indices(f) \cap 0..(Len(turn) - 1)}
  BY <1>2 DEF ToDelete
<1>7. Indices(f) \cap 0..(Len(turn) - 1) = {r - f.skip - 1 : r \in trial}
  BY <1>4, <1>5
<1>8. ToDelete(f) = {turn[r - f.skip] : r \in trial}
  <2>1. ToDelete(f) = {turn[i + 1] : i \in {r - f.skip - 1 : r \in trial}}
    BY <1>6, <1>7
  <2>2. ASSUME NEW x \in ToDelete(f) PROVE \E r \in trial : x = turn[r - f.skip]
    BY <1>4, <2>1, <2>2
  <2>3. ASSUME NEW r \in trial PROVE turn[r - f.skip] \in ToDelete(f)
    <3>1. turn[(r - f.skip - 1) + 1] \in ToDelete(f)
      BY <2>1
    <3> QED BY <1>4, <3>1
  <2> QED BY <2>2, <2>3
<1> QED BY <1>2, <1>4, <1>8 DEF turn

(* A rule loses a line exactly when its statement is among those deleted.  *)
LEMMA GoneIs ==
  ASSUME NEW f \in Files, trial \in SUBSET Rule, ~Crowded(f),
         \A r \in trial : r - f.skip \in DOMAIN InTurn(f),
         patch.lines = UNION {LinesOf(f, InTurn(f)[r - f.skip]) : r \in trial}
  PROVE  Gone(f) = trial
<1> DEFINE turn == InTurn(f)
           Hit(m) == LinesOf(f, turn[m]) \cap patch.lines # {}
<1>1. f.skip \in Nat
  BY FilesAssumption DEF FileType
<1>2. /\ turn \in Seq(DOMAIN f.statements)
      /\ \A m, n \in DOMAIN turn : turn[m] = turn[n] => m = n
  BY InTurnIs
<1>3. \A m \in DOMAIN turn : m \in Nat /\ turn[m] \in DOMAIN f.statements
  <2> HIDE DEF turn
  <2> QED BY <1>2
<1>4. Gone(f) = {f.skip + n : n \in {m \in DOMAIN turn : Hit(m)}}
  BY DEF Gone, LinesOf
<1>5. ASSUME NEW r \in trial PROVE r \in Gone(f)
  <2>1. r - f.skip \in DOMAIN turn /\ r \in Nat
    BY RepairAssumption DEF Rule
  <2> DEFINE i == turn[r - f.skip]
  <2>2. i \in DOMAIN f.statements
    BY <1>3, <2>1
  <2>3. f.statements[i].first \in LinesOf(f, i)
    <3>1. /\ f.statements[i].first \in Nat /\ f.statements[i].last \in Nat
          /\ f.statements[i].first <= f.statements[i].last
      BY <2>2, StatementIs
    <3> QED BY <3>1 DEF LinesOf
  <2>4. Hit(r - f.skip)
    BY <2>3
  <2>5. f.skip + (r - f.skip) = r
    BY <1>1, <2>1
  <2> HIDE DEF Hit, turn
  <2> QED BY <1>4, <2>1, <2>4, <2>5
<1>6. ASSUME NEW g \in Gone(f) PROVE g \in trial
  <2>1. PICK n \in DOMAIN turn : Hit(n) /\ g = f.skip + n
    <3> HIDE DEF Hit, turn
    <3> QED BY <1>4, <1>6
  <2>2. PICK r \in trial : LinesOf(f, turn[n]) \cap LinesOf(f, turn[r - f.skip]) # {}
    <3>1. PICK v \in LinesOf(f, turn[n]) : v \in patch.lines
      BY <2>1
    <3>2. PICK r \in trial : v \in LinesOf(f, turn[r - f.skip])
      BY <3>1
    <3> QED BY <3>1, <3>2
  <2>3. r - f.skip \in DOMAIN turn /\ r \in Nat
    BY RepairAssumption DEF Rule
  <2>4. turn[n] = turn[r - f.skip]
    <3>1. turn[n] \in DOMAIN f.statements /\ turn[r - f.skip] \in DOMAIN f.statements
      BY <1>3, <2>1, <2>3
    <3> HIDE DEF turn
    <3> QED BY <2>2, <3>1 DEF Crowded, LinesOf
  <2>5. n = r - f.skip
    <3> HIDE DEF turn
    <3> QED BY <1>2, <2>1, <2>3, <2>4
  <2>6. g = r
    BY <1>1, <2>1, <2>3, <2>5
  <2> QED BY <2>6
<1> QED BY <1>5, <1>6

(* A patch is made of what the search found, and the search moves no more. *)
LEMMA PatchInvHolds == PatchSpec => []PatchInv
<1>1. PatchInit => PatchInv
  <2>1. PatchInit => IInv
    BY InitInv DEF PatchInit
  <2> QED BY <2>1 DEF PatchInit, PatchInv
<1>2. PatchInv /\ [PatchNext]_allVars => PatchInv'
  <2> SUFFICES ASSUME PatchInv, [PatchNext]_allVars PROVE PatchInv'
    OBVIOUS
  <2>1. [Next]_vars
    BY DEF PatchNext, Search, MakePatch, allVars
  <2>2. IInv'
    BY <2>1, NextInv DEF PatchInv
  <2>3. CASE Search
    <3>1. pc # "done"
      BY <2>3 DEF Search, Next, NoTarget, NotVulnerable, NothingToDelete, Prefilter,
                  TryFails, TryRestores, SubRestores, SubFails, Final
    <3>2. patch = NoPatch
      BY <3>1 DEF PatchInv, IInv, Pending
    <3> QED BY <2>2, <2>3, <3>2 DEF PatchInv, Search, NoPatch, Patch
  <2>4. CASE MakePatch
    <3>1. PICK f \in Files : Fits(f) /\ file' = f /\ patch' = PatchOf(f)
      BY <2>4 DEF MakePatch
    <3>2. UNCHANGED <<rules, trial, status>>
      BY <2>4 DEF MakePatch, vars, input
    <3>3. Fits(file)'
      BY <3>1, <3>2 DEF Fits
    <3>4. PatchOf(file)' = PatchOf(f)
      BY <3>1, <3>2 DEF PatchOf, Removed, Repaired, ToDelete, Indices
    <3>5. status' \in {"REMEDIATED_MINIMAL", "FAILED"}
      BY <2>4, <3>2 DEF MakePatch
    <3> QED BY <2>2, <3>1, <3>3, <3>4, <3>5 DEF PatchInv
  <2>5. CASE UNCHANGED allVars
    <3>1. UNCHANGED <<rules, trial, status, file, patch>>
      BY <2>5 DEF allVars, vars, input
    <3>2. Fits(file)' = Fits(file)
      BY <3>1 DEF Fits
    <3>3. PatchOf(file)' = PatchOf(file)
      BY <3>1 DEF PatchOf, Removed, Repaired, ToDelete, Indices
    <3> QED BY <2>2, <3>1, <3>2, <3>3 DEF PatchInv, NoPatch, Patch
  <2> QED BY <2>3, <2>4, <2>5 DEF PatchNext
<1> QED BY <1>1, <1>2, PTL DEF PatchSpec

(* For any resource and any file it was read from: a patch of the file     *)
(* removes the statements of the rules found, whole, and no other line,    *)
(* unless the statements are out of order, elsewhere or share lines.       *)
THEOREM RepairPatchIsFix == PatchSpec => []PatchIsFix
<1>1. PatchInv => PatchIsFix
  <2> SUFFICES ASSUME PatchInv, status = "REMEDIATED_MINIMAL", patch.kind = "edit",
                      ~OutOfOrder(file), ~Elsewhere(file), ~Crowded(file)
               PROVE  /\ Gone(file) = trial /\ verdict[Gone(file)] = "UNSAT"
                      /\ patch.lines =
                         UNION {LET s == file.statements[InTurn(file)[r - file.skip]]
                                IN  s.first..s.last : r \in trial}
    BY DEF PatchIsFix
  <2>1. trial \in SUBSET Rule /\ verdict[trial] = "UNSAT"
    BY DEF PatchInv, IInv, TypeOK, FixIsMinimal
  <2>2. file \in Files /\ Fits(file) /\ patch = PatchOf(file)
    BY DEF PatchInv, NoPatch, Patch
  <2>3. patch.lines = Removed(file)
    BY <2>2 DEF PatchOf, Patch, Lost, Sketch
  <2>4. /\ \A r \in trial : r - file.skip \in DOMAIN InTurn(file)
        /\ ToDelete(file) = {InTurn(file)[r - file.skip] : r \in trial}
    BY <2>1, <2>2, DeletesItsOwn
  <2>5. ToDelete(file) \in SUBSET DOMAIN file.statements
    <3>1. InTurn(file) \in Seq(DOMAIN file.statements)
      BY <2>2, InTurnIs
    <3>2. \A m \in DOMAIN InTurn(file) : InTurn(file)[m] \in DOMAIN file.statements
      BY <3>1
    <3> QED BY <2>4, <3>2
  <2>6. patch.lines = UNION {LinesOf(file, i) : i \in ToDelete(file)}
    BY <2>2, <2>3, <2>5, DeletionRemoves
  <2>7. patch.lines = UNION {LinesOf(file, InTurn(file)[r - file.skip]) : r \in trial}
    BY <2>4, <2>6
  <2>8. Gone(file) = trial
    BY <2>1, <2>2, <2>4, <2>7, GoneIs
  <2> QED BY <2>1, <2>7, <2>8 DEF LinesOf
<1> QED BY <1>1, PatchInvHolds, PTL
=============================================================================
