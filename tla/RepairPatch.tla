----------------------------- MODULE RepairPatch -----------------------------
(***************************************************************************)
(* What repair_resource hands out: the fix it found, as a patch of the     *)
(* file the resource was read from (generate_unified_diff and              *)
(* ASTRepairEngine.repair_hcl).  The search names a rule by its place in   *)
(* rule_sources, the patch deletes the statement at that place among those *)
(* it sees in the syntax tree, line by line.                               *)
(***************************************************************************)
EXTENDS Repair, Sequences

CONSTANT
  Files  \* what the file of a repaired resource may look like, see FileType

(* A statement of the resource's block: the lines it stands on, the turn in *)
(* which the parser reads its rule (ingress before egress, the trust policy *)
(* before inline ones; 0 is no rule at all), and whether it is written in a *)
(* way the patch knows.                                                     *)
Statement == [first : Nat, last : Nat, turn : Nat, seen : BOOLEAN]

(* A file: the resource's statements in order, the lines that hold anything *)
(* else, and which candidates are rules of this resource: those after       *)
(* "skip", "count" in all, the last ones merged from other blocks.          *)
FileType == [state : {"readable", "unparsed", "gone", "unreadable"},
             size : Nat, statements : Seq(Statement), other : SUBSET Nat,
             skip : Nat, count : Nat]

(* The statements of a tree come one after the other, each on lines of the  *)
(* file; two may share a line.                                              *)
InText(f) ==
  LET s == f.statements
  IN  \A i \in DOMAIN s :
        /\ 1 <= s[i].first /\ s[i].first <= s[i].last /\ s[i].last <= f.size
        /\ \A j \in DOMAIN s : i < j => s[i].first <= s[j].first

ASSUME FilesAssumption == \A f \in Files : f \in FileType /\ InText(f)

VARIABLES
  file,   \* the file, when the patch is made
  patch   \* what is handed out, and the lines of the file it removes

allVars == <<vars, file, patch>>

NoFile == [state |-> "none", size |-> 0, statements |-> <<>>, other |-> {},
           skip |-> 0, count |-> 0]

Patch(kind, lines) == [kind |-> kind, lines |-> lines]

NoPatch == Patch("none", {})
Sketch == Patch("sketch", {})   \* a diff of a block made up for the purpose
Lost == Patch("lost", {})       \* logging is not imported: the handler raises

-----------------------------------------------------------------------------
(* A set as a sequence in which each member comes before those that follow. *)
Sorted(X, Comes(_, _)) ==
  CHOOSE s \in [1..Cardinality(X) -> X] :
    \A i, j \in DOMAIN s : i < j => Comes(s[i], s[j])

(* The statements with rules, in the order of rule_sources.                 *)
InTurn(f) ==
  LET s == f.statements
  IN  Sorted({i \in DOMAIN s : s[i].turn > 0},
             LAMBDA i, j : \/ s[i].turn < s[j].turn
                           \/ s[i].turn = s[j].turn /\ i < j)

(* _collect_statement_nodes: in the order of the file.                      *)
Collected(f) ==
  LET s == f.statements
  IN  Sorted({i \in DOMAIN s : s[i].seen}, LAMBDA i, j : i < j)

(* The statement_index of the deleted rules that carry this address.        *)
Indices(f) == {r - f.skip - 1 : r \in trial \cap (f.skip + 1)..(f.skip + f.count)}

ToDelete(f) == {Collected(f)[i + 1] : i \in Indices(f) \cap 0..(Len(Collected(f)) - 1)}

(* Faulty: deletes from the top, with line numbers that are stale by then.  *)
InFileOrder(nodes) == Sorted(nodes, LAMBDA i, j : i < j)

(* Sorted by their first line, the last one first.                          *)
DeletionOrder(nodes) == Sorted(nodes, LAMBDA i, j : i > j)

(* del modified_lines[start_line : end_line + 1], where the range fits.     *)
Cut(text, from, to) ==
  IF to <= Len(text)
  THEN SubSeq(text, 1, from - 1) \o SubSeq(text, to + 1, Len(text))
  ELSE text

(* The lines of the file that are left after each of the deletions.         *)
Left(f, order) ==
  LET left[n \in 0..Len(order)] ==
        IF n = 0 THEN [l \in 1..f.size |-> l]
        ELSE Cut(left[n - 1], f.statements[order[n]].first,
                 f.statements[order[n]].last)
  IN  left

(* The lines that repair_hcl leaves.                                        *)
Repaired(f) ==
  LET order == DeletionOrder(ToDelete(f))
  IN  Left(f, order)[Len(order)]

Removed(f) == LET text == Repaired(f) IN 1..f.size \ {text[l] : l \in DOMAIN text}

(* generate_unified_diff: a file that cannot be used, a resource that is    *)
(* not in it and an edit that changes nothing all end in the sketch.        *)
PatchOf(f) ==
  CASE f.state = "unreadable" -> Lost
    [] f.state \in {"gone", "unparsed"} -> Sketch
    [] OTHER -> IF Removed(f) = {} THEN Sketch
                   ELSE Patch("edit", Removed(f))

(* The file is one these rules can have been read from.                     *)
Fits(f) ==
  /\ f.skip + f.count <= Cardinality(rules)
  /\ Len(InTurn(f)) <= f.count

(* A deletion was found, whatever its last verification said.               *)
MakePatch ==
  /\ status \in {"REMEDIATED_MINIMAL", "FAILED"} /\ patch = NoPatch
  /\ \E f \in Files : Fits(f) /\ file' = f /\ patch' = PatchOf(f)
  /\ UNCHANGED vars

PatchInit == Init /\ file = NoFile /\ patch = NoPatch

Search == Next /\ UNCHANGED <<file, patch>>

PatchNext == Search \/ MakePatch

PatchSpec == PatchInit /\ [][PatchNext]_allVars /\ WF_allVars(Search)

-----------------------------------------------------------------------------
(* Files for which the patch is known not to be the fix.  The index is that *)
(* of another statement; a rule is written in another block, or in a way    *)
(* the patch does not know; statements share a line.                        *)
OutOfOrder(f) == Collected(f) # InTurn(f)

Elsewhere(f) == ~(trial \subseteq (f.skip + 1)..(f.skip + Len(InTurn(f))))

Crowded(f) ==
  LET s == f.statements
      Lines(i) == s[i].first..s[i].last
  IN  \E i \in DOMAIN s : \/ Lines(i) \cap f.other # {}
                          \/ \E j \in DOMAIN s \ {i} : Lines(i) \cap Lines(j) # {}

(* The rules whose statement loses a line to the patch.                     *)
Gone(f) ==
  {f.skip + n : n \in {m \in DOMAIN InTurn(f) :
     LET s == f.statements[InTurn(f)[m]]
     IN  (s.first..s.last) \cap patch.lines # {}}}

(* PROJECT_STATUS.md: the patch deletes exactly the spans of the statements *)
(* of the fix, "eliminating HCL formatting corruption".  A patch of the     *)
(* file removes the rules the search verified the removal of, no part of    *)
(* any other, and nothing else of the file; outside the files above, where  *)
(* it removes something else under the same status.                         *)
PatchIsFix ==
  /\ status = "REMEDIATED_MINIMAL" /\ patch.kind = "edit"
  /\ ~OutOfOrder(file) /\ ~Elsewhere(file) /\ ~Crowded(file)
  => /\ Gone(file) = trial /\ verdict[Gone(file)] = "UNSAT"
     /\ patch.lines =
        UNION {LET s == file.statements[InTurn(file)[r - file.skip]]
               IN  s.first..s.last : r \in trial}

-----------------------------------------------------------------------------
(* The invariant behind the proof: a patch is handed out once, when the     *)
(* search is over, so what it was made from is still what was found.        *)
PatchInv ==
  /\ IInv
  /\ patch # NoPatch => /\ status \in {"REMEDIATED_MINIMAL", "FAILED"}
                        /\ file \in Files /\ Fits(file)
                        /\ patch = PatchOf(file)
=============================================================================
