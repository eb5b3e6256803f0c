---------------------------- MODULE Expressions ----------------------------
(***************************************************************************)
(* The values of a configuration's attributes and how parser/variables.py  *)
(* and parser/references.py resolve them.                                  *)
(*                                                                         *)
(* An expression is a literal, a list, "${var.x}", "${local.x}", text that *)
(* contains one of these, "${each.value}" (or count.index), "${a.attr}"    *)
(* for a resource a, or anything else.  A value is a literal, a list, a    *)
(* ResourceReference, or Unresolved: of a resource's attribute ([res |->   *)
(* a], the reason names a) or of something that names no resource (Gone).  *)
(***************************************************************************)
EXTENDS Naturals, Sequences, FiniteSets

CONSTANTS
  Around,     \* literal -> the text an interpolation makes with it
  ListText    \* the text an interpolation makes with a list

Lit(x) == [lit |-> x]
Items(s) == [items |-> s]
VarOf(n) == [var |-> n]
LocalOf(n) == [local |-> n]
TextOf(e) == [text |-> e]
ResOf(a) == [res |-> a]
Ref(a) == [ref |-> a]
Each == [each |-> TRUE]
Gone == [gone |-> TRUE]
Absent == [absent |-> TRUE]   \* no value: the attribute is not there

(* A value or expression of a form, and a rule of a kind that has a field.   *)
Is(v, form) == DOMAIN v = {form}
Has(r, field) == field \in DOMAIN r
IsUnresolved(v) == Is(v, "gone") \/ Is(v, "res")

(* _process_attribute_value: a list of one item that is no list is taken for *)
(* the item, in attributes and in the lists there.                          *)
Wraps(e) == Is(e, "items") /\ DOMAIN e.items = {1} /\ ~Is(e.items[1], "items")

Unwrap(e) ==
  IF Wraps(e) THEN e.items[1]
  ELSE IF Is(e, "items")
    THEN Items([i \in DOMAIN e.items |->
                  IF Wraps(e.items[i]) THEN e.items[i].items[1] ELSE e.items[i]])
    ELSE e

(* Declarations, locals and tfvars: any list of one item is taken for the    *)
(* item, and what is in it is left as it is.                                *)
OnlyItem(e) == IF Is(e, "items") /\ DOMAIN e.items = {1} THEN e.items[1] ELSE e

(* A dictionary of one entry, and f.update onto g: the entries of f and, for *)
(* other names, those of g.                                                 *)
Single(x, v) == [y \in {x} |-> v]
Overlay(f, g) ==
  [x \in DOMAIN f \cup DOMAIN g |-> IF x \in DOMAIN f THEN f[x] ELSE g[x]]

(* load_variable_values: the default of the declaration, terraform.tfvars   *)
(* over it, terraform.tfvars.json over both.  A file that does not parse is *)
(* skipped: its layer is empty.                                             *)
LoadVariables(declared, tfvars, json) ==
  [n \in DOMAIN declared \cup DOMAIN tfvars \cup DOMAIN json |->
     IF n \in DOMAIN json THEN json[n]
     ELSE IF n \in DOMAIN tfvars THEN OnlyItem(tfvars[n])
     ELSE OnlyItem(declared[n])]

-----------------------------------------------------------------------------
(* resolve_attribute on an expression that is no list: a name is replaced    *)
(* by its value, which is not looked into; a name without one is Unresolved. *)
Lookup(e, vars, locals) ==
  CASE Is(e, "var") -> IF e.var \in DOMAIN vars THEN vars[e.var] ELSE Gone
    [] Is(e, "local") ->
         IF e.local \in DOMAIN locals THEN locals[e.local] ELSE Gone
    [] Is(e, "each") -> Gone
    [] OTHER -> e

(* Inline interpolation: str() of whatever the name stands for.             *)
Interpolate(v) ==
  IF IsUnresolved(v) THEN v
  ELSE IF Is(v, "lit") THEN Lit(Around[v.lit]) ELSE Lit(ListText)

ResolveScalar(e, vars, locals) ==
  IF Is(e, "text") THEN Interpolate(Lookup(e.text, vars, locals))
                   ELSE Lookup(e, vars, locals)

(* A list is resolved item by item and is itself never Unresolved; lists    *)
(* written in lists are left out.                                           *)
Resolve(e, vars, locals) ==
  IF Is(e, "items")
    THEN Items([i \in DOMAIN e.items |->
                  ResolveScalar(e.items[i], vars, locals)])
    ELSE ResolveScalar(e, vars, locals)

(* _substitute_in_value: an instance's key or index in place of the name.   *)
SubstituteScalar(e, v) ==
  CASE Is(e, "each") -> v
    [] Is(e, "text") /\ Is(e.text, "each") -> Interpolate(v)
    [] OTHER -> e

Substitute(e, v) ==
  IF Is(e, "items")
    THEN Items([i \in DOMAIN e.items |-> SubstituteScalar(e.items[i], v)])
    ELSE SubstituteScalar(e, v)

-----------------------------------------------------------------------------
(* Addresses are <<module prefix, address, instance key>>.                  *)

(* _try_resolve_unresolved: the address as it is written, that is in the    *)
(* root module, before the address within the resource's own module.        *)
ReferenceOf(v, at, graph) ==
  LET own == <<at[1], v.res[2], v.res[3]>> IN
  IF v.res \in graph THEN Ref(v.res)
  ELSE IF own \in graph THEN Ref(own) ELSE v

ReferTo(v, at, graph) ==
  LET To(x) == IF Is(x, "res") THEN ReferenceOf(x, at, graph) ELSE x IN
  IF Is(v, "items") /\ \E i \in DOMAIN v.items : Is(v.items[i], "res")
    THEN Items([i \in DOMAIN v.items |-> To(v.items[i])]) ELSE To(v)
=============================================================================
