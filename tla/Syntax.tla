------------------------------- MODULE Syntax -------------------------------
(* Syntax trees as the analysis reads them (src/src/syntax/tree.rs). A tree *)
(* is the sequence of its nodes in the order in which they begin; a node    *)
(* names its parent (0 for the root), the field of the parent it stands in, *)
(* whether it is named, and its text when it is a leaf. What tree-sitter    *)
(* makes of a source is outside of the model.                               *)
EXTENDS Naturals, Sequences, FiniteSetsExt

Nodes(tree) == DOMAIN tree

Children(tree, n) == {m \in Nodes(tree) : tree[m].parent = n}

NamedChildren(tree, n) == {m \in Children(tree, n) : tree[m].named}

(* The children of n in its field f: none, one, or several in a row.        *)
InField(tree, n, f) == {m \in Children(tree, n) : tree[m].field = f}

HasField(tree, n, f) == InField(tree, n, f) # {}

(* The first node of some, in source order; 0 if there is none.             *)
FirstOrNone(nodes) == IF nodes = {} THEN 0 ELSE Min(nodes)

(* The first child of n, in source order, that stands in field f.           *)
TheField(tree, n, f) == FirstOrNone(InField(tree, n, f))

FirstNamed(tree, n) == FirstOrNone(NamedChildren(tree, n))

(* Nodes of a tree in the order in which they begin.                        *)
InOrder(nodes) ==
  [i \in 1..Cardinality(nodes) |->
     CHOOSE n \in nodes : Cardinality({m \in nodes : m < n}) = i - 1]

(* What of a sequence stands at some of its places.                         *)
AtPlaces(s, places) ==
  LET order == InOrder(places) IN [i \in 1..Cardinality(places) |-> s[order[i]]]

(* The kind of a node, "" of the place above the root.                      *)
KindAt(tree, n) == IF n \in Nodes(tree) THEN tree[n].kind ELSE ""

(* n and every node above it.                                               *)
Above(tree, n) ==
  LET up[m \in 0..Len(tree)] == IF m = 0 THEN {} ELSE {m} \cup up[tree[m].parent]
  IN  up[n]

(* n and every node below it: the range that n covers.                      *)
Within(tree, n) == {m \in Nodes(tree) : n \in Above(tree, m)}

(* The sibling next to n on either side, named or not; 0 if there is none.  *)
PrevSibling(tree, n) ==
  LET before == {m \in Children(tree, tree[n].parent) : m < n}
  IN  IF before = {} THEN 0 ELSE CHOOSE m \in before : \A k \in before : k <= m

NextSibling(tree, n) ==
  LET after == {m \in Children(tree, tree[n].parent) : m > n}
  IN  IF after = {} THEN 0 ELSE CHOOSE m \in after : \A k \in after : m <= k

(* Some sibling next to n is the symbol s.                                  *)
IsSymbol(tree, n, s) == n # 0 /\ ~tree[n].named /\ tree[n].kind = s

(* LineRange::contains and overlaps.                                        *)
Covers(range, line) == range.first <= line /\ line <= range.last
Overlaps(r, s) == r.first <= s.last /\ s.first <= r.last

(* The grammars of one language (Grammar::same_language_as).                *)
Grammars == {"TypeScript", "Tsx", "Rust", "Java", "Swift"}
IsTypeScript(g) == g \in {"TypeScript", "Tsx"}
SameLanguage(g, h) == g = h \/ (IsTypeScript(g) /\ IsTypeScript(h))

(* Expressions that pass their value through (TRANSPARENT_EXPRESSION_KINDS).*)
TransparentKinds ==
  {"parenthesized_expression", "as_expression", "satisfies_expression",
   "non_null_expression", "type_assertion", "instantiation_expression"}

(* The expressions wrapped around n, nothing else between.                  *)
Wrappers(tree, n) ==
  {m \in Above(tree, n) \ {n} :
     \A k \in Above(tree, n) \ {n} : k >= m => tree[k].kind \in TransparentKinds}

(* The first node around n that is no such wrapper; 0 above the root.       *)
UnwrappedParent(tree, n) ==
  LET wrappers == Wrappers(tree, n)
  IN  IF wrappers = {} THEN tree[n].parent
      ELSE tree[CHOOSE m \in wrappers : \A k \in wrappers : m <= k].parent
=============================================================================
