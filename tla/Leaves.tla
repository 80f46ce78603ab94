------------------------------- MODULE Leaves -------------------------------
(* Where two chunks of the same shape differ in their names and literals    *)
(* (src/src/syntax/leaf_divergence.rs). Names a chunk binds may be renamed, *)
(* one for one; every other spelling must be the same.                      *)
EXTENDS Tokens

(* Nodes whose `name` is a name they bind, by grammar.                      *)
NameBinders(grammar) ==
  CASE IsTypeScript(grammar) ->
         {"function_declaration", "generator_function_declaration", "function_expression",
          "generator_function", "class_declaration", "class", "type_parameter"}
    [] grammar = "Rust" -> {"function_item", "type_parameter", "const_parameter"}
    [] grammar = "Java" ->
         {"class_declaration", "formal_parameter", "catch_formal_parameter",
          "enhanced_for_statement", "variable_declarator", "resource", "instanceof_expression"}
    [] OTHER -> {"function_declaration"}

(* Nodes that bind by the pattern in one of their fields.                   *)
PatternField(grammar) ==
  CASE IsTypeScript(grammar) ->
         [required_parameter |-> "pattern", optional_parameter |-> "pattern",
          arrow_function |-> "parameter", variable_declarator |-> "name",
          for_in_statement |-> "left", catch_clause |-> "parameter"]
    [] grammar = "Rust" ->
         [parameter |-> "pattern", let_declaration |-> "pattern",
          for_expression |-> "pattern", let_condition |-> "pattern"]
    [] OTHER -> <<>>

-----------------------------------------------------------------------------
(* The parts of a TypeScript pattern that are patterns of their own: not    *)
(* the keys and the defaults of what is taken apart.                        *)
TypeScriptParts(tree, n) ==
  CASE tree[n].kind \in {"object_pattern", "array_pattern", "rest_pattern"} ->
         NamedChildren(tree, n)
    [] tree[n].kind = "pair_pattern" -> InField(tree, n, "value")
    [] tree[n].kind \in {"assignment_pattern", "object_assignment_pattern"} ->
         InField(tree, n, "left")
    [] OTHER -> {}

(* The parts of a Rust pattern; a field without a pattern binds its name.   *)
RustParts(tree, n) ==
  CASE tree[n].kind \in {"mut_pattern", "ref_pattern", "reference_pattern", "tuple_pattern",
                         "slice_pattern", "or_pattern", "captured_pattern"} ->
         NamedChildren(tree, n)
    [] tree[n].kind = "tuple_struct_pattern" ->
         NamedChildren(tree, n) \ InField(tree, n, "type")
    [] tree[n].kind = "struct_pattern" ->
         {m \in NamedChildren(tree, n) : tree[m].kind = "field_pattern"}
    [] tree[n].kind = "field_pattern" -> InField(tree, n, "pattern")
    [] OTHER -> {}

(* Rust cannot tell a constant from a binding but by its capital letter.    *)
BindsItself(tree, n, grammar) ==
  IF grammar = "Rust"
  THEN tree[n].kind = "identifier" /\ ~tree[n].capital
  ELSE tree[n].kind \in {"identifier", "shorthand_property_identifier_pattern"}

(* The names that the pattern n binds.                                      *)
PatternBinders(tree, n, grammar) ==
  LET parts(m) == IF grammar = "Rust" THEN RustParts(tree, m) ELSE TypeScriptParts(tree, m)
      from[m \in n..Len(tree)] ==
        CASE BindsItself(tree, m, grammar) -> {m}
          [] tree[m].kind = "field_pattern" /\ ~HasField(tree, m, "pattern") ->
               InField(tree, m, "name")
          [] OTHER -> UNION {from[k] : k \in parts(m)}
  IN  from[n]

-----------------------------------------------------------------------------
(* A Swift pattern binds only after `let` or `var`, by the field            *)
(* bound_identifier or by being a single name.                              *)
SwiftPatternBinders(tree, n, letBefore) ==
  LET binds[m \in n..Len(tree)] ==
        \/ IF m = n THEN letBefore ELSE binds[tree[m].parent]
        \/ \E k \in Children(tree, m) : tree[k].kind = "value_binding_pattern"
      nested == {m \in Within(tree, n) : \A k \in Above(tree, m) \cap Within(tree, n) :
                                           tree[k].kind = "pattern" \/ k = n}
      sole(m) == {k \in Children(tree, m) : tree[k].kind = "simple_identifier"
                                            /\ Children(tree, m) = {k}}
  IN  UNION {InField(tree, m, "bound_identifier") \cup sole(m) : m \in {k \in nested : binds[k]}}

(* The conditions of `if` and `guard` stand side by side: `let` counts up   *)
(* to the next comma, and a name only if `=` follows it.                    *)
SwiftConditionBinders(tree, n) ==
  LET letBefore(m) ==
        \E k \in Children(tree, n) :
          /\ k < m /\ tree[k].kind = "value_binding_pattern"
          /\ \A j \in Children(tree, n) : k < j /\ j < m => ~IsSymbol(tree, j, ",")
  IN  {m \in InField(tree, n, "bound_identifier") :
         /\ KindAt(tree, PrevSibling(tree, m)) = "value_binding_pattern"
         /\ IsSymbol(tree, NextSibling(tree, m), "=")}
      \cup UNION {SwiftPatternBinders(tree, m, letBefore(m)) :
                    m \in {k \in Children(tree, n) : tree[k].kind = "pattern"}}

(* A parameter without a label of its own is not bound: its name is the     *)
(* label, too. A closure's parameter has none.                              *)
SwiftBinders(tree, n) ==
  LET kind == tree[n].kind
      patterns(S, letBefore) == UNION {SwiftPatternBinders(tree, m, letBefore) : m \in S}
      first(k) == {m \in NamedChildren(tree, n) : tree[m].kind = k}
      item == InField(tree, n, "item")
  IN  CASE kind = "parameter" ->
             IF HasField(tree, n, "external_name") THEN InField(tree, n, "name") ELSE {}
        [] kind = "lambda_parameter" ->
             {m \in InField(tree, n, "name") : tree[m].kind = "simple_identifier"}
        [] kind = "type_parameter" ->
             {m \in first("type_identifier") : \A k \in first("type_identifier") : m <= k}
        [] kind = "property_declaration" -> patterns(first("pattern"), TRUE)
        [] kind = "for_statement" ->
             patterns(item, ~\E m \in item : \E k \in Children(tree, m) : tree[k].kind = "case")
        [] kind = "catch_block" -> patterns(InField(tree, n, "error"), FALSE)
        [] kind = "switch_pattern" -> patterns(NamedChildren(tree, n), FALSE)
        [] kind \in {"if_statement", "guard_statement"} -> SwiftConditionBinders(tree, n)
        [] OTHER -> {}
-----------------------------------------------------------------------------
(* Kinds of leaves that a renaming may touch.                               *)
BindableKinds == {"identifier", "type_identifier", "simple_identifier"}

(* What the forms of Java bind beyond their `name`; `_` is no name.         *)
JavaBinders(tree, n) ==
  LET kind == tree[n].kind
      parameters == InField(tree, n, "parameters")
      inferred == {m \in parameters : tree[m].kind = "inferred_parameters"}
      names == {m \in NamedChildren(tree, n) : tree[m].kind \in {"identifier", "type_identifier"}}
      found ==
        CASE kind \in NameBinders("Java") -> InField(tree, n, "name")
          [] kind = "lambda_expression" ->
               {m \in parameters : tree[m].kind = "identifier"}
               \cup UNION {NamedChildren(tree, m) : m \in inferred}
          [] kind \in {"type_parameter", "type_pattern", "record_pattern_component"} ->
               {m \in names : \A k \in names : k <= m}
          [] OTHER -> {}
  IN  {m \in found : tree[m].kind \in BindableKinds}

(* And those of Rust.                                                       *)
RustBinders(tree, n) ==
  CASE tree[n].kind = "lifetime_parameter" ->
         UNION {{k \in NamedChildren(tree, m) : \A j \in NamedChildren(tree, m) : k <= j} :
                  m \in InField(tree, n, "name")}
    [] tree[n].kind = "closure_parameters" ->
         UNION {PatternBinders(tree, m, "Rust") :
                  m \in {k \in NamedChildren(tree, n) : tree[k].kind # "parameter"}}
    [] tree[n].kind = "match_pattern" ->
         UNION {PatternBinders(tree, m, "Rust") :
                  m \in {k \in NamedChildren(tree, n) : \A j \in NamedChildren(tree, n) : k <= j}}
    [] OTHER -> {}

(* The names that the node n itself binds.                                  *)
BindersOf(tree, n, grammar) ==
  LET kind == tree[n].kind
      patternField == PatternField(grammar)
      byPattern == IF kind \in DOMAIN patternField
                   THEN InField(tree, n, patternField[kind]) ELSE {}
  IN  CASE grammar = "Java" -> JavaBinders(tree, n)
        [] grammar = "Swift" /\ kind # "function_declaration" -> SwiftBinders(tree, n)
        [] OTHER ->
             (IF kind \in NameBinders(grammar) THEN InField(tree, n, "name") ELSE {})
             \cup UNION {PatternBinders(tree, m, grammar) : m \in byPattern}
             \cup (IF grammar = "Rust" THEN RustBinders(tree, n) ELSE {})

(* bound_names_of: the first place where the chunk n binds the name `text`, *)
(* its own name apart; 0 if it does not.                                    *)
FirstBinder(tree, n, ownName, grammar, text) ==
  FirstOrNone({m \in UNION {BindersOf(tree, k, grammar) : k \in Within(tree, n)} :
                 m # ownName /\ tree[m].text = text})

-----------------------------------------------------------------------------
(* is_outside_name: a name that stands for a member, a path, a label or a   *)
(* method, however it is spelled.                                           *)
IsOutsideName(tree, n) ==
  LET p == tree[n].parent
      before == {m \in Children(tree, p) : m < n}
  IN  /\ p # 0
      /\ \/ tree[p].kind \in {"scoped_identifier", "scoped_type_identifier",
                              "shorthand_field_initializer", "value_argument_label"}
         \/ tree[n].field = "external_name"
         \/ IsSymbol(tree, PrevSibling(tree, n), ".")
         \/ /\ tree[p].kind \in {"tuple_expression", "tuple_type_item", "pattern"}
            /\ IsSymbol(tree, NextSibling(tree, n), ":")
         \/ <<tree[p].kind, tree[n].field>> \in
              {<<"method_invocation", "name">>, <<"element_value_pair", "key">>}
         \/ tree[p].kind = "method_reference" /\ \E m \in before : tree[m].kind = "::"

(* signature_type_nodes_of: the types written in the chunk's own signature. *)
ParameterTypes(tree, parameter, grammar) ==
  LET kind == tree[parameter].kind
      typed(fields) == {m \in Children(tree, parameter) : tree[m].field \in fields}
  IN  CASE grammar \in {"Rust", "Swift"} /\ kind = "parameter" -> typed({"type"})
        [] IsTypeScript(grammar) /\ kind \in {"required_parameter", "optional_parameter"} ->
             typed({"type"})
        [] grammar = "Java" /\ kind = "formal_parameter" -> typed({"type", "dimensions"})
        [] grammar = "Java" /\ kind \in {"spread_parameter", "receiver_parameter"} ->
             {m \in NamedChildren(tree, parameter) :
                tree[m].kind \notin {"modifiers", "annotation", "marker_annotation",
                                     "variable_declarator", "identifier", "this"}}
        [] OTHER -> {}

SignatureTypes(tree, n, grammar) ==
  LET fields == {"return_type", "type_parameters"}
                \cup (IF grammar = "Java" THEN {"type", "dimensions"} ELSE {})
      clauses == CASE grammar = "Java" -> {"throws"}
                   [] grammar = "Swift" -> {"type_parameters", "type_constraints"}
                   [] OTHER -> {"where_clause"}
      lists == IF grammar = "Swift" THEN {n} ELSE InField(tree, n, "parameters")
  IN  {m \in Children(tree, n) : tree[m].field \in fields}
      \cup {m \in NamedChildren(tree, n) : tree[m].kind \in clauses}
      \cup UNION {ParameterTypes(tree, p, grammar) :
                    p \in UNION {NamedChildren(tree, l) : l \in lists}}

(* SpellingContext::spelling_of: how one token is compared.                 *)
IsBoundBy(tree, m, first) ==
  /\ tree[m].kind \in BindableKinds /\ ~IsOutsideName(tree, m)
  /\ first # 0 /\ first <= m

IsBound(tree, n, m, ownName, grammar) ==
  m = ownName \/ IsBoundBy(tree, m, FirstBinder(tree, n, ownName, grammar, tree[m].text))

SpellingOf(tree, n, m, ownName, grammar) ==
  LET isLeaf == IsCollapsed(tree[m].kind) \/ Children(tree, m) = {}
      inType == \E s \in SignatureTypes(tree, n, grammar) : s \in Above(tree, m)
      as(how) == [token |-> TokenOf(tree[m].kind), how |-> how,
                  text |-> IF how = "Unspelled" THEN "" ELSE tree[m].text]
  IN  CASE ~isLeaf \/ inType -> as("Unspelled")
        [] IsBound(tree, n, m, ownName, grammar) -> as("Bound")
        [] OTHER -> as("Fixed")

(* ChunkLeaves::from_node.                                                  *)
LeavesOf(tree, n, ownName, grammar) ==
  LET nodes == TokenNodes(tree, n)
  IN  [i \in DOMAIN nodes |-> SpellingOf(tree, n, nodes[i], ownName, grammar)]

(* The second name may be taken twice.                                      *)
Slip_Consistent(renames, a, b) == \A r \in renames : r.a = a => r.b = b

-----------------------------------------------------------------------------
(* Renames::is_consistent: no pair so far has one of the two without the    *)
(* other.                                                                   *)
Consistent(renames, a, b) == \A r \in renames : r.a = a <=> r.b = b

(* One more pair of leaves: a name renamed as before, the same text, or a   *)
(* difference, which counts once.                                           *)
Seen(seen, mine, theirs, i) ==
  LET pair == [a |-> mine[i].text, b |-> theirs[i].text]
      both(how) == mine[i].how = how /\ theirs[i].how = how
      renamed == both("Bound") /\ Consistent(seen.renames, pair.a, pair.b)
      same == both("Fixed") /\ pair.a = pair.b
  IN  CASE renamed -> [seen EXCEPT !.renames = @ \cup {pair}]
        [] ~renamed /\ (same \/ \E k \in DOMAIN seen.leaves : seen.leaves[k] = pair) -> seen
        [] OTHER -> [seen EXCEPT !.leaves = Append(@, pair)]

SeenUpTo(mine, theirs, spelled) ==
  LET upTo[k \in 0..Len(spelled)] ==
        IF k = 0 THEN [renames |-> {}, leaves |-> <<>>]
        ELSE Seen(upTo[k - 1], mine, theirs, spelled[k])
  IN  upTo

Aligned(mine, theirs) ==
  /\ Len(mine) = Len(theirs)
  /\ \A i \in DOMAIN mine : /\ mine[i].token = theirs[i].token
                            /\ mine[i].how = "Unspelled" <=> theirs[i].how = "Unspelled"

(* ChunkLeaves::compared_with: [kind |-> "Unaligned" | "NoDivergence" |     *)
(* "Diverged", leaves |-> the pairs that differ, each once, as they come].  *)
ComparedWith(mine, theirs) ==
  LET spelled == InOrder({i \in DOMAIN mine : mine[i].how # "Unspelled"})
      diverged == SeenUpTo(mine, theirs, spelled)[Len(spelled)].leaves
  IN  CASE ~Aligned(mine, theirs) -> [kind |-> "Unaligned", leaves |-> <<>>]
        [] Aligned(mine, theirs) /\ diverged = <<>> -> [kind |-> "NoDivergence", leaves |-> <<>>]
        [] OTHER -> [kind |-> "Diverged", leaves |-> diverged]
=============================================================================
