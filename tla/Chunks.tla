------------------------------- MODULE Chunks -------------------------------
(* What is cut out of a file as a chunk, and what the chunk says of itself: *)
(* its name, its overload declarations, the annotations and the type names  *)
(* of its signature (src/src/syntax/chunk.rs, type_reference.rs). A file is *)
(* [tree, grammar, lines]; its nodes also have their first and last line,   *)
(* and whether something below them does not parse.                         *)
EXTENDS Leaves

(* is_chunk_node: functions and methods; outside of TypeScript with a body. *)
ChunkKinds(grammar) ==
  CASE IsTypeScript(grammar) ->
         {"function_declaration", "generator_function_declaration", "function_expression",
          "generator_function", "arrow_function", "method_definition"}
    [] grammar = "Rust" -> {"function_item"}
    [] grammar = "Java" ->
         {"method_declaration", "constructor_declaration", "compact_constructor_declaration"}
    [] OTHER -> {"function_declaration", "init_declaration", "deinit_declaration"}

IsChunkNode(file, n) ==
  /\ file.tree[n].kind \in ChunkKinds(file.grammar)
  /\ IsTypeScript(file.grammar) \/ HasField(file.tree, n, "body")

ChunkNodes(file) == {n \in Nodes(file.tree) : file.tree[n].named /\ IsChunkNode(file, n)}

-----------------------------------------------------------------------------
(* has_attribute: an attribute just before n, comments between; `test` as   *)
(* the last part of its path.                                               *)
HasTestAttribute(tree, n) ==
  LET before == {m \in NamedChildren(tree, tree[n].parent) : m < n}
      attached(m) == \A k \in before : k >= m =>
                       tree[k].kind \in {"attribute_item", "line_comment", "block_comment"}
  IN  \E m \in before :
        attached(m) /\ tree[m].kind = "attribute_item" /\ tree[m].text = "test"

(* has_java_test_annotation: an annotation among the modifiers of n itself  *)
(* whose name ends with Test.                                               *)
HasJavaTestAnnotation(tree, n) ==
  \E m \in NamedChildren(tree, n) :
    /\ tree[m].kind = "modifiers"
    /\ \A k \in NamedChildren(tree, n) : tree[k].kind = "modifiers" => m <= k
    /\ \E a \in NamedChildren(tree, m) :
         /\ tree[a].kind \in {"marker_annotation", "annotation"}
         /\ \E name \in InField(tree, a, "name") : tree[name].text = "Test"

(* is_swift_test_function: @Test, or what XCTest would run.                 *)
IsSwiftTestFunction(tree, n) ==
  LET modifiers == {m \in NamedChildren(tree, n) : tree[m].kind = "modifiers"}
      body == tree[n].parent
      class == IF body = 0 THEN 0 ELSE tree[body].parent
  IN  \/ \E m \in modifiers : \E a \in NamedChildren(tree, m) :
           tree[a].kind = "attribute" /\ tree[a].text = "Test"
      \/ /\ tree[n].kind = "function_declaration"
         /\ \E name \in InField(tree, n, "name") : tree[name].text = "test"
         /\ \A m \in NamedChildren(tree, n) : tree[m].kind # "parameter"
         /\ KindAt(tree, body) = "class_body" /\ KindAt(tree, class) = "class_declaration"
         /\ \E s \in NamedChildren(tree, class) :
              tree[s].kind = "inheritance_specifier" /\ tree[s].text = "XCTestCase"

(* is_typescript_test_callee: describe, it or test, perhaps .only or .skip. *)
IsTestCallee(tree, n) ==
  LET registers(m) == tree[m].kind = "identifier" /\ tree[m].text \in {"describe", "it", "test"}
  IN  \/ registers(n)
      \/ /\ tree[n].kind = "member_expression"
         /\ \E o \in InField(tree, n, "object") : registers(o)
         /\ \E p \in InField(tree, n, "property") : tree[p].text \in {"only", "skip"}

(* is_typescript_test_callback: the second argument of such a call, perhaps *)
(* wrapped, and nothing spread before it.                                   *)
IsTestCallback(tree, n) ==
  LET wrappers == Wrappers(tree, n)
      argument == IF wrappers = {} THEN n ELSE Min(wrappers)
      arguments == UnwrappedParent(tree, n)
      call == IF arguments = 0 THEN 0 ELSE tree[arguments].parent
      before == {m \in NamedChildren(tree, arguments) :
                   m < argument /\ tree[m].kind # "comment"}
  IN  /\ tree[n].kind \in {"arrow_function", "function_expression"}
      /\ KindAt(tree, arguments) = "arguments"
      /\ Cardinality(before) = 1 /\ \A m \in before : tree[m].kind # "spread_element"
      /\ KindAt(tree, call) = "call_expression"
      /\ \E f \in InField(tree, call, "function") : IsTestCallee(tree, f)

IsTestFunction(file, n) ==
  CASE file.grammar = "Rust" -> HasTestAttribute(file.tree, n)
    [] file.grammar = "Java" -> HasJavaTestAnnotation(file.tree, n)
    [] file.grammar = "Swift" -> IsSwiftTestFunction(file.tree, n)
    [] OTHER -> IsTestCallback(file.tree, n)

-----------------------------------------------------------------------------
(* FileChunks::from_tree: the chunks of a file, the functions that do not   *)
(* parse, and how many tests were left out.                                 *)
FileChunks(file, testsExcluded) ==
  LET excluded == {n \in ChunkNodes(file) : testsExcluded /\ IsTestFunction(file, n)}
      cut == {n \in ChunkNodes(file) \ excluded : ~file.tree[n].error}
      unparsable == (ChunkNodes(file) \ excluded) \ cut
  IN  [chunks |-> cut, excluded |-> Cardinality(excluded),
       unparsableStarts |-> {file.tree[n].first : n \in unparsable}]

(* Chunk::find_enclosing: the innermost function around a line. Of nested   *)
(* nodes the inner one begins later.                                        *)
FindEnclosing(file, line) ==
  LET around == {n \in ChunkNodes(file) : Covers(file.tree[n], line)}
      shortest == {n \in around : \A m \in around :
                     Cardinality(Within(file.tree, n)) <= Cardinality(Within(file.tree, m))}
      innermost == Min(shortest)
      found(kind, n) == [kind |-> kind, node |-> n]
  IN  CASE line > file.lines -> found("LineBeyondSource", 0)
        [] around = {} -> found("NoEnclosingFunction", 0)
        [] file.tree[innermost].error -> found("UnparsableFunction", innermost)
        [] OTHER -> found("Chunk", innermost)

-----------------------------------------------------------------------------
(* assigned_name_of: what an assignment names by its left side.             *)
AssignedName(tree, p) ==
  LET left == TheField(tree, p, "left")
  IN  CASE KindAt(tree, p) # "assignment_expression" \/ left = 0 -> 0
        [] HasField(tree, left, "property") -> TheField(tree, left, "property")
        [] tree[left].kind = "identifier" -> left
        [] OTHER -> 0

(* chunk_name_node_of: its own name; without one, the name it is assigned   *)
(* to through any wrappers. A Swift deinit is its own keyword.              *)
NameNode(file, n) ==
  LET tree == file.tree
      parent == UnwrappedParent(tree, n)
      keyword == {m \in Children(tree, n) : tree[m].kind = "deinit"}
  IN  CASE file.grammar = "Swift" /\ tree[n].kind = "deinit_declaration" ->
             FirstOrNone(keyword)
        [] HasField(tree, n, "name") \/ file.grammar = "Swift" -> TheField(tree, n, "name")
        [] parent = 0 -> 0
        [] HasField(tree, parent, "name") -> TheField(tree, parent, "name")
        [] HasField(tree, parent, "key") -> TheField(tree, parent, "key")
        [] OTHER -> AssignedName(tree, parent)

(* constructed_class_of: the class that a constructor makes, 0 otherwise.   *)
ConstructedClass(tree, n) ==
  IF /\ \E m \in InField(tree, n, "name") : tree[m].text = "constructor"
     /\ KindAt(tree, tree[n].parent) = "class_body"
  THEN tree[tree[n].parent].parent ELSE 0

OverloadKinds == {"function_signature", "method_signature"}

(* overload_declaration_in, enclosing_scope_of: a lone child is looked for  *)
(* one level deeper, the siblings of a lone child one level higher.         *)
DeclarationIn(tree, m) ==
  CASE tree[m].kind \in OverloadKinds -> {m}
    [] Cardinality(NamedChildren(tree, m)) = 1 ->
         {k \in NamedChildren(tree, m) : tree[k].kind \in OverloadKinds}
    [] OTHER -> {}

EnclosingScope(tree, n) ==
  LET p == tree[n].parent
  IN  IF p # 0 /\ Cardinality(NamedChildren(tree, p)) = 1 /\ tree[p].parent # 0
      THEN tree[p].parent ELSE p

IsStatic(tree, n) == \E m \in Children(tree, n) : tree[m].kind = "static"

(* Without the side: a class may have both under one name.                  *)
Slip_OverloadDeclarations(tree, n) ==
  LET named(m) == {tree[k].text : k \in InField(tree, m, "name")}
      scope == EnclosingScope(tree, n)
      declared == UNION {DeclarationIn(tree, m) : m \in NamedChildren(tree, scope)}
  IN  IF named(n) = {} \/ scope = 0 THEN {} ELSE {m \in declared : named(m) = named(n)}

(* overload_declaration_nodes_of: of the same name, on the same side, in    *)
(* the same scope.                                                          *)
OverloadDeclarations(tree, n) ==
  LET named(m) == {tree[k].text : k \in InField(tree, m, "name")}
      scope == EnclosingScope(tree, n)
      declared == UNION {DeclarationIn(tree, m) : m \in NamedChildren(tree, scope)}
  IN  IF named(n) = {} \/ scope = 0 THEN {}
      ELSE {m \in declared : named(m) = named(n) /\ IsStatic(tree, m) = IsStatic(tree, n)}

-----------------------------------------------------------------------------
Annotation(written) == IF written THEN "Written" ELSE "Omitted"

(* parameter_annotations_of: one entry for each parameter; `x => x` has one *)
(* that cannot be annotated.                                                *)
ParameterAnnotations(tree, n) ==
  LET list == TheField(tree, n, "parameters")
      parameters == {m \in NamedChildren(tree, list) :
                       tree[m].kind \in {"required_parameter", "optional_parameter"}}
      sorted == InOrder(parameters)
  IN  CASE list = 0 /\ HasField(tree, n, "parameter") -> <<"Omitted">>
        [] list = 0 -> <<>>
        [] OTHER -> [i \in DOMAIN sorted |-> Annotation(HasField(tree, sorted[i], "type"))]

(* value_type_annotation_of: a setter's type is that of its one parameter,  *)
(* a constructor's is written in its class.                                 *)
ValueAnnotation(tree, n) ==
  LET parameters == ParameterAnnotations(tree, n)
      setter == \E m \in Children(tree, n) : tree[m].kind = "set"
  IN  CASE setter -> IF Len(parameters) = 1 THEN parameters[1] ELSE "Omitted"
        [] OTHER -> Annotation(ConstructedClass(tree, n) # 0 \/ HasField(tree, n, "return_type"))

(* outer_type_decides_the_spelling: asserted around, or annotated where it  *)
(* is assigned.                                                             *)
OuterTypeDecides(tree, n) ==
  LET parent == UnwrappedParent(tree, n)
  IN  /\ ~HasField(tree, n, "name")
      /\ \/ \E m \in Wrappers(tree, n) : tree[m].kind \in {"as_expression", "type_assertion"}
         \/ parent # 0 /\ HasField(tree, parent, "type")

AllWritten == [kind |-> "AllWritten", value |-> "Written", parameters |-> <<>>]

(* annotated_positions_of and its like for the other languages.             *)
AnnotatedPositions(file, n) ==
  LET tree == file.tree
      declared(value, parameters) ==
        [kind |-> "Declared", value |-> value, parameters |-> parameters]
      swiftParameters == {m \in NamedChildren(tree, n) : tree[m].kind = "parameter"}
      omits == tree[n].kind = "function_declaration" /\ ~HasField(tree, n, "return_type")
  IN  CASE file.grammar = "Java" -> AllWritten
        [] file.grammar = "Rust" -> declared("Omitted", <<>>)
        [] file.grammar = "Swift" ->
             declared(Annotation(~omits), [i \in 1..Cardinality(swiftParameters) |-> "Written"])
        [] OuterTypeDecides(tree, n) -> AllWritten
        [] OTHER -> declared(ValueAnnotation(tree, n), ParameterAnnotations(tree, n))

-----------------------------------------------------------------------------
(* annotation_scopes_of: the places a signature has types in; each outer    *)
(* type binds names for itself.                                             *)
AnnotationScopes(tree, n) ==
  LET own == {m \in Children(tree, n) :
                tree[m].field \in {"type_parameters", "parameters", "return_type"}}
      around == UNION {NamedChildren(tree, m) : m \in Wrappers(tree, n)}
                \ (Wrappers(tree, n) \cup {n})
      parent == UnwrappedParent(tree, n)
      assigned == IF parent = 0 THEN {} ELSE InField(tree, parent, "type")
  IN  {own} \cup (IF HasField(tree, n, "name") THEN {} ELSE {{m} : m \in around \cup assigned})

(* bound_type_names_of: type parameters, keys of mapped types and inferred  *)
(* names inside of a scope.                                                 *)
BoundTypeNames(tree, scope) ==
  LET inside == UNION {Within(tree, m) : m \in scope}
      ofKind(kind) == {m \in inside : tree[m].kind = kind}
      firstName(m) == {k \in NamedChildren(tree, m) :
                         /\ \A j \in NamedChildren(tree, m) : k <= j
                         /\ tree[k].kind = "type_identifier"}
      parameters == UNION {NamedChildren(tree, m) : m \in ofKind("type_parameters")}
      names == UNION {InField(tree, m, "name") : m \in parameters}
               \cup UNION {firstName(m) : m \in ofKind("mapped_type_clause")
                                                \cup ofKind("infer_type")}
  IN  {tree[m].text : m \in names}

(* type_identifiers_of, type_references_of: the names to ask about, a       *)
(* qualified one as a whole, each name once and where it is written first   *)
(* of the scopes that do not bind it.                                       *)
TypeNames(tree, scope) ==
  {m \in UNION {Within(tree, k) : k \in scope} :
     /\ tree[m].kind \in {"type_identifier", "nested_type_identifier"}
     /\ KindAt(tree, tree[m].parent) # "nested_type_identifier"
     /\ tree[m].text \notin BoundTypeNames(tree, scope)}

TypeReferences(tree, n) ==
  {tree[m].text : m \in UNION {TypeNames(tree, s) : s \in AnnotationScopes(tree, n)}}

(* chunk_type_references_of: also those of the overload declarations, and   *)
(* for a constructor those of its class and the class itself.               *)
ChunkTypeReferences(tree, n) ==
  LET class == ConstructedClass(tree, n)
  IN  UNION {TypeReferences(tree, m) : m \in {n} \cup OverloadDeclarations(tree, n)}
      \cup (IF class = 0 THEN {}
            ELSE TypeReferences(tree, class) \cup {tree[m].text : m \in InField(tree, class, "name")})

(* Chunk::is_undersized: what scan does not compare.                        *)
IsUndersized(file, n) ==
  LET tokens == TokensOf(file.tree, n) IN tokens # <<>> /\ ~IsLongEnough(tokens)
=============================================================================
