---------------------------- MODULE RustCallables ----------------------------
(* The type of a Rust function, read from the hover of a language server    *)
(* with every name resolved that is an alias, and the names in its source   *)
(* that have to be asked about (src/src/syntax/rust_callable.rs, and        *)
(* rust_normalized_in_impl in src/src/semantics/type_signature.rs).         *)
(*                                                                          *)
(* A type is the sequence of its tokens: words, places of declarations      *)
(* (Site), and type variables of the method or of the impl around it, by    *)
(* number. A node of a path or of a qualified type carries its whole text.  *)
EXTENDS Signatures, TLC

Token(kind, text, number) == [kind |-> kind, text |-> text, number |-> number]
W(text) == <<Token("Word", text, 0)>>
IsVariable(token) == token.kind \in {"OfMethod", "OfImpl"}

Distinct(s) ==
  LET first == SelectSeq([i \in DOMAIN s |-> i], LAMBDA i : \A j \in 1..(i - 1) : s[j] # s[i])
  IN  Each(first, LAMBDA i : s[i])

RustCommentKinds == {"line_comment", "block_comment"}

(* named_children_of                                                        *)
Ones(tree, n) == InOrder({m \in NamedChildren(tree, n) : tree[m].kind \notin RustCommentKinds})
OnesIn(tree, n, f) == IF HasField(tree, n, f) THEN Ones(tree, TheField(tree, n, f)) ELSE <<>>
TextIn(tree, n, f) == tree[TheField(tree, n, f)].text

(* contains_self_type                                                       *)
ContainsSelf(tree, n) ==
  \E m \in Within(tree, n) : /\ tree[m].kind \in {"type_identifier", "identifier"}
                             /\ tree[m].text = "Self"

(* enclosing_impl_of: the impl that n is directly in; 0 if there is none.   *)
EnclosingImpl(tree, n) ==
  LET body == tree[n].parent
  IN  IF KindAt(tree, body) = "declaration_list" /\ KindAt(tree, tree[body].parent) = "impl_item"
      THEN tree[body].parent ELSE 0

(* signature_has_error: the body does not count.                            *)
SignatureHasError(tree, n) ==
  \E m \in ToSet(Ones(tree, n)) :
    tree[m].field # "body" /\ \E k \in Within(tree, m) : tree[k].error

-----------------------------------------------------------------------------
(* What comes of a part of a type: its spelling, unless it is dropped; the  *)
(* variables and the names that were met on the way; and what went wrong    *)
(* (flags: "failed", "alias", "associated", "self").                        *)
Spelled(type) == [type |-> type, dropped |-> FALSE, used |-> <<>>, names |-> <<>>, flags |-> {}]
Dropped == [Spelled(<<>>) EXCEPT !.dropped = TRUE]
Unspelled == [Spelled(<<>>) EXCEPT !.flags = {"failed"}]
Flagged(part, flags) == [part EXCEPT !.flags = @ \cup flags]

(* A part that has to be there.                                             *)
Required(part) == IF part.dropped THEN Flagged(part, {"failed"}) ELSE part

(* Parts one after the other; nothing is read behind one that failed.       *)
UpToFailed(parts) ==
  LET failed == {i \in DOMAIN parts : "failed" \in parts[i].flags}
  IN  IF failed = {} THEN parts ELSE SubSeq(parts, 1, Min(failed))

OneAfterAnother(parts) ==
  [f \in {"type", "used", "names"} |-> Joined(parts, LAMBDA p : p[f])] @@
  [dropped |-> \A i \in DOMAIN parts : parts[i].dropped,
   flags |-> UNION {p.flags : p \in ToSet(parts)}]

InTurn(parts) == OneAfterAnother(UpToFailed(parts))

(* A type that is made of parts.                                            *)
Made(type, parts) == [InTurn(parts) EXCEPT !.type = type, !.dropped = FALSE]
Including(part, parts) == Made(part.type, Append(parts, part))

TypesIn(parts) == Each(SelectSeq(parts, LAMBDA p : ~p.dropped), LAMBDA p : p.type)

Separated(separator, types) ==
  FlattenSeq([i \in DOMAIN types |-> IF i = 1 THEN types[1] ELSE W(separator) \o types[i]])

(* The same members in the same order, whatever order they were in.         *)
Arranged(types) ==
  FoldSet(LAMBDA t, s : s \o SelectSeq(types, LAMBDA u : u = t), <<>>, ToSet(types))

-----------------------------------------------------------------------------
(* Spelling: what is known where a type is read. A context is [tree, method *)
(* and impl (the type variables of each), target (the type the impl is of,  *)
(* 0 if there is none), resolved (of each name its resolution), hover       *)
(* (whether it is a hover that is read), order (the variables of method and *)
(* impl as they are numbered)]. A type is read in the scope of the method,  *)
(* of the impl, or of the type that the impl is of.                         *)
Scopes == {"method", "impl", "target"}

Context(tree) ==
  [tree |-> tree, method |-> {}, impl |-> {}, target |-> 0, resolved |-> [n \in {} |-> ""],
   hover |-> FALSE, order |-> <<>>]

VariablesIn(c, scope) == IF scope = "method" THEN c.method \cup c.impl ELSE c.impl

(* variable_spelling_of                                                     *)
NumberOf(c, name) ==
  Cardinality({i \in DOMAIN c.order : /\ c.order[i] \in c.impl <=> name \in c.impl
                                      /\ name \in ToSet(SubSeq(c.order, i, Len(c.order)))})

VariablePart(c, name) ==
  LET kind == IF name \in c.impl THEN "OfImpl" ELSE "OfMethod"
  IN  [Spelled(<<Token(kind, "", NumberOf(c, name))>>) EXCEPT !.used = <<name>>]

(* captured_variable_spelling_of                                            *)
CapturedVariable(c, scope, name) ==
  IF name \in VariablesIn(c, scope) THEN VariablePart(c, name)
  ELSE Flagged(Spelled(<<>>), {"alias"})

(* insert_type_name                                                         *)
CountedName(name) == [Spelled(W(name)) EXCEPT !.names = <<name>>]

(* self_spelling: the target is spelled where the impl stands.              *)
SelfPart(c, s, scope) ==
  IF scope # "target" /\ c.target # 0 THEN Required(s[<<c.target, "target">>])
  ELSE Flagged(Spelled(W("Self")), {"self"})

-----------------------------------------------------------------------------
(* RustGenericAlias: [parameters, right]; a parameter is [name, default],   *)
(* the default a set that is empty if there is none. substituted: only      *)
(* words are replaced.                                                      *)
Filled(type, argument) ==
  Joined(type, LAMBDA t : IF t.kind = "Word" /\ t.text \in DOMAIN argument
                          THEN argument[t.text] ELSE <<t>>)

(* instantiated: an argument that is not given is the default, and that may *)
(* name parameters in front of it.                                          *)
ArgumentsOf(parameters, given) ==
  LET argument(done, i) ==
        IF i <= Len(given) THEN given[i]
        ELSE Filled(CHOOSE d \in parameters[i].default : TRUE, done)
  IN  FoldLeft(LAMBDA done, i : (parameters[i].name :> argument(done, i)) @@ done,
               <<>>, [i \in DOMAIN parameters |-> i])

Instantiated(alias, given) ==
  IF \/ Len(given) > Len(alias.parameters)
     \/ \E i \in DOMAIN alias.parameters : i > Len(given) /\ alias.parameters[i].default = {}
  THEN Flagged(Spelled(<<>>), {"alias"})
  ELSE Spelled(Filled(alias.right, ArgumentsOf(alias.parameters, given)))

(* capture_spelling_of: a variable of the use site, or a type over them.    *)
CapturedType(template, parts) == Including(Instantiated(template, TypesIn(parts)), parts)

CapturePart(c, scope, capture) ==
  IF capture.kind = "Variable" THEN CapturedVariable(c, scope, capture.name)
  ELSE CapturedType(capture.template,
                    Each(capture.template.parameters, LAMBDA p : CapturedVariable(c, scope, p.name)))

(* What an associated type takes in: captures, the target, arguments.       *)
IsUnopened(type, captures, taken) ==
  \/ \E i \in DOMAIN captures : "alias" \in captures[i].flags
  \/ \E i \in DOMAIN taken : "failed" \in taken[i].flags
  \/ "alias" \in type.flags

UnlessUnopened(part, unopened) ==
  IF unopened
  THEN [part EXCEPT !.type = <<>>, !.flags = (@ \ {"failed"}) \cup {"alias", "associated"}]
  ELSE part

AssociatedType(type, captures, taken) ==
  UnlessUnopened(Including(type, taken), IsUnopened(type, captures, taken))

AssociatedOver(resolution, captures, taken, arguments) ==
  AssociatedType(Instantiated(resolution, TypesIn(taken) \o arguments), captures, taken)

AssociatedWith(resolution, captures, target, arguments) ==
  AssociatedOver(resolution, captures, captures \o target, arguments)

AssociatedPart(c, s, scope, resolution, arguments) ==
  AssociatedWith(resolution, Each(resolution.captures, LAMBDA p : CapturePart(c, scope, p)),
                 IF resolution.self THEN <<SelfPart(c, s, scope)>> ELSE <<>>, arguments)

(* generic_spelling                                                         *)
GenericType(head, arguments) ==
  IF arguments = <<>> THEN head
  ELSE head \o W("<") \o Separated(",", arguments) \o W(">")

(* resolved_spelling: RustTypeResolution is [kind, right, parameters,       *)
(* captures, self].                                                         *)
ResolvedPart(c, s, scope, resolution, arguments) ==
  CASE resolution.kind = "Declared" -> Spelled(GenericType(resolution.right, arguments))
    [] resolution.kind = "Opened" /\ arguments = <<>> -> Spelled(resolution.right)
    [] resolution.kind = "Generic" -> Instantiated(resolution, arguments)
    [] resolution.kind = "Associated" -> AssociatedPart(c, s, scope, resolution, arguments)
    [] OTHER -> Flagged(Spelled(<<>>), {"alias"})

Opens(c, name) ==
  name \in DOMAIN c.resolved /\ c.resolved[name].kind \notin {"NotAnAlias", "Unresolved"}

-----------------------------------------------------------------------------
(* type_identifier_spelling_of, primitive_spelling_of: in a source every     *)
(* name has to be asked about; in a hover a primitive counts if it was and  *)
(* nothing was found.                                                       *)
UnlessOpened(c, s, scope, name, part) ==
  IF Opens(c, name) THEN ResolvedPart(c, s, scope, c.resolved[name], <<>>) ELSE part

IsOnlyPrimitive(c, n) ==
  c.tree[n].kind = "primitive_type" /\ c.hover /\ c.tree[n].text \notin DOMAIN c.resolved

NamePart(c, s, n, scope) ==
  LET name == c.tree[n].text
  IN  CASE name = "Self" -> SelfPart(c, s, scope)
        [] name \in VariablesIn(c, scope) -> VariablePart(c, name)
        [] OTHER -> UnlessOpened(c, s, scope, name,
                                 IF IsOnlyPrimitive(c, n) THEN Spelled(W(name)) ELSE CountedName(name))

(* whole_path_of                                                            *)
PathPart(c, s, n, scope) ==
  LET path == c.tree[n].text IN UnlessOpened(c, s, scope, path, CountedName(path))

(* scoped_type_spelling_of: with Self in it, a projection is one name; in a *)
(* source the names in the target are asked about as well.                  *)
ProjectedPart(c, s, scope, name) ==
  IF name \in DOMAIN c.resolved /\ c.resolved[name].kind # "Unresolved"
  THEN ResolvedPart(c, s, scope, c.resolved[name], <<>>)
  ELSE Flagged(CountedName(name), {"self"})

ProjectionPart(c, s, n, scope) ==
  LET asked == ~c.hover /\ scope # "target" /\ c.target # 0
  IN  Including(ProjectedPart(c, s, scope, c.tree[n].text),
                IF asked THEN <<SelfPart(c, s, scope)>> ELSE <<>>)

ScopedPart(c, s, n, scope) ==
  LET path == TheField(c.tree, n, "path")
      inside == W("::") \o W(TextIn(c.tree, n, "name"))
      plain == c.tree[path].kind \in {"identifier", "type_identifier"}
      head == IF plain THEN VariablePart(c, c.tree[path].text) ELSE s[<<path, scope>>]
      typed == IF plain THEN c.tree[path].text \in VariablesIn(c, scope)
               ELSE c.tree[path].kind \notin {"scoped_identifier", "self", "super", "crate"}
  IN  CASE ContainsSelf(c.tree, n) -> ProjectionPart(c, s, n, scope)
        [] ~ContainsSelf(c.tree, n) /\ typed -> Made(head.type \o inside, <<head>>)
        [] OTHER -> PathPart(c, s, n, scope)

(* listed_spellings_of                                                      *)
ListedParts(c, s, n, scope) == Each(Ones(c.tree, n), LAMBDA m : s[<<m, scope>>])

(* generic_spelling_of: arguments that are no types cannot be put into an   *)
(* alias.                                                                   *)
TypeArgumentKinds ==
  {"primitive_type", "type_identifier", "scoped_type_identifier", "generic_type", "reference_type",
   "pointer_type", "tuple_type", "unit_type", "never_type", "array_type", "function_type",
   "dynamic_type", "abstract_type", "bounded_type"}

FirstWord(tree, n) ==
  LET first(m) == \A k \in Above(tree, m) \ Above(tree, n) : k = Min(Children(tree, tree[k].parent))
  IN  tree[Max({m \in Within(tree, n) : first(m)})].text

HeadOpens(c, head, scope) ==
  /\ ContainsSelf(c.tree, head) \/ FirstWord(c.tree, head) \notin VariablesIn(c, scope)
  /\ Opens(c, c.tree[head].text)

WithArguments(head, arguments) ==
  Made(GenericType(head.type, TypesIn(arguments)), <<head>> \o arguments)

(* The head of a generic type stands for something.                         *)
OpenedPart(c, s, n, scope, resolution, arguments) ==
  LET list == TheField(c.tree, n, "type_arguments")
      countable == \A m \in ToSet(Ones(c.tree, list)) : c.tree[m].kind \in TypeArgumentKinds
      associated == IF resolution.kind = "Associated" THEN {"associated"} ELSE {}
  IN  IF resolution.kind # "Declared" /\ ~countable
      THEN Flagged(Spelled(W(TextIn(c.tree, n, "type"))), {"alias"} \cup associated)
      ELSE Including(ResolvedPart(c, s, scope, resolution, TypesIn(arguments)), arguments)

GenericPart(c, s, n, scope) ==
  LET head == TheField(c.tree, n, "type")
      arguments == ListedParts(c, s, TheField(c.tree, n, "type_arguments"), scope)
  IN  IF HeadOpens(c, head, scope)
      THEN OpenedPart(c, s, n, scope, c.resolved[c.tree[head].text], arguments)
      ELSE WithArguments(s[<<head, scope>>], arguments)

(* array_length_spelling_of                                                 *)
LengthPart(c, n) ==
  IF c.tree[n].kind = "integer_literal" \/ ~c.hover THEN Spelled(W(c.tree[n].text)) ELSE Unspelled

ArrayPart(c, s, n, scope) ==
  LET element == Required(s[<<TheField(c.tree, n, "element"), scope>>])
      lengths == Each(InOrder(InField(c.tree, n, "length")), LAMBDA m : LengthPart(c, m))
      after == Joined(TypesIn(lengths), LAMBDA t : W(";") \o t)
  IN  Made(W("[") \o element.type \o after \o W("]"), <<element>> \o lengths)

(* bounded_members_of: what is joined by `+`, in any order; the `dyn` of    *)
(* the first one is that of all.                                            *)
IsKeyworded(tree, m) == tree[m].kind \in {"dynamic_type", "abstract_type"}

BoundedPart(c, s, n, scope) ==
  LET flat[m \in Nodes(c.tree)] ==
        IF m = n \/ c.tree[m].kind = "bounded_type" THEN Joined(Ones(c.tree, m), LAMBDA k : flat[k])
        ELSE <<m>>
      worded == SelectSeq(flat[n], LAMBDA m : IsKeyworded(c.tree, m))
      keyword == IF worded = <<>> THEN <<>> ELSE W(c.tree[Min(Children(c.tree, Last(worded)))].text)
      member(m) == IF IsKeyworded(c.tree, m) THEN TheField(c.tree, m, "trait") ELSE m
      parts == Each(flat[n], LAMBDA m : s[<<member(m), scope>>])
  IN  Made(keyword \o Separated("+", Arranged(TypesIn(parts))), parts)

BindingPart(c, s, n, scope) ==
  LET type == s[<<TheField(c.tree, n, "type"), scope>>]
  IN  Made(W(TextIn(c.tree, n, "name")) \o W("=") \o type.type, <<type>>)

(* joined_children_of: everything that is written, comments included.       *)
JoinedPart(c, s, n, scope) ==
  LET parts == Each(InOrder(Children(c.tree, n)), LAMBDA m : s[<<m, scope>>])
  IN  IF parts = <<>> THEN Spelled(W(c.tree[n].text)) ELSE Made(InTurn(parts).type, parts)

(* spelling_of: lifetimes are dropped, and what binds them with them.       *)
Part(c, s, n, scope) ==
  LET kind == c.tree[n].kind
  IN  CASE kind = "lifetime" -> IF c.tree[n].text = "'static" THEN Spelled(W("'static")) ELSE Dropped
        [] kind = "for_lifetimes" -> Dropped
        [] kind = "higher_ranked_trait_bound" -> s[<<TheField(c.tree, n, "type"), scope>>]
        [] kind = "unit_type" -> Spelled(W("()"))
        [] kind \in {"type_identifier", "primitive_type"} -> NamePart(c, s, n, scope)
        [] kind = "scoped_type_identifier" -> ScopedPart(c, s, n, scope)
        [] kind = "removed_trait_bound" -> Spelled(W(c.tree[n].text))
        [] kind = "type_binding" -> BindingPart(c, s, n, scope)
        [] kind = "generic_type" -> GenericPart(c, s, n, scope)
        [] kind = "array_type" -> ArrayPart(c, s, n, scope)
        [] kind \in {"bounded_type", "trait_bounds"} -> BoundedPart(c, s, n, scope)
        [] OTHER -> JoinedPart(c, s, n, scope)

Spelling(c) ==
  LET s[q \in Nodes(c.tree) \X Scopes] == Part(c, s, q[1], q[2]) IN s

-----------------------------------------------------------------------------
(* callable_of. declared_type_parameters_of: the names of type variables;   *)
(* constants cannot be told apart by how they are used.                     *)
TypeParameterNodes(tree, n) ==
  SelectSeq(OnesIn(tree, n, "type_parameters"), LAMBDA m : tree[m].kind # "lifetime_parameter")
TypeParameterNames(tree, n) ==
  Each(TypeParameterNodes(tree, n), LAMBDA m : TextIn(tree, m, "name"))

(* What is demanded of types, in the order in which it is read: inline      *)
(* bounds of type parameters, and the predicates of where clauses up to the *)
(* comment behind which a hover repeats those of the impl.                  *)
RepeatsImpl(c, m) ==
  c.hover /\ c.tree[m].kind \in RustCommentKinds /\ c.tree[m].text = "// Bounds from impl:"

WherePredicates(c, n) ==
  LET clauses == SelectSeq(Ones(c.tree, n), LAMBDA m : c.tree[m].kind = "where_clause")
      written(m) == InOrder(NamedChildren(c.tree, m))
      ends(m) == {i \in DOMAIN written(m) : c.target # 0 /\ RepeatsImpl(c, written(m)[i])}
      read(m) == IF ends(m) = {} THEN written(m) ELSE SubSeq(written(m), 1, Min(ends(m)) - 1)
  IN  SelectSeq(Joined(clauses, read), LAMBDA m : c.tree[m].kind \notin RustCommentKinds)

Demand(left, bounds, scope) == [left |-> left, bounds |-> bounds, scope |-> scope]

DemandsOf(c, n, scope) ==
  LET demand(f, m) == Demand(TheField(c.tree, m, f), TheField(c.tree, m, "bounds"), scope)
      bounded == SelectSeq(TypeParameterNodes(c.tree, n), LAMBDA m : HasField(c.tree, m, "bounds"))
      written == Each(bounded, LAMBDA m : demand("name", m))
                 \o Each(WherePredicates(c, n), LAMBDA m : demand("left", m))
  IN  SelectSeq(written, LAMBDA d : c.tree[d.left].kind # "lifetime")

(* insert_trait_bounds                                                      *)
DemandParts(c, s, d) ==
  LET left == s[<<d.left, d.scope>>]
  IN  IF left.dropped THEN <<left>> ELSE <<left>> \o ListedParts(c, s, d.bounds, d.scope)

(* parameter_spelling_of                                                    *)
SelfParameterPart(c, s, n) ==
  LET target == SelfPart(c, s, "method")
      borrowed == \E m \in Children(c.tree, n) : c.tree[m].kind = "&"
      written == SelectSeq(Ones(c.tree, n), LAMBDA m : c.tree[m].kind # "self")
      parts == Append(Each(written, LAMBDA m : s[<<m, "method">>]), target)
  IN  IF borrowed THEN Made(W("&") \o InTurn(parts).type, parts) ELSE target

ParameterPart(c, s, n) ==
  CASE c.tree[n].kind = "parameter" -> Required(s[<<TheField(c.tree, n, "type"), "method">>])
    [] c.tree[n].kind = "self_parameter" -> SelfParameterPart(c, s, n)
    [] OTHER -> Unspelled

ValuePart(c, s, n) ==
  IF HasField(c.tree, n, "return_type")
  THEN [s[<<TheField(c.tree, n, "return_type"), "method">>] EXCEPT !.dropped = FALSE]
  ELSE Spelled(W("()"))

(* Of a trait impl, that the target has the trait is demanded, too.         *)
TraitParts(c, s, impl) ==
  IF impl = 0 THEN <<>>
  ELSE Joined(InOrder(InField(c.tree, impl, "trait")),
              LAMBDA m : <<SelfPart(c, s, "impl"), Required(s[<<m, "impl">>])>>)

(* The parts of a function, as they are read in a context.                  *)
PartsSpelled(c, s, n, impl) ==
  LET demands == DemandsOf(c, n, "method") \o IF impl = 0 THEN <<>> ELSE DemandsOf(c, impl, "impl")
      written == SelectSeq(OnesIn(c.tree, n, "parameters"), LAMBDA m : c.tree[m].kind # "attribute_item")
  IN  [parameters |-> Each(written, LAMBDA m : ParameterPart(c, s, m)), value |-> ValuePart(c, s, n),
       bounds |-> Append(Each(demands, LAMBDA d : DemandParts(c, s, d)), TraitParts(c, s, impl))]

FunctionParts(c, n, impl) == PartsSpelled(c, Spelling(c), n, impl)

AllParts(read) == InTurn(Append(read.parameters, read.value) \o FlattenSeq(read.bounds))

(* RustCallable                                                             *)
NotCallable == [readable |-> FALSE, names |-> <<>>, flags |-> {}]

BoundsOf(parts) ==
  LET types == TypesIn(parts) IN {<<types[1], types[i]>> : i \in DOMAIN types \ {1}}

ModifiersOf(tree, n) ==
  {tree[m].text : m \in {k \in Nodes(tree) : KindAt(tree, tree[k].parent) = "function_modifiers"
                                             /\ n \in Above(tree, k)}}

CallableFrom(c, n, read, all) ==
  IF "failed" \in all.flags THEN NotCallable
  ELSE [readable |-> TRUE, names |-> Distinct(all.names), flags |-> all.flags,
        modifiers |-> ModifiersOf(c.tree, n), parameters |-> TypesIn(read.parameters),
        value |-> read.value.type, variables |-> Cardinality(c.method),
        implVariables |-> Cardinality(c.impl),
        bounds |-> UNION {BoundsOf(parts) : parts \in ToSet(read.bounds)}]

(* The variables are numbered in the order in which they are met: a first   *)
(* reading finds that order.                                                *)
Numbered(c, n, impl) ==
  FunctionParts([c EXCEPT !.order = Distinct(AllParts(FunctionParts(c, n, impl)).used)], n, impl)

CallableRead(c, n, read) == CallableFrom(c, n, read, AllParts(read))
CallableWithin(c, n, impl) == CallableRead(c, n, Numbered(c, n, impl))

CallableIn(c, n, impl) ==
  LET tree == c.tree
      outer == IF impl = 0 THEN <<>> ELSE TypeParameterNodes(tree, impl)
      nodes == outer \o TypeParameterNodes(tree, n)
      names == Each(nodes, LAMBDA m : TextIn(tree, m, "name"))
      within == [c EXCEPT !.method = ToSet(TypeParameterNames(tree, n)),
                          !.impl = ToSet(Each(outer, LAMBDA m : TextIn(tree, m, "name"))),
                          !.target = IF impl = 0 THEN 0 ELSE TheField(tree, impl, "type")]
  IN  IF \/ impl # 0 /\ SignatureHasError(tree, impl)
         \/ \E m \in ToSet(nodes) : tree[m].kind # "type_parameter"
         \/ Len(Distinct(names)) # Len(names) \/ ~HasField(tree, n, "parameters")
      THEN NotCallable
      ELSE CallableWithin(within, n, impl)

(* renumber_variables: by where they first stand.                           *)
Renumbered(callable) ==
  LET bounds == SetToSeq(callable.bounds)
      written == FlattenSeq(callable.parameters) \o callable.value
                 \o Joined(bounds, LAMBDA b : b[1] \o b[2])
      met(kind) == Distinct(SelectSeq(written, LAMBDA t : t.kind = kind))
      place(t) == CHOOSE i \in DOMAIN met(t.kind) : met(t.kind)[i] = t
      new(type) == Each(type, LAMBDA t : IF IsVariable(t) THEN [t EXCEPT !.number = place(t)] ELSE t)
  IN  [callable EXCEPT !.parameters = Each(@, new), !.value = new(@),
                       !.bounds = {<<new(b[1]), new(b[2])>> : b \in @}]

-----------------------------------------------------------------------------
(* impl_header_of: what stands in front of the body of the impl around n.   *)
ImplHeader(tree, n) ==
  LET impl == EnclosingImpl(tree, n)
      body == TheField(tree, impl, "body")
  IN  IF impl = 0 THEN <<>>
      ELSE [i \in 1..(body - impl + 1) |->
              [tree[impl + i - 1] EXCEPT !.parent = IF i = 1 THEN 0 ELSE @ - impl + 1]]

(* from_spelling: the function that a hover shows, in the impl of the       *)
(* source. A hover is [header ("none", "impl", "broken"), tree].            *)
Shown(header, tree) ==
  header \o [i \in DOMAIN tree |-> [tree[i] EXCEPT !.parent = @ + Len(header)]]

RenumberedIfRead(callable) == IF callable.readable THEN Renumbered(callable) ELSE NotCallable

CallableShown(tree, n, resolved) ==
  RenumberedIfRead(CallableIn([Context(tree) EXCEPT !.hover = TRUE, !.resolved = resolved], n,
                              EnclosingImpl(tree, n)))

CallableOf(reading, header, resolved) ==
  LET tree == Shown(header, reading.tree)
      shown == {m \in Nodes(tree) : tree[m].kind = "function_signature_item"}
  IN  IF \/ reading.header = "broken" \/ (reading.header # "none" /\ header = <<>>)
         \/ shown = {} \/ \E m \in Nodes(tree) : tree[m].error
      THEN NotCallable ELSE CallableShown(tree, Min(shown), resolved)

(* type_references_of: the names of a function that are asked about.        *)
RustReferences(tree, n) ==
  IF SignatureHasError(tree, n) THEN <<>> ELSE CallableIn(Context(tree), n, EnclosingImpl(tree, n)).names

-----------------------------------------------------------------------------
(* rust_traced_type_names_of: what became of each name (Aliases.TracedRust),*)
(* and the resolutions that a hover is read with.                           *)
RustTrace(names, answers) ==
  LET answer == [n \in ToSet(names) |-> answers[CHOOSE i \in DOMAIN names : names[i] = n]]
      lost == {n \in DOMAIN answer : answer[n].reason # "none"}
  IN  [declared |-> [n \in {} |-> ""], resolved |-> answer,
       reasons |-> [n \in lost |-> answer[n].reason]]

Sited(type) == Each(type, LAMBDA t : Token("Site", t, 0))

(* What is found in the place of a name; how an open one is written is what *)
(* templates say of what it is made of.                                     *)
ResolutionOf(answer, templates) ==
  IF answer.open /\ answer.reason = "none" THEN templates[answer.type]
  ELSE [kind |-> answer.kind, right |-> Sited(answer.type), parameters |-> <<>>, captures |-> <<>>,
        self |-> FALSE]

ReadCallable(reading, header, traced, templates) ==
  CallableOf(reading, header, [n \in DOMAIN traced.resolved |-> ResolutionOf(traced.resolved[n], templates)])

(* rust_normalized_in_impl                                                  *)
CallableSignature(read, traced) ==
  LET names == ToSet(read.names)
      unopened == ReasonAmong(names, traced)
  IN  CASE ~read.readable -> Unavailable("UnreadableSignature", "none")
        [] read.readable /\ "associated" \in read.flags ->
             Unavailable("UnopenedTypeName", "UnopenableAssociatedType")
        [] read.readable /\ "associated" \notin read.flags /\ "alias" \in read.flags ->
             Unavailable("UnopenedTypeName", "UnopenableAlias")
        [] OTHER ->
             IF unopened # "none" THEN Unavailable("UnopenedTypeName", unopened)
             ELSE IF "self" \in read.flags THEN Unavailable("SiteDependentSpelling", "none")
             ELSE IF \E n \in names : ~IsTraced(n, traced)
             THEN Unavailable("UntracedTypeName", "NoTracedRecord")
             ELSE Measured(<<SignatureOf(read, names, traced)>>)

(* rust_type_signature_outcome_of. arrays is what kept the lengths of its   *)
(* arrays from being restored.                                              *)
RustOutcome(hover, header, traced, templates) ==
  LET reading == hover.reading
  IN  CASE hover.reply # "Answered" -> Unavailable(AskedFailure(hover.reply), "none")
        [] hover.reply = "Answered" /\ reading.arrays # "none" ->
             Unavailable("UnopenedTypeName", reading.arrays)
        [] OTHER -> CallableSignature(ReadCallable(reading, header, traced, templates), traced)
=============================================================================
