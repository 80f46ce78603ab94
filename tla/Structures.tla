----------------------------- MODULE Structures ------------------------------
(* Types of TypeScript as they are compared: aliases put in, type variables *)
(* numbered in the order of their use, unions in any order                  *)
(* (src/src/syntax/type_spelling.rs, src/src/syntax/type_structure.rs).     *)
(*                                                                          *)
(* A type is the syntax tree of its spelling, its root the first node. What *)
(* the structure of the type is made of are nodes of that tree.             *)
EXTENDS Syntax, SequencesExt, FiniteSetsExt

CONSTANT MaxUnionOrderings   \* MAX_UNION_ORDERINGS

NamedOfKind(tree, n, kind) ==
  FirstOrNone({m \in NamedChildren(tree, n) : tree[m].kind = kind})

(* What f makes of the nodes, one after another.                            *)
Each(nodes, f(_)) == [i \in DOMAIN nodes |-> f(nodes[i])]
Joined(nodes, f(_)) == FlattenSeq(Each(nodes, f))

(* names_a_substitutable_type, is_qualified_leaf: a qualified name counts   *)
(* as a whole.                                                              *)
IsTypeName(tree, n) ==
  /\ tree[n].kind \in {"type_identifier", "nested_type_identifier"}
  /\ KindAt(tree, tree[n].parent) # "nested_type_identifier"

(* is_bound, bound_names_of: names that a part of the spelling declares.    *)
IsBinding(tree, n) ==
  /\ tree[n].kind = "type_identifier"
  /\ KindAt(tree, tree[n].parent) \in {"type_parameter", "mapped_type_clause", "infer_type"}
  /\ n = FirstNamed(tree, tree[n].parent)

BoundInside(tree, n) == {tree[m].text : m \in {k \in Within(tree, n) : IsBinding(tree, k)}}

(* type_name_spans_of, substitutable_type_name_spans_of                     *)
TypeNameNodes(tree, n) == {m \in Within(tree, n) : IsTypeName(tree, m)}
SubstitutableNodes(tree, n) ==
  {m \in TypeNameNodes(tree, n) : tree[m].text \notin BoundInside(tree, n)}

(* spliced, replaced: another tree in the place of a name.                  *)
Spliced(tree, n, graft) ==
  LET grown == Len(graft) - 1
      placed(i) == IF i = 1 THEN [graft[1] EXCEPT !.parent = tree[n].parent, !.field = tree[n].field]
                   ELSE [graft[i] EXCEPT !.parent = @ + n - 1]
      moved(node) == [node EXCEPT !.parent = IF @ > n THEN @ + grown ELSE @]
  IN  SubSeq(tree, 1, n - 1) \o [i \in DOMAIN graft |-> placed(i)]
      \o [i \in 1..(Len(tree) - n) |-> moved(tree[n + i])]

(* substituted_spelling_of: every name that opens, from the last one on.    *)
Substituted(tree, opened) ==
  LET names == {m \in SubstitutableNodes(tree, 1) : tree[m].text \in DOMAIN opened}
  IN  FoldRight(LAMBDA m, t : Spliced(t, m, opened[tree[m].text]), InOrder(names), tree)

-----------------------------------------------------------------------------
(* structured: what a node is. Parentheses are nothing; what is no known    *)
(* form stays as it is spelled.                                             *)
Bare(tree, n) ==
  LET bare[m \in Nodes(tree)] ==
        IF tree[m].kind = "parenthesized_type" THEN bare[FirstNamed(tree, m)] ELSE m
  IN  bare[n]

IsCallableKind(tree, n) ==
  /\ tree[n].kind \in {"function_type", "constructor_type"}
  /\ \A m \in Children(tree, n) : tree[m].kind # "abstract"

ParameterNodes(tree, n) ==
  InOrder(NamedChildren(tree, NamedOfKind(tree, n, "formal_parameters")))

(* ParameterList::from_node, ParameterKind::of                              *)
ParameterName(tree, p) ==
  LET written == FirstNamed(tree, p)
  IN  IF tree[written].kind = "rest_pattern" THEN FirstNamed(tree, written) ELSE written

ParameterKind(tree, p) ==
  CASE tree[FirstNamed(tree, p)].kind = "rest_pattern" -> "Rest"
    [] tree[ParameterName(tree, p)].kind = "this" -> "Receiver"
    [] tree[p].kind = "optional_parameter" -> "Optional"
    [] OTHER -> "Required"

AnnotatedType(tree, p) == Bare(tree, FirstNamed(tree, NamedOfKind(tree, p, "type_annotation")))

ReturnNode(tree, n) ==
  Max({m \in NamedChildren(tree, n) : tree[m].kind \notin {"type_parameters", "formal_parameters"}})

(* returned_structure: `x is T`, `asserts x`. The subject has to be one of  *)
(* the parameters.                                                          *)
PredicateNode(tree, n) == IF tree[n].kind = "asserts" THEN FirstNamed(tree, n) ELSE n
SubjectNode(tree, n) ==
  LET predicate == PredicateNode(tree, n)
  IN  IF tree[predicate].kind = "type_predicate" THEN FirstNamed(tree, predicate) ELSE predicate
Narrowed(tree, n) ==
  IF tree[PredicateNode(tree, n)].kind # "type_predicate" THEN {}
  ELSE NamedChildren(tree, PredicateNode(tree, n)) \ {SubjectNode(tree, n)}

SubjectPositions(tree, n) ==
  LET parameters == ParameterNodes(tree, tree[n].parent)
      named(i) == tree[ParameterName(tree, parameters[i])].text = tree[SubjectNode(tree, n)].text
  IN  {i \in DOMAIN parameters : named(i)}

Form(tree, n) ==
  LET kind == tree[n].kind
  IN  CASE IsCallableKind(tree, n) -> "Callable"
        [] kind = "union_type" -> "Union"
        [] kind = "intersection_type" -> "Intersection"
        [] kind = "tuple_type" -> "Tuple"
        [] kind = "array_type" -> "Array"
        [] kind \in {"type_identifier", "nested_type_identifier", "predefined_type", "generic_type"} ->
             "Named"
        [] kind \in {"asserts", "type_predicate"} /\ KindAt(tree, tree[n].parent) = "function_type" ->
             IF SubjectPositions(tree, n) = {} THEN "Spelled" ELSE "Predicate"
        [] OTHER -> "Spelled"

(* flattened_union, flattened_intersection: members through parentheses.    *)
Members(tree, n) ==
  LET members[m \in Nodes(tree)] ==
        LET part == Bare(tree, m)
            member(k) == members[k]
        IN  IF m # n /\ tree[part].kind # tree[n].kind THEN <<part>>
            ELSE Joined(InOrder(NamedChildren(tree, part)), member)
  IN  members[n]

(* tuple_elements_of, labelled_element_of                                   *)
ElementKind(tree, e) ==
  CASE tree[e].kind = "rest_type" -> "Rest"
    [] tree[e].kind \in {"required_parameter", "optional_parameter"}
       /\ tree[FirstNamed(tree, e)].kind = "rest_pattern" -> "Rest"
    [] tree[e].kind \in {"optional_type", "optional_parameter"} -> "Optional"
    [] OTHER -> "Required"

ElementType(tree, e) ==
  CASE tree[e].kind \in {"optional_type", "rest_type"} -> Bare(tree, FirstNamed(tree, e))
    [] tree[e].kind \in {"required_parameter", "optional_parameter"} -> AnnotatedType(tree, e)
    [] OTHER -> Bare(tree, e)

(* generic_structure: the name and what it is applied to.                   *)
NameOf(tree, n) ==
  IF tree[n].kind = "generic_type" THEN tree[FirstNamed(tree, n)].text ELSE tree[n].text

Arguments(tree, n) ==
  LET list == NamedOfKind(tree, n, "type_arguments")
  IN  IF tree[n].kind # "generic_type" \/ list = 0 THEN <<>>
      ELSE Each(InOrder(NamedChildren(tree, list)), LAMBDA m : Bare(tree, m))

(* declared_type_parameters_of                                              *)
TypeParameters(tree, n) ==
  LET list == NamedOfKind(tree, n, "type_parameters")
  IN  IF list = 0 THEN <<>> ELSE InOrder(NamedChildren(tree, list))

Bounds(tree, t) ==
  LET bound(kind) == NamedOfKind(tree, t, kind)
      written == SelectSeq(<<bound("constraint"), bound("default_type")>>, LAMBDA b : b # 0)
  IN  Each(written, LAMBDA b : Bare(tree, FirstNamed(tree, b)))

(* Callable::renamed: parameters, what is returned, then the bounds of the  *)
(* type parameters. Of a spelling the names in it count.                    *)
Called(tree, n) ==
  Each(ParameterNodes(tree, n), LAMBDA p : AnnotatedType(tree, p)) \o <<Bare(tree, ReturnNode(tree, n))>>

Elements(tree, n) ==
  CASE tree[n].kind = "tuple_type" -> InOrder(NamedChildren(tree, n))
    [] OTHER -> <<>>

PartsOf(tree, n, form) ==
  CASE form = "Callable" ->
         Called(tree, n) \o Joined(TypeParameters(tree, n), LAMBDA t : Bounds(tree, t))
    [] form \in {"Union", "Intersection"} -> Members(tree, n)
    [] form = "Tuple" -> Each(Elements(tree, n), LAMBDA e : ElementType(tree, e))
    [] form = "Array" -> <<Bare(tree, FirstNamed(tree, n))>>
    [] form = "Named" -> Arguments(tree, n)
    [] form = "Predicate" -> Each(InOrder(Narrowed(tree, n)), LAMBDA m : Bare(tree, m))
    [] OTHER -> <<>>

(* Type variables. A variable is the type parameter node that declares it   *)
(* (TypeVariableScopes: the innermost callable that declares the name).     *)
DeclaredName(tree, t) == tree[FirstNamed(tree, t)].text

Declaring(tree, k) ==
  {t \in Nodes(tree) :
     /\ tree[t].kind = "type_parameter"
     /\ DeclaredName(tree, t) = NameOf(tree, k)
     /\ \E c \in Above(tree, k) \ {k} :
          IsCallableKind(tree, c) /\ t \in ToSet(TypeParameters(tree, c))}

(* TypeStructure: of every node what it is, its parts, the type parameters  *)
(* it declares and the one its name stands for, or 0.                       *)
Structured(tree) ==
  [tree       |-> tree,
   root       |-> Bare(tree, 1),
   form       |-> [n \in Nodes(tree) |-> Form(tree, n)],
   parts      |-> [n \in Nodes(tree) |-> PartsOf(tree, n, Form(tree, n))],
   called     |-> [n \in Nodes(tree) |-> Called(tree, n)],
   parameters |-> [n \in Nodes(tree) |-> TypeParameters(tree, n)],
   binder     |-> [n \in Nodes(tree) |-> Max({0} \cup Declaring(tree, n))]]

(* Everything the structure at n is made of, in the order in which variables*)
(* are numbered. plan says in which order the members of unions come.       *)
Order(type, n, plan) ==
  LET parts(m) == IF m \in DOMAIN plan THEN plan[m] ELSE type.parts[m]
      order[m \in Nodes(type.tree)] ==
        IF type.form[m] = "Spelled"
        THEN <<m>> \o InOrder(SubstitutableNodes(type.tree, m) \ {m})
        ELSE <<m>> \o FlattenSeq([i \in DOMAIN parts(m) |-> order[parts(m)[i]]])
  IN  order[n]

Written == [u \in {} |-> <<>>]
PartsBelow(type, n) == ToSet(Order(type, n, Written))

-----------------------------------------------------------------------------
(* The names in the structure at n that the comparison looks up.            *)
UsedNames(type, n) ==
  {k \in PartsBelow(type, n) : type.form[k] = "Named" \/ IsTypeName(type.tree, k)}

(* allocates_placeholders                                                   *)
Allocates(type, m) ==
  \/ \E k \in PartsBelow(type, m) : type.form[k] = "Callable" /\ type.parameters[k] # <<>>
  \/ \E k \in UsedNames(type, m) : type.binder[k] # 0

(* permutable_positions_of, permutations_of, ordering_of_permuted: members  *)
(* that give a variable its number change places, the others stay.          *)
Unions(type) == {m \in PartsBelow(type, type.root) : type.form[m] = "Union"}

Permutable(type, u) == {i \in DOMAIN type.parts[u] : Allocates(type, type.parts[u][i])}

Permuted(members, moving) ==
  LET orders == {p \in [moving -> moving] : \A i, j \in moving : p[i] = p[j] => i = j}
  IN  {[i \in DOMAIN members |-> members[IF i \in moving THEN p[i] ELSE i]] : p \in orders}

(* order_plans_of, factorial_of: too many orders, and none is tried.        *)
Factorial(n) == FoldFunction(LAMBDA a, b : a * b, 1, [i \in 1..n |-> i])

Orderings(type) ==
  MapThenFoldSet(LAMBDA a, b : a * b, 1, LAMBDA u : Factorial(Cardinality(Permutable(type, u))),
                 LAMBDA S : CHOOSE u \in S : TRUE, Unions(type))


Plans(type) ==
  LET orders == [u \in Unions(type) |-> Permuted(type.parts[u], Permutable(type, u))]
      all == UNION {orders[u] : u \in DOMAIN orders}
  IN  IF Orderings(type) > MaxUnionOrderings THEN {Written}
      ELSE {f \in [DOMAIN orders -> all] : \A u \in DOMAIN f : f[u] \in orders[u]}

-----------------------------------------------------------------------------
(* placeholder_of, assigned_remaining: a variable gets its number where it  *)
(* is first used among the parameters and the result of its callable; one   *)
(* used in neither gets it when those have been read, in declaration order. *)
FirstUse(type, order, t) ==
  LET callable == type.tree[type.tree[t].parent].parent
      called == UNION {PartsBelow(type, m) : m \in ToSet(type.called[callable])}
      at(nodes) == {i \in DOMAIN order : order[i] \in nodes}
      uses == {k \in called : k \in UsedNames(type, k) /\ type.binder[k] = t}
  IN  IF uses # {} THEN <<Min(at(uses)), 0, 0>>
      ELSE <<Max(at(called)), Len(type.tree) - callable, t>>

Earlier(a, b) ==
  \/ a[1] < b[1]
  \/ a[1] = b[1] /\ (a[2] < b[2] \/ (a[2] = b[2] /\ a[3] < b[3]))

Variables(type, order) ==
  UNION {ToSet(type.parameters[c]) : c \in {k \in ToSet(order) : type.form[k] = "Callable"}}

Ranks(use) == [t \in DOMAIN use |-> Cardinality({s \in DOMAIN use : Earlier(use[s], use[t])})]

Numbers(type, order) == Ranks([t \in Variables(type, order) |-> FirstUse(type, order, t)])

(* A structure as a value: what it is, a name or a number, and its parts in *)
(* order, or, of a union, how often each of them is there.                  *)
Value(form, name, number, parts) ==
  [form |-> form, name |-> name, number |-> number, parts |-> parts, among |-> {}]
Nothing == Value("Nothing", "", 0, <<>>)
Text(text) == Value("Text", text, 0, <<>>)
Counted(values) ==
  {<<values[i], Cardinality({j \in DOMAIN values : values[j] = values[i]})>> : i \in DOMAIN values}

LeafNodes(tree, n) == InOrder({m \in Within(tree, n) : Children(tree, m) = {}})

Modifiers(tree, t) == InOrder({m \in Children(tree, t) : ~tree[m].named})

(* renamed, then sorted (normal_form)                                       *)
NumberedForm(type, looked, numbers) ==
  LET tree == type.tree
      variable(k) == Value("Variable", "", numbers[type.binder[k]], <<>>)
      spelled(k) == IF IsTypeName(tree, k) /\ k \in looked /\ type.binder[k] # 0
                    THEN variable(k) ELSE Text(tree[k].text)
      named(k) == IF type.binder[k] = 0 THEN Text(NameOf(tree, k)) ELSE variable(k)
      form[m \in Nodes(tree)] ==
        LET bound(t, kind) ==
              LET b == NamedOfKind(tree, t, kind)
              IN  IF b = 0 THEN Nothing ELSE form[Bare(tree, FirstNamed(tree, b))]
            declared(t) ==
              Value("TypeParameter", "", numbers[t],
                    Each(Modifiers(tree, t), LAMBDA k : Text(tree[k].text))
                    \o <<bound(t, "constraint"), bound(t, "default_type")>>)
            parameter(p) == Value(ParameterKind(tree, p), "", 0, <<form[AnnotatedType(tree, p)]>>)
            element(e) == Value(ElementKind(tree, e), "", 0, <<form[ElementType(tree, e)]>>)
            variables == SetToSortSeq(ToSet(type.parameters[m]),
                                      LAMBDA s, t : numbers[s] < numbers[t])
            parts == [i \in DOMAIN type.parts[m] |-> form[type.parts[m][i]]]
        IN  CASE type.form[m] = "Callable" ->
                   Value("Callable", tree[m].kind, Len(type.parameters[m]),
                         Each(variables, declared) \o Each(ParameterNodes(tree, m), parameter)
                         \o <<form[Bare(tree, ReturnNode(tree, m))]>>)
              [] type.form[m] = "Union" ->
                   [Value("Union", "", 0, <<>>) EXCEPT !.among = Counted(parts)]
              [] type.form[m] = "Tuple" -> Value("Tuple", "", 0, Each(Elements(tree, m), element))
              [] type.form[m] = "Named" -> Value("Named", "", 0, <<named(m)>> \o parts)
              [] type.form[m] = "Predicate" ->
                   Value("Predicate", tree[m].kind, Min(SubjectPositions(tree, m)), parts)
              [] type.form[m] = "Spelled" ->
                   Value("Spelled", "", 0, Each(LeafNodes(tree, m), spelled))
              [] OTHER -> Value(type.form[m], "", 0, parts)
  IN  form[type.root]

NormalFormOf(type, order) == NumberedForm(type, ToSet(order), Numbers(type, order))

(* searched_normal_form. The least of the forms depends on nothing but the  *)
(* set of them, and so does this one.                                       *)
NormalForm(type) ==
  CHOOSE form \in {NormalFormOf(type, Order(type, type.root, plan)) : plan \in Plans(type)} : TRUE

-----------------------------------------------------------------------------
(* What is asked about a structure before it is compared.                   *)

(* free_type_names_of: names that no callable around them declares. Names   *)
(* that a spelling declares itself (infer U, K in ...) count or not.        *)
FreeNodes(type, n, binders) ==
  LET parts == PartsBelow(type, n)
      inside(m) == IF binders = "Counted" THEN TypeNameNodes(type.tree, m)
                   ELSE SubstitutableNodes(type.tree, m)
      names == {m \in parts : type.form[m] = "Named"}
               \cup UNION {inside(m) : m \in {k \in parts : type.form[k] = "Spelled"}}
  IN  {k \in names : type.binder[k] = 0}

(* traceable_names_only: keywords are no names to trace.                    *)
TracedNames(type, n, binders) ==
  {NameOf(type.tree, k) : k \in {m \in FreeNodes(type, n, binders) : type.tree[m].kind # "predefined_type"}}

(* Callable::value_type_names, parameter_type_names                         *)
ValueTypeNames(type) ==
  TracedNames(type, Bare(type.tree, ReturnNode(type.tree, type.root)), "Skipped")

ParameterTypeNames(type) ==
  Each(ParameterNodes(type.tree, type.root),
       LAMBDA p : TracedNames(type, AnnotatedType(type.tree, p), "Skipped"))

(* Callable::names_only_types_of: parameters are seen in the parameters and *)
(* in the result, not in the bounds of the type parameters.                 *)
BoundValues(type, n) ==
  LET around == {k \in Above(type.tree, n) \ {n} :
                   /\ IsCallableKind(type.tree, k)
                   /\ \E m \in ToSet(type.called[k]) : n \in PartsBelow(type, m)}
      parameters == UNION {ToSet(ParameterNodes(type.tree, c)) : c \in around}
  IN  {type.tree[ParameterName(type.tree, p)].text : p \in parameters}

(* names_outside_the_type_namespace                                         *)
LocalNameKinds ==
  {"required_parameter", "optional_parameter", "rest_pattern", "index_signature", "type_predicate"}

ReachesOutside(tree, k, bound) ==
  \/ tree[k].kind \in {"this_type", "import"}
  \/ /\ tree[k].kind = "identifier"
     /\ KindAt(tree, tree[k].parent) \notin LocalNameKinds
     /\ tree[k].text \notin bound

NamesOnlyTypes(type) ==
  \A m \in PartsBelow(type, type.root) :
     type.form[m] = "Spelled" =>
       \A k \in Within(type.tree, m) :
          type.tree[k].named => ~ReachesOutside(type.tree, k, BoundValues(type, m))

-----------------------------------------------------------------------------
(* What the normal form is meant to tell: two structures are the same when  *)
(* unions come in any order, type parameters are declared in any order, and *)
(* the variables of one stand one to one for those of the other.            *)
Label(type, k) ==
  LET tree == type.tree
      form == type.form[k]
      kinds == CASE form = "Callable" ->
                      <<tree[k].kind>> \o Each(ParameterNodes(tree, k), LAMBDA p : ParameterKind(tree, p))
                 [] form = "Tuple" -> Each(Elements(tree, k), LAMBDA e : ElementKind(tree, e))
                 [] form = "Predicate" -> <<tree[k].kind>>
                 [] form = "Spelled" ->
                      Each(LeafNodes(tree, k),
                           LAMBDA m : IF m \in SubstitutableNodes(tree, k) /\ type.binder[m] # 0
                                      THEN "" ELSE tree[m].text)
                 [] OTHER -> <<IF form = "Named" /\ type.binder[k] = 0 THEN NameOf(tree, k) ELSE "">>
  IN  [form |-> form, kinds |-> kinds, arity |-> Len(type.parts[k]),
       subject |-> IF form = "Predicate" THEN SubjectPositions(tree, k) ELSE {}]

(* Every way to write the same unions and the same type parameters.         *)
Rewritten(type, m) ==
  LET bounds(declared) == Joined(declared, LAMBDA t : Bounds(type.tree, t))
  IN  IF type.form[m] = "Union" THEN Permuted(type.parts[m], DOMAIN type.parts[m])
      ELSE {type.called[m] \o bounds(declared) :
              declared \in Permuted(type.parameters[m], DOMAIN type.parameters[m])}

Rewritings(type) ==
  LET nodes == {m \in PartsBelow(type, type.root) : type.form[m] \in {"Union", "Callable"}}
  IN  {f \in [nodes -> UNION {Rewritten(type, m) : m \in nodes}] :
         \A m \in nodes : f[m] \in Rewritten(type, m)}

Unused(type, c) ==
  LET called == UNION {PartsBelow(type, m) : m \in ToSet(type.called[c])}
  IN  SelectSeq(type.parameters[c],
                LAMBDA t : \A k \in called \cap UsedNames(type, c) : type.binder[k] # t)

TypeParameterLabel(tree, t) ==
  <<Each(Modifiers(tree, t), LAMBDA m : tree[m].text),
    NamedOfKind(tree, t, "constraint") # 0, NamedOfKind(tree, t, "default_type") # 0>>

(* a and b are the parts of the types s and t, each in its order.           *)
SameParts(s, t, a, b) ==
  LET used == {i \in DOMAIN a : a[i] \in UsedNames(s, s.root)}
      callables == {i \in DOMAIN a : s.form[a[i]] = "Callable"}
      renamed == {<<s.binder[a[i]], t.binder[b[i]]>> : i \in used}
      unused(i) == {<<Unused(s, a[i])[j], Unused(t, b[i])[j]>> : j \in DOMAIN Unused(s, a[i])}
      variables == {v \in renamed : v[1] # 0} \cup UNION {unused(i) : i \in callables}
  IN  /\ Len(a) = Len(b)
      /\ \A i \in DOMAIN a : Label(s, a[i]) = Label(t, b[i])
      /\ \A i \in callables :
            /\ Len(s.parameters[a[i]]) = Len(t.parameters[b[i]])
            /\ Len(Unused(s, a[i])) = Len(Unused(t, b[i]))
      /\ \A v \in renamed : v[1] = 0 <=> v[2] = 0
      /\ \A v, w \in variables : v[1] = w[1] <=> v[2] = w[2]
      /\ \A v \in variables : TypeParameterLabel(s.tree, v[1]) = TypeParameterLabel(t.tree, v[2])

(* A callable two of whose type parameters have bounds that declare type    *)
(* parameters themselves: those get their numbers as the bounds are written.*)
DeclaresInItsBounds(type, t) ==
  \E b \in ToSet(Bounds(type.tree, t)) : \E c \in PartsBelow(type, b) :
     type.form[c] = "Callable" /\ type.parameters[c] # <<>>

NumbersBoundsAsWritten(type) ==
  \E c \in PartsBelow(type, type.root) :
     /\ type.form[c] = "Callable"
     /\ Cardinality({t \in ToSet(type.parameters[c]) : DeclaresInItsBounds(type, t)}) > 1

SameButRenamed(s, t) ==
  \E plan \in Rewritings(t) : SameParts(s, t, Order(s, s.root, Written), Order(t, t.root, plan))
=============================================================================
