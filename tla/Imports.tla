------------------------------- MODULE Imports -------------------------------
(* What a file depends on, from its declarations (src/src/syntax/import.rs).*)
(* In TypeScript anything may be called `require`: a file whose spelling of *)
(* it might be something else than a call of the module loader is not       *)
(* measured, and neither is one with a declaration that cannot be read.     *)
EXTENDS Syntax, SequencesExt, FiniteSetsExt

CONSTANT Cut   \* of a specifier with separators in it, its segments: Segments

(* A name with a backslash in it, which spells what cannot be told.         *)
Escaped == "\\"

(* What cannot be read has no text.                                         *)
NoText == ""

(* text_of: a node is spelled as its only leaf, or as no name is.           *)
TextOf(tree, n) ==
  LET leaves == {m \in Within(tree, n) : Children(tree, m) = {}}
  IN  IF Cardinality(leaves) = 1 THEN tree[CHOOSE m \in leaves : TRUE].text ELSE NoText

IsField(tree, n, f) == n # 0 /\ tree[n].parent # 0 /\ TheField(tree, tree[n].parent, f) = n

ParentKind(tree, n) == KindAt(tree, tree[n].parent)

(* The node around n if it is of one of these kinds, else n.                *)
OutsideOf(tree, n, kinds) == IF ParentKind(tree, n) \in kinds THEN tree[n].parent ELSE n

-----------------------------------------------------------------------------
(* Wrappers: what passes the value of one of its children through.          *)
HoldsTheValueFirst ==
  {"parenthesized_expression", "as_expression", "satisfies_expression",
   "non_null_expression", "await_expression", "instantiation_expression"}

HoldsTheValueLast == {"type_assertion", "sequence_expression", "assignment_expression"}

ExpressionsIn(tree, n) == {m \in NamedChildren(tree, n) : tree[m].kind # "comment"}

FirstExpression(tree, n) ==
  IF n = 0 THEN 0 ELSE FirstOrNone(ExpressionsIn(tree, n))

(* value_child_of; 0 of what is no wrapper.                                 *)
ValueChild(tree, n) ==
  CASE KindAt(tree, n) \in HoldsTheValueFirst -> FirstExpression(tree, n)
    [] KindAt(tree, n) \in HoldsTheValueLast /\ ExpressionsIn(tree, n) # {} ->
         Max(ExpressionsIn(tree, n))
    [] OTHER -> 0

OutsideWrappers(tree, n) ==
  LET outside[m \in Nodes(tree)] ==
        IF ValueChild(tree, tree[m].parent) = m THEN outside[tree[m].parent] ELSE m
  IN  outside[n]

InsideWrappers(tree, n) ==
  LET inside[m \in Nodes(tree)] ==
        IF ValueChild(tree, m) = 0 THEN m ELSE inside[ValueChild(tree, m)]
  IN  IF n = 0 THEN 0 ELSE inside[n]

-----------------------------------------------------------------------------
(* Reading a specifier.                                                     *)
StringKinds == {"string", "template_string"}

(* unquoted_text_of: one fragment, all of it spelled out.                   *)
Unquoted(tree, literal) ==
  LET parts == NamedChildren(tree, literal)
  IN  IF Cardinality(parts) = 1 /\ \A m \in parts : tree[m].kind = "string_fragment"
      THEN TextOf(tree, CHOOSE m \in parts : TRUE) ELSE NoText

CallsDynamicImport(tree, n) ==
  KindAt(tree, n) = "call_expression" /\ KindAt(tree, TheField(tree, n, "function")) = "import"

CallsRequire(tree, n) ==
  /\ KindAt(tree, n) = "call_expression"
  /\ LET called == InsideWrappers(tree, TheField(tree, n, "function"))
     IN  KindAt(tree, called) = "identifier" /\ TextOf(tree, called) = "require"

FirstString(tree, n) ==
  FirstOrNone({m \in NamedChildren(tree, n) : tree[m].kind \in StringKinds})

(* reading_of_argument: nothing but the first argument is loaded.           *)
ArgumentLiteral(tree, call) ==
  LET first == InsideWrappers(tree, FirstExpression(tree, TheField(tree, call, "arguments")))
  IN  IF KindAt(tree, first) \in StringKinds THEN first ELSE 0

DependencyStatements == {"import_statement", "export_statement"}

(* Whether n declares a dependency (specifier_of), and in which literal.    *)
DeclaresAnyway(tree, n) ==
  \/ tree[n].kind \in DependencyStatements /\ HasField(tree, n, "source")
  \/ tree[n].kind = "import_require_clause" \/ CallsDynamicImport(tree, n)

SpecifierLiteral(tree, n) ==
  CASE tree[n].kind \in DependencyStatements -> TheField(tree, n, "source")
    [] tree[n].kind = "import_require_clause" -> FirstString(tree, n)
    [] OTHER -> ArgumentLiteral(tree, n)

SpecifierOf(tree, n) ==
  LET literal == SpecifierLiteral(tree, n)
  IN  IF literal = 0 THEN NoText ELSE Unquoted(tree, literal)

-----------------------------------------------------------------------------
(* Whether the value of an expression is called where it stands.            *)
InvokingCall(tree, n) ==
  LET positioned == OutsideWrappers(tree, n)
  IN  IF IsField(tree, positioned, "function") /\ ParentKind(tree, positioned) = "call_expression"
      THEN tree[positioned].parent ELSE 0

IsInvoked(tree, n) == InvokingCall(tree, n) # 0

IsInvokedOrConstructed(tree, n) ==
  LET positioned == OutsideWrappers(tree, n)
  IN  \/ IsInvoked(tree, n)
      \/ IsField(tree, positioned, "constructor")
         /\ ParentKind(tree, positioned) = "new_expression"

(* function_member_read_by                                                  *)
MemberRead(tree, access) ==
  CASE KindAt(tree, access) = "member_expression" /\ HasField(tree, access, "property") ->
         TextOf(tree, TheField(tree, access, "property"))
    [] KindAt(tree, access) = "subscript_expression" /\ HasField(tree, access, "index") ->
         Unquoted(tree, InsideWrappers(tree, TheField(tree, access, "index")))
    [] OTHER -> NoText

(* is_invoked_on_the_spot: also through call, apply, or bind of a function  *)
(* that is itself called on the spot.                                       *)
IsInvokedOnTheSpot(tree, n) ==
  LET spot[m \in 0..Len(tree)] ==
        LET positioned == OutsideWrappers(tree, m)
            access == tree[positioned].parent
            applied == InvokingCall(tree, access)
        IN  /\ m # 0
            /\ \/ IsInvokedOrConstructed(tree, m)
               \/ /\ IsField(tree, positioned, "object")
                  /\ \/ MemberRead(tree, access) \in {"call", "apply"} /\ spot[access]
                     \/ MemberRead(tree, access) = "bind" /\ applied # 0 /\ spot[applied]
  IN  spot[n]

-----------------------------------------------------------------------------
(* Keys that cannot be read.                                                *)
CannotSelectRequire == {"number", "true", "false", "null"}

IsHarmlessIndex(tree, n) ==
  \/ tree[n].kind \in CannotSelectRequire
  \/ tree[n].kind = "unary_expression"
     /\ KindAt(tree, TheField(tree, n, "argument")) \in CannotSelectRequire
  \/ tree[n].kind \in StringKinds /\ NamedChildren(tree, n) = {}

(* Mistake: what is called through call, apply or bind is not seen.         *)
Slip_IsInvokedUnreadableKey(tree, n) ==
  /\ tree[n].kind = "subscript_expression" /\ IsInvokedOrConstructed(tree, n)
  /\ HasField(tree, n, "index")
  /\ LET written == InsideWrappers(tree, TheField(tree, n, "index"))
     IN  ~IsHarmlessIndex(tree, written) /\ Unquoted(tree, written) = NoText

(* is_an_invoked_unreadable_key                                             *)
IsInvokedUnreadableKey(tree, n) ==
  /\ tree[n].kind = "subscript_expression" /\ IsInvokedOnTheSpot(tree, n)
  /\ HasField(tree, n, "index")
  /\ LET written == InsideWrappers(tree, TheField(tree, n, "index"))
     IN  ~IsHarmlessIndex(tree, written) /\ Unquoted(tree, written) = NoText

(* reads_a_field_by_this_string                                             *)
ReadsAField(tree, literal) ==
  LET positioned == OutsideWrappers(tree, literal)
      written == OutsideOf(tree, positioned, {"computed_property_name"})
  IN  \/ IsField(tree, positioned, "index") /\ ParentKind(tree, positioned) = "subscript_expression"
      \/ IsField(tree, written, "key") /\ ParentKind(tree, written) = "pair_pattern"

SpellsAStaticName(tree, literal) ==
  LET kinds == {tree[m].kind : m \in NamedChildren(tree, literal)}
  IN  "escape_sequence" \in kinds /\ "template_substitution" \notin kinds

IsUnreadableKey(tree, n) ==
  /\ tree[n].kind \in StringKinds /\ ReadsAField(tree, n)
  /\ Unquoted(tree, n) = NoText /\ SpellsAStaticName(tree, n)

-----------------------------------------------------------------------------
(* Places where a name is no reference to a value and binds none.           *)
TypeOnlyKinds ==
  {"function_type", "constructor_type", "call_signature", "construct_signature",
   "method_signature", "abstract_method_signature", "property_signature", "index_signature",
   "type_query", "type_alias_declaration", "interface_declaration", "type_annotation",
   "type_parameter", "type_parameters", "type_arguments", "implements_clause",
   "function_signature"}

SpellsATypeOnlyMarker(tree, n) ==
  /\ tree[n].kind \in DependencyStatements \cup {"import_specifier", "export_specifier"}
  /\ \E m \in Children(tree, n) : ~tree[m].named /\ tree[m].kind = "type"

IsWrittenOnlyInAType(tree, n) ==
  \E m \in Above(tree, n) \ {n} :
    tree[m].kind \in TypeOnlyKinds \/ SpellsATypeOnlyMarker(tree, m)

(* is_the_type_side_of_an_assertion, of the nearest assertion around n.     *)
IsAssertedType(tree, n) ==
  LET assertions == {m \in Above(tree, n) \ {n} :
                       tree[m].kind \in {"as_expression", "satisfies_expression"}}
  IN  assertions # {} /\ ValueChild(tree, Max(assertions)) \notin Above(tree, n)

IsInsideAReExport(tree, n) ==
  LET exports == {m \in Above(tree, n) \ {n} : tree[m].kind = "export_statement"}
  IN  exports # {} /\ HasField(tree, Max(exports), "source")

(* is_the_imported_side_of_a_rename                                         *)
IsForeignName(tree, n) ==
  LET written == OutsideOf(tree, n, StringKinds)
      parent == tree[written].parent
  IN  CASE KindAt(tree, parent) = "import_specifier" ->
             IsField(tree, written, "name") /\ HasField(tree, parent, "alias")
        [] KindAt(tree, parent) = "export_specifier" ->
             IsField(tree, written, "alias") \/ IsInsideAReExport(tree, parent)
        [] KindAt(tree, parent) = "namespace_export" -> IsInsideAReExport(tree, parent)
        [] OTHER -> FALSE

(* is_an_object_key: of a key that is computed, only what is in quotes.     *)
IsObjectKey(tree, n) ==
  LET literal == OutsideOf(tree, n, StringKinds)
      written == IF literal = n THEN n ELSE OutsideOf(tree, literal, {"computed_property_name"})
  IN  ParentKind(tree, written) = "pair" /\ IsField(tree, written, "key")

JsxElements == {"jsx_opening_element", "jsx_closing_element", "jsx_self_closing_element"}

IsJsxName(tree, n) ==
  LET written == OutsideOf(tree, n, {"jsx_namespace_name"})
  IN  \/ ParentKind(tree, written) \in JsxElements /\ IsField(tree, written, "name")
      \/ /\ ParentKind(tree, written) = "jsx_attribute"
         /\ written = Min(NamedChildren(tree, tree[written].parent))

NonLoadingMembers == {"resolve", "cache", "main"}

CannotLoadWhateverItSpells(tree, n) ==
  LET positioned == OutsideWrappers(tree, n)
  IN  /\ tree[positioned].parent # 0
      /\ \/ /\ IsField(tree, positioned, "object")
            /\ MemberRead(tree, tree[positioned].parent) \in NonLoadingMembers
         \/ IsField(tree, positioned, "argument") /\ ParentKind(tree, positioned) = "unary_expression"
         \/ IsWrittenOnlyInAType(tree, n) \/ IsForeignName(tree, n) \/ IsObjectKey(tree, n)
         \/ IsAssertedType(tree, n) \/ IsJsxName(tree, n) \/ tree[n].kind = "statement_identifier"

(* is_a_dependency_literal: n is inside of a literal that names a module.   *)
IsDependencyLiteral(tree, n) ==
  LET literal == OutsideOf(tree, n, StringKinds)
      parent == tree[literal].parent
      written == OutsideWrappers(tree, literal)
      arguments == tree[written].parent
      call == IF arguments = 0 THEN 0 ELSE tree[arguments].parent
  IN  CASE parent = 0 -> FALSE
        [] KindAt(tree, parent) \in DependencyStatements -> IsField(tree, literal, "source")
        [] KindAt(tree, parent) = "import_require_clause" -> FirstString(tree, parent) = literal
        [] OTHER -> /\ CallsDynamicImport(tree, call) \/ CallsRequire(tree, call)
                    /\ IsField(tree, arguments, "arguments")
                    /\ FirstExpression(tree, arguments) = written

-----------------------------------------------------------------------------
CannotSpellAName == {"comment", "regex_pattern", "escape_sequence", "jsx_text"}

IsEscapedName(tree, n) ==
  /\ NamedChildren(tree, n) = {} /\ tree[n].kind \notin CannotSpellAName
  /\ TextOf(tree, n) = Escaped

(* is_require_spelled_outside_a_call: n may be, or may bind, the loader.    *)
MayBeTheLoader(tree, n) ==
  IF IsEscapedName(tree, n) THEN ~CannotLoadWhateverItSpells(tree, n)
  ELSE \/ IsUnreadableKey(tree, n) \/ IsInvokedUnreadableKey(tree, n)
       \/ /\ TextOf(tree, n) = "require" /\ tree[n].kind \notin CannotSpellAName
          /\ ~IsDependencyLiteral(tree, n)
          /\ ~IsInvoked(tree, n) /\ ~CannotLoadWhateverItSpells(tree, n)

NamedNodes(tree) == {n \in Nodes(tree) : tree[n].named}

(* require_spelling_of                                                      *)
IsRebound(tree) == \E n \in NamedNodes(tree) : MayBeTheLoader(tree, n)

Specifiers(set) == [kind |-> "Imports", set |-> set, cause |-> <<>>]
Unreadable(reason) == [kind |-> reason, set |-> {}, cause |-> <<>>]

(* Of the declarations that cannot be read the line of the first is told.   *)
UnreadableAmong(tree, nodes) ==
  [Unreadable("UnreadableDeclaration") EXCEPT !.cause = <<tree[Min(nodes)].first>>]

(* specifiers_of: what cannot be read whatever `require` is comes first.    *)
SpecifiersAmong(tree, anyway, required, text) ==
  LET lost(nodes) == {n \in nodes : text[n] = NoText}
  IN  CASE lost(anyway) # {} -> UnreadableAmong(tree, lost(anyway))
        [] OTHER ->
             IF IsRebound(tree) THEN Unreadable("ReboundSpelling")
             ELSE IF lost(required) # {} THEN UnreadableAmong(tree, lost(required))
             ELSE Specifiers({text[n] : n \in anyway \cup required})

TypeScriptSpecifiers(tree) ==
  LET anyway == {n \in NamedNodes(tree) : DeclaresAnyway(tree, n)}
  IN  SpecifiersAmong(tree, anyway, {n \in NamedNodes(tree) \ anyway : CallsRequire(tree, n)},
                      [n \in NamedNodes(tree) |-> SpecifierOf(tree, n)])

-----------------------------------------------------------------------------
(* The names written below n, in order.                                     *)
Names(tree, n, kinds) ==
  LET written == InOrder({m \in Within(tree, n) : tree[m].kind \in kinds})
  IN  [i \in DOMAIN written |-> tree[written[i]].text]

RustPathKinds == {"identifier", "crate", "super", "self"}
RustUseKinds ==
  RustPathKinds \cup {"scoped_use_list", "use_list", "use_as_clause", "use_wildcard", "scoped_identifier"}

(* rust_use_leaves_of: the paths a part of a `use` stands for; self of a    *)
(* group is the path of the group.                                          *)
RustLeaves(tree, argument) ==
  LET path(m) == IF m = 0 THEN <<>> ELSE Names(tree, m, RustPathKinds)
      grouped(m) == \E k \in Above(tree, m) \ {m} : tree[k].kind = "scoped_use_list"
      leaves[m \in Nodes(tree)] ==
        CASE tree[m].kind = "scoped_use_list" ->
               {path(TheField(tree, m, "path")) \o l : l \in leaves[TheField(tree, m, "list")]}
          [] tree[m].kind = "use_list" -> UNION {leaves[k] : k \in NamedChildren(tree, m)}
          [] tree[m].kind = "use_as_clause" -> leaves[TheField(tree, m, "path")]
          [] tree[m].kind = "use_wildcard" -> {path(FirstNamed(tree, m)) \o <<"*">>}
          [] tree[m].kind = "self" /\ grouped(m) -> {<<>>}
          [] OTHER -> {path(m)}
  IN  leaves[argument]

(* Every part of a `use` that is looked at, a comment in a group, too, has  *)
(* to be of a kind that is known, and a group has to have a path.           *)
IsReadableUse(tree, n) ==
  LET argument == TheField(tree, n, "argument")
      looked == {argument} \cup {m \in Within(tree, n) :
                                   \/ tree[m].named /\ ParentKind(tree, m) = "use_list"
                                   \/ IsField(tree, m, "path") /\ ParentKind(tree, m) = "use_as_clause"}
  IN  /\ ~tree[n].error /\ argument # 0
      /\ \A m \in looked : /\ tree[m].kind \in RustUseKinds
                           /\ tree[m].kind = "scoped_use_list" => HasField(tree, m, "path")

RustPaths(tree) ==
  LET uses == {n \in Nodes(tree) : tree[n].kind = "use_declaration"}
      lost == {n \in uses : ~IsReadableUse(tree, n)}
  IN  IF lost # {} THEN UnreadableAmong(tree, lost)
      ELSE Specifiers(UNION {RustLeaves(tree, TheField(tree, n, "argument")) : n \in uses})

(* An `import` among what does not parse (contains_an_import_keyword).      *)
LostImports(tree) ==
  {n \in Nodes(tree) : /\ tree[n].kind = "ERROR"
                       /\ \E m \in Within(tree, n) \ {n} : tree[m].kind = "import"}

ImportDeclarations(tree) == {n \in Nodes(tree) : tree[n].kind = "import_declaration"}

JavaNames(tree, n) ==
  LET names == {m \in NamedChildren(tree, n) : tree[m].kind \in {"scoped_identifier", "identifier"}}
      star == \E m \in NamedChildren(tree, n) : tree[m].kind = "asterisk"
  IN  IF names = {} THEN <<>>
      ELSE Names(tree, Min(names), {"identifier"}) \o IF star THEN <<"*">> ELSE <<>>

SwiftNames(tree, n) ==
  LET names == {m \in NamedChildren(tree, n) : tree[m].kind = "identifier"}
  IN  IF names = {} THEN <<>> ELSE Names(tree, Min(names), {"simple_identifier"})

(* is_unreadable_swift_import: what does not parse goes on behind it.       *)
IsUnreadableSwiftImport(tree, n) ==
  LET after == {m \in Children(tree, tree[n].parent) :
                  m > n /\ tree[m].kind \notin {"comment", "multiline_comment"}}
  IN  \/ tree[n].error
      \/ /\ after # {} /\ tree[Min(after)].kind = "ERROR"
         /\ tree[Min(after)].first = tree[n].last

(* java_import_specifiers_of, swift_import_specifiers_of                    *)
DeclaredPaths(tree, unreadable, names) ==
  LET lost == LostImports(tree) \cup unreadable \cup {n \in DOMAIN names : names[n] = <<>>}
  IN  IF lost # {} THEN UnreadableAmong(tree, lost) ELSE Specifiers(Range(names))

-----------------------------------------------------------------------------
(* ModulePath: what a specifier stands for, as seen from its file. Places   *)
(* are joined by slashes, names by colons or dots.                          *)
InPlace(segments) == [joined |-> "/", segments |-> segments]
ByName(segments) == [joined |-> "::", segments |-> segments]

(* No specifier that can be read has a backslash in it, which is what       *)
(* with_forward_separators is about.                                        *)
Segments(text) == IF text \in DOMAIN Cut THEN Cut[text] ELSE <<text>>

(* climb                                                                    *)
Climbed(segments) ==
  IF segments = <<>> \/ Last(segments) = ".." THEN Append(segments, "..") ELSE Front(segments)

(* folded_path: from the directory of the file, without its own dots.       *)
Folded(directory, steps) ==
  LET step(segments, part) ==
        CASE part \in {"", "."} -> segments
          [] part = ".." -> Climbed(segments)
          [] OTHER -> Append(segments, part)
  IN  FoldLeft(step, SelectSeq(directory, LAMBDA d : d \notin {".", ".."}), steps)

FromSpecifier(text, importer) ==
  LET steps == Segments(text)
  IN  IF steps[1] \in {".", ".."} THEN InPlace(Folded(Front(importer.segments), steps))
      ELSE InPlace(steps)

(* from_rust_use: crate is the nearest src around the file.                 *)
SourceRoot(importer) ==
  LET roots == {i \in DOMAIN importer.segments : importer.segments[i] = "src"}
  IN  IF roots = {} THEN Front(importer.segments) ELSE SubSeq(importer.segments, 1, Max(roots))

FromRustUse(names, importer) ==
  CASE names[1] = "crate" -> InPlace(SourceRoot(importer) \o Tail(names))
    [] names[1] \in {"self", "super"} -> ByName(importer.segments \o names)
    [] OTHER -> ByName(names)

(* ImportSet::from_tree                                                     *)
ImportsOf(file, importer) ==
  LET tree == file.tree
      declared == ImportDeclarations(tree)
      resolved(read, path(_)) ==
        CASE read.kind # "Imports" -> read
          [] read.set = {} -> Unreadable("NoDeclaration")
          [] OTHER -> Specifiers({path(s) : s \in read.set})
  IN  CASE IsTypeScript(file.grammar) ->
             resolved(TypeScriptSpecifiers(tree), LAMBDA s : FromSpecifier(s, importer))
        [] file.grammar = "Rust" ->
             resolved(RustPaths(tree), LAMBDA s : FromRustUse(s, importer))
        [] file.grammar = "Java" ->
             resolved(DeclaredPaths(tree, {n \in declared : tree[n].error},
                                    [n \in declared |-> JavaNames(tree, n)]), InPlace)
        [] OTHER ->
             resolved(DeclaredPaths(tree, {n \in declared : IsUnreadableSwiftImport(tree, n)},
                                    [n \in declared |-> SwiftNames(tree, n)]), InPlace)

-----------------------------------------------------------------------------
(* What JavaScript makes of a file, to compare with: what the value of an   *)
(* expression may be, of `module`, the loader and what calls the loader.    *)
(* An escape may spell any name; a key that is known only when the file     *)
(* runs has any of the names in `late`.                                     *)
LeadsTo ==
  LET function == [call |-> "caller", apply |-> "caller", bind |-> "binder"]
  IN  [module |-> [require |-> "loader"], loader |-> function, caller |-> function]

LeadingNames == UNION {DOMAIN LeadsTo[object] : object \in DOMAIN LeadsTo}

NamesOf(tree, key, late) ==
  LET written == IF KindAt(tree, key) = "computed_property_name" THEN FirstExpression(tree, key) ELSE key
      n == InsideWrappers(tree, written)
      kind == KindAt(tree, n)
      pieces == NamedChildren(tree, n)
      literals == {"number", "true", "false", "null"}
  IN  CASE kind = "property_identifier" ->
             IF tree[n].text = Escaped THEN LeadingNames ELSE {tree[n].text}
        [] kind \in StringKinds /\ \A m \in pieces : tree[m].kind # "template_substitution" ->
             IF \E m \in pieces : tree[m].kind = "escape_sequence" THEN LeadingNames
             ELSE {tree[m].text : m \in pieces}
        [] kind \in literals -> {}
        [] kind = "unary_expression" /\ KindAt(tree, TheField(tree, n, "argument")) \in literals -> {}
        [] OTHER -> late

(* Of every expression; `held` are variables that hold the loader.          *)
ValuesIn(tree, held, late) ==
  LET key == [member_expression |-> "property", subscript_expression |-> "index"]
      named(text) ==
        (IF text \in {"require", Escaped} \cup held THEN {"loader"} ELSE {}) \cup ({text} \cap {"module"})
      reached(objects, names) ==
        UNION {{LeadsTo[o][k] : k \in names \cap DOMAIN LeadsTo[o]} : o \in objects \cap DOMAIN LeadsTo}
      values[m \in Nodes(tree)] ==
        LET kind == tree[m].kind
            expressions == ExpressionsIn(tree, m)
        IN  CASE kind = "identifier" -> named(tree[m].text)
              [] kind \in DOMAIN key ->
                   reached(values[TheField(tree, m, "object")],
                           NamesOf(tree, TheField(tree, m, key[kind]), late))
              [] kind = "call_expression" ->
                   IF "binder" \in values[TheField(tree, m, "function")] THEN {"loader"} ELSE {}
              [] kind \in {"parenthesized_expression", "as_expression", "satisfies_expression",
                           "non_null_expression", "instantiation_expression"} -> values[Min(expressions)]
              [] kind \in {"sequence_expression", "assignment_expression", "type_assertion"} ->
                   values[Max(expressions)]
              [] OTHER -> {}
  IN  values

(* Variables that take the loader, whole or out of `module`.                *)
HoldingTheLoader(tree, values) ==
  LET declarators == {n \in Nodes(tree) : tree[n].kind = "variable_declarator" /\ HasField(tree, n, "value")}
      taking(what) == {n \in declarators : what \in values[TheField(tree, n, "value")]}
      out == {n \in Nodes(tree) : /\ tree[n].kind = "pair_pattern"
                                  /\ "require" \in NamesOf(tree, TheField(tree, n, "key"), {})
                                  /\ Above(tree, n) \cap taking("module") # {}}
  IN  {TextOf(tree, TheField(tree, n, "name")) : n \in taking("loader")}
      \cup {TextOf(tree, TheField(tree, n, "value")) : n \in out}

(* What may be loaded when the file runs; NoText if that is not spelled out *)
(* as the argument of the loader.                                           *)
LoadedBy(tree, values) ==
  LET called(n) == IF tree[n].kind = "new_expression" THEN TheField(tree, n, "constructor")
                   ELSE TheField(tree, n, "function")
      argument(n) == InsideWrappers(tree, FirstExpression(tree, TheField(tree, n, "arguments")))
      calls == {n \in Nodes(tree) : /\ tree[n].kind \in {"call_expression", "new_expression"}
                                    /\ tree[called(n)].kind # "import"
                                    /\ values[called(n)] \cap {"loader", "caller"} # {}}
      spelled(n) == values[called(n)] = {"loader"} /\ KindAt(tree, argument(n)) \in StringKinds
  IN  {IF spelled(n) THEN Unquoted(tree, argument(n)) ELSE NoText : n \in calls}

(* A variable takes the loader by a name that is written in the file; where *)
(* something is called, a key that is known only later may name it, too.    *)
ValuesWhenCalled(tree) ==
  ValuesIn(tree, HoldingTheLoader(tree, ValuesIn(tree, {}, {})), LeadingNames)

(* A variable, a function, a parameter or an import called require.         *)
BindsRequire(tree) ==
  \E n \in Nodes(tree) :
    /\ TextOf(tree, n) = "require" /\ Children(tree, n) = {}
    /\ \/ IsField(tree, n, "name") /\ ParentKind(tree, n) \in {"variable_declarator", "function_declaration"}
       \/ IsField(tree, n, "pattern") /\ ParentKind(tree, n) = "required_parameter"
          /\ ~IsWrittenOnlyInAType(tree, n)
       \/ /\ ParentKind(tree, n) = "import_specifier" /\ ~IsWrittenOnlyInAType(tree, n)
          /\ IsField(tree, n, "alias") \/ ~HasField(tree, tree[n].parent, "alias")

(* What a file loads by calling `require`, `module.require` or a variable   *)
(* that took one of them, directly or by call, apply and bind, is among its *)
(* imports if it has any that are measured. The key of an access may be     *)
(* known only when the file runs, but then the loader is called where it is *)
(* accessed: one that is taken by such a key and called later is lost in    *)
(* silence (is_an_invoked_unreadable_key). Of a file where `require` may be *)
(* something else, no call of it is measured (require_spelling_of; the      *)
(* comments on its lists say which omission would drop a load in silence).  *)
KnowsItsLoads(file, importer, imports) ==
  IsTypeScript(file.grammar) /\ imports.kind = "Imports" =>
    /\ \A text \in LoadedBy(file.tree, ValuesWhenCalled(file.tree)) :
          text # NoText /\ FromSpecifier(text, importer) \in imports.set
    /\ BindsRequire(file.tree) => \A n \in Nodes(file.tree) : ~CallsRequire(file.tree, n)
=============================================================================
