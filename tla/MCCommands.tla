----------------------------- MODULE MCCommands ------------------------------
(* Small sources, servers and settings for Commands.                        *)
EXTENDS Commands

(* A tree is written as its nodes with all that is inside of each: a node   *)
(* is opened as <<field, kind, text>> and closed; the lines it spans are    *)
(* added behind, innermost first. The text of a function that does not      *)
(* parse is "broken". A tree is joined with nothing so that TLC holds its   *)
(* nodes as values and does not evaluate them again.                        *)
Close == <<>>
In(field, kind, inside) == <<<<field, kind, "">>>> \o inside \o <<Close>>
Of(kind, inside) == In("", kind, inside)
Is(field, kind, text) == <<<<field, kind, text>>, Close>>
Leaf(kind, text) == Is("", kind, text)
Lines(first, last, rows) ==
  [i \in DOMAIN rows |-> IF Len(rows[i]) = 3 THEN rows[i] \o <<first, last>> ELSE rows[i]]

Symbols == {"=", "'", "(", "{", ":", "!", "type", "&", "<", ">", "+", "[", "]", ";", "dyn", "impl", "fn"}

Parsed(rows) ==
  LET opened == {i \in DOMAIN rows : rows[i] # Close}
      depth == [i \in DOMAIN rows |-> 2 * Cardinality(opened \cap 1..(i - 1)) - (i - 1)]
      parent(i) == {j \in opened : j < i /\ depth[j] < depth[i]}
      nodes == SelectSeq([i \in DOMAIN rows |-> i], LAMBDA i : i \in opened)
      number(i) == Cardinality(opened \cap 1..i)
  IN  [n \in DOMAIN nodes |->
         LET i == nodes[n]
             row == rows[i]
         IN  [field |-> row[1], kind |-> row[2], text |-> row[3], named |-> row[2] \notin Symbols,
              first |-> IF Len(row) = 5 THEN row[4] ELSE 1, last |-> IF Len(row) = 5 THEN row[5] ELSE 1,
              error |-> row[3] = "broken", capital |-> FALSE,
              parent |-> IF parent(i) = {} THEN 0 ELSE number(Max(parent(i)))]] \o <<>>

-----------------------------------------------------------------------------
(* function f(a) { return b => b }, the arrow on a line of its own.         *)
Nested(name, a, b, first) ==
  Lines(first, first + 2,
    Of("function_declaration",
       Is("name", "identifier", name)
       \o In("parameters", "formal_parameters",
             Of("required_parameter", Is("pattern", "identifier", a)))
       \o Lines(first + 1, first + 1,
             In("body", "statement_block",
                Of("arrow_function", Is("parameter", "identifier", b)
                                     \o Is("body", "identifier", b))))))

(* const h: P & Q = y => y                                                  *)
Annotated(name, line) ==
  Lines(line, line,
    Of("lexical_declaration",
       Of("variable_declarator",
          Is("name", "identifier", name)
          \o In("type", "type_annotation",
                Of("intersection_type", Leaf("type_identifier", "P") \o Leaf("type_identifier", "Q")))
          \o In("value", "arrow_function", Is("parameter", "identifier", "y")
                                           \o Is("body", "identifier", "y")))))

(* Two overloads of s and its body, each taking a parameter; the type of    *)
(* the body's is left out.                                                  *)
SignatureAlone(line) ==
  Lines(line, line, Of("function_signature", Is("name", "identifier", "s")))
Overloaded(line) ==
  SignatureAlone(line) \o SignatureAlone(line)
  \o Lines(line + 1, line + 1,
       Of("function_declaration",
          Is("name", "identifier", "s")
          \o In("parameters", "formal_parameters",
                Of("required_parameter", Is("pattern", "identifier", "v")))
          \o In("body", "statement_block", Of("return_statement", Leaf("identifier", "v")))))

-----------------------------------------------------------------------------
(* Declarations of dependencies. Tokens without a name are there where a    *)
(* node would otherwise be spelled as the only name inside of it.           *)
At(field, rows) == [rows EXCEPT ![1] = <<field, @[2], @[3]>>]
Mark(s) == Leaf(s, s)
Id(x) == Leaf("identifier", x)
Quoted(pieces) == Of("string", Mark("'") \o pieces \o Mark("'"))
Str(x) == Quoted(Leaf("string_fragment", x))
EscapedText == Quoted(Leaf("string_fragment", "re") \o Leaf("escape_sequence", "\\"))
Template(pieces) == Of("template_string", Mark("'") \o pieces)
Hole == Of("template_substitution", Mark("{") \o Id("x"))

ImportOf(clause, from) == Of("import_statement", clause \o At("source", from))
FromM(clause) == ImportOf(Of("import_clause", Of("named_imports", Mark("{") \o clause)), Str("m"))
Plainly(x) == ImportOf(<<>>, Str(x))
Reexported(clause, from) == Of("export_statement", Of("export_clause", Mark("{") \o clause) \o from)

Paren(e) == Of("parenthesized_expression", Mark("(") \o e)
Asserted(e, type) == Of("as_expression", e \o type)
LastOf(e) == Of("sequence_expression", Leaf("number", "0") \o e)
Asserting(e) == Of("type_assertion", Of("type_arguments", Leaf("type_identifier", "N")) \o e)
NonNull(e) == Of("non_null_expression", e \o Mark("!"))
Dot(e, x) == Of("member_expression", At("object", e) \o Is("property", "property_identifier", x))
Keyed(e, key) == Of("subscript_expression", At("object", e) \o At("index", key))
Call(e, arguments) ==
  Of("call_expression", At("function", e) \o In("arguments", "arguments", Mark("(") \o arguments))
New(e, arguments) ==
  Of("new_expression", At("constructor", e) \o In("arguments", "arguments", Mark("(") \o arguments))
Statement(e) == Of("expression_statement", e \o Mark(":"))
Let(pattern, value) ==
  Of("lexical_declaration", Of("variable_declarator", At("name", pattern) \o At("value", value)))
Null == Leaf("null", "null")

(* Ways to come by the loader, and what may be done with it.                *)
Loaders ==
  <<Id("require"), Paren(Id("require")), Asserted(Id("require"), Leaf("type_identifier", "N")),
   LastOf(Id("require")), Asserting(NonNull(Id("require"))), Id("\\"), Dot(Id("module"), "require"),
   Keyed(Id("module"), Str("require")), Keyed(Id("module"), EscapedText), Keyed(Id("module"), Id("k")),
   Keyed(Id("module"), Template(Leaf("string_fragment", "re") \o Hole))>>

Uses(e) ==
  <<Statement(Call(e, Str("./u"))), Statement(New(e, Str("./u"))), Statement(Call(e, Id("x"))),
   Statement(Call(Dot(e, "call"), Null \o Str("./u"))),
   Statement(Call(Keyed(e, Str("apply")), Null \o Str("./u"))),
   Statement(Call(Call(Dot(e, "bind"), Null), Str("./u"))),
   Statement(Call(Dot(e, "resolve"), Str("./u"))),
   Statement(Of("unary_expression", Mark("!") \o At("argument", e))),
   Let(Id("load"), e) \o Statement(Call(Id("load"), Str("./u")))>>

(* Other places for the name, and keys that are not spelled out.            *)
Specifier(kind, name, alias) ==
  Of(kind, At("name", name) \o IF alias = <<>> THEN <<>> ELSE At("alias", alias))
Pattern(key) ==
  Let(Of("object_pattern", Mark("{") \o Of("pair_pattern", At("key", key) \o Is("value", "identifier", "load"))),
      Id("module"))
  \o Statement(Call(Id("load"), Str("./u")))
Object(key) ==
  Let(Id("o"), Of("object", Mark("{") \o Of("pair", At("key", key) \o Is("value", "number", "1"))))
Computed(e) == Of("computed_property_name", Mark("(") \o e)
Shadowed == Statement(Call(Id("require"), Str("./u")))
AnyKey == Keyed(Id("o"), Id("k"))

Spelt == <<"./u", "../lib/x/u", "..", "./", "../../../u", "n/u", "src/u">>

Mentions ==
  <<FromM(Specifier("import_specifier", Id("require"), Id("load"))),
   FromM(Specifier("import_specifier", Id("load"), Id("require"))) \o Shadowed,
   FromM(Of("import_specifier", Mark("type") \o Is("name", "identifier", "require"))),
   ImportOf(Of("import_clause", Id("require")), Str("m")) \o Shadowed,
   Reexported(Specifier("export_specifier", Id("require"), Id("load")), At("source", Str("m"))),
   Reexported(Specifier("export_specifier", Str("require"), Str("require")), At("source", Str("m"))),
   Reexported(Specifier("export_specifier", Id("require"), <<>>), At("source", Str("m"))),
   Reexported(Specifier("export_specifier", Id("require"), Id("load")), <<>>),
   Of("export_statement", Of("namespace_export", Mark("{") \o Id("require")) \o At("source", Str("m"))),
   Pattern(Leaf("property_identifier", "require")), Pattern(Computed(Str("require"))),
   Pattern(Computed(EscapedText)), Pattern(Computed(Id("k"))),
   Object(Leaf("property_identifier", "require")),
   Object(Str("require")), Object(Computed(Str("require"))), Object(Computed(Id("require"))),
   Of("function_declaration", Is("name", "identifier", "require")) \o Shadowed,
   Of("interface_declaration", Of("method_signature", Is("name", "property_identifier", "require"))),
   Of("function_signature", Of("required_parameter", Is("pattern", "identifier", "require"))),
   Statement(Asserted(Id("v"), Of("union_type", Leaf("type_identifier", "require") \o Leaf("null", "null")))),
   Of("labeled_statement", Is("label", "statement_identifier", "require") \o Statement(Null)),
   Of("jsx_self_closing_element",
      Is("name", "identifier", "require") \o Of("jsx_attribute", Leaf("property_identifier", "require") \o Null)),
   Of("jsx_self_closing_element", At("name", Of("jsx_namespace_name", Leaf("identifier", "require") \o Mark(":")
                                                                     \o Leaf("identifier", "tag")))),
   Leaf("comment", "require"), Leaf("jsx_text", "\\"),
   Of("import_statement", Of("import_require_clause", Id("u") \o Str("./u"))),
   ImportOf(Of("import_clause", Id("u")), Str("require")), Statement(Call(Paren(Id("require")), Paren(Str("require")))),
   Statement(Call(Leaf("import", "import"), Template(Leaf("string_fragment", "./u")))),
   Statement(Call(Leaf("import", "import"), Template(Leaf("string_fragment", "./") \o Hole))),
   Statement(Call(Leaf("import", "import"), Leaf("comment", "") \o Id("x"))),
   Statement(Call(AnyKey, Null)), Statement(Call(Dot(AnyKey, "call"), Null)), Statement(New(AnyKey, Null)),
   Statement(Call(Dot(Call(Dot(AnyKey, "bind"), Null), "apply"), Null)),
   Let(Id("f"), Call(Dot(AnyKey, "bind"), Null)), Statement(Call(Keyed(Id("o"), Str("")), Null)),
   Statement(Call(Keyed(Id("o"), Leaf("number", "0")), Null)),
   Statement(Call(Keyed(Id("o"), Of("unary_expression", Mark("!") \o Is("argument", "number", "1"))), Null)),
   Statement(Call(Keyed(Id("o"), Quoted(<<>>)), Null)), Let(Id("f"), Keyed(Id("o"), Template(Leaf("escape_sequence", "\\") \o Hole)))>>
  \o [i \in DOMAIN Spelt |-> Plainly(Spelt[i])]

MCCut ==
  ("./u" :> <<".", "u">>) @@ ("./" :> <<".", "">>) @@ ("../lib/x/u" :> <<"..", "lib", "x", "u">>)
  @@ ("../../../u" :> <<"..", "..", "..", "u">>) @@ ("n/u" :> <<"n", "u">>) @@ ("src/u" :> <<"src", "u">>)

(* A function g on line 4, behind what a file loads; one import is always   *)
(* there, so that what is lost does not leave nothing.                      *)
Loading(rows) == Parsed(Of("program", Plainly("n") \o rows \o Nested("g", "x", "x", 4)))
LoadingRows == FoldLeft(LAMBDA rows, e : rows \o Uses(e), Mentions, Loaders)
LoadingTrees == [i \in DOMAIN LoadingRows |-> Loading(LoadingRows[i])]

TypeScriptTree ==
  Parsed(Of("program",
    Plainly("m") \o Plainly("n") \o
    Nested("f", "a", "b", 1) \o Nested("g", "x", "x", 4) \o Nested("k", "p", "q", 7)
    \o Annotated("h", 10) \o Annotated("i", 11)
    \o Lines(12, 12, <<<<"", "function_declaration", "broken">>>>
                     \o Is("name", "identifier", "e") \o <<Close>>)
    \o Overloaded(13)))

RustFunction(name, a, b, first) ==
  Lines(first, first,
    Of("function_item",
       Is("name", "identifier", name)
       \o In("parameters", "parameters",
             Of("parameter", Is("pattern", "identifier", a) \o Is("type", "type_identifier", "Item")))
       \o In("body", "block",
             Of("let_declaration", Is("pattern", "identifier", b) \o Is("value", "identifier", a))
             \o Leaf("identifier", b))))
(* `use` in all its forms; the last three cannot be read.                   *)
Scoped(path, name) == Of("scoped_identifier", At("path", path) \o At("name", name))
Use(argument) == Of("use_declaration", At("argument", argument))
Group(path, parts) ==
  Of("scoped_use_list", At("path", path) \o At("list", Of("use_list", Mark("{") \o parts)))
Crate == Leaf("crate", "crate")
Itself == Leaf("self", "self")
RustUses ==
  <<Use(Scoped(Crate, Id("a"))), Use(Group(Scoped(Crate, Id("a")), Itself \o Id("b"))), Use(Itself),
   Use(Of("use_as_clause", At("path", Scoped(Itself, Id("a"))) \o Is("alias", "identifier", "z"))),
   Use(Group(Id("std"), Of("use_wildcard", <<>>) \o Of("use_wildcard", Id("a")))),
   Use(Group(Id("std"), Leaf("line_comment", "") \o Id("a"))),
   Use(Of("scoped_use_list", At("list", Of("use_list", Id("a"))))), Of("use_declaration", <<>>)>>
OtherUses ==
  <<Use(Scoped(Crate, Id("a"))) \o Use(Scoped(Id("std"), Id("a"))), Lines(2, 2, Of("use_declaration", <<>>))>>
RustUsing(rows) == Parsed(Of("source_file", rows \o RustFunction("g", "x", "x", 4)))


(* Rust types, and the signatures of functions.                             *)
Ty(x) == Leaf("type_identifier", x)
SelfType == Ty("Self")
IntType == Leaf("primitive_type", "Int")
Tick(x) == Of("lifetime", Mark("'") \o Id(x))
Path(text, path) ==
  <<<<"", "scoped_type_identifier", text>>>> \o At("path", path) \o Is("name", "type_identifier", "Out")
  \o <<Close>>
OutOf(text) == Path(text, Id("Self"))
QualifiedAs(text, type) ==
  Path(text, Of("bracketed_type", Mark("<") \o Of("qualified_type", At("type", type)) \o Mark(">")))
Applied(head, arguments) ==
  Of("generic_type", At("type", head)
                     \o In("type_arguments", "type_arguments", Mark("<") \o arguments \o Mark(">")))
Dyn(bound) == Of("dynamic_type", Mark("dyn") \o At("trait", bound))
Ref(more, type) == Of("reference_type", Mark("&") \o more \o type)
ArrayOf(type, n) ==
  Of("array_type", Mark("[") \o At("element", type) \o Mark(";") \o Is("length", "integer_literal", n))
SliceOf(type) == Of("array_type", Mark("[") \o At("element", type) \o Mark("]"))

TypeParameter(name, bounds) ==
  Of("type_parameter", Is("name", "type_identifier", name)
                       \o IF bounds = <<>> THEN <<>> ELSE In("bounds", "trait_bounds", Mark(":") \o bounds))
Parameters(list) == In("type_parameters", "type_parameters", Mark("<") \o list \o Mark(">"))
Takes(type) == Of("parameter", Is("pattern", "identifier", "v") \o At("type", type))
Receiver(more) == Of("self_parameter", more \o Leaf("self", "self"))
Where(predicates) == Of("where_clause", predicates)
Demanded(type, bounds) ==
  Of("where_predicate", At("left", type) \o In("bounds", "trait_bounds", Mark(":") \o bounds))
Taking(parameters, value, rest) ==
  In("parameters", "parameters", Mark("(") \o parameters)
  \o (IF value = <<>> THEN <<>> ELSE At("return_type", value)) \o rest

(* In impls of Holder: a method whose types are found in every way, and a   *)
(* function.                                                                *)
RustBody ==
  In("body", "block",
     Of("let_declaration", Is("pattern", "identifier", "b") \o Is("value", "identifier", "a"))
     \o Leaf("identifier", "b"))
Function(name, signature, line) ==
  Lines(line, line, Of("function_item", Is("name", "identifier", name) \o signature \o RustBody))
Implementing(header, function, line) ==
  Lines(line, line, Of("impl_item", header \o In("body", "declaration_list", function)))

EveryType ==
  Taking(Receiver(Mark("&")) \o Takes(Ty("Item")) \o Takes(Ty("Alias")) \o Takes(Ty("Loop"))
         \o Takes(OutOf("SelfOut")) \o Takes(QualifiedAs("NestedOut", OutOf("SelfOut")))
         \o Takes(QualifiedAs("Qualified", Applied(Ty("Holder"), SelfType))) \o Takes(OutOf("Shorthand"))
         \o Takes(Applied(Ty("Many"), Ty("Item"))),
         IntType, <<>>)
FewTypes ==
  Taking(Takes(Ty("Far")) \o Takes(QualifiedAs("NestedOut", SelfType)), Ty("Alias"), <<>>)
HolderOfU == Parameters(TypeParameter("U", <<>>)) \o At("type", Applied(Ty("Holder"), Ty("U")))
HolderOfItem == At("trait", Ty("Item")) \o At("type", Applied(Ty("Holder"), Ty("Item")))
RustTree ==
  Parsed(Of("source_file",
    Implementing(HolderOfU, Function("f", EveryType, 1), 1)
    \o Implementing(HolderOfItem, Function("g", FewTypes, 2), 2)))

SwiftFunction(name, label, a, b, first) ==
  Lines(first, first,
    Of("function_declaration",
       Is("name", "simple_identifier", name)
       \o Of("parameter", Is("external_name", "simple_identifier", label)
                          \o Is("name", "simple_identifier", a) \o Is("type", "user_type", "P"))
       \o In("body", "function_body",
             Of("if_statement",
                Leaf("value_binding_pattern", "") \o Is("bound_identifier", "simple_identifier", b)
                \o Leaf("=", "=") \o Leaf("simple_identifier", a))
             \o Leaf("simple_identifier", b))))
SwiftImport(names) == Of("import_declaration", Of("identifier", names))
Simple(x) == Leaf("simple_identifier", x)
SwiftImports ==
  <<SwiftImport(Simple("A")), SwiftImport(Simple("A") \o Simple("B")), SwiftImport(<<>>),
   SwiftImport(Simple("A")) \o Leaf("comment", "") \o Leaf("ERROR", ""), Of("ERROR", Leaf("import", ""))>>
SwiftImporting(rows) == Parsed(Of("source_file", rows \o SwiftFunction("g", "at", "x", "y", 4)))

SwiftTree ==
  Parsed(Of("source_file", SwiftFunction("f", "at", "a", "b", 1) \o SwiftFunction("g", "at", "x", "y", 2)
                           \o SwiftFunction("g", "to", "x", "y", 3)))

JavaMethod(name, a, b, first) ==
  Lines(first, first,
    Of("method_declaration",
       Is("name", "identifier", name)
       \o In("parameters", "formal_parameters",
             Of("formal_parameter", Is("type", "type_identifier", "Item") \o Is("name", "identifier", a)))
       \o In("body", "block",
             Of("lambda_expression", Is("parameters", "identifier", b) \o Is("body", "identifier", a)))))
JavaImport(names) == Of("import_declaration", names)
JavaImports ==
  <<JavaImport(Id("A")), JavaImport(Scoped(Id("A"), Id("B"))), JavaImport(Scoped(Id("A"), Id("B")) \o Leaf("asterisk", "*")),
   JavaImport(<<>>), <<<<"", "import_declaration", "broken">>, Close>>, Of("ERROR", Leaf("import", ""))>>
JavaImporting(rows) == Parsed(Of("program", rows \o JavaMethod("g", "x", "y", 4)))

JavaTree == Parsed(Of("program", JavaImport(Id("M")) \o JavaMethod("f", "a", "b", 1) \o JavaMethod("g", "x", "y", 2)))

-----------------------------------------------------------------------------
(* What lies where.                                                         *)
File(grammar, tree, lines) == [grammar |-> grammar, tree |-> tree, lines |-> lines]

Version(grammar, tree) ==
  [grammar |-> grammar, readable |-> TRUE, parses |-> TRUE, file |-> File(grammar, tree, 20),
   places |-> [n \in {} |-> <<>>]]
Versions(grammar, trees) == [i \in DOMAIN trees |-> Version(grammar, trees[i])]

Relative(segments) == [absolute |-> FALSE, segments |-> segments]

Source(segments, versions) == [path |-> Relative(segments), versions |-> versions]

(* A name that is not UTF-8.                                                *)
Garbled == "garbled"
MCNotUtf8Names == {Garbled}

(* The same file with a line more in front, as somebody saves it.           *)
SavedAgain(tree) ==
  [i \in DOMAIN tree |-> [tree[i] EXCEPT !.first = @ + 1, !.last = @ + 1]]

Placed(version, places(_)) ==
  [version EXCEPT !.places = [n \in ChunkNodes(version.file) |-> places(version.file.tree[n].first)]]

SourcesFrom(ts, saved, rust, swift, java) ==
  [ts     |-> Source(<<"src", "f">>, <<ts>>),
   saved  |-> Source(<<"src", "s">>, <<ts, saved>>),
   again  |-> Source(<<".", "src", "s">>, <<ts, saved>>),
   tsx    |-> Source(<<"lib", "x", "g">>, <<[ts EXCEPT !.grammar = "Tsx", !.file.grammar = "Tsx"]>>),
   odd    |-> Source(<<"lib", Garbled>>, <<ts>>),
   beyond |-> Source(<<"..", "q", "f">>, <<ts>>),
   loads  |-> Source(<<"src", "x", Garbled>>, Versions("TypeScript", LoadingTrees)),
   bare   |-> Source(<<"src", "b">>, Versions("TypeScript", <<Parsed(Of("program", Nested("g", "x", "x", 4)))>>)),
   uses   |-> Source(<<"src", "u">>, Versions("Rust", [i \in DOMAIN RustUses |-> RustUsing(RustUses[i])])),
   used   |-> Source(<<"lib", "u">>, Versions("Rust", [i \in DOMAIN OtherUses |-> RustUsing(OtherUses[i])])),
   frames |-> Source(<<"src", "i">>, Versions("Swift", [i \in DOMAIN SwiftImports |-> SwiftImporting(SwiftImports[i])])),
   packs  |-> Source(<<"src", "k">>, Versions("Java", [i \in DOMAIN JavaImports |-> JavaImporting(JavaImports[i])])),
   rust   |-> Source(<<"src", "r">>, <<rust>>),
   swift  |-> Source(<<"src", "w">>, <<swift>>),
   java   |-> Source(<<"src", "j">>, <<java>>),
   gone   |-> Source(<<"src", "g">>, <<[ts EXCEPT !.readable = FALSE]>>),
   torn   |-> Source(<<"src", "t">>, <<[ts EXCEPT !.parses = FALSE]>>),
   text   |-> Source(<<"src", "README">>, <<[ts EXCEPT !.grammar = "none"]>>)]

BothSaved(ts, rust, swift, java) ==
  SourcesFrom(ts, [ts EXCEPT !.file.tree = SavedAgain(@)], rust, swift, java)

MCSources ==
  BothSaved(Version("TypeScript", TypeScriptTree),
    Version("Rust", RustTree),
    Placed(Version("Swift", SwiftTree), LAMBDA line : <<"P", "Q">>),
    Version("Java", JavaTree))

-----------------------------------------------------------------------------
(* What a server sends.                                                     *)
Response(shape, items) ==
  [json |-> TRUE, id |-> {"number"}, method |-> {}, error |-> {},
   result |-> {[shape |-> shape, items |-> items]}]
Exchange(payload) == [said |-> "Response", payload |-> payload]
Unsaid(why) == [said |-> why]
Sends(items) == Exchange(Response("list", items))
NullAnswer == Exchange(Response("null", <<>>))

(* Responses that are none.                                                 *)
Refusing(code, message) ==
  [Response("null", <<>>) EXCEPT !.result = {}, !.error = {[code |-> code, message |-> message]}]
NoResult == [Response("null", <<>>) EXCEPT !.result = {}]
Refusals ==
  {Refusing("number", "text"), Refusing("text", "text"), NoResult, Response("other", <<>>),
   [NoResult EXCEPT !.json = FALSE], [NoResult EXCEPT !.id = {"text"}], [NoResult EXCEPT !.id = {}],
   [NoResult EXCEPT !.id = {"null"}, !.method = {"text"}]}

(* URIs of files, on this machine and not.                                  *)
UriOf(steps) == FileUriOf(<<"p">> \o steps).uri
Spoilt(segment) == [UriOf(<<"src", "f">>) EXCEPT !.segments[1] = segment]
NoFiles ==
  {[UriOf(<<"f">>) EXCEPT !.scheme = "untitled"], [UriOf(<<"f">>) EXCEPT !.host = "server"],
   UriOf(<<Garbled>>), Spoilt([UriSegment("C:") EXCEPT !.drive = TRUE]),
   Spoilt([UriSegment("a/b") EXCEPT !.separator = TRUE])}
Roundabout == [UriOf(<<"lib", "x", Back, "", Here, "g">>) EXCEPT !.host = "localhost"]

-----------------------------------------------------------------------------
(* Types that a hover may show.                                             *)
Name(x) == Leaf("type_identifier", x)
Word(x) == Leaf("predefined_type", x)
TypeVariable(x, more) == Of("type_parameter", Name(x) \o more)
Par(x, t) == Of("required_parameter", Leaf("identifier", x) \o Of("type_annotation", t))
Fn(parameters, r) == Of("function_type", Of("formal_parameters", parameters) \o r)
For(variables, parameters, r) ==
  Of("function_type", Of("type_parameters", variables) \o Of("formal_parameters", parameters) \o r)
Or(parts) == Of("union_type", parts)
And(parts) == Of("intersection_type", parts)
Only(x) == TypeVariable(x, <<>>)
Void == Word("void")

(* The types of a fold, of callbacks, of bounds and of unions.              *)
Fold(variants) == For(Only("V") \o Only("A"), Par("acc", Or(variants)), Name("A"))
Callback(r) == For(Only("T"), Par("cb", For(Only("U"), Par("u", Name("U")), r)), Void)
Bounded == TypeVariable("B", Of("constraint", Name("A")))
ItselfOf(x) == For(Only(x), Par("x", Name(x)), Name(x))
BoundedBy(x, y) == TypeVariable(x, Of("constraint", ItselfOf(y)))
TakesBoth(variables) == For(variables, Par("b", Name("B")) \o Par("a", Name("A")), Void)
OneOfThree(variants) == For(Only("A") \o Only("B") \o Only("C"), Par("x", Or(variants)), Name("B"))
ListOf(x) == For(Only(x), <<>>, Of("array_type", Name(x)))

TypesShown ==
  {Fold(Name("V") \o Name("A")), Fold(Name("A") \o Name("V")), Fold(Name("A") \o Word("string")),
   Callback(Name("T")), Callback(Name("U")),
   For(Only("A") \o Bounded, Par("b", Name("B")), Void),
   For(Bounded \o Only("A"), Par("c", Name("B")), Void),
   TakesBoth(BoundedBy("A", "X") \o Only("B")), TakesBoth(Only("B") \o BoundedBy("A", "Y")),
   TakesBoth(BoundedBy("A", "X") \o BoundedBy("B", "Y")), TakesBoth(BoundedBy("B", "Y") \o BoundedBy("A", "X")),
   Fn(Par("x", Word("string")), Of("type_query", Leaf("identifier", "x"))),
   OneOfThree(Name("A") \o Name("B") \o Name("C")), OneOfThree(Name("B") \o Name("A") \o Name("C")),
   Fn(Par("o", Or(ListOf("X") \o Word("null"))), Void),
   Fn(Par("o", Or(Word("null") \o Of("parenthesized_type", ListOf("Y")))), Void),
   Fn(Par("o", And(Name("P") \o Name("Q"))), Void),
   Fn(Par("o", And(Name("Q") \o Name("P"))), Void)}

SpelledTypes == {Parsed(t) : t \in TypesShown}

(* Where P and Q are declared; P is one type, Q stands for a union of two.  *)
DeclaredAt(place) == [uri |-> UriOf(<<"src", "d">>), place |-> place]
SiteOf(site, readable, sugar) ==
  Sends(<<DeclaredAt([site |-> site, readable |-> readable, sugar |-> sugar])>>)
TypeSite(site) == SiteOf(site, TRUE, FALSE)
Declares(kind, right) == [reply |-> "Answered", declares |-> kind, generic |-> FALSE, right |-> right]

UntracedSites == [P |-> NullAnswer, Q |-> SiteOf("q", FALSE, FALSE)]

(* A hover, of which the text that is looked for is in the last fence.      *)
Showing(fences) == Exchange(Response("one", <<[markup |-> TRUE, fences |-> fences]>>))
Prose == Showing(<<>>)
Marked == Exchange(Response("one", <<[markup |-> FALSE, fences |-> <<>>]>>))

Hover(written, overloads, tree) ==
  Showing(<<{[written |-> written, overloads |-> overloads, tree |-> tree]}>>)

Trees ==
  [string |-> Parsed(Fn(Par("v", Word("string")), Void)), takesP |-> Parsed(Fn(Par("v", Name("P")), Void)),
   p |-> Parsed(Name("P")), q |-> Parsed(Name("Q")), either |-> Parsed(Or(Word("string") \o Word("number")))]

(* What every TypeScript answer has in common.                              *)
AnswerOf(trees) ==
  [language |-> "TypeScript", settled |-> 0, hover |-> Hover("Annotated", 1, trees.string),
   world |-> [definitions |-> [P |-> TypeSite("p"), Q |-> TypeSite("q")],
              hovers |-> [P |-> Declares("Type", <<>>), Q |-> Declares("Alias", trees.either)]],
   overloads |-> <<Hover("Callable", 1, trees.string), Hover("Callable", 1, trees.takesP)>>]

SomeTypes(trees, answer) ==
  {answer} \cup {[answer EXCEPT !.hover = h] :
     h \in {Hover("Callable", 2, trees.string), Hover("Read", 1, trees.p), Hover("Callable", 1, <<>>),
            NullAnswer, Prose, Unsaid("StillWorking")}}
  \cup {[answer EXCEPT !.hover = h, !.world.definitions = UntracedSites] :
     h \in {Hover("Callable", 1, trees.takesP), Hover("Annotated", 1, trees.q)}}
  \cup {[answer EXCEPT !.hover = Hover("Callable", 1, trees.takesP), !.world.definitions.P =
            Sends(<<[DeclaredAt(<<>>) EXCEPT !.uri = CHOOSE u \in NoFiles : TRUE]>>)]}

-----------------------------------------------------------------------------
(* What Rust names stand for; `late` says that one declaration is not found *)
(* as long as the server is still working.                                  *)
Site(kind, refs) ==
  [kind |-> kind, hover |-> "none", source |-> "none", unopened |-> "none", refs |-> refs]
Place(kind, site, projection) == [kind |-> kind, site |-> site, projection |-> projection]
Named(site) == Place("Name", site, <<>>)
Defined(refs, self) ==
  [exists |-> TRUE, refs |-> refs, self |-> self, variables |-> FALSE, openable |-> TRUE]
Trait(name) == [reason |-> "none", trait |-> name]
Projected(form, trait) ==
  Place("Projection", "none",
    [form |-> form, member |-> Trait(trait), written |-> Trait(trait), name |-> "Out",
     inner |-> "none", definition |-> Defined(<<>>, FALSE), target |-> "Holder",
     parameters |-> {"U"}, members |-> {}, shapes |-> <<>>])

NameNodeOf(text, place) ==
  [kind |-> "Name", text |-> text, head |-> text, size |-> 1, arity |-> 0, place |-> place]
HolderOf(place, variable) ==
  <<<<[kind |-> "Node", text |-> "generic_type", head |-> "", size |-> 3, arity |-> 2, place |-> ""],
      NameNodeOf("Holder", place), NameNodeOf(variable, "")>>>>

Impl(target, variables, shapes, definition) ==
  [readable |-> TRUE, flaws |-> {}, target |-> target, parameters |-> variables, shapes |-> shapes,
   definition |-> definition]
Implemented(impls, supertraits) ==
  [implementation |-> Sends([i \in DOMAIN impls |-> DeclaredAt(impls[i])]), source |-> "none",
   declares |-> IF supertraits = <<>> THEN {"Out"} ELSE {}, supertraits |-> supertraits]

(* Many<T, E = T> is (T, E); Out of Holder<T> is T.                         *)
Plainword(x) == <<[kind |-> "Word", text |-> x, number |-> 0]>>
OpenAs(kind, parameters, right, captures) ==
  [kind |-> kind, parameters |-> parameters, right |-> right, captures |-> captures, self |-> FALSE]
OfT == [name |-> "T", default |-> {}]
RustTemplates ==
  (<<"Many">> :> OpenAs("Generic", <<OfT, [name |-> "E", default |-> {Plainword("T")}]>>, Plainword("T") \o Plainword("E"), <<>>))
  @@ (<<"int">> :> OpenAs("Associated", <<OfT>>, Plainword("T"),
                    <<[kind |-> "Variable", name |-> "U",
                       template |-> OpenAs("Generic", <<>>, <<>>, <<>>)]>>))

RustWorld(late) ==
  [templates |-> RustTemplates,
   places |->
     [Int |-> Place("Primitive", "int", <<>>), Item |-> Named("Item"),
      Holder |-> Named("Holder"), Many |-> Named("Many"),
      ItemThere |-> IF late THEN Place("Lost", "ServerStillWorking", <<>>) ELSE Named("Item"),
      Alias |-> Named("Alias"), AliasFar |-> Named("AliasFar"), Far |-> Named("Far"),
      Loop |-> Named("Loop"), HolderThere |-> Named("Holder"), HolderHere |-> Named("Holder"),
      SelfOut |-> [Projected("Own", "Make") EXCEPT !.projection.definition = Defined(<<"Item">>, FALSE)],
      NestedOut |-> [Projected("Nested", "Show") EXCEPT !.projection.inner = "SelfOut"],
      Qualified |-> [Projected("Qualified", "Turn") EXCEPT
                       !.projection.shapes = HolderOf("HolderHere", "U")],
      Shorthand |-> [Projected("Shorthand", "Turn") EXCEPT
                       !.projection.written = Trait("Turning"),
                       !.projection.shapes = HolderOf("HolderHere", "U")]],
   sites |->
     [Item |-> Site("Type", <<>>), Holder |-> Site("Type", <<>>), Loop |-> Site("Alias", <<"Loop">>),
      Many |-> Site("Generic", <<>>),
      Alias |-> Site("Alias", <<"Item", "Int">>), AliasFar |-> Site("Alias", <<"Alias">>),
      Far |-> Site("Alias", <<"AliasFar">>)],
   traits |->
     [Show |-> Implemented(<<"ShowItem">>, <<>>), Turn |-> Implemented(<<"TurnHolder">>, <<>>),
      Turning |-> Implemented(<<>>, <<[trait |-> "Turn", reason |-> "none", arguments |-> FALSE]>>)],
   impls |->
     [ShowItem |-> Impl("Item", <<>>, <<<<NameNodeOf("Item", "ItemThere")>>>>, Defined(<<"Int">>, TRUE)),
      TurnHolder |-> Impl("Holder", <<"T">>, HolderOf("HolderThere", "T"),
                          [Defined(<<"Int">>, FALSE) EXCEPT !.variables = TRUE])]]

RustShowing(header, arrays, generics, signature) ==
  Showing(<<{"a module"},
            {[header |-> header, arrays |-> arrays,
              tree |-> Parsed(Of("function_signature_item",
                                 Is("name", "identifier", "f") \o generics \o signature))]}>>)
Shows(generics, parameters, value, rest) ==
  RustShowing("impl", "none", generics, Taking(parameters, value, rest))
Everything == RustShowing("impl", "none", <<>>, EveryType)
RustAnswer(hover, late) ==
  [language |-> "Rust", settled |-> IF late THEN 0 ELSE 1, hover |-> hover, world |-> RustWorld(late),
   overloads |-> <<>>]

(* Swift: P is a type, Q an alias, and what the server says of one of them  *)
(* may be late.                                                             *)
SwiftAnswer(hover, world) ==
  [language |-> "Swift", settled |-> 0, hover |-> hover, world |-> world, overloads |-> <<>>]
SwiftHover(written, names) ==
  Showing(<<{[written |-> written, self |-> FALSE, names |-> names, type |-> <<"P">>]}>>)

-----------------------------------------------------------------------------
(* What may be answered about callers and callees.                          *)
From(steps, scope) == [uri |-> UriOf(steps), scope |-> scope]
Item(steps) == [uri |-> UriOf(steps)]

FromSource == From(<<"src", "f">>, "Production")
SomeCallers ==
  {Sends(r) : r \in
     {<<FromSource, From(<<"lib", "x", "g">>, "Production")>>, <<FromSource, From(<<"src", "t">>, "Test")>>,
      <<[FromSource EXCEPT !.uri = Roundabout]>>, <<FromSource, From(<<"src", "t">>, "Unparsable")>>,
      <<From(<<"src", "t">>, "Test")>>}
     \cup {<<FromSource, [FromSource EXCEPT !.uri = u]>> : u \in NoFiles}}
  \cup {NullAnswer} \cup {Unsaid(why) : why \in {"StillWorking", "NotSupported"}}

(* Of an item, what is called.                                              *)
CallingFrom(items, calls) == Sends(items) @@ [outgoing |-> Response("list", calls)]
Caller == <<Item(<<"src", "f">>)>>
SomeCallees ==
  {CallingFrom(Caller, calls) : calls \in
     {<<>>, <<Item(<<"src", "f">>), Item(<<"node_modules", "m">>)>>, <<Item(<<"node_modules", "m">>)>>,
      <<Item(<<"lib", "g">>)>>, <<Item(<<"lib", "x", "g">>)>>, <<[uri |-> CHOOSE u \in NoFiles : TRUE]>>}}
  \cup {CallingFrom(items, <<>>) : items \in {<<>>, Caller \o Caller, Caller \o Caller \o Caller}}
  \cup {Unsaid(why) : why \in {"StillWorking", "NotSupported"}}

(* projectInfo: a project that is a file, one that the server made up, and  *)
(* an answer without any.                                                   *)
Info(names) == Exchange([NoResult EXCEPT !.result = {[shape |-> "one", configFileName |-> names]}])
InProject == Info({[isFile |-> TRUE]})

-----------------------------------------------------------------------------
(* Each server has much to say of one thing only.                           *)
Willing(answer) ==
  [language |-> "TypeScript", markers |-> TRUE, references |-> TRUE,
   types |-> {answer}, members |-> {InProject},
   callers |-> {Sends(<<FromSource>>)}, callees |-> {CallingFrom(Caller, Caller)},
   mayFail |-> {}]

RustTypes ==
  {RustAnswer(hover, FALSE) :
     hover \in {Everything, Shows(<<>>, Receiver(<<>>) \o Takes(Ty("Item")) \o Takes(Ty("Alias")), <<>>, <<>>),
                RustShowing("none", "UnreadableArrayLength", <<>>, FewTypes), NullAnswer}}
  \cup {RustAnswer(Everything, TRUE)}

(* Types of functions: two variables and what is demanded of one of them,   *)
(* said in several ways, and what cannot be read.                           *)
AnyOf == TypeParameter("A", <<>>)
ItemOf(x) == TypeParameter(x, Ty("Item"))
Taken(x, y) == Takes(Ty(x)) \o Takes(Ty(y))
Together(x, y) == Takes(Ref(Leaf("mutable_specifier", "mut"), Of("bounded_type", Dyn(Ty(x)) \o Mark("+") \o Ty(y))))
RustSignatures ==
  {Shows(Parameters(ItemOf("T") \o AnyOf), Taken("T", "A"), <<>>, <<>>),
   Shows(Parameters(AnyOf \o ItemOf("B")), Taken("B", "A"), <<>>, <<>>),
   Shows(Parameters(AnyOf \o ItemOf("B")), Taken("A", "B"), <<>>, <<>>),
   Shows(Parameters(Of("lifetime_parameter", Tick("a")) \o TypeParameter("V", <<>>) \o AnyOf), Taken("V", "A"), <<>>,
         Where(Demanded(Tick("a"), Tick("b")) \o Demanded(Ty("V"), Ty("Item"))
               \o Leaf("line_comment", "// Bounds from impl:") \o Demanded(Ty("A"), Ty("Alias")))),
   Shows(<<>>, Together("Item", "Alias"), Leaf("unit_type", ""), <<>>),
   Shows(<<>>, Together("Alias", "Item"), <<>>, <<>>),
   Shows(<<>>, Takes(Applied(Ty("Many"), Ty("Item"))), <<>>, <<>>),
   Shows(<<>>, Takes(ArrayOf(Ty("Item"), "2")) \o Takes(SliceOf(IntType)), <<>>, <<>>)}
Misread ==
  {Shows(Parameters(Of("const_parameter", Is("name", "identifier", "N"))), <<>>, <<>>, <<>>),
   Shows(<<>>, Takes(Applied(Ty("Alias"), Tick("a"))), <<>>, <<>>), Shows(<<>>, Takes(Ty("Unknown")), <<>>, <<>>),
   Shows(<<>>, Takes(QualifiedAs("Qualified", SelfType)), <<>>, <<>>), RustShowing("broken", "none", <<>>, FewTypes)}
SwiftTypes(there, alias) ==
  {SwiftAnswer(hover, there) :
     hover \in {SwiftHover("Callable", {"P"}), SwiftHover("Callable", {"P", "Q", "R"}),
                SwiftHover("Unreadable", {}), Marked}}
  \cup {SwiftAnswer(SwiftHover("Callable", {"P", "Q"}), alias)}

Sugared(world) == [world EXCEPT !.definitions.Q = SiteOf("q", TRUE, TRUE)]

ServersFrom(willing, trees, answer) ==
  [plain   |-> willing,
   faulty  |-> [willing EXCEPT
     !.members = {InProject, Info({[isFile |-> FALSE]}), Info({}), Unsaid("NotSupported")},
     !.callers = @ \cup {Exchange(p) : p \in Refusals},
     !.callees = @ \cup {Exchange(NoResult), Sends(Caller) @@ [outgoing |-> Refusing("number", "text")]},
     !.mayFail = {"workspace", "start", "open", "types", "shutdown"}],
   shown   |-> [willing EXCEPT !.types = {[answer EXCEPT !.hover = Hover("Annotated", 1, t)] :
                                          t \in SpelledTypes}],
   said    |-> [willing EXCEPT !.types = SomeTypes(trees, answer)],
   callers |-> [willing EXCEPT !.callers = SomeCallers],
   callees |-> [willing EXCEPT !.callees = SomeCallees, !.references = FALSE],
   rust    |-> [willing EXCEPT !.language = "Rust", !.types = RustTypes, !.mayFail = {"types"}],
   typed   |-> [willing EXCEPT !.language = "Rust",
                               !.types = {RustAnswer(h, FALSE) : h \in RustSignatures \cup Misread}],
   swift   |-> [willing EXCEPT !.language = "Swift", !.markers = FALSE,
                               !.types = SwiftTypes(Sugared(answer.world), answer.world)],
   java    |-> [willing EXCEPT !.language = "Java", !.types = {RustAnswer(Marked, FALSE)}]]

ServersOver(trees, answer) == ServersFrom(Willing(answer), trees, answer)
ServersKnowing(trees) == ServersOver(trees, AnswerOf(trees))
MCServers == ServersKnowing(Trees)

-----------------------------------------------------------------------------
(* dryguard.toml.                                                           *)
Third(n) == [shared |-> n, of |-> 3]
MCDefaults == [structure |-> Third(2), imports |-> Third(1), callers |-> Third(1)]
Table(name) == [kind |-> "Table", name |-> name]
Key(key, value) == [kind |-> "KeyValue", key |-> key, flaw |-> "none", value |-> value]
Flawed(key, flaw) == [kind |-> "KeyValue", key |-> key, flaw |-> flaw, value |-> <<>>]
NoKey == [kind |-> "Other"]

AnyDepth == [anyDepth |-> TRUE, names |-> {}]
Segment(names) == [anyDepth |-> FALSE, names |-> names]
InSource == <<Segment({"src"}), AnyDepth>>
InLibrary == <<Segment({"lib"}), AnyDepth>>
OneFile == <<AnyDepth, Segment({"g", "library"})>>

NoFile == [kind |-> "Absent", lines |-> <<>>]
FileOfLines(lines) == [kind |-> "Text", lines |-> lines]
Split == FileOfLines(<<Table("domains"), Key("one", {InSource}), Key("two", {InLibrary})>>)
Overlapping ==
  FileOfLines(<<Table("thresholds"), Key("structural_similarity", Third(1)), Table("domains"),
         Key("one", {InSource}), Key("two", {OneFile}), Key("three", {InLibrary})>>)
Malformed ==
  {FileOfLines(<<Table(t)>> \o lines) : t \in {"thresholds"}, lines \in
     {<<Key("unknown", Third(1))>>, <<Flawed("shared_imports", "OutOfRange")>>,
      <<Key("shared_imports", Third(1)), Key("shared_imports", Third(2))>>, <<NoKey>>,
      <<Table("unknown")>>}}
  \cup {FileOfLines(<<Key("shared_imports", Third(1))>>),
        FileOfLines(<<[kind |-> "Blank"], Table("domains"), Key("one", {}), Key("one", {InSource})>>),
        FileOfLines(<<Table("domains"), Flawed("one", "InvalidGlob")>>),
        [kind |-> "Unreadable", lines |-> <<>>]}
Loose == FileOfLines(<<Table("thresholds"), Key("structural_similarity", Third(0)),
                Key("shared_caller_domains", Third(2))>>)

-----------------------------------------------------------------------------
(* What is compared with what.                                              *)
AtLine(path, line) == [path |-> path, line |-> line]
Compared(a, b, lang, failOn) == [a |-> a, b |-> b, lang |-> lang, failOn |-> failOn]

TheFirst == AtLine("ts", 1)
Requests ==
  {Compared(TheFirst, AtLine("ts", n), "Auto", TRUE) : n \in {4, 7, 2, 10, 12, 14, 17, 30}}
  \cup {Compared(TheFirst, AtLine(path, 4), "TypeScript", TRUE) :
          path \in {"tsx", "odd", "beyond", "rust", "gone", "torn", "text"}}
  \cup {Compared(AtLine("saved", 4), AtLine(path, 7), "Auto", FALSE) : path \in {"saved", "again"}}
  \cup {Compared(AtLine("rust", 1), AtLine("rust", 2), lang, TRUE) : lang \in {"Auto", "TypeScript"}}
  \cup {Compared(AtLine("swift", 1), AtLine("swift", n), "Swift", TRUE) : n \in {2, 3}}
  \cup {Compared(AtLine("java", 1), AtLine("java", 2), "Java", TRUE)}

Start(which, file, given, compared, name) ==
  [command |-> which, toml |-> file, flag |-> given, request |-> compared, server |-> name]

Pair(n) == Compared(TheFirst, AtLine("ts", n), "Auto", TRUE)

ServerOf(r) == IF r.a.path \in {"rust", "swift", "java"} THEN r.a.path ELSE "plain"

(* A server that is not one for the files.                                  *)
Elsewhere(r) == IF r.a.path \in {"swift", "frames"} THEN "java" ELSE "swift"

Comparing ==
  {Start("compare", file, {}, r, ServerOf(r)) : file \in {NoFile, Split, Overlapping, Loose}, r \in Requests}
  \cup {Start("compare", file, {}, Pair(4), "plain") : file \in Malformed}
  \cup {Start("compare", NoFile, {}, r, Elsewhere(r)) : r \in Requests}
  \cup {Start("compare", NoFile, {}, r, Elsewhere(r)) : r \in
           {Compared(AtLine(path, 4), AtLine("loads", 4), "Auto", FALSE) : path \in {"ts", "bare"}}
           \cup {Compared(AtLine("uses", 4), AtLine("used", 4), "Auto", FALSE)}
           \cup {Compared(AtLine(path, 4), AtLine(path, 4), "Auto", FALSE) : path \in {"frames", "packs"}}}
  \cup {Start("compare", Overlapping, {}, Pair(7), s) : s \in {"faulty", "callers", "callees"}}
  \cup {Start("compare", Split, {}, Compared(TheFirst, AtLine("tsx", 4), "Auto", FALSE), s) :
          s \in {"callers", "callees"}}
  \cup {Start("compare", NoFile, {}, Compared(AtLine("ts", 10), AtLine("ts", 11), "Auto", TRUE), s) :
          s \in {"shown", "said"}}
  \cup {Start("compare", Loose, {}, Compared(AtLine("rust", n), AtLine("rust", 1), "Rust", FALSE), "typed") : n \in {1, 2}}
  \cup {Start("compare", NoFile, {Third(1)}, r, s) : s \in {"said"},
          r \in {Pair(4), Compared(AtLine("ts", 15), AtLine("ts", 15), "Auto", TRUE)}}

-----------------------------------------------------------------------------
(* What is checked against: a function of three tokens, one that is too     *)
(* small and one that is a test.                                            *)
LibraryTree ==
  Parsed(Of("program",
    Lines(1, 3, Of("function_declaration", Leaf("Plain", "") \o Leaf("Plain", "") \o Leaf("Plain", "")))
    \o Lines(4, 4, Leaf("function_expression", ""))
    \o Lines(5, 5, Of("call_expression",
         Is("function", "identifier", "it")
         \o In("arguments", "arguments", Leaf("string", "") \o Of("arrow_function", Leaf("Plain", "")))))))
MCLibrary == File("TypeScript", LibraryTree, 5)

Checking ==
  {Start("check", NoFile, {t}, Pair(4), "plain") : t \in {[shared |-> 1, of |-> 2], Third(2)}}
  \cup {Start("check", file, {}, Pair(4), "plain") : file \in {Overlapping} \cup {CHOOSE m \in Malformed : TRUE}}

MCScenarios == Comparing \cup Checking
MCRoot == <<"p">>
MCMarkedDirectories == {<<"p">>}
HalfOfThem == [shared |-> 1, of |-> 2]
MCNameOrder ==
  <<"Far", "P", "Q", "R", "Holder", "Many", "Unknown",
    "Int", "Item", "Alias", "Loop", "SelfOut", "NestedOut", "Qualified", "Shorthand">>
=============================================================================
