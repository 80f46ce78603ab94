----------------------------- MODULE Signatures ------------------------------
(* The type signature of a chunk, from what a language server says: where   *)
(* the names in it are declared, what is written there, and the hover of    *)
(* the chunk itself (src/src/semantics/type_signature.rs, and the tracing   *)
(* for TypeScript and Swift of src/src/semantics/resolved_type.rs).         *)
(*                                                                          *)
(* definitions, sources, hovers and aliases say, of a name, what the server *)
(* and the disk answer. An answered hover of a chunk is a reading: how many *)
(* overloads it counts, how it is written, and the tree of its type.        *)
EXTENDS Structures

CONSTANT NameOrder   \* names in the order in which they are spelled

(* DeclarationQuery::site_of                                                *)
DefinitionFailure(query, reply) ==
  CASE reply = "NoAnswer" ->
         IF query = "TypeDefinition" THEN "NoDeclarationSite" ELSE "NoDefinitionSite"
    [] reply = "Unreadable" ->
         IF query = "TypeDefinition" THEN "UnreadableTypeDefinition" ELSE "UnreadableDefinition"
    [] reply = "NotSupported" ->
         IF query = "TypeDefinition" THEN "TypeDefinitionNotProvided" ELSE "DefinitionNotProvided"
    [] reply = "ServerStillWorking" -> "ServerStillWorking"
    [] OTHER -> "none"

(* declared_spelling_of, swift_alias_check_of                               *)
HoverFailure(reply) ==
  CASE reply = "NoAnswer" -> "NoSpellingAtDeclaration"
    [] reply = "Unreadable" -> "UnreadableDeclarationHover"
    [] reply = "NotSupported" -> "HoverNotProvided"
    [] reply = "ServerStillWorking" -> "ServerStillWorking"
    [] OTHER -> "none"

(* declared_type_of: the right side of a type alias without arguments.      *)
AliasFailure(said) ==
  IF said.reply # "Answered" THEN HoverFailure(said.reply)
  ELSE IF said.declares = "Alias" /\ (said.generic \/ said.right = <<>>) THEN "UnopenableAlias"
  ELSE "none"

FirstOf(reasons) ==
  LET given == SelectSeq(reasons, LAMBDA r : r # "none") IN IF given = <<>> THEN "none" ELSE given[1]

(* unopened_declaring_documents_of                                          *)
UnopenedDocument(definition) ==
  IF definition.readable THEN "none" ELSE "UnreadableDeclaringDocument"

(* traced_type_names_of, opened_type_names_with: the first reason recorded  *)
(* for a name counts.                                                       *)
TypeScriptTrace(world, names) ==
  LET failed(n) == DefinitionFailure("TypeDefinition", world.definitions[n].reply)
      declared == {n \in names : failed(n) = "none"}
      reason(n) ==
        IF n \notin declared THEN failed(n)
        ELSE FirstOf(<<UnopenedDocument(world.definitions[n]), AliasFailure(world.hovers[n])>>)
      opened == {n \in declared :
                   AliasFailure(world.hovers[n]) = "none" /\ world.hovers[n].declares = "Alias"}
      lost == {n \in names : reason(n) # "none"}
  IN  [declared |-> [n \in declared |-> world.definitions[n].site],
       resolved |-> [n \in opened |-> world.hovers[n].right],
       reasons |-> [n \in lost |-> reason(n)]]

(* swift_traced_type_names_of: the names of the sugar of the standard       *)
(* library are taken as they are.                                           *)
SwiftTrace(world, names) ==
  LET failed(n) == DefinitionFailure("Definition", world.definitions[n].reply)
      sugar(n) == failed(n) = "none" /\ world.definitions[n].sugar
      aliased(n) ==
        IF world.hovers[n].reply # "Answered" THEN HoverFailure(world.hovers[n].reply)
        ELSE IF world.hovers[n].declares = "Alias" THEN "UnopenableAlias" ELSE "none"
      reason(n) == CASE failed(n) # "none" -> failed(n)
                     [] sugar(n) -> "none"
                     [] OTHER -> aliased(n)
      lost == {n \in names : reason(n) # "none"}
  IN  [declared |-> [n \in names \ lost |-> world.definitions[n].site],
       resolved |-> [n \in {} |-> <<>>],
       reasons |-> [n \in lost |-> reason(n)]]

IsTraced(n, traced) ==
  n \in DOMAIN traced.declared \cup DOMAIN traced.resolved \cup DOMAIN traced.reasons

(* The reason of the first of the names, in their order, that has one.      *)
ReasonAmong(names, traced) ==
  FirstOf(Each(SelectSeq(NameOrder, LAMBDA n : n \in names \cap DOMAIN traced.reasons),
               LAMBDA n : traced.reasons[n]))

-----------------------------------------------------------------------------
(* What comes of a signature. The reason is why a name was not opened or    *)
(* not traced, or how many overloads were counted and found.                *)
Unavailable(kind, reason) == [kind |-> kind, reason |-> reason, signatures |-> <<>>]
Measured(signatures) == [kind |-> "Normalized", reason |-> "none", signatures |-> signatures]

(* TypeSignature: what is compared, and where the names left in it are      *)
(* declared (declarations_named_in).                                        *)
SignatureOf(type, names, traced) ==
  [type |-> type,
   declared |-> [n \in names \cap DOMAIN traced.declared |-> traced.declared[n]]]

(* asked_signature_text_of                                                  *)
AskedFailure(reply) ==
  CASE reply = "NoAnswer" -> "NoTypeThere"
    [] reply = "Unreadable" -> "UnreadableHover"
    [] reply = "ServerStillWorking" -> "ServerStillWorking"
    [] reply = "NotSupported" -> "HoverNotProvided"
    [] OTHER -> "none"

(* declared_type_names_of, is_site_independent: an alias is put in only if  *)
(* its right side means the same everywhere.                                *)
DeclaredTypeNames(tree) == {tree[m].text : m \in TypeNameNodes(tree, 1)}

IsSiteIndependent(tree) ==
  /\ DeclaredTypeNames(tree) = {}
  /\ \A k \in Nodes(tree) : tree[k].named => ~ReachesOutside(tree, k, {})

OpenedWith(traced) ==
  [n \in {m \in DOMAIN traced.resolved : IsSiteIndependent(traced.resolved[m])} |-> traced.resolved[n]]

(* NormalizedSignature::from_spelling, callable_read_of, opened_annotation_ *)
(* of: an accessor has the type of its member, anything else is callable    *)
(* once the aliases are put in.                                             *)
IsAccessor(reading) == reading.written \in {"Read", "Written"}

ReadWith(reading, opened) ==
  LET tree == Substituted(reading.tree, opened)
      readable == reading.tree # <<>>
                  /\ (IsAccessor(reading) \/ Form(tree, Bare(tree, 1)) = "Callable")
  IN  IF readable THEN tree ELSE <<>>

(* Where the spelling before any alias is put in holds names                *)
(* (spelled_annotatable_position_names_of).                                 *)
NoPositions == [known |-> FALSE, value |-> {}, parameters |-> <<>>]

PositionsIn(type, accessor) ==
  IF accessor THEN [known |-> TRUE, value |-> TracedNames(type, type.root, "Skipped"), parameters |-> <<>>]
  ELSE [known |-> TRUE, value |-> ValueTypeNames(type), parameters |-> ParameterTypeNames(type)]

SpelledPositions(reading) ==
  IF ReadWith(reading, [n \in {} |-> <<>>]) = <<>> THEN NoPositions
  ELSE PositionsIn(Structured(reading.tree), IsAccessor(reading))

(* omitted_value_type_holds_a_name                                          *)
OmitsValue(spelled, annotated) ==
  /\ annotated.kind = "Declared"
  /\ annotated.value = "Omitted"
  /\ spelled.known => spelled.value # {}

(* omitted_parameter_reason_of                                              *)
OmittedParameter(spelled, annotated) ==
  LET parameters == annotated.parameters
      omitted == {i \in DOMAIN parameters : parameters[i] = "Omitted"}
      named == {i \in DOMAIN spelled.parameters : spelled.parameters[i] # {}}
  IN  CASE annotated.kind # "Declared" -> "none"
        [] ~spelled.known -> IF omitted # {} THEN "OmittedTypeAnnotation" ELSE "none"
        [] Len(parameters) # Len(spelled.parameters) ->
             IF named # {} THEN "UnalignedParameters" ELSE "none"
        [] OTHER -> IF omitted \cap named # {} THEN "OmittedTypeAnnotation" ELSE "none"

(* unopened_annotation_reason_of                                            *)
UnreadableOutcome(reading, traced) ==
  LET reason == IF reading.written = "Annotated" /\ reading.tree # <<>>
                THEN ReasonAmong(DeclaredTypeNames(reading.tree), traced) ELSE "none"
  IN  IF reason = "none" THEN Unavailable("UnreadableSignature", "none")
      ELSE Unavailable("UnopenedTypeName", reason)

(* single_outcome_of, once there is a type and its positions are known.     *)
OutcomeOver(reading, type, spelled, annotated, traced, remaining) ==
  LET unopened == ReasonAmong(remaining, traced)
      omitted == OmittedParameter(spelled, annotated)
      access == IF IsAccessor(reading) THEN reading.written ELSE "Callable"
  IN  IF unopened # "none" THEN Unavailable("UnopenedTypeName", unopened)
      ELSE IF ~NamesOnlyTypes(type) THEN Unavailable("SiteDependentSpelling", "none")
      ELSE IF OmitsValue(spelled, annotated)
      THEN Unavailable("UntracedTypeName", "OmittedTypeAnnotation")
      ELSE IF \E n \in TracedNames(type, type.root, "Skipped") : ~IsTraced(n, traced)
      THEN Unavailable("UntracedTypeName", "NoTracedRecord")
      ELSE IF omitted # "none" THEN Unavailable("UntracedTypeName", omitted)
      ELSE Measured(<<SignatureOf(Value(access, "", 0, <<NormalForm(type)>>), remaining, traced)>>)

ReadableOutcome(reading, type, spelled, annotated, traced) ==
  OutcomeOver(reading, type, spelled, annotated, traced, TracedNames(type, type.root, "Counted"))

SingleOutcome(reading, annotated, traced) ==
  LET opened == OpenedWith(traced)
  IN  IF ReadWith(reading, opened) = <<>> THEN UnreadableOutcome(reading, traced)
      ELSE ReadableOutcome(reading, Structured(Substituted(reading.tree, opened)),
                           SpelledPositions(reading), annotated, traced)

DeclarationOutcome(declaration, traced) ==
  IF declaration.hover.reply # "Answered"
  THEN Unavailable(AskedFailure(declaration.hover.reply), "none")
  ELSE SingleOutcome(declaration.hover.reading, declaration.annotated, traced)

(* overload_set_outcome_of: every declaration is asked about; the first     *)
(* that has no signature decides.                                           *)
TogetherOf(outcomes) ==
  LET without == {i \in DOMAIN outcomes : outcomes[i].kind # "Normalized"}
  IN  IF without # {} THEN outcomes[Min(without)]
      ELSE Measured(FlattenSeq([i \in DOMAIN outcomes |-> outcomes[i].signatures]))

SetOutcome(declarations, traced) ==
  TogetherOf([i \in DOMAIN declarations |-> DeclarationOutcome(declarations[i], traced)])

(* type_signature_outcome_of: a callable without overloads is a set of one. *)
TypeScriptOutcome(hover, annotated, overloads, traced) ==
  LET declarations == IF overloads = <<>> THEN <<[hover |-> hover, annotated |-> annotated]>>
                      ELSE overloads
  IN  CASE hover.reply # "Answered" -> Unavailable(AskedFailure(hover.reply), "none")
        [] hover.reply = "Answered" /\ hover.reading.overloads # Len(declarations) ->
             Unavailable("OverloadSetMiscounted", <<hover.reading.overloads, Len(declarations)>>)
        [] OTHER -> SetOutcome(declarations, traced)

(* swift_normalized_outcome_of: the names of the callable decide.           *)
CallableOutcome(read, traced) ==
  LET unopened == ReasonAmong(read.names, traced)
      opened(n) == IF n \in DOMAIN traced.resolved THEN traced.resolved[n] ELSE <<n>>
      type == FlattenSeq([i \in DOMAIN read.type |-> opened(read.type[i])])
  IN  IF unopened # "none" THEN Unavailable("UnopenedTypeName", unopened)
      ELSE IF read.self THEN Unavailable("SiteDependentSpelling", "none")
      ELSE IF \E n \in read.names : ~IsTraced(n, traced)
      THEN Unavailable("UntracedTypeName", "NoTracedRecord")
      ELSE Measured(<<SignatureOf(type, read.names, traced)>>)

(* swift_type_signature_outcome_of                                          *)
SwiftOutcome(hover, traced) ==
  IF hover.reply # "Answered" THEN Unavailable(AskedFailure(hover.reply), "none")
  ELSE IF hover.reading.written = "Unreadable" THEN Unavailable("UnreadableSignature", "none")
  ELSE CallableOutcome(hover.reading, traced)

(* OverloadSet::is_unifiable_with                                           *)
IsUnifiable(a, b) == a.signatures = b.signatures
=============================================================================
