------------------------------ MODULE Aliases -------------------------------
(* What a name in a Rust signature stands for: aliases and associated types *)
(* are followed from declaration to declaration, with a memory that all     *)
(* chunks of a session share (src/src/semantics/resolved_type.rs).          *)
(*                                                                          *)
(* A world says what the servers and the files answer. Its places are the   *)
(* names where they are written, its sites their declarations, its traits   *)
(* and impls what projections go through. A type is the sequence of what it *)
(* is spelled with when every name in it is resolved.                       *)
EXTENDS Impls

CONSTANT MaximumAliasDepth   \* MAXIMUM_ALIAS_DEPTH

ASSUME DepthAssumption == MaximumAliasDepth \in Nat

(* RustTypeResolution: found, and open while it has variables or a Self; or *)
(* the reason why it is not.                                                *)
Found(kind, type, open) == [reason |-> "none", kind |-> kind, type |-> type, open |-> open]
Lost(reason) == [reason |-> reason, kind |-> "Unresolved", type |-> <<>>, open |-> TRUE]

IsFound(answer) == answer.reason = "none"

(* RustTypeResolution::closed_spelling                                      *)
IsClosed(answer) == IsFound(answer) /\ ~answer.open

(* RustDeclarationCache: four tables, all of them keyed by what is          *)
(* declared, none by chunks.                                                *)
Answers == [reason : STRING, kind : STRING, type : Seq(STRING), open : BOOLEAN]
Entries == [table : {"terminals", "implementations", "targets", "owners"},
            key : Seq(STRING), answer : Answers]

Remembered(memory, table, key) == \E e \in memory : e.table = table /\ e.key = key
Recall(memory, table, key) == (CHOOSE e \in memory : e.table = table /\ e.key = key).answer
Remember(memory, table, key, answer) ==
  memory \cup {[table |-> table, key |-> key, answer |-> answer]}

Query(place, active, memory) == [place |-> place, active |-> active, memory |-> memory]
Reply(answer, memory) == [answer |-> answer, memory |-> memory]

-----------------------------------------------------------------------------
(* resolutions_of: one after the other, up to the first that is not found.  *)
ResolutionsOf(at, places, active, memory) ==
  LET step(s, place) ==
        LET reply == at[Query(place, active, s.memory)]
        IN  IF s.reason # "none" THEN s
            ELSE [reason |-> reply.answer.reason, types |-> s.types \o reply.answer.type,
                  memory |-> reply.memory]
  IN  FoldLeft(step, [reason |-> "none", types |-> <<>>, memory |-> memory], places)

(* body_of: an alias is what its right side is, all names put in.           *)
BodyOf(at, declaration, active, memory) ==
  LET names == ResolutionsOf(at, declaration.refs, active, memory)
  IN  Reply(CASE names.reason # "none" -> Lost(names.reason)
              [] declaration.unopened # "none" -> Lost(declaration.unopened)
              [] OTHER -> Found("Opened", names.types, FALSE), names.memory)

(* at_declaration: a chain that comes back to where it is, or that is too   *)
(* long, ends; only what no chain leads to is remembered.                   *)
AtDeclaration(at, world, site, active, memory) ==
  LET declaration == world.sites[site]
      atLimit == Cardinality(active) >= MaximumAliasDepth
      known == Recall(memory, "terminals", <<site>>)
      generic == IF declaration.unopened = "none" THEN Found("Generic", <<site>>, TRUE)
                 ELSE Lost(declaration.unopened)
      end(answer) == Reply(answer, memory)
      terminal(answer) == Reply(answer, IF IsFound(answer)
                                        THEN Remember(memory, "terminals", <<site>>, answer)
                                        ELSE memory)
  IN  CASE site \in active -> end(Lost("CyclicAlias"))
        [] site \notin active /\ Remembered(memory, "terminals", <<site>>) ->
             end(IF known.kind = "Generic" /\ atLimit THEN Lost("AliasExpansionLimit") ELSE known)
        [] OTHER ->
             CASE declaration.hover # "none" -> end(Lost(declaration.hover))
               [] declaration.kind = "Type" -> terminal(Found("Declared", <<site>>, FALSE))
               [] atLimit -> end(Lost("AliasExpansionLimit"))
               [] declaration.source # "none" -> end(Lost(declaration.source))
               [] declaration.kind = "Generic" -> terminal(generic)
               [] OTHER -> BodyOf(at, declaration, active \cup {site}, memory)

-----------------------------------------------------------------------------
(* owning_trait_of: the trait that declares the associated type has to be   *)
(* the one that is written.                                                 *)
OwnershipFailure(projection) ==
  CASE projection.member.reason # "none" -> projection.member.reason
    [] projection.written.reason # "none" -> projection.written.reason
    [] projection.member.trait # projection.written.trait -> "UnresolvedAssociatedType"
    [] OTHER -> "none"

ImplementationFailure ==
  [Answered |-> "none", NoAnswer |-> "NoImplementationSite",
   NotSupported |-> "ImplementationNotProvided", ServerStillWorking |-> "ServerStillWorking"]

(* implementation_of: asked once per trait, unless there was no answer. The *)
(* answer is the impls, and whether a place among them could not be read.   *)
ImplementationOf(world, trait, memory) ==
  LET asked == world.traits[trait].implementation
      reason == ImplementationFailure[asked.reply]
      found == Found("Impls", asked.impls, asked.unreadable)
      known == Remembered(memory, "implementations", <<trait>>)
  IN  CASE known -> Reply(Recall(memory, "implementations", <<trait>>), memory)
        [] ~known /\ reason # "none" -> Reply(Lost(reason), memory)
        [] OTHER -> Reply(found, Remember(memory, "implementations", <<trait>>, found))

(* RustAssociatedDefinition: the right side, with Self for what the impl is *)
(* of.                                                                      *)
DefinitionOf(at, definition, self, active, memory) ==
  LET names == ResolutionsOf(at, definition.refs, active, memory)
      type == names.types \o (IF definition.self THEN self ELSE <<>>)
      open == definition.variables \/ (definition.self /\ self = <<>>)
  IN  IF ~definition.exists THEN Reply(Lost("UnresolvedAssociatedType"), memory)
      ELSE Reply(CASE names.reason # "none" -> Lost(names.reason)
                   [] ~definition.openable -> Lost("UnopenableAssociatedType")
                   [] OTHER -> Found("Associated", type, open), names.memory)

(* projection_of: the impl around the projection defines what it names.     *)
OwnProjection(at, projection, active, memory) ==
  LET failure == OwnershipFailure(projection)
  IN  IF failure # "none" THEN Reply(Lost(failure), memory)
      ELSE DefinitionOf(at, projection.definition, <<>>, active, memory)

-----------------------------------------------------------------------------
(* What is known of impls when none of them can be chosen (UnselectedImpls).*)
NothingYet(asked) ==
  [file |-> FALSE, site |-> asked.answer.open, skipped |-> FALSE, untraced |-> "none",
   used |-> "none", chosen |-> <<>>, memory |-> asked.memory]

IsComplete(s) == s.untraced = "none" /\ ~s.file /\ ~s.site /\ ~s.skipped

FirstReason(old, new) == IF old = "none" THEN new ELSE old

ReasonWith(s, matched) ==
  CASE matched > 0 -> "UnresolvedAssociatedType"
    [] s.untraced # "none" -> s.untraced
    [] s.file -> "UnreadableDeclaringDocument"
    [] s.site -> "UnreadableImplementation"
    [] OTHER -> "UnresolvedAssociatedType"

(* Mistake: what was not found is remembered, too.                          *)
Slip_ClosedTarget(at, world, impl, active, memory) ==
  LET names == ResolutionsOf(at, ClosedReferences(world.impls[impl]), active, memory)
      answer == IF names.reason = "none" THEN Found("Opened", names.types, FALSE)
                ELSE Lost(names.reason)
  IN  IF Remembered(memory, "targets", <<impl>>)
      THEN Reply(Recall(memory, "targets", <<impl>>), memory)
      ELSE Reply(answer, Remember(names.memory, "targets", <<impl>>, answer))

(* The type an impl without variables is of: it is remembered if all of its *)
(* names were found.                                                        *)
ClosedTarget(at, world, impl, active, memory) ==
  LET names == ResolutionsOf(at, ClosedReferences(world.impls[impl]), active, memory)
      found == Found("Opened", names.types, FALSE)
      known == Remembered(memory, "targets", <<impl>>)
  IN  CASE known -> Reply(Recall(memory, "targets", <<impl>>), memory)
        [] ~known /\ names.reason # "none" -> Reply(Lost(names.reason), names.memory)
        [] OTHER -> Reply(found, Remember(names.memory, "targets", <<impl>>, found))

(* nested_projection_of: the impl of exactly the type that the inner        *)
(* projection stands for; the first one is the only one.                    *)
Looked(s, impl, target, type) ==
  LET looked == [s EXCEPT !.memory = target.memory]
  IN  CASE ~IsFound(target.answer) ->
             [looked EXCEPT !.untraced = FirstReason(@, target.answer.reason)]
        [] target.answer.type = type -> [looked EXCEPT !.chosen = <<impl>>]
        [] OTHER -> looked

ImplOf(at, world, type, active, asked) ==
  LET step(s, impl) ==
        CASE s.chosen # <<>> -> s
          [] ~world.impls[impl].readable -> [s EXCEPT !.file = TRUE]
          [] ~IsClosedCandidate(world.impls[impl]) -> s
          [] OTHER -> Looked(s, impl, ClosedTarget(at, world, impl, active, s.memory), type)
  IN  FoldLeft(step, NothingYet(asked), asked.answer.type)

DefinedIn(at, world, inner, active, searched) ==
  IF searched.chosen = <<>> THEN Reply(Lost(ReasonWith(searched, 0)), searched.memory)
  ELSE DefinitionOf(at, world.impls[searched.chosen[1]].definition, inner.answer.type, active,
                    searched.memory)

ProjectionOfInner(at, world, inner, active, asked) ==
  CASE ~IsFound(inner.answer) -> inner
    [] IsFound(inner.answer) /\ ~IsClosed(inner.answer) ->
         Reply(Lost("UnresolvedAssociatedType"), inner.memory)
    [] IsClosed(inner.answer) /\ ~IsFound(asked.answer) -> asked
    [] OTHER -> DefinedIn(at, world, inner, active,
                          ImplOf(at, world, inner.answer.type, active, asked))

NestedProjection(at, world, projection, active, memory) ==
  LET failure == OwnershipFailure(projection)
      inner == at[Query(projection.inner, active, memory)]
      asked == ImplementationOf(world, projection.written.trait, inner.memory)
  IN  IF failure # "none" THEN Reply(Lost(failure), memory)
      ELSE ProjectionOfInner(at, world, inner, active, asked)

-----------------------------------------------------------------------------
(* A use-site name is asked about once per projection, however many impls   *)
(* it is compared with.                                                     *)
UsedName(at, place, active, s) ==
  IF place \in DOMAIN s.asked THEN [answer |-> s.asked[place], state |-> s]
  ELSE LET reply == at[Query(place, active, s.memory)]
       IN  [answer |-> reply.answer,
            state |-> [s EXCEPT !.asked = (place :> reply.answer) @@ @, !.memory = reply.memory]]

(* names_agree: every pair has to be the same type, by declaration or by    *)
(* resolved spelling; templates are not compared.                           *)
NamesAgree(at, names, active, state) ==
  LET step(s, pair) ==
        LET used == UsedName(at, pair.used, active, s)
            mine == at[Query(pair.mine, active, used.state.memory)]
            asked == [used.state EXCEPT !.memory = mine.memory]
            same == used.answer = mine.answer /\ used.answer.kind \in {"Declared", "Opened"}
        IN  CASE s.agree # "Yes" -> s
              [] ~IsFound(used.answer) ->
                   [used.state EXCEPT !.agree = "UseSiteUntraced", !.used = used.answer.reason]
              [] ~IsFound(mine.answer) ->
                   [asked EXCEPT !.agree = "Untraced",
                                 !.untraced = FirstReason(@, mine.answer.reason)]
              [] OTHER -> [asked EXCEPT !.agree = IF same THEN "Yes" ELSE "No"]
  IN  FoldLeft(step, [state EXCEPT !.agree = "Yes"], names)

(* One impl of those that selected_impl_projection_of goes through.         *)
ChosenIfAgreed(agreed, impl) ==
  IF agreed.agree = "Yes" THEN [agreed EXCEPT !.chosen = Append(@, impl)] ELSE agreed

MatchedBy(at, candidate, binding, projection, impl, active, s) ==
  CASE s.used # "none" -> s
    [] ~candidate.readable -> [s EXCEPT !.file = TRUE]
    [] ~IsCandidateImpl(candidate) ->
         [s EXCEPT !.skipped = @ \/ MayApply(candidate, projection)]
    [] ~MayMatch(candidate, projection) \/ ~binding.fits -> s
    [] OTHER -> ChosenIfAgreed(NamesAgree(at, binding.names, active, s), impl)

Matched(at, candidate, projection, impl, active, s) ==
  MatchedBy(at, candidate, Binding(candidate, projection), projection, impl, active, s)

(* UnselectedImpls::chosen_from: one that takes variables only is the one;  *)
(* one that takes types is if every other impl has been looked at.          *)
ChosenAmong(s, variablesOnly) ==
  LET none(reason) == [impl |-> <<>>, reason |-> reason]
  IN  CASE Len(variablesOnly) = 1 -> [impl |-> variablesOnly, reason |-> "none"]
        [] variablesOnly = <<>> /\ Len(s.chosen) = 1 /\ IsComplete(s) ->
             [impl |-> s.chosen, reason |-> "none"]
        [] variablesOnly = <<>> /\ Len(s.chosen) = 1 -> none(ReasonWith(s, 0))
        [] OTHER -> none(ReasonWith(s, Len(s.chosen)))

ChosenFrom(s, world, projection) ==
  LET concrete(impl) == BindsConcrete(Binding(world.impls[impl], projection))
  IN  ChosenAmong(s, SelectSeq(s.chosen, LAMBDA impl : ~concrete(impl)))

(* The types that the variables of the chosen impl take, asked about where  *)
(* the projection is.                                                       *)
Captures(at, places, active, state) ==
  LET step(s, place) ==
        LET used == UsedName(at, place, active, s)
        IN  CASE s.used # "none" -> s
              [] ~IsFound(used.answer) -> [used.state EXCEPT !.used = used.answer.reason]
              [] OTHER -> used.state
  IN  FoldLeft(step, state, places)

(* selected_projection_of, selected_impl_projection_of: the impls that      *)
(* apply, and then what the chosen one defines.                             *)
Searched(at, world, projection, active, asked) ==
  FoldLeft(LAMBDA s, impl : Matched(at, world.impls[impl], projection, impl, active, s),
           NothingYet(asked) @@ [asked |-> <<>>, agree |-> "Yes"], asked.answer.type)

DefinedBy(at, impl, captured, active) ==
  IF captured.used # "none" THEN Reply(Lost(captured.used), captured.memory)
  ELSE DefinitionOf(at, impl.definition, <<>>, active, captured.memory)

ProjectionThrough(at, world, projection, active, choice, searched) ==
  LET impl == world.impls[choice.impl[1]]
      places == CapturedPlaces(impl, Binding(impl, projection))
  IN  CASE choice.impl = <<>> -> Reply(Lost(choice.reason), searched.memory)
        [] choice.impl # <<>> /\ ~impl.definition.exists ->
             Reply(Lost("UnresolvedAssociatedType"), searched.memory)
        [] OTHER -> DefinedBy(at, impl, Captures(at, places, active, searched), active)

Selected(at, world, projection, active, searched) ==
  IF searched.used # "none" THEN Reply(Lost(searched.used), searched.memory)
  ELSE ProjectionThrough(at, world, projection, active, ChosenFrom(searched, world, projection),
                         searched)

SelectedProjection(at, world, projection, trait, active, memory) ==
  LET asked == ImplementationOf(world, trait, memory)
  IN  IF ~IsFound(asked.answer) THEN Reply(asked.answer, asked.memory)
      ELSE Selected(at, world, projection, active, Searched(at, world, projection, active, asked))

-----------------------------------------------------------------------------
(* supertrait_owner_of: the traits above the one that is implemented, the   *)
(* last found first. Every trait is looked at once.                         *)
SupertraitOwner(world, projection) ==
  LET implemented == projection.written.trait
      owner == projection.member.trait
      name(s, named) ==
        LET found == [s EXCEPT !.owner = IF named.trait = owner THEN named.trait ELSE @]
        IN  CASE s.refused -> s
              [] named.reason # "none" -> [s EXCEPT !.untraced = FirstReason(@, named.reason)]
              [] named.trait = owner /\ named.arguments -> [s EXCEPT !.refused = TRUE]
              [] named.trait \in s.visited -> found
              [] OTHER -> [found EXCEPT !.visited = @ \cup {named.trait},
                                        !.pending = Append(@, named.trait)]
      look(s) ==
        LET trait == world.traits[Last(s.pending)]
            popped == [s EXCEPT !.pending = Front(@)]
            declares == [popped EXCEPT !.declaring =
                           IF projection.name \in trait.declares
                           THEN @ \cup {Last(s.pending)} ELSE @]
        IN  CASE s.refused \/ s.pending = <<>> -> s
              [] trait.source # "none" ->
                   [popped EXCEPT !.untraced = FirstReason(@, trait.source)]
              [] OTHER -> FoldLeft(name, declares, trait.supertraits)
      start == [pending |-> <<implemented>>, visited |-> {implemented}, declaring |-> {},
                untraced |-> "none", owner |-> "none", refused |-> FALSE]
      closed == FoldLeft(LAMBDA s, i : look(s), start,
                         [i \in 1..Cardinality(DOMAIN world.traits) |-> i])
  IN  CASE closed.refused \/ (closed.owner # "none" /\ closed.declaring \ {owner} # {}) ->
             "UnresolvedAssociatedType"
        [] closed.owner # "none" -> "none"
        [] closed.untraced # "none" -> closed.untraced
        [] OTHER -> "UnresolvedAssociatedType"

(* supertrait_projection_of: the owner is remembered, if there is one.      *)
ShorthandProjection(at, world, projection, active, memory) ==
  LET failure == FirstReason(projection.member.reason, projection.written.reason)
      key == <<projection.written.trait, projection.member.trait, projection.name>>
      refusal == IF Remembered(memory, "owners", key) THEN "none"
                 ELSE SupertraitOwner(world, projection)
      known == Remember(memory, "owners", key, Found("Trait", <<projection.member.trait>>, FALSE))
  IN  CASE failure # "none" -> Reply(Lost(failure), memory)
        [] refusal # "none" -> Reply(Lost(refusal), memory)
        [] OTHER -> SelectedProjection(at, world, projection, projection.member.trait, active, known)

-----------------------------------------------------------------------------
(* projection_of: what the projection is, the impl around it first.         *)
ProjectionOf(at, world, projection, active, memory) ==
  LET failure == OwnershipFailure(projection)
  IN  CASE projection.form = "Own" -> OwnProjection(at, projection, active, memory)
        [] projection.form = "Nested" ->
             NestedProjection(at, world, projection, active, memory)
        [] projection.form = "Shorthand" ->
             ShorthandProjection(at, world, projection, active, memory)
        [] projection.form = "Qualified" /\ failure # "none" -> Reply(Lost(failure), memory)
        [] projection.form = "Qualified" ->
             SelectedProjection(at, world, projection, projection.written.trait, active, memory)
        [] OTHER -> Reply(Lost("UnresolvedAssociatedType"), memory)

(* reference_of: a name with Self in it is a projection, and a projection   *)
(* counts for the length of the chain; what the servers say of any other    *)
(* name decides.                                                            *)
Resolver(world) ==
  LET at[q \in [place : STRING, active : SUBSET STRING, memory : SUBSET Entries]] ==
        LET written == world.places[q.place]
            end(answer) == Reply(answer, q.memory)
        IN  CASE written.kind = "Projection" /\ q.place \in q.active -> end(Lost("CyclicAlias"))
              [] written.kind = "Projection" /\ q.place \notin q.active ->
                   IF Cardinality(q.active) >= MaximumAliasDepth
                   THEN end(Lost("AliasExpansionLimit"))
                   ELSE ProjectionOf(at, world, written.projection, q.active \cup {q.place},
                                     q.memory)
              [] written.kind = "Primitive" -> end(Found("Opened", <<written.site>>, FALSE))
              [] written.kind = "Lost" -> end(Lost(written.site))
              [] written.kind = "Name" ->
                   AtDeclaration(at, world, written.site, q.active, q.memory)
  IN  at

-----------------------------------------------------------------------------
(* rust_traced_type_names_of: the names of one chunk, each from the start   *)
(* of its own chain.                                                        *)
Traced(s, reply) ==
  [answers |-> Append(s.answers, reply.answer), memory |-> reply.memory]

TracedBy(at, places, memory) ==
  FoldLeft(LAMBDA s, place : Traced(s, at[Query(place, {}, s.memory)]),
           [answers |-> <<>>, memory |-> memory], places)

TracedRust(world, places, memory) == TracedBy(Resolver(world), places, memory)
=============================================================================
