------------------------------ MODULE Comparison ------------------------------
(* `compare a b`: one pair of functions, cut from the files as they are     *)
(* when they are read, measured, and asked about at one language server     *)
(* (chunk_pair_of to type_signature_match_of in src/src/pipeline.rs,        *)
(* report_compare in src/src/main.rs).                                      *)
(*                                                                          *)
(* A file is a sequence of versions, because somebody may save it while     *)
(* the command runs: each time it is read, one of them is seen. What a      *)
(* server may answer is the repertoire of the server; an exchange with it   *)
(* is one step (module Connection is about what happens inside of it).      *)
EXTENDS Chunks, Imports, Responses, Aliases, RustCallables, Configuration

CONSTANTS
  Sources,   \* what lies at a path: see Source
  Servers,   \* what a server can be like, by name: see Server
  MarkedDirectories,  \* the directories with a project marker in them
  Absent,    \* a signal that is not measured
  SharedCalleeDomainsThreshold  \* SHARED_CALLEE_DOMAINS_THRESHOLD

(* Source: [path, versions]. A version is [grammar ("none" when the         *)
(* extension is not known), readable, parses, file, places (of each Swift   *)
(* function the names in its signature)].                             *)
(* Request: [a, b, lang, failOn]; a and b are [path, line], path in DOMAIN  *)
(* Sources, failOn says whether --fail-on do-not-extract is given.          *)
(* Server: [language, markers, references, types, members, callers,         *)
(* callees, mayFail]; types to callees are the exchanges it may have with   *)
(* us (Responses), mayFail is what else may go wrong.                       *)

VARIABLES
  request,  \* what is compared
  server,   \* the server that reads its language
  stage,    \* how far compare has come: see Course
  pair,     \* for each side the version that was read and the function in it
  asked,    \* for each question and side, what came back
  heard,    \* for each side the answer its type signature was read from
  memory,   \* RustDeclarationCache of the session
  shown,    \* the version of each address that the server was shown first
  setup,    \* the failure that stands for all answers, or none
  exit,     \* the exit code, -1 before the end
  failedFirst  \* history: the first question that failed

questions == <<asked, heard, memory, shown, failedFirst>>
compareVars == <<request, server, stage, pair, questions, setup, exit>>

(* What is made of what a server says about types.                          *)
WorldOf(said) ==
  IF said.language = "Rust"
  THEN [said.world EXCEPT !.traits =
          [t \in DOMAIN @ |-> [@[t] EXCEPT !.implementation = ImplementationReply(@)]]]
  ELSE [said.world EXCEPT !.definitions = [n \in DOMAIN @ |-> DefinitionOutcome(@[n])]]

Understood(said) ==
  LET heardIn(hover) == HoverOutcome(hover, HoverFences[said.language])
  IN  [said EXCEPT !.hover = heardIn(@), !.world = WorldOf(said),
                   !.overloads = [i \in DOMAIN @ |-> heardIn(@[i])]]

(* Each server as it is understood.                                         *)
Understanding ==
  [s \in DOMAIN Servers |->
     [Servers[s] EXCEPT !.types = {Understood(said) : said \in Servers[s].types}]]

Server == Understanding[server]

(* A server speaks of its own language. It is asked about a hover, and for  *)
(* each overload that a hover counts there is a hover, too.                 *)
ASSUME ServersAssumption ==
  \A s \in DOMAIN Servers :
    /\ Servers[s].language \in ServerLanguages /\ "types" \in DOMAIN Servers[s]
    /\ \A t \in Servers[s].types :
         /\ {"language", "hover", "overloads"} \subseteq DOMAIN t
         /\ Servers[s].language = "TypeScript" =>
              LET hover == Understood(t).hover
              IN  /\ t.language = "TypeScript"
                  /\ hover.reply = "Answered" => 1..hover.reading.overloads \subseteq DOMAIN t.overloads

(* absolute_path_of and SourceDocument::new, of a path on the command line. *)
AddressOf(source) == AbsolutePathOf(source.path, Root)
IsOpenable(source) == FileUriOf(AddressOf(source)).failure = "none"

(* A file has a name, what lies in it has finitely many nodes, and is read  *)
(* by the grammar of its extension.                                         *)
ASSUME SourcesAssumption ==
  \A source \in {Sources[path] : path \in DOMAIN Sources} :
    /\ AddressOf(source) \in Seq(STRING) \ {<<>>} /\ source.path.segments \in Seq(STRING)
    /\ \A v \in DOMAIN source.versions :
         LET version == source.versions[v]
             nodes == Nodes(version.file.tree)
         IN  /\ nodes \subseteq Nat /\ IsFiniteSet(nodes)
             /\ version.grammar \in {"none", version.file.grammar}

ASSUME AbsentAssumption ==
  Absent \notin {0, 1} /\ Absent \notin {"unifiable", "notUnifiable", "noDivergence", "diverged"}

Sides == {"a", "b"}
Other == [a |-> "b", b |-> "a"]
Swapped(f) == [s \in Sides |-> f[Other[s]]]

-----------------------------------------------------------------------------
(* Cutting the two functions out of their files.                            *)
NoChunk == <<>>

(* read_source_at, syntax_tree_at, enclosing_chunk_at                       *)
CutFailure(version, line) ==
  CASE version.grammar = "none" -> "UnreadableExtension"
    [] version.grammar # "none" /\ ~version.readable -> "SourceUnreadable"
    [] version.grammar # "none" /\ version.readable /\ ~version.parses -> "SourceUnparsable"
    [] OTHER -> IF FindEnclosing(version.file, line).kind = "Chunk" THEN "none" ELSE "ChunkingFailed"

(* Chunk::type_references                                                   *)
NamesAt(version, n) ==
  CASE version.grammar = "Rust" -> RustReferences(version.file.tree, n)
    [] n \in DOMAIN version.places -> version.places[n]
    [] OTHER -> <<>>

(* A chunk carries all along that is asked of it later: what file it is in,  *)
(* the names in its signature, its tokens, its leaves, the file's imports.  *)
ChunkAt(source, v, n) ==
  LET version == source.versions[v]
      file == version.file
  IN  [path |-> source.path, address |-> AddressOf(source), openable |-> IsOpenable(source),
       version |-> v, grammar |-> version.grammar, file |-> file, node |-> n,
       names |-> NamesAt(version, n), header |-> ImplHeader(file.tree, n),
       tokens |-> TokensOf(file.tree, n), imports |-> ImportsOf(file, source.path),
       leaves |-> LeavesOf(file.tree, n, NameNode(file, n), file.grammar)]

(* All of them.                                                             *)
CutsOf(sources) ==
  [path \in DOMAIN sources |->
     [v \in DOMAIN sources[path].versions |->
        [n \in ChunkNodes(sources[path].versions[v].file) |-> ChunkAt(sources[path], v, n)]]]

Cuts == CutsOf(Sources)

CutAt(place, file, v) == Cuts[place.path][v][FindEnclosing(file, place.line).node]

(* Mistake: every place is read for itself.                                 *)
Slip_ReadOnce == FALSE

(* Two places of one path are cut from one reading of the file.             *)
ReadOnce == request.a.path = request.b.path

(* The versions that may be seen where side s is read; a file does not go   *)
(* back to an earlier one.                                                  *)
Readings(s, source) ==
  LET versions == DOMAIN source.versions
  IN  CASE s = "a" -> versions
        [] s = "b" /\ ReadOnce -> {pair.a.version}
        [] s = "b" /\ ~ReadOnce /\ AddressOf(source) = pair.a.address ->
             {v \in versions : v >= pair.a.version}
        [] OTHER -> versions

(* accepts_grammar                                                          *)
AcceptsGrammar(lang, grammar) ==
  lang = "Auto" \/ lang = grammar \/ (lang = "TypeScript" /\ IsTypeScript(grammar))

-----------------------------------------------------------------------------
(* Stage 1.                                                                 *)
(* structural_similarity_of                                                 *)
StructuralSimilarity(p) ==
  IF \E s \in Sides : p[s].tokens = <<>> THEN Absent
  ELSE SimilarityWith(p.a.tokens, p.b.tokens)

(* leaf_divergence_of                                                       *)
LeafDivergence(p) ==
  IF \E s \in Sides : p[s].tokens = <<>> THEN "NoTokens"
  ELSE ComparedWith(p.a.leaves, p.b.leaves).kind

(* A signal: how it came out, the overlap if there is one, and the cause    *)
(* that is told with some kinds.                                            *)
Signal(kind, overlap, cause) == [kind |-> kind, overlap |-> overlap, cause |-> cause]

Kinds(answers) == {answers[s].kind : s \in Sides}

(* Of the kinds of two sides, the one that comes first in an order. If both *)
(* sides have it, the cause of a is told: the patterns of the matches that  *)
(* this stands for take the left side first.                                *)
FirstShown(order, kinds) == order[Min({i \in DOMAIN order : order[i] \in kinds})]

ToldFirst(order, outcomes) ==
  LET kind == FirstShown(order, Kinds(outcomes))
      side == IF outcomes["a"].kind = kind THEN "a" ELSE "b"
  IN  Signal(kind, Absent, outcomes[side].cause)

(* import_overlap_of                                                        *)
ImportReasons == <<"UnreadableDeclaration", "ReboundSpelling", "NoDeclaration">>

ImportOverlap(imports) ==
  LET sets == [s \in Sides |-> imports[s].set]
  IN  IF Kinds(imports) = {"Imports"}
      THEN Signal("Measured", Similarity(Cardinality(sets.a \cap sets.b),
                                         Cardinality(sets.a \cup sets.b)), <<>>)
      ELSE ToldFirst(ImportReasons, imports)

(* directories_of: the names in the path of the directory.                  *)
DirectoryOf(segments) ==
  AtPlaces(segments, {i \in 1..(Len(segments) - 1) : segments[i] \notin {Here, Back}})

(* declared_signals_of: a declaration on either side replaces the distance. *)
ModuleSeparation(p, declarations) ==
  LET declared == [s \in Sides |-> DeclaredDomainOf(p[s].path, declarations)]
      name(s) == IF declared[s].kind = "Declared" THEN declared[s].names[1] ELSE Absent
      directory(s) == DirectoryOf(p[s].path.segments)
  IN  [steps |-> ModuleDistance(directory("a"), directory("b")),
       declared |-> IF \E s \in Sides : declared[s].kind = "Declared"
                    THEN {[s \in Sides |-> name(s)]} ELSE {}]

-----------------------------------------------------------------------------
(* What comes back for a question about one side. "Failed" is an exchange   *)
(* that did not succeed; "Unasked" is what is there before.                 *)
Questions == <<"types", "membership", "callers", "callees">>

Unasked == [q \in ToSet(Questions) |-> [s \in Sides |-> [kind |-> "Unasked"]]]

(* resolved_type_signature_outcome_of for TypeScript: the names of the      *)
(* chunk are traced first, then the chunk and its overloads are read.       *)
TypeScriptSignature(file, n, answer) ==
  LET tree == file.tree
      declared == InOrder(OverloadDeclarations(tree, n))
      traced == TypeScriptTrace(answer.world, ChunkTypeReferences(tree, n))
      overloads == [i \in DOMAIN declared |->
                      [hover |-> answer.overloads[i],
                       annotated |-> AnnotatedPositions(file, declared[i])]]
  IN  TypeScriptOutcome(answer.hover, AnnotatedPositions(file, n), overloads, traced)

(* All of them at once, of files that the server can be shown.              *)
TypeScriptChunks(sources) ==
  LET openable == {p \in DOMAIN sources : IsOpenable(sources[p])}
      files == UNION {{v.file : v \in ToSet(sources[p].versions)} : p \in openable}
  IN  UNION {{f} \X FileChunks(f, FALSE).chunks : f \in {g \in files : IsTypeScript(g.grammar)}}

TypeScriptAnswersOf(servers) ==
  UNION {{t \in servers[s].types : t.language = "TypeScript"} : s \in DOMAIN servers}

TypeScriptAnswers == TypeScriptAnswersOf(Understanding)

TypeScriptSignatures ==
  [q \in TypeScriptChunks(Sources) \X TypeScriptAnswers |-> TypeScriptSignature(q[1][1], q[1][2], q[2])]

(* The same for the other languages. An answered Rust hover is traced with  *)
(* the memory of the session, up to a name whose exchange fails; for Java   *)
(* nothing is asked.                                                        *)
RustTraces(chunk, answer, failing) ==
  LET names == IF failing /\ chunk.names # <<>> THEN Front(chunk.names) ELSE chunk.names
  IN  IF chunk.grammar = "Rust" /\ answer.hover.reply = "Answered"
      THEN TracedRust(answer.world, names, memory)
      ELSE [answers |-> <<>>, memory |-> memory]

Signature(chunk, answer, rust) ==
  CASE chunk.grammar = "Rust" ->
         RustOutcome(answer.hover, chunk.header, RustTrace(chunk.names, rust.answers),
                     answer.world.templates)
    [] chunk.grammar = "Swift" ->
         SwiftOutcome(answer.hover, SwiftTrace(answer.world, ToSet(chunk.names)))
    [] chunk.grammar = "Java" -> Unavailable("NoSignatureReader", "none")
    [] OTHER -> TypeScriptSignatures[<<chunk.file, chunk.node>>, answer]

(* AskedMembership::ask, AskedCallerDomains::ask: whether the callers of a  *)
(* file may be asked for, and what is known of that without asking.         *)
Project(markers) ==
  ProjectRoot({pair[s].address : s \in Sides}, markers, MarkedDirectories)

KnownMembership(peer, chunk) ==
  CASE ~peer.references \/ ~peer.markers -> {"Askable"}
    [] peer.references /\ peer.markers /\ chunk.address \notin Project(TRUE).marked -> {"Unrooted"}
    [] OTHER -> IF AsksProjectMembership(peer.language) THEN {} ELSE {"Askable"}

-----------------------------------------------------------------------------
(* The signals of Stage 2, each with the reason why it is not measured.     *)
(* type_signature_match_of; of UntracedTypeName the reason counts, too, of  *)
(* UnopenedTypeName and OverloadSetMiscounted it is told.                   *)
TypeReasons ==
  <<"Failed", "NoSignatureReader", "SiteDependentSpelling", "ServerStillWorking", "NoTypeThere",
    "UnreadableHover", "OverloadSetMiscounted", "UnreadableSignature", "HoverNotProvided",
    "UnopenedTypeName", "OmittedTypeAnnotation", "NoTracedRecord", "UnalignedParameters">>

ReportedReason(t) == IF t.kind = "UntracedTypeName" THEN t.reason ELSE t.kind

TypeCause(t) ==
  CASE t.kind = "UnopenedTypeName" -> <<t.reason>>
    [] t.kind = "OverloadSetMiscounted" -> t.reason
    [] OTHER -> <<>>

Reported(types) ==
  [s \in Sides |-> [kind |-> ReportedReason(types[s]), cause |-> TypeCause(types[s])]]

TypeMatch(types) ==
  IF Kinds(types) = {"Normalized"}
  THEN Signal(IF IsUnifiable(types.a, types.b) THEN "unifiable" ELSE "notUnifiable", Absent, <<>>)
  ELSE ToldFirst(TypeReasons, Reported(types))

(* asked_caller_domain_overlap_of, caller_domain_overlap_of                 *)
CallerReasons ==
  <<"Unrooted", "OutsideProject", "NotProvided", "Unreachable", "Failed", "AmbiguousDomain",
    "UnclassifiedReference", "NoReferences", "UnreadableReferences", "ServerStillWorking",
    "ReferencesNotProvided">>

(* callee_domain_overlap_of                                                 *)
CalleeReasons ==
  <<"Failed", "AmbiguousDomain", "NoCallees", "OnlyExternalCallees", "ServerStillWorking",
    "NoCallHierarchyItem", "SeveralCallHierarchyItems", "UnreadableCallees",
    "CallHierarchyNotProvided">>

DomainOverlap(outcomes, reasons) ==
  LET counts == [s \in Sides |-> outcomes[s].counts]
  IN  IF Kinds(outcomes) = {"Counted"}
      THEN Signal("Measured", Similarity(SharedDomains(counts.a, counts.b),
                                         CombinedDomains(counts.a, counts.b)), <<>>)
      ELSE ToldFirst(reasons, outcomes)

(* What the server said of callers and callees, counted per domain; what    *)
(* was withheld or failed stays what it is.                                 *)
CallerDomains(answers, declarations) ==
  [s \in Sides |-> IF answers[s].kind = "Asked" THEN CallersOutcome(answers[s].said, declarations)
                   ELSE Without(answers[s].kind)]

CalleeDomains(answers, declarations) ==
  [s \in Sides |-> IF answers[s].kind = "Asked" THEN CalleesOutcome(answers[s].said, declarations)
                   ELSE Without(answers[s].kind)]

(* asked_semantics_of_outcomes, or one reason for all three.                *)
Semantics(replies, failure, declarations) ==
  IF failure # "none" THEN [q \in {"types", "callers", "callees"} |-> Signal(failure, Absent, <<>>)]
  ELSE [types |-> TypeMatch(replies.types),
        callers |-> DomainOverlap(CallerDomains(replies.callers, declarations), CallerReasons),
        callees |-> DomainOverlap(CalleeDomains(replies.callees, declarations), CalleeReasons)]

ImportsIn(p) == [s \in Sides |-> p[s].imports]

(* Everything that is measured of a pair.                                   *)
Measurements(p, replies, failure, declarations) ==
  LET semantics == Semantics(replies, failure, declarations)
  IN  [structure |-> StructuralSimilarity(p), leaves |-> LeafDivergence(p),
       imports |-> ImportOverlap(ImportsIn(p)), separation |-> ModuleSeparation(p, declarations),
       types |-> semantics.types, callers |-> semantics.callers, callees |-> semantics.callees]

-----------------------------------------------------------------------------
(* Stage 3, of which only the levels above and below a threshold matter.    *)
Judge == INSTANCE Classification WITH
  MaxLevel <- 1, CalleeThreshold <- 1, MaxSteps <- 2, Domains <- {}, Absent <- Absent,
  signals <- asked, configured <- asked

Held(overlap, threshold) == IF AtLeast(overlap, threshold) THEN 1 ELSE 0

Level(overlap, threshold) == IF overlap = Absent THEN Absent ELSE Held(overlap, threshold)

LevelOf(signal, threshold) ==
  IF signal.kind = "Measured" THEN Held(signal.overlap, threshold) ELSE Absent

LeafSignal == [NoDivergence |-> "noDivergence", Diverged |-> "diverged"]

(* A signal as it is held against its threshold.                            *)
Judged(m, thresholds) ==
  [structure |-> Level(m.structure, thresholds.structure),
   leaves |-> IF m.leaves \in DOMAIN LeafSignal THEN LeafSignal[m.leaves] ELSE Absent,
   imports |-> LevelOf(m.imports, thresholds.imports),
   separation |-> m.separation,
   types |-> IF m.types.kind \in {"unifiable", "notUnifiable"} THEN m.types.kind ELSE Absent,
   callers |-> LevelOf(m.callers, thresholds.callers),
   callees |-> LevelOf(m.callees, SharedCalleeDomainsThreshold)]

Crossed == [structure |-> 1, imports |-> 1, callers |-> 1]

VerdictOf(m, thresholds) == Judge!ClassificationOf(Judged(m, thresholds), Crossed)

(* Mistake: in the order in which the signals are named.                    *)
Slip_LookedAt == <<<<"types", "a">>, <<"types", "b">>, <<"callees", "a">>, <<"callees", "b">>,
                   <<"callers", "a">>, <<"callers", "b">>>>

(* The error of asked_semantics_of_outcomes: the order in which the answers *)
(* are looked at.                                                           *)
LookedAt == <<<<"types", "a">>, <<"types", "b">>, <<"callers", "a">>, <<"callers", "b">>,
              <<"callees", "a">>, <<"callees", "b">>>>

NoError == <<"none", "none">>

(* A membership that failed is found with the callers that it was asked for.*)
Culprit(q) ==
  IF q[1] = "callers" /\ asked.callers[q[2]].kind = "Unreachable" THEN <<"membership", q[2]>> ELSE q

ErrorOfOutcomes ==
  LET isError(q) == asked[q[1]][q[2]].kind = "Failed" \/ Culprit(q) # q
      failed == {i \in DOMAIN LookedAt : isError(LookedAt[i])}
  IN  IF failed = {} THEN NoError ELSE Culprit(LookedAt[Min(failed)])

(* MeasuredPair::semantics_error: a failure of the setup stands for all; a  *)
(* pair that is not asked about has none.                                   *)
SetupFailures == {"DocumentUnopenable", "WorkspaceRootUndecidable", "LspUnusable"}

SemanticsError ==
  CASE setup \in SetupFailures -> <<setup, "none">>
    [] setup = "none" -> ErrorOfOutcomes
    [] OTHER -> NoError

(* What compare reports, and report_compare's exit_code_of.                 *)
MeasuredPair == Measurements(pair, asked, setup, settings.declarations)

Verdict == VerdictOf(MeasuredPair, settings.thresholds)

ExitCode ==
  CASE ~request.failOn -> 0
    [] request.failOn /\ SemanticsError # NoError -> 2
    [] OTHER -> IF Verdict = "DO-NOT-EXTRACT" THEN 1 ELSE 0

-----------------------------------------------------------------------------
Turn(what) == <<what, "none">>

(* What is said to the server, in this order (asked_semantics_of).          *)
Course == <<<<"open", "a">>, <<"open", "b">>, <<"types", "a">>, <<"types", "b">>,
            <<"membership", "a">>, <<"membership", "b">>, <<"callers", "a">>, <<"callers", "b">>,
            <<"callees", "a">>, <<"callees", "b">>, Turn("shutdown")>>

Following(turn) == Course[1 + CHOOSE i \in DOMAIN Course : Course[i] = turn]

NothingHeard == [s \in Sides |-> <<>>]

CompareInit ==
  /\ stage = <<"locate", "a">> /\ pair = [s \in Sides |-> NoChunk]
  /\ asked = Unasked /\ heard = NothingHeard /\ memory = {} /\ shown = <<>>
  /\ setup = "none" /\ exit = -1 /\ failedFirst = NoError

Refusal(failure) == <<"refused", failure>>
Refused(failure) == stage' = Refusal(failure) /\ exit' = 2

(* report_compare without a configuration.                                  *)
RefuseSettings ==
  /\ stage = <<"locate", "a">> /\ settings.read \notin {"unread", "ready"}
  /\ Refused("ConfigurationFailed")
  /\ UNCHANGED <<request, server, pair, questions, setup>>

(* chunk_pair_of, one side after the other; the languages of two files are  *)
(* compared when both functions are cut.                                    *)
Read(s, source) ==
  \E v \in Readings(s, source) :
    LET version == source.versions[v]
        failure == CutFailure(version, request[s].line)
        foreign == s = "b" /\ ~ReadOnce /\ ~SameLanguage(pair.a.grammar, version.grammar)
    IN  IF failure # "none" THEN Refused(failure) /\ UNCHANGED pair
        ELSE /\ pair' = [pair EXCEPT ![s] = CutAt(request[s], version.file, v)]
             /\ IF foreign THEN Refused("DifferentLanguages")
                ELSE stage' = (IF s = "a" THEN <<"locate", "b">> ELSE Turn("measure")) /\ UNCHANGED exit

Locate(s) ==
  /\ stage = <<"locate", s>> /\ settings.read = "ready"
  /\ Read(s, Sources[request[s].path])
  /\ UNCHANGED <<request, server, questions, setup>>

AmbiguousFile(declarations) ==
  \E s \in Sides : DeclaredDomainOf(pair[s].path, declarations).kind = "Ambiguous"

(* report_compare up to semantics_of: only a candidate is asked about.      *)
Measure(peer) ==
  /\ stage = Turn("measure")
  /\ LET candidate ==
           Level(StructuralSimilarity(pair), settings.thresholds.structure) = 1
         without(reason) == setup' = reason /\ stage' = Turn("report") /\ UNCHANGED exit
     IN  IF ~AcceptsGrammar(request.lang, pair.a.grammar)
         THEN Refused("LanguageNotAccepted") /\ UNCHANGED setup
         ELSE IF AmbiguousFile(settings.declarations)
         THEN Refused("AmbiguousDomain") /\ UNCHANGED setup
         ELSE IF \E s \in Sides : ~Supports(peer.language, pair[s].grammar) THEN without("NotAsked")
         ELSE IF ~candidate THEN without("NotACandidate")
         ELSE stage' = Turn("prepare") /\ UNCHANGED <<setup, exit>>
  /\ UNCHANGED <<request, server, pair, questions>>

SetupFails(failure) == setup' = failure /\ stage' = Turn("report")

(* semantics_of: the documents, the root, the process and its handshake.    *)
Prepare(peer) ==
  /\ stage = Turn("prepare")
  /\ \/ /\ \E s \in Sides : ~pair[s].openable
        /\ SetupFails("DocumentUnopenable")
     \/ /\ \A s \in Sides : pair[s].openable
        /\ \/ "workspace" \in peer.mayFail /\ SetupFails("WorkspaceRootUndecidable")
           \/ "start" \in peer.mayFail /\ SetupFails("LspUnusable")
           \/ stage' = <<"open", "a">> /\ UNCHANGED setup
  /\ UNCHANGED <<request, server, pair, questions, exit>>

(* open_document: a file that is open already stays as it is shown. A       *)
(* failure ends the questions, and so does a function without a name.       *)
HasName(chunk) == NameNode(chunk.file, chunk.node) # 0

ShownTo(files, chunk) ==
  [address \in DOMAIN files \cup {chunk.address} |->
     IF address \in DOMAIN files THEN files[address] ELSE chunk.version]

Open(peer, s) ==
  /\ stage = <<"open", s>>
  /\ \/ /\ "open" \in peer.mayFail
        /\ setup' = "LspUnusable" /\ stage' = Turn("shutdown")
        /\ UNCHANGED shown
     \/ /\ shown' = ShownTo(shown, pair[s])
        /\ IF s = "b" /\ \E t \in Sides : ~HasName(pair[t])
           THEN setup' = "NoName" /\ stage' = Turn("shutdown")
           ELSE UNCHANGED setup /\ stage' = Following(stage)
  /\ UNCHANGED <<request, server, pair, asked, heard, memory, exit, failedFirst>>

(* The reply to the question whose turn it is. A membership that could not  *)
(* be asked for is unreachable.                                             *)
IsFailure(q, answer) == answer.kind = IF q = "membership" THEN "Unreachable" ELSE "Failed"

Note(q, s, answer) ==
  /\ asked' = [asked EXCEPT ![q][s] = answer]
  /\ failedFirst' = IF failedFirst = NoError /\ IsFailure(q, answer) THEN <<q, s>> ELSE failedFirst
  /\ stage' = Following(stage)
  /\ UNCHANGED <<request, server, pair, shown, setup, exit>>

(* resolved_type_signature_outcome_of: what a server knows of a code base   *)
(* it goes on knowing. When one of several exchanges fails, what the ones   *)
(* before it found is remembered.                                           *)
AskTypes(peer, s) ==
  /\ stage = <<"types", s>>
  /\ \E answer \in peer.types, failing \in BOOLEAN :
       /\ \A t \in Sides : \A h \in ToSet(heard[t]) : h.settled <= answer.settled
       /\ failing => "types" \in peer.mayFail /\ pair[s].grammar # "Java"
       /\ heard' = [heard EXCEPT ![s] = <<answer>>]
       /\ \E rust \in {RustTraces(pair[s], answer, failing)} :
            /\ memory' = rust.memory
            /\ Note("types", s, IF failing THEN Failed ELSE Signature(pair[s], answer, rust))

(* AskedMembership::ask                                                     *)
Membership == [Configured |-> "Askable", Inferred |-> "OutsideProject",
               NotSupported |-> "NotProvided", Failed |-> "Unreachable"]

AskMembership(peer, s) ==
  /\ stage = <<"membership", s>>
  /\ \/ \E m \in KnownMembership(peer, pair[s]) : Note("membership", s, [kind |-> m])
     \/ /\ KnownMembership(peer, pair[s]) = {}
        /\ \E exchange \in peer.members :
             Note("membership", s, [kind |-> Membership[MembershipReply(exchange).kind]])
  /\ UNCHANGED <<heard, memory>>

(* AskedCallerDomains::ask, callee_domains_outcome_of                       *)
Said(reply) == IF reply = Failed THEN Failed ELSE [kind |-> "Asked", said |-> reply]

AskCallers(peer, s) ==
  /\ stage = <<"callers", s>>
  /\ \/ /\ asked.membership[s].kind # "Askable"
        /\ Note("callers", s, asked.membership[s])
     \/ /\ asked.membership[s].kind = "Askable"
        /\ \E exchange \in peer.callers : Note("callers", s, Said(ReferencesOutcome(exchange)))
  /\ UNCHANGED <<heard, memory>>

AskCallees(peer, s) ==
  /\ stage = <<"callees", s>>
  /\ \E exchange \in peer.callees : Note("callees", s, Said(CalleesReply(exchange)))
  /\ UNCHANGED <<heard, memory>>

(* A server that does not end well is not believed.                         *)
ShutDown(peer) ==
  /\ stage = Turn("shutdown")
  /\ \/ UNCHANGED setup
     \/ "shutdown" \in peer.mayFail /\ setup' = "LspUnusable"
  /\ stage' = Turn("report")
  /\ UNCHANGED <<request, server, pair, questions, exit>>

Report ==
  /\ stage = Turn("report") /\ exit = -1
  /\ exit' = ExitCode
  /\ UNCHANGED <<request, server, stage, pair, questions, setup>>

CompareWith(peer) ==
  \/ RefuseSettings \/ Measure(peer) \/ Prepare(peer) \/ ShutDown(peer) \/ Report
  \/ \E s \in Sides : \/ Locate(s) \/ Open(peer, s) \/ AskTypes(peer, s)
                     \/ AskMembership(peer, s) \/ AskCallers(peer, s) \/ AskCallees(peer, s)

CompareNext == UNCHANGED configVars /\ CompareWith(Server)

-----------------------------------------------------------------------------
(* What is reported as the error is what failed first, whatever else failed *)
(* after it, unless it is the setup or the end of the session that failed.  *)
(* One answer is late: the membership of b is asked for before the callers  *)
(* of a, and found after them (asked_semantics_of_outcomes, whose comment   *)
(* says that a later failure would tell another story).                     *)
FirstFailureUnlessMembership ==
  stage = Turn("report") =>
    \/ setup \in SetupFailures
    \/ SemanticsError = failedFirst
    \/ failedFirst = <<"membership", "b">> /\ SemanticsError = <<"callers", "a">>

(* Whatever the session remembers of earlier chunks, a Rust name stands for *)
(* what it would stand for if it were asked about with nothing remembered,  *)
(* now or at any later time; all that memory may do is find an answer where *)
(* the chain would have been too long (RustDeclarationCache; the comment in *)
(* at_declaration).                                                         *)
AnswersAfresh(at, places) ==
  \A place \in places :
    at[Query(place, {}, {})].answer
      \in {at[Query(place, {}, memory)].answer, Lost("AliasExpansionLimit")}

RememberedAliasIsFresh ==
  memory # {} /\ stage \in {<<"types", "b">>, <<"membership", "a">>} =>
    \A answer \in Server.types :
      (\A s \in Sides : \A h \in ToSet(heard[s]) : h.settled <= answer.settled) =>
        AnswersAfresh(Resolver(answer.world), DOMAIN answer.world.places)

(* What was found of each side, of the signals that are told with a cause.  *)
SidesFound ==
  [imports |-> ImportsIn(pair), types |-> Reported(asked.types),
   callers |-> CallerDomains(asked.callers, settings.declarations),
   callees |-> CalleeDomains(asked.callees, settings.declarations)]

SwappedPair ==
  Measurements(Swapped(pair), [q \in DOMAIN asked |-> Swapped(asked[q])], setup,
               settings.declarations)

WithoutCause(signal) == [signal EXCEPT !.cause = <<>>]

MirroredSeparation(separation) ==
  [steps |-> separation.steps, declared |-> {Swapped(d) : d \in separation.declared}]

AreAlike(found) == found.a.kind = found.b.kind

(* What is found of a pair there and of the swapped pair back, when that    *)
(* was found of the two sides.                                              *)
Interchangeable(there, back, found) ==
  /\ back.structure = there.structure /\ back.leaves = there.leaves
  /\ MirroredSeparation(back.separation) = there.separation
  /\ \A q \in DOMAIN found :
       /\ WithoutCause(back[q]) = WithoutCause(there[q])
       /\ back[q].cause # there[q].cause => AreAlike(found[q])
  /\ VerdictOf(back, settings.thresholds) = VerdictOf(there, settings.thresholds)

(* `compare b a` finds of every signal what `compare a b` finds, the domain *)
(* names on the other side, and comes to the same verdict (the comment in   *)
(* type_signature_match_of; ComparedLeaves, ReboundSpelling). If a signal   *)
(* is lost, it is for the same kind of reason; the cause told with it is    *)
(* the same, too, unless both functions lose the signal in the same way and *)
(* each has a cause of its own: then the cause of the one that is named     *)
(* first is told.                                                           *)
SidesAreInterchangeable ==
  stage = Turn("report") => Interchangeable(MeasuredPair, SwappedPair, SidesFound)

(* Whether the command ends the same with the declarations in this order.   *)
ComparesAlike(declarations) ==
  /\ stage \in {Turn("report"), Refusal("AmbiguousDomain")} =>
       (AmbiguousFile(declarations) <=> stage = Refusal("AmbiguousDomain"))
  /\ stage = Turn("report") => Measurements(pair, asked, setup, declarations) = MeasuredPair

Reordered(declarations) ==
  LET places == DOMAIN declarations.list
  IN  {[declarations EXCEPT !.list = [i \in places |-> @[p[i]]]] : p \in Bijection(places, places)}

(* What the server is asked about is in the text that it was shown: each    *)
(* function was cut from the version of its file that was opened. A file    *)
(* under two spellings is let off (chunk_pair_of reads one path once). Both *)
(* files lie below the root that the server was told (enclosing_project).   *)
PositionsFitWhatIsShown ==
  (\A s \in Sides : asked.types[s].kind # "Unasked") =>
    /\ \/ request.a.path # request.b.path /\ pair.a.address = pair.b.address
       \/ \A s \in Sides : shown[pair[s].address] = pair[s].version
    /\ \A s \in Sides : IsPrefix(Project(Servers[server].markers).root, pair[s].address)

LoadsKnownIn(sources) ==
  [path \in DOMAIN sources |->
     [v \in DOMAIN sources[path].versions |->
        LET file == sources[path].versions[v].file
        IN  KnowsItsLoads(file, sources[path].path, ImportsOf(file, sources[path].path))]]

LoadsAreKnown == LoadsKnownIn(Sources)

(* What a file loads by way of `require` is counted, or the file is not     *)
(* measured: KnowsItsLoads, of each of the two files that are compared.     *)
NoLoadIsLost ==
  stage = Turn("measure") => \A s \in Sides : LoadsAreKnown[request[s].path][pair[s].version]

SpelledTrees ==
  {t.hover.reading.tree : t \in {u \in TypeScriptAnswers : u.hover.reply = "Answered"}} \ {<<>>}

(* A type whose normal form does not depend on how it is written.           *)
IsOrdered(type) == Orderings(type) <= MaxUnionOrderings /\ ~NumbersBoundsAsWritten(type)

Likeness(a, b) ==
  [renamed |-> SameButRenamed(a, b),
   ordered |-> IsOrdered(a) /\ IsOrdered(b)]

LikenessAmong(types) ==
  [p \in (DOMAIN types) \X (DOMAIN types) |-> Likeness(types[p[1]], types[p[2]])]

Likenesses == LikenessAmong([tree \in SpelledTrees |-> Structured(tree)])


-----------------------------------------------------------------------------
(* What the session has come to at each stage, for the two invariants above *)
(* that follow from the order of its steps.                                 *)
Asking == 3..10
AnswerAt(i) == asked[Course[i][1]][Course[i][2]]
FailureAt(i) == IsFailure(Course[i][1], AnswerAt(i))
Beyond(i) == {Course[j] : j \in (i + 1)..11} \cup {Turn("report")}

IsAsked(which) == which = [q \in ToSet(Questions) |-> [s \in Sides |-> which[q][s]]]

NothingIsAnticipated ==
  \A i \in Asking : stage \notin Beyond(i) => AnswerAt(i) = [kind |-> "Unasked"]

FirstOfTheFailures ==
  \/ failedFirst = NoError /\ \A i \in Asking : ~FailureAt(i)
  \/ \E i \in Asking : /\ failedFirst = Course[i] /\ FailureAt(i)
                       /\ \A j \in 3..(i - 1) : ~FailureAt(j)

(* What is put down for callers that could not be asked for.                *)
CallersStandForMembership ==
  \A s \in Sides :
    setup = "none" /\ stage \in Beyond(IF s = "a" THEN 7 ELSE 8) =>
      IF asked.membership[s].kind = "Askable" THEN asked.callers[s].kind # "Unreachable"
      ELSE /\ asked.callers[s] = asked.membership[s]
           /\ asked.membership[s].kind # "Failed"

SetupComesLast ==
  /\ stage \notin {Turn("shutdown"), Turn("report")} => setup = "none"
  /\ setup \notin SetupFailures \cup {"none"} => failedFirst = NoError

MembershipKinds == {"Unasked", "Askable", "Unrooted", "OutsideProject", "NotProvided", "Unreachable"}

AskingInvariant ==
  /\ IsAsked(asked) /\ \A s \in Sides : asked.membership[s].kind \in MembershipKinds
  /\ NothingIsAnticipated /\ FirstOfTheFailures /\ CallersStandForMembership /\ SetupComesLast

(* What the server was shown, and of which version each function was cut.   *)
Located(s) ==
  /\ stage[1] # "refused" /\ stage # <<"locate", "a">>
  /\ s = "b" => stage # <<"locate", "b">>

PairIsCut ==
  /\ \A s \in Sides : request[s].path \in DOMAIN Sources
  /\ pair = [s \in Sides |-> pair[s]]
  /\ \A s \in Sides : Located(s) => pair[s].address = AddressOf(Sources[request[s].path])
  /\ Located("a") => pair.a.version \in DOMAIN Sources[request.a.path].versions
  /\ Located("b") /\ ReadOnce => pair.b.version = pair.a.version

(* What is measured was cut from a version of the file that is asked for.   *)
PairIsMeasurable ==
  \A s \in Sides : Located(s) =>
    LET versions == Sources[request[s].path].versions
    IN  \E v \in DOMAIN versions : /\ CutFailure(versions[v], request[s].line) = "none"
                                  /\ pair[s] = CutAt(request[s], versions[v].file, v)

FirstShownTo == ShownTo(<<>>, pair.a)
BothShownTo == ShownTo(FirstShownTo, pair.b)

ShownInStep ==
  /\ \/ stage \in {<<"locate", "a">>, <<"locate", "b">>, Turn("measure"), Turn("prepare")}
     \/ stage = <<"open", "a">>
     => shown = <<>>
  /\ stage = <<"open", "b">> => shown = FirstShownTo
  /\ stage \in {Course[i] : i \in Asking} => shown = BothShownTo
  /\ asked # Unasked => /\ shown = BothShownTo
                        /\ stage[1] # "refused" /\ stage # <<"locate", "a">> /\ stage # <<"locate", "b">>

ShownInvariant == PairIsCut /\ ShownInStep

=============================================================================
