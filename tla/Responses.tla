------------------------------ MODULE Responses ------------------------------
(* From what a language server sends to what is made of it: the message in  *)
(* a payload, the result of a response, and the paths behind the URIs in it *)
(* (src/src/lsp/message.rs, uri.rs, document.rs, workspace.rs, hover.rs,    *)
(* declaration_site.rs, references.rs, call_hierarchy.rs,                   *)
(* project_membership.rs).                                                  *)
(*                                                                          *)
(* An exchange is [said |-> "NotSupported" | "StillWorking"] or the payload *)
(* that came back; how often it was asked before is module Connection's.    *)
EXTENDS Domains

CONSTANT NotUtf8Names   \* names of files that are not UTF-8

-----------------------------------------------------------------------------
(* Paths on the way to the server. A path is the sequence of its steps from *)
(* the root.                                                                *)
(* absolute_path_of: read from the current directory; there is nothing      *)
(* above the root.                                                          *)
FoldedSteps(steps) ==
  FoldLeft(LAMBDA path, step :
             CASE step = Here -> path
               [] step = Back -> IF path = <<>> THEN path ELSE Front(path)
               [] OTHER -> Append(path, step),
           <<>>, steps)

AbsolutePathOf(path, here) ==
  FoldedSteps(IF path.absolute THEN path.segments ELSE here \o path.segments)

(* A URI is [scheme, host, segments]. A segment is a name as it is decoded, *)
(* and whether it spells a Windows drive or has a separator in it.          *)
UriSegment(name) == [name |-> name, utf8 |-> name \notin NotUtf8Names, drive |-> FALSE, separator |-> FALSE]

(* file_uri_of                                                              *)
FileUriOf(path) ==
  [failure |-> IF ToSet(path) \cap NotUtf8Names # {} THEN "NotUtf8" ELSE "none",
   uri |-> [scheme |-> "file", host |-> "", segments |-> [i \in DOMAIN path |-> UriSegment(path[i])]]]

(* path_of: a file on this machine, `.`, `..` and what is empty folded.     *)
SegmentFailure(path, segment) ==
  CASE segment.name = "" -> "none"
    [] segment.name # "" /\ ~segment.utf8 -> "NotUtf8"
    [] segment.utf8 /\ segment.drive /\ path = <<>> -> "DriveLetter"
    [] OTHER -> IF segment.separator THEN "EncodedSeparator" ELSE "none"

PathOf(uri) ==
  LET step(read, segment) ==
        IF read.failure # "none" THEN read
        ELSE [failure |-> SegmentFailure(read.path, segment),
              path |-> FoldedSteps(read.path \o IF segment.name = "" THEN <<>> ELSE <<segment.name>>)]
      start == CASE uri.scheme # "file" -> "NotAFileUri"
                 [] uri.scheme = "file" /\ uri.host \notin {"", "localhost"} -> "HasAuthority"
                 [] OTHER -> "none"
  IN  FoldLeft(step, [failure |-> start, path |-> <<>>], uri.segments)

IsReadableUri(uri) == PathOf(uri).failure = "none"
FileAt(uri) == [absolute |-> TRUE, segments |-> PathOf(uri).path]

-----------------------------------------------------------------------------
(* WorkspaceRoot::enclosing_project: the files under a marker, and the      *)
(* nearest directory above the projects of all files.                       *)
MarkedDirectory(path, marked) ==
  LET above == {n \in 0..(Len(path) - 1) : SubSeq(path, 1, n) \in marked}
  IN  IF above = {} THEN {} ELSE {SubSeq(path, 1, Max(above))}

(* common_ancestor_of                                                       *)
CommonAncestor(directories) ==
  LET one == CHOOSE d \in directories : TRUE
      shared == {n \in 0..Len(one) : \A d \in directories : IsPrefix(SubSeq(one, 1, n), d)}
  IN  SubSeq(one, 1, Max(shared))

ProjectRoot(paths, markers, marked) ==
  LET under == {p \in paths : MarkedDirectory(p, marked) # {}}
      covered(p) == IF markers /\ p \in under THEN CHOOSE d \in MarkedDirectory(p, marked) : TRUE
                    ELSE Front(p)
  IN  [root |-> CommonAncestor({covered(p) : p \in paths}),
       markers |-> markers, marked |-> IF markers THEN under ELSE paths]

-----------------------------------------------------------------------------
(* ServerMessage::from_payload. A payload is [json, id, method, result,     *)
(* error], each a set that is empty if the key is missing; a number, a text *)
(* and what is neither are told apart by kind.                              *)
ResponseFailureOf(error) ==
  IF error.code = "number" /\ error.message = "text" THEN "none" ELSE "MalformedResponseFailure"

ResponseFailure(payload) ==
  CASE payload.id # {"number"} -> "ResponseIdNotANumber"
    [] payload.id = {"number"} /\ payload.error # {} ->
         ResponseFailureOf(CHOOSE e \in payload.error : TRUE)
    [] OTHER -> IF payload.result = {} THEN "ResponseWithoutOutcome" ELSE "none"

MessageFailure(payload) ==
  CASE ~payload.json -> "NotJson"
    [] payload.json /\ payload.id = {} /\ payload.method # {"text"} -> "Unrecognized"
    [] payload.json /\ payload.id # {} /\ payload.method # {"text"} -> ResponseFailure(payload)
    [] OTHER -> IF payload.id \subseteq {"number", "text"} THEN "none" ELSE "RequestIdNotSupported"

MessageKind(payload) ==
  CASE payload.method # {"text"} -> "Response"
    [] payload.method = {"text"} /\ payload.id # {} -> "Request"
    [] OTHER -> "Notification"

(* response_of: what a request came to. A failure that the server reports   *)
(* and a message that cannot be read end it alike.                          *)
IsSuccess(payload) ==
  /\ MessageFailure(payload) = "none" /\ MessageKind(payload) = "Response"
  /\ payload.error = {}

ResultOf(payload) == CHOOSE r \in payload.result : TRUE

(* What comes back before a result is looked at.                            *)
IsSettled(exchange) == exchange.said = "Response"
Unsettled(exchange) ==
  Without(IF exchange.said = "NotSupported" THEN "NotSupported" ELSE "ServerStillWorking")

Failed == [kind |-> "Failed"]

(* A result is null, a list of items, one item alone, or not what the       *)
(* method answers with.                                                     *)
IsResult(payload) == IsSuccess(payload) /\ ResultOf(payload).shape # "other"
ItemsOf(payload) ==
  LET result == ResultOf(payload) IN IF result.shape = "null" THEN <<>> ELSE result.items

-----------------------------------------------------------------------------
(* outcome_of in references.rs: every place, or none.                       *)
ReferencesIn(locations) ==
  CASE locations = <<>> -> Without("NoAnswer")
    [] \E i \in DOMAIN locations : ~IsReadableUri(locations[i].uri) -> Without("Unreadable")
    [] OTHER -> [kind |-> "Answered",
                 references |-> [i \in DOMAIN locations |->
                                   [path |-> FileAt(locations[i].uri), scope |-> locations[i].scope]]]

ReferencesOutcome(exchange) ==
  CASE ~IsSettled(exchange) -> Unsettled(exchange)
    [] IsSettled(exchange) /\ ~IsResult(exchange.payload) -> Failed
    [] OTHER -> ReferencesIn(ItemsOf(exchange.payload))

(* start_of and outcome_of in call_hierarchy.rs: one item to start from,    *)
(* and then every callee of it, or none.                                    *)
CalleesIn(calls) ==
  CASE calls = <<>> -> Without("NoCallees")
    [] \E i \in DOMAIN calls : ~IsReadableUri(calls[i].uri) -> Without("Unreadable")
    [] OTHER -> [kind |-> "Answered", paths |-> [i \in DOMAIN calls |-> FileAt(calls[i].uri)]]

StartOf(items) ==
  CASE items = <<>> -> "NoItem" [] Len(items) = 1 -> "Item" [] OTHER -> "SeveralItems"

CalleesFrom(items, outgoing) ==
  CASE Len(items) > 1 -> Because(StartOf(items), <<"items", Len(items)>>)
    [] Len(items) = 0 -> Without(StartOf(items))
    [] OTHER -> IF IsResult(outgoing) THEN CalleesIn(ItemsOf(outgoing)) ELSE Failed

CalleesReply(exchange) ==
  CASE ~IsSettled(exchange) -> Unsettled(exchange)
    [] IsSettled(exchange) /\ ~IsResult(exchange.payload) -> Failed
    [] OTHER -> CalleesFrom(ItemsOf(exchange.payload), exchange.outgoing)

(* project_of, membership_of: the project is one of a file that exists, or  *)
(* one that the server made up. A reply that names none cannot be read.     *)
ProjectOf(payload) == ResultOf(payload).configFileName

MembershipOf(project) == IF project.isFile THEN "Configured" ELSE "Inferred"

MembershipReply(exchange) ==
  CASE exchange.said = "NotSupported" -> Without("NotSupported")
    [] exchange.said # "NotSupported" /\ ~IsSuccess(exchange.payload) -> Failed
    [] OTHER -> LET named == ProjectOf(exchange.payload)
                IN  IF named = {} THEN Failed ELSE Without(MembershipOf(CHOOSE p \in named : TRUE))

-----------------------------------------------------------------------------
(* What was heard when it is about types: [reply], and what was answered.   *)
Told(reply) == [reply |-> reply]
Silence(exchange) ==
  Told(IF exchange.said = "NotSupported" THEN "NotSupported" ELSE "ServerStillWorking")

(* outcome_of in declaration_site.rs: the first place is the one; an item   *)
(* is [uri, place], the place what is known of where the URI leads.         *)
DefinitionsIn(items) ==
  CASE items = <<>> -> Told("NoAnswer")
    [] items # <<>> /\ ~IsReadableUri(items[1].uri) -> Told("Unreadable")
    [] OTHER -> Told("Answered") @@ items[1].place

DefinitionOutcome(exchange) ==
  IF IsSettled(exchange) THEN DefinitionsIn(ItemsOf(exchange.payload)) ELSE Silence(exchange)

(* implementation_outcome_of: those that can be read, and whether there is  *)
(* one that cannot.                                                         *)
ImplementationsIn(items) ==
  LET readable == SelectSeq(items, LAMBDA s : IsReadableUri(s.uri))
  IN  IF items = <<>> THEN Told("NoAnswer")
      ELSE [reply |-> "Answered", impls |-> [i \in DOMAIN readable |-> readable[i].place],
            unreadable |-> readable # items]

ImplementationReply(exchange) ==
  IF IsSettled(exchange) THEN ImplementationsIn(ItemsOf(exchange.payload)) ELSE Silence(exchange)

(* outcome_of_fences: of a hover in Markdown the first of the code fences   *)
(* that are to be tried and are there; a blank one says nothing.            *)
FencedText(contents, tried) ==
  LET there == SelectSeq(tried, LAMBDA i : i \in DOMAIN contents.fences)
  IN  IF ~contents.markup \/ there = <<>> THEN {} ELSE contents.fences[there[1]]

HoverIn(items, tried) ==
  CASE items = <<>> -> Told("NoAnswer")
    [] items # <<>> /\ FencedText(items[1], tried) = {} -> Told("Unreadable")
    [] OTHER -> [reply |-> "Answered", reading |-> CHOOSE t \in FencedText(items[1], tried) : TRUE]

HoverOutcome(exchange, tried) ==
  IF IsSettled(exchange) THEN HoverIn(ItemsOf(exchange.payload), tried) ELSE Silence(exchange)

-----------------------------------------------------------------------------
(* ServerLanguage, ServerCommand: what differs from server to server.       *)
ServerLanguages == {"TypeScript", "Rust", "Swift", "Java"}

(* supports                                                                 *)
Supports(language, grammar) ==
  grammar = language \/ (language = "TypeScript" /\ grammar = "Tsx")

(* hover_fences: rust-analyzer puts the path of a module in front.          *)
HoverFences == [l \in ServerLanguages |-> IF l = "Rust" THEN <<2, 1>> ELSE <<1>>]

(* asks_project_membership                                                  *)
AsksProjectMembership(language) == language = "TypeScript"
=============================================================================
