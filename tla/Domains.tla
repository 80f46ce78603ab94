------------------------------ MODULE Domains ------------------------------
(* The domain that a file belongs to, and how a function's callers and      *)
(* callees are counted per domain (src/src/domain_declaration.rs,           *)
(* src/src/semantics/domain.rs, caller_domain.rs, callee_domain.rs).        *)
(*                                                                          *)
(* A path is [absolute, segments]. A glob is a sequence of segments: `**`,  *)
(* or the set of the names that a segment with `*` in it matches.           *)
EXTENDS Naturals, SequencesExt, FiniteSetsExt

(* lexically_normalized: `.` dropped, `..` one step back. "." is written    *)
(* Here and ".." Back; going back from the top has no path.                 *)
Here == "."
Back == ".."

Normalized(segments) ==
  LET step(s, segment) ==
        CASE segment = Here -> s
          [] segment = Back /\ s.path = <<>> -> [s EXCEPT !.exists = FALSE]
          [] segment = Back -> [s EXCEPT !.path = Front(@)]
          [] OTHER -> [s EXCEPT !.path = Append(@, segment)]
  IN  FoldLeft(step, [exists |-> TRUE, path |-> <<>>], segments)

(* components_from_root_of: the steps from the directory of dryguard.toml,  *)
(* from which relative paths are read, too.                                 *)
FromRoot(path, root) ==
  LET normal == Normalized(IF path.absolute THEN path.segments ELSE root \o path.segments)
  IN  [inside |-> normal.exists /\ IsPrefix(root, normal.path),
       steps  |-> SubSeq(normal.path, Len(root) + 1, Len(normal.path))]

(* segments_match: `**` takes any number of steps.                          *)
Matches(pattern, steps) ==
  LET from[i \in 1..(Len(pattern) + 1), j \in 1..(Len(steps) + 1)] ==
        CASE i > Len(pattern) -> j > Len(steps)
          [] i <= Len(pattern) /\ pattern[i].anyDepth ->
               \E k \in j..(Len(steps) + 1) : from[i + 1, k]
          [] OTHER -> j <= Len(steps) /\ steps[j] \in pattern[i].names /\ from[i + 1, j + 1]
  IN  from[1, 1]

(* declared_domain_of: the one name that a file is declared under; two      *)
(* names are one too many.                                                  *)
Undeclared == [kind |-> "Undeclared", names |-> <<>>]

(* The declarations that match, by their place in the list.                 *)
Matching(path, declarations) ==
  LET place == FromRoot(path, declarations.root)
      list == declarations.list
  IN  {i \in DOMAIN list : place.inside /\ \E p \in list[i].patterns : Matches(p, place.steps)}

(* Mistake: the first declaration that matches wins.                        *)
Slip_DomainAmong(matched, list) ==
  IF matched = {} THEN Undeclared ELSE [kind |-> "Declared", names |-> <<list[Min(matched)].name>>]

DomainAmong(matched, list) ==
  LET first == list[Min(matched)].name
      others == {i \in matched : list[i].name # first}
  IN  CASE matched = {} -> Undeclared
        [] matched # {} /\ others = {} -> [kind |-> "Declared", names |-> <<first>>]
        [] OTHER -> [kind |-> "Ambiguous", names |-> <<first, list[Min(others)].name>>]

DeclaredDomainOf(path, declarations) ==
  DomainAmong(Matching(path, declarations), declarations.list)

-----------------------------------------------------------------------------
(* Domain::of_path: as declared, else the directory; never the same as a    *)
(* declared name of that spelling.                                          *)
DirectoryUnless(declared, path) ==
  IF declared.kind = "Undeclared" THEN [kind |-> "Directory", names |-> Front(path.segments)]
  ELSE declared

DomainOf(path, declarations) == DirectoryUnless(DeclaredDomainOf(path, declarations), path)

IsAmbiguous(path, declarations) == DomainOf(path, declarations).kind = "Ambiguous"

(* DomainCounts::from_paths: how many of the paths lie in each domain.      *)
DomainCounts(domains) ==
  [d \in ToSet(domains) |-> Cardinality({i \in DOMAIN domains : domains[i] = d})]

(* DomainCounts, CallerDomains, CalleeDomains::jaccard: the shared ones of  *)
(* all, whatever their counts.                                              *)
SharedDomains(counts, others) == Cardinality(DOMAIN counts \cap DOMAIN others)
CombinedDomains(counts, others) == Cardinality(DOMAIN counts \cup DOMAIN others)

(* What came of a question: its kind, the counts, and for some kinds the    *)
(* cause that is told with it.                                              *)
Outcome(kind, counts) == [kind |-> kind, counts |-> counts, cause |-> <<>>]
Because(kind, cause) == [kind |-> kind, counts |-> <<>>, cause |-> cause]
Without(kind) == Because(kind, <<>>)

(* The counts, or why there are none; one ambiguous path spoils them all,   *)
(* and the first one is told (AmbiguousDomain; which two declarations it    *)
(* has is left out).                                                        *)
OutcomeIn(paths, domains, none) ==
  LET ambiguous == {i \in DOMAIN paths : domains[i].kind = "Ambiguous"}
  IN  CASE ambiguous # {} -> Because("AmbiguousDomain", <<paths[Min(ambiguous)]>>)
        [] paths = <<>> -> Without(none)
        [] OTHER -> Outcome("Counted", DomainCounts(domains))

CountedOutcome(paths, declarations, none) ==
  OutcomeIn(paths, [i \in DOMAIN paths |-> DomainOf(paths[i], declarations)], none)

-----------------------------------------------------------------------------
(* ReferenceSources::is_test, production_paths_of: references out of Rust   *)
(* tests do not count, and one that cannot be told spoils the answer before *)
(* any domain is looked at. A reference is [path, scope].                   *)
Untellable == {"Unreadable", "Unparsable", "InvalidPosition"}

(* ReferenceSourceError: what cannot be told of the first such reference.   *)
Unclassified(references) ==
  LET untellable == {i \in DOMAIN references : references[i].scope \in Untellable}
      first == references[Min(untellable)]
  IN  Because("UnclassifiedReference", <<first.scope, first.path>>)

ProductionPaths(references) ==
  LET production == SelectSeq(references, LAMBDA r : r.scope # "Test")
  IN  [i \in DOMAIN production |-> production[i].path]

(* caller_domain::outcome_of                                                *)
CallersOutcome(answer, declarations) ==
  CASE answer.kind = "Answered" /\ \E i \in DOMAIN answer.references :
                                     answer.references[i].scope \in Untellable ->
         Unclassified(answer.references)
    [] answer.kind = "Answered" ->
         CountedOutcome(ProductionPaths(answer.references), declarations, "NoReferences")
    [] answer.kind = "NoAnswer" -> Without("NoReferences")
    [] answer.kind = "Unreadable" -> Without("UnreadableReferences")
    [] answer.kind = "ServerStillWorking" -> Without("ServerStillWorking")
    [] answer.kind = "NotSupported" -> Without("ReferencesNotProvided")

(* is_in_dependency_directory                                               *)
IsExternal(path) == \E i \in DOMAIN path.segments : path.segments[i] = "node_modules"

(* callee_domain::outcome_of, counted_outcome_of: what is called outside of *)
(* the code base does not count.                                            *)
CalleesOutcome(answer, declarations) ==
  CASE answer.kind = "Answered" /\ answer.paths = <<>> -> Without("NoCallees")
    [] answer.kind = "Answered" ->
         CountedOutcome(SelectSeq(answer.paths, LAMBDA p : ~IsExternal(p)), declarations,
                        "OnlyExternalCallees")
    [] answer.kind = "NoItem" -> Without("NoCallHierarchyItem")
    [] answer.kind = "SeveralItems" -> Because("SeveralCallHierarchyItems", answer.cause)
    [] answer.kind = "NoCallees" -> Without("NoCallees")
    [] answer.kind = "Unreadable" -> Without("UnreadableCallees")
    [] answer.kind = "ServerStillWorking" -> Without("ServerStillWorking")
    [] answer.kind = "NotSupported" -> Without("CallHierarchyNotProvided")
=============================================================================
