------------------------------- MODULE Check --------------------------------
(* `check --diff` from the edits of a file to the pairs of functions that   *)
(* are candidates: git says which lines changed, the functions are cut out  *)
(* of the tree that is checked, and only pairs with a changed function are  *)
(* compared, most of them by their lengths alone (src/src/pipeline.rs,      *)
(* codebase/diff.rs, codebase/index.rs, syntax/token.rs).                   *)
(*                                                                          *)
(* One file is edited, line by line, from the side that git compares with;  *)
(* a second one, Library, stays as it is. What is edited is written one     *)
(* token to a line, and any range of its lines may be a function.           *)
EXTENDS Chunks, Changes, Domains, Configuration

CONSTANTS
  MaxLines,     \* bound on the lines of the edited file, old and new together
  Plain,        \* the text of a line
  Lookalike,    \* a text that, behind a "+", is the heading of Library
  Library,      \* the file that nobody edits
  TestsExcluded \* --include-tests was not given

Edited  == <<"src", "edited">>
Shelved == <<"src", "library">>
Texts == {Plain, Lookalike}

ASSUME LibraryAssumption ==
  /\ IsTypeScript(Library.grammar) /\ MaxLines \in Nat
  /\ Nodes(Library.tree) \subseteq Nat /\ IsFiniteSet(Nodes(Library.tree))

VARIABLES
  script,     \* how the edited file was made: its lines in order, with what became of each
  setting,    \* what is checked: see CheckSettings
  step,       \* "edit", "changed", "listed", "cut", "compared" or "refused"
  changed,    \* ChangedLines
  paths,      \* the files that are read
  chunks,     \* the functions cut out of them
  candidates  \* the pairs found similar

checkVars == <<script, setting, step, changed, paths, chunks, candidates>>

(* The target, whether git tracks the edited file, whether a merge left the *)
(* library in conflict.                                                     *)
CheckSettings == [target : {"WorkTree", "Index"}, tracked : BOOLEAN, conflict : BOOLEAN]

-----------------------------------------------------------------------------
(* The diff that `git diff --unified=0` prints of the edits: for every run  *)
(* of edited lines one hunk, what was deleted before what was added. If the *)
(* last line was deleted and another added, neither side ends in a newline, *)
(* which git says after each; else both sides end in one. Lines appended to *)
(* a file without a newline are such a script: git deletes the last line    *)
(* and adds it again.                                                       *)
Kept(i) == script[i].how = "keep"

Count(hows, range) == Cardinality({i \in range : script[i].how \in hows})
NewLinesUpTo(i) == Count({"keep", "add"}, 1..i)

(* The place in the script of a line of the new side.                       *)
PlaceOf(line) == CHOOSE i \in DOMAIN script : NewLinesUpTo(i) = line /\ script[i].how # "delete"

Line(first, heading) ==
  [first |-> first, heading |-> heading, path |-> NoPath, old |-> 0, start |-> 0, new |-> 0]

Added(text) ==
  IF text = Lookalike THEN [Line("+", "+++") EXCEPT !.path = Shelved] ELSE Line("+", "none")

HeadingOf(first, last) ==
  LET added == Count({"add"}, first..last)
      before == NewLinesUpTo(first - 1)
  IN  [Line("@", "@@") EXCEPT !.old = Count({"delete"}, first..last), !.new = added,
                              !.start = IF added = 0 THEN before ELSE before + 1]

HunkOf(first, last) ==
  LET heading == HeadingOf(first, last)
      places == {i \in first..last : script[i].how = "add"}
      noNewline == IF last = Len(script) /\ heading.old > 0 /\ heading.new > 0
                   THEN <<Line("backslash", "none")>> ELSE <<>>
  IN  <<heading>> \o [i \in 1..heading.old |-> Line("-", "none")] \o noNewline
        \o AtPlaces([i \in DOMAIN script |-> Added(script[i].text)], places) \o noNewline

EndsRun(i) == ~Kept(i) /\ (i = Len(script) \/ Kept(i + 1))
RunUpTo(i) == Min({j \in 1..i : \A k \in j..i : ~Kept(k)})

HunksUpTo ==
  LET upTo[i \in 0..Len(script)] ==
        IF i = 0 THEN <<>>
        ELSE upTo[i - 1] \o IF EndsRun(i) THEN HunkOf(RunUpTo(i), i) ELSE <<>>
  IN  upTo

Diff ==
  IF ~setting.tracked \/ \A i \in DOMAIN script : Kept(i) THEN <<>>
  ELSE <<Line("d", "diff"), [Line("+", "+++") EXCEPT !.path = Edited]>> \o HunksUpTo[Len(script)]

-----------------------------------------------------------------------------
(* What lies in the directory and what git has in its index.                *)
Entry(path, mode, grammar, stage) ==
  [path |-> path, mode |-> mode, grammar |-> grammar, stage |-> stage, readable |-> TRUE]

IndexListing ==
  <<Entry(<<"node_modules", "library">>, "100644", "TypeScript", 0),
    Entry(<<"src", "link">>, "120000", "TypeScript", 0),
    Entry(Shelved, "100644", Library.grammar, IF setting.conflict THEN 2 ELSE 0)>>
  \o IF setting.tracked THEN <<Entry(Edited, "100755", "TypeScript", 0)>> ELSE <<>>

Untracked == IF setting.tracked THEN {} ELSE {Edited}
WorkTree == Range(IndexListing) \cup {Entry(Edited, "100755", "TypeScript", 0)}

(* A function that is compared: where it is and its tokens.                 *)
Chunk(path, first, last, tokens) ==
  [path |-> path, first |-> first, last |-> last, tokens |-> tokens]

EditedChunk(range) ==
  Chunk(Edited, range.first, range.last,
        [n \in 1..(range.last - range.first + 1) |-> script[PlaceOf(range.first + n - 1)].text])

LibraryChunk(n) ==
  Chunk(Shelved, Library.tree[n].first, Library.tree[n].last, TokensOf(Library.tree, n))

ChunksAt(nodes) == [i \in DOMAIN nodes |-> LibraryChunk(nodes[i])]
LibraryChunks == ChunksAt(InOrder(FileChunks(Library, TestsExcluded).chunks))

(* The functions of the file that is edited: none, one or two.              *)
EditedRanges ==
  LET lines == 1..NewLinesUpTo(Len(script))
      ranges == {r \in [first : lines, last : lines] : r.first <= r.last}
      follows(r, s) == r.last < s.first \/ (r.first < s.first /\ s.last <= r.last)
  IN  {<<>>} \cup {<<r>> : r \in ranges}
      \cup {rs \in ranges \X ranges : follows(rs[1], rs[2])}

-----------------------------------------------------------------------------
Targeted(c) == TouchesLines(changed, c.path, c)

(* is_nested: the same code twice.                                          *)
IsNested(c, d) == c.path = d.path /\ Overlaps(c, d)

IsSimilar(similarity) == AtLeast(similarity, settings.thresholds.structure)

(* is_ruled_out_by_ceiling                                                  *)
IsRuledOut(c, d) == ~IsSimilar(SimilarityCeilingWith(c.tokens, d.tokens))

Pairs == {p \in (DOMAIN chunks) \X (DOMAIN chunks) : p[1] < p[2]}

(* ComparedPairs::from_chunk: every file here is TypeScript.                *)
IsCompared(p) ==
  LET c == chunks[p[1]]
      d == chunks[p[2]]
  IN  (Targeted(c) \/ Targeted(d)) /\ ~IsNested(c, d)

IsCandidate(p) == IsSimilar(SimilarityWith(chunks[p[1]].tokens, chunks[p[2]].tokens))

(* The pairs found: their lengths are looked at first.                      *)
SimilarPairs ==
  {p \in Pairs : IsCompared(p) /\ ~IsRuledOut(chunks[p[1]], chunks[p[2]]) /\ IsCandidate(p)}

-----------------------------------------------------------------------------
CheckInit ==
  /\ script = <<>> /\ setting \in CheckSettings /\ step = "edit"
  /\ changed = ChangedLines(<<>>, {}, "Index")
  /\ paths = {} /\ chunks = <<>> /\ candidates = {}

(* Somebody keeps, deletes or adds the next line. A file that git does not  *)
(* track has nothing to be compared with.                                   *)
Edit ==
  /\ settings.read = "unread" /\ step = "edit" /\ Len(script) < MaxLines
  /\ \E how \in {"keep", "delete", "add"}, text \in Texts :
       /\ ~setting.tracked => how = "add"
       /\ how = "delete" => text = Plain
       /\ script' = Append(script, [how |-> how, text |-> text])
  /\ UNCHANGED <<setting, step, changed, paths, chunks, candidates>>

(* main without a configuration.                                            *)
StopUnconfigured ==
  /\ step = "edit" /\ settings.read \notin {"unread", "ready"}
  /\ step' = "refused"
  /\ UNCHANGED <<script, setting, changed, paths, chunks, candidates>>

(* ChangedLines::of, the first thing that check asks git for.               *)
AskGit ==
  /\ step = "edit"
  /\ changed' = ChangedLines(Diff, Untracked, setting.target)
  /\ step' = IF changed'.failure = "none" THEN "changed" ELSE "refused"
  /\ UNCHANGED <<script, setting, paths, chunks, candidates>>

(* SourceTree::paths_of: the index is listed as a whole before it is read.  *)
ListFiles ==
  /\ step = "changed"
  /\ IF setting.target = "WorkTree"
     THEN /\ paths' = SourcePaths(WorkTree, "TypeScript")
          /\ step' = "listed"
     ELSE LET entries == IndexEntries(IndexListing, "TypeScript")
          IN  /\ paths' = entries.paths
              /\ step' = IF entries.failure = "none" THEN "listed" ELSE "refused"
  /\ UNCHANGED <<script, setting, changed, chunks, candidates>>

(* The first thing that is asked of the files: whether each of them has one *)
(* domain at most.                                                          *)
DomainsAreClear(declarations) ==
  \A p \in paths : ~IsAmbiguous([absolute |-> FALSE, segments |-> p], declarations)

RefuseAmbiguous ==
  /\ step = "listed" /\ ~DomainsAreClear(settings.declarations)
  /\ step' = "refused"
  /\ UNCHANGED <<script, setting, changed, paths, chunks, candidates>>

(* scan_with_servers up to the chunks, in the order of their paths and      *)
(* lines, too small ones left out.                                          *)
CutChunks ==
  /\ step = "listed" /\ DomainsAreClear(settings.declarations)
  /\ \E ranges \in IF Edited \in paths THEN EditedRanges ELSE {<<>>} :
       LET cut == [i \in DOMAIN ranges |-> EditedChunk(ranges[i])]
                  \o IF Shelved \in paths THEN LibraryChunks ELSE <<>>
       IN  chunks' = AtPlaces(cut, {i \in DOMAIN cut : IsLongEnough(cut[i].tokens)})
  /\ step' = "cut"
  /\ UNCHANGED <<script, setting, changed, paths, candidates>>

ComparePairs ==
  /\ step = "cut"
  /\ candidates' = SimilarPairs
  /\ step' = "compared"
  /\ UNCHANGED <<script, setting, changed, paths, chunks>>

(* The files are edited before the command runs; the command reads its      *)
(* configuration before anything else.                                      *)
CheckNext ==
  /\ UNCHANGED configVars
  /\ \/ Edit \/ StopUnconfigured
     \/ /\ settings.read = "ready"
        /\ AskGit \/ ListFiles \/ RefuseAmbiguous \/ CutChunks \/ ComparePairs

-----------------------------------------------------------------------------
(* A function counts as changed exactly if something happened between its   *)
(* first and its last line: a line of it is new, or lines between two of    *)
(* its lines are gone. What was deleted just before or after it, and what   *)
(* the text of a new line looks like, is no change of it (Hunk::touches,    *)
(* skip_hunk_body in codebase/diff.rs).                                     *)
TouchedIffNotCarriedOver ==
  /\ step # "edit" => changed.failure = "none"
  /\ step \in {"cut", "compared"} =>
    \A i \in DOMAIN chunks :
      LET c == chunks[i]
      IN  Targeted(c) <=>
            /\ c.path = Edited
            /\ ~setting.tracked \/ \E p \in PlaceOf(c.first)..PlaceOf(c.last) : ~Kept(p)

(* Skipping pairs by the ceiling on their similarity costs no candidate: of *)
(* the pairs that are to be compared, all similar ones are found (doc of    *)
(* is_ruled_out_by_ceiling in pipeline.rs, gram_count in token.rs).         *)
PruningLosesNoCandidate ==
  step = "compared" => \A p \in Pairs : IsCompared(p) /\ IsCandidate(p) => p \in candidates

(* What has come of the files at each step, behind the invariants above:    *)
(* sequences of tokens have a length, and what is found is found in them.   *)
FilesInStep ==
  /\ script \in Seq([how : {"keep", "delete", "add"}, text : Texts])
  /\ step \in {"cut", "compared"} => \A i \in DOMAIN chunks : Len(chunks[i].tokens) \in Nat
  /\ step = "compared" => candidates = SimilarPairs

(* What git said is of the script as it is, and the functions are cut out   *)
(* of what the script has left.                                             *)
IsWritten(c) ==
  LET lines == 1..NewLinesUpTo(Len(script))
  IN  c.first \in lines /\ c.last \in lines /\ c.first <= c.last

TouchesInStep ==
  /\ changed.failure = "none"
  /\ step \notin {"edit", "refused"} => changed = ChangedLines(Diff, Untracked, setting.target)
  /\ Edited \in paths => setting.tracked \/ setting.target = "WorkTree"
  /\ step \in {"cut", "compared"} =>
       \A i \in DOMAIN chunks : LET c == chunks[i]
                               IN  \/ c.path = Shelved
                                   \/ c.path = Edited /\ Edited \in paths /\ IsWritten(c)
=============================================================================
