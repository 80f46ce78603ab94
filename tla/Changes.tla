------------------------------ MODULE Changes ------------------------------
(* Which files are looked at, and which of their lines a diff has changed   *)
(* (src/src/codebase.rs, codebase/diff.rs, codebase/index.rs).              *)
(*                                                                          *)
(* A line of a diff is what the reader can tell of it: its first character, *)
(* the heading that its beginning would be, and what that heading says.     *)
EXTENDS Syntax, SequencesExt, FiniteSetsExt

(* The new side of a file that was deleted: /dev/null, and not yet any path.*)
NoPath == <<>>

(* HunkHeader::new_side: the new lines, or the point before a line that a   *)
(* hunk which only deletes leaves behind.                                   *)
NewSide(line) ==
  IF line.new = 0
  THEN [deletion |-> TRUE, first |-> line.start + 1, last |-> line.start + 1]
  ELSE [deletion |-> FALSE, first |-> line.start, last |-> line.start + line.new - 1]

(* The point counts for the line after it.                                  *)
Slip_HunkTouches(hunk, range) ==
  IF hunk.deletion THEN Covers(range, hunk.first) ELSE Overlaps(hunk, range)

(* Hunk::touches: a point counts only inside, between two lines.            *)
HunkTouches(hunk, range) ==
  IF hunk.deletion
  THEN Covers(range, hunk.first) /\ range.first < hunk.first
  ELSE Overlaps(hunk, range)

-----------------------------------------------------------------------------
(* ChangedLines::from_diff with skip_hunk_body: the body of a hunk is       *)
(* counted off, so that no line of it passes for a heading.                 *)
Reading == [removed |-> 0, added |-> 0, current |-> NoPath, hunks |-> {}, failure |-> "none"]

InBody(r) == r.removed + r.added > 0

ReadBody(r, line) ==
  CASE line.first = "-" /\ r.removed > 0 -> [r EXCEPT !.removed = @ - 1]
    [] line.first = "+" /\ r.added > 0 -> [r EXCEPT !.added = @ - 1]
    [] line.first = "backslash" -> r
    [] OTHER -> [r EXCEPT !.failure = "TruncatedHunk"]

(* A hunk of a deleted file has no place on the new side.                   *)
ReadHeading(r, line) ==
  CASE line.heading = "diff" -> [r EXCEPT !.current = NoPath]
    [] line.heading = "+++" -> [r EXCEPT !.current = line.path]
    [] line.heading = "@@" ->
         [r EXCEPT !.removed = line.old, !.added = line.new,
                   !.hunks = IF r.current = NoPath THEN @
                             ELSE @ \cup {[path |-> r.current, hunk |-> NewSide(line)]}]
    [] line.heading \in {"MalformedPath", "MalformedQuotedPath", "MalformedHunkHeader"} ->
         [r EXCEPT !.failure = line.heading]
    [] OTHER -> r

ReadLine(r, line) ==
  CASE r.failure # "none" -> r
    [] InBody(r) -> ReadBody(r, line)
    [] OTHER -> ReadHeading(r, line)

ReadUpTo(r, lines) ==
  LET upTo[i \in 0..Len(lines)] == IF i = 0 THEN r ELSE ReadLine(upTo[i - 1], lines[i])
  IN  upTo

FromDiff(lines) ==
  LET read == ReadUpTo(Reading, lines)[Len(lines)]
  IN  IF read.failure = "none" /\ InBody(read)
      THEN [read EXCEPT !.failure = "TruncatedHunk"] ELSE read

(* ChangedLines::of: against the working tree the files that git does not   *)
(* track yet count as changed from end to end; the index has none.          *)
ChangedLines(diff, untracked, target) ==
  LET read == FromDiff(diff)
  IN  [failure |-> read.failure, hunks |-> read.hunks,
       whole |-> IF target = "WorkTree" THEN untracked ELSE {}]

(* ChangedLines::touches                                                    *)
TouchesLines(changed, path, range) ==
  \/ path \in changed.whole
  \/ \E h \in changed.hunks : h.path = path /\ HunkTouches(h.hunk, range)

-----------------------------------------------------------------------------
(* SourceLanguage::accepts, "none" for a suffix that is not read.           *)
Accepts(language, grammar) ==
  CASE grammar = "none" -> FALSE
    [] language = "Auto" -> TRUE
    [] language = "TypeScript" -> IsTypeScript(grammar)
    [] OTHER -> language = grammar

(* is_excluded_name (a part of EXCLUDED_DIRECTORY_NAMES).                   *)
ExcludedNames == {"node_modules", "dist", "build", "target", ".git", ".build"}

UnderExcluded(path) == \E i \in DOMAIN Front(path) : path[i] \in ExcludedNames

(* source_paths_of: what the walk through the working tree collects. An     *)
(* entry is [path, mode, grammar]; links are not followed.                  *)
SourcePaths(tree, language) ==
  {e.path : e \in {f \in tree : /\ f.mode \in {"100644", "100755"}
                                /\ Accepts(language, f.grammar)
                                /\ ~UnderExcluded(f.path)}}

(* index_entries_of: what is read out of the index. An unresolved conflict  *)
(* stops it, wherever it is; so does a line that cannot be read, whichever  *)
(* comes first.                                                             *)
IndexEntries(listed, language) ==
  LET bad == {i \in DOMAIN listed : ~listed[i].readable \/ listed[i].stage # 0}
      first == Min(bad)
  IN  IF bad # {}
      THEN [failure |-> IF listed[first].readable THEN "UnmergedPath" ELSE "UnreadableIndex",
            paths |-> {}]
      ELSE [failure |-> "none", paths |-> SourcePaths(Range(listed), language)]

(* blobs_of: one whole object for each that was asked for.                  *)
Blobs(objects, expected) ==
  IF /\ Len(objects) = expected
     /\ \A i \in DOMAIN objects : objects[i].blob /\ objects[i].whole
  THEN [failure |-> "none", blobs |-> objects]
  ELSE [failure |-> "UnreadableIndex", blobs |-> <<>>]
=============================================================================
