------------------------------- MODULE MCScan -------------------------------
(* Instances of Scan for TLC: four chunks of two languages for two servers, *)
(* the second of which reads both.                                          *)
EXTENDS Scan

MCGrammars == {"ts", "tsx", "rust"}
MCLanguage == [g \in MCGrammars |-> IF g = "rust" THEN "rust" ELSE "typescript"]
TwoServers == <<{"ts", "tsx"}, MCGrammars>>

FullCaps == [references |-> TRUE, markers |-> TRUE, projectInfo |-> TRUE]

(* Every capability, and each of the reasons not to ask for a membership.   *)
SomeCaps == {FullCaps, [FullCaps EXCEPT !.references = FALSE],
             [FullCaps EXCEPT !.markers = FALSE], [FullCaps EXCEPT !.projectInfo = FALSE]}

(* Two chunks of TypeScript in a .ts and a .tsx file, two of Rust in one.   *)
Mixed(named, targeted, nested, similar, ruledOut, marked) ==
  [file     |-> <<"f1", "f2", "f3", "f3">>,
   grammar  |-> [f \in {"f1", "f2", "f3"} |->
                   IF f = "f1" THEN "ts" ELSE IF f = "f2" THEN "tsx" ELSE "rust"],
   named |-> named, targeted |-> targeted, nested |-> nested,
   ruledOut |-> ruledOut, similar |-> similar, marked |-> marked]

AllFiles == {"f1", "f2", "f3"}
Both     == {<<1, 2>>, <<3, 4>>}

(* Everything asked about but chunk 1, which has no name; only the second   *)
(* chunk of a pair changed; a pair that is nested, ruled out or without a   *)
(* marker above it; nothing similar.                                        *)
MixedChunks == {Mixed({2, 3, 4}, 1..4, {}, Both, {}, AllFiles),
                Mixed({1, 2}, {2, 3}, {}, Both, {}, AllFiles \ {"f1"}),
                Mixed(1..4, 1..4, {<<3, 4>>}, Both, {}, AllFiles \ {"f2"}),
                Mixed(1..4, {1, 4}, {}, {<<3, 4>>}, {<<1, 2>>}, AllFiles),
                Mixed(1..4, 1..4, {}, {}, {<<1, 2>>}, AllFiles)}

(* TypeScript only: chunks 1 and 2, both named, similar and changed.        *)
PlainChunks == {Mixed(1..4, {1, 2}, {}, {<<1, 2>>}, {}, AllFiles)}
=============================================================================
