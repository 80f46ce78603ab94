------------------------------- MODULE Tokens -------------------------------
(* Normalised tokens of a chunk and how alike two sequences of them are     *)
(* (src/src/syntax/token.rs, src/src/similarity.rs). A similarity is the    *)
(* pair of the two counts it is the quotient of; comparisons multiply       *)
(* crosswise, where the program rounds the quotient to a double.            *)
EXTENDS Syntax, FiniteSetsExt, SequencesExt

CONSTANTS GramLength,    \* GRAM_LENGTH
          MinTokens      \* MINIMUM_TOKEN_COUNT

ASSUME GramAssumption == GramLength \in Nat \ {0}

-----------------------------------------------------------------------------
NameKinds ==
  {"identifier", "property_identifier", "shorthand_property_identifier",
   "shorthand_property_identifier_pattern", "private_property_identifier",
   "statement_identifier", "type_identifier", "predefined_type", "field_identifier",
   "integral_type", "floating_point_type", "boolean_type", "void_type",
   "primitive_type", "simple_identifier"}

(* Literals keep the type of their value (a part of LITERAL_KINDS).         *)
LiteralType == [number |-> "Number", integer_literal |-> "Number", string |-> "Text",
                string_fragment |-> "Text", line_str_text |-> "Text", true |-> "Boolean",
                false |-> "Boolean", null |-> "Null", unit_expression |-> "Null",
                undefined |-> "Undefined", regex |-> "Regex"]

CommentKinds == {"comment", "line_comment", "block_comment", "multiline_comment",
                 "html_comment"}

IsCollapsed(kind) == kind \in NameKinds \cup DOMAIN LiteralType

(* normalization_of: names lose their spelling, literals their value.       *)
TokenOf(kind) ==
  CASE kind \in NameKinds -> "Identifier"
    [] kind \in DOMAIN LiteralType -> LiteralType[kind]
    [] OTHER -> kind

(* token_nodes_of: the nodes below n in source order that are no comment    *)
(* and not inside of a comment, a name or a literal.                        *)
TokenNodes(tree, n) ==
  LET kept(m) ==
        /\ tree[m].kind \notin CommentKinds
        /\ \A k \in (Above(tree, m) \cap Within(tree, n)) \ {m} :
             tree[k].kind \notin CommentKinds /\ ~IsCollapsed(tree[k].kind)
  IN  InOrder({m \in Within(tree, n) : kept(m)})

TokensOf(tree, n) ==
  LET nodes == TokenNodes(tree, n) IN [i \in DOMAIN nodes |-> TokenOf(tree[nodes[i]].kind)]

(* TokenSequence::is_long_enough_to_compare.                                *)
IsLongEnough(tokens) == Len(tokens) >= MinTokens

-----------------------------------------------------------------------------
(* gram_counts_of: the grams, each with the number of its occurrence, which *)
(* makes a set of a bag; a sequence shorter than a gram is one gram.        *)
GramAt(tokens, i) == SubSeq(tokens, i, i + GramLength - 1)

OccurrenceAt(tokens, i) == Cardinality({j \in 1..i : GramAt(tokens, j) = GramAt(tokens, i)})

NumberedGrams(tokens) ==
  IF Len(tokens) < GramLength THEN {<<tokens, 1>>}
  ELSE {<<GramAt(tokens, i), OccurrenceAt(tokens, i)>> : i \in 1..(Len(tokens) - GramLength + 1)}

(* Similarity::from_shared_count: nothing on either side is no difference.  *)
Similarity(shared, combined) ==
  IF combined = 0 THEN [shared |-> 1, of |-> 1] ELSE [shared |-> shared, of |-> combined]

AtLeast(s, t) == s.shared * t.of >= t.shared * s.of

(* TokenSequence::similarity_with: the grams two sequences share, counted   *)
(* as often as they occur.                                                  *)
SimilarityWith(mine, theirs) ==
  LET a == NumberedGrams(mine)
      b == NumberedGrams(theirs)
  IN  Similarity(Cardinality(a \cap b), Cardinality(a \cup b))

(* One gram fewer of every sequence of at least two.                        *)
Slip_GramCount(tokens) ==
  IF Len(tokens) <= GramLength THEN 1 ELSE Len(tokens) - GramLength

(* gram_count: how many grams there are, from the length alone.             *)
GramCount(tokens) ==
  IF Len(tokens) < GramLength THEN 1 ELSE Len(tokens) - GramLength + 1

(* similarity_ceiling_with.                                                 *)
SimilarityCeilingWith(mine, theirs) ==
  Similarity(Min({GramCount(mine), GramCount(theirs)}),
             Max({GramCount(mine), GramCount(theirs)}))

-----------------------------------------------------------------------------
(* ModuleDistance::between: the steps from one directory up to the common   *)
(* one and down to the other; a directory is the sequence of its names.     *)
ModuleDistance(a, b) ==
  LET shared == Max({n \in 0..Min({Len(a), Len(b)}) : SubSeq(a, 1, n) = SubSeq(b, 1, n)})
  IN  (Len(a) - shared) + (Len(b) - shared)
=============================================================================
