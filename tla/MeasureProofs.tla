---------------------------- MODULE MeasureProofs ----------------------------
(* What the program measures and tells, for every source and every diff:    *)
(* the ceiling on a similarity drops no candidate, the two sides of a pair  *)
(* can be exchanged, whatever happens to a pair, there is a word for it, and*)
(* a function counts as changed exactly if it was edited.                   *)
EXTENDS CommandProofs

-----------------------------------------------------------------------------
(* Some nodes in the order in which they begin.                             *)
Before(nodes, n) == {m \in nodes : m < n}

LEMMA BeforeGrows ==
  ASSUME NEW nodes \in SUBSET Nat, IsFiniteSet(nodes), NEW m \in nodes, NEW n \in nodes, m < n
  PROVE  Cardinality(Before(nodes, m)) < Cardinality(Before(nodes, n))
<1>1. Before(nodes, m) \in SUBSET Before(nodes, n)
  <2> SUFFICES ASSUME NEW x \in Before(nodes, m) PROVE x \in Before(nodes, n)
    OBVIOUS
  <2>1. x \in nodes /\ x < m
    BY DEF Before
  <2>2. x \in Nat /\ m \in Nat /\ n \in Nat
    BY <2>1
  <2> QED BY <2>1, <2>2 DEF Before
<1>2. IsFiniteSet(Before(nodes, n)) /\ IsFiniteSet(Before(nodes, m))
  BY FS_Subset DEF Before
<1>3. m \in Before(nodes, n) /\ m \notin Before(nodes, m)
  BY DEF Before
<1>4. Cardinality(Before(nodes, m)) <= Cardinality(Before(nodes, n))
      /\ Cardinality(Before(nodes, m)) # Cardinality(Before(nodes, n))
  BY <1>1, <1>2, <1>3, FS_Subset
<1>5. Cardinality(Before(nodes, m)) \in Nat /\ Cardinality(Before(nodes, n)) \in Nat
  BY <1>2, FS_CardinalityType
<1> QED BY <1>4, <1>5

(* Each place in the order is taken.                                        *)
LEMMA EveryPlaceIsTaken ==
  ASSUME NEW nodes \in SUBSET Nat, IsFiniteSet(nodes)
  PROVE  /\ Cardinality(nodes) \in Nat
         /\ \A i \in 1..Cardinality(nodes) :
              \E n \in nodes : Cardinality(Before(nodes, n)) = i - 1
<1> DEFINE c == Cardinality(nodes)
           rank == [n \in nodes |-> Cardinality(Before(nodes, n)) + 1]
<1>1. c \in Nat
  BY FS_CardinalityType
<1>2. ASSUME NEW n \in nodes PROVE Cardinality(Before(nodes, n)) \in 0..c - 1
  <2>1. Before(nodes, n) \in SUBSET nodes /\ n \notin Before(nodes, n)
    BY DEF Before
  <2>2. /\ Cardinality(Before(nodes, n)) <= c /\ Cardinality(Before(nodes, n)) # c
        /\ IsFiniteSet(Before(nodes, n))
    BY <2>1, FS_Subset
  <2>3. Cardinality(Before(nodes, n)) \in Nat
    BY <2>2, FS_CardinalityType
  <2> QED BY <1>1, <2>2, <2>3
<1>3. rank \in [nodes -> 1..c]
  BY <1>1, <1>2
<1>4. rank \in Injection(nodes, 1..c)
  <2>1. ASSUME NEW m \in nodes, NEW n \in nodes, rank[m] = rank[n] PROVE m = n
    <3>1. Cardinality(Before(nodes, m)) \in Nat /\ Cardinality(Before(nodes, n)) \in Nat
      BY <1>1, <1>2
    <3>2. Cardinality(Before(nodes, m)) = Cardinality(Before(nodes, n))
      BY <2>1, <3>1
    <3>3. ~(m < n) /\ ~(n < m)
      BY <3>1, <3>2, BeforeGrows
    <3>4. m \in Nat /\ n \in Nat
      OBVIOUS
    <3> QED BY <3>3, <3>4
  <2> QED BY <1>3, <2>1 DEF Injection, IsInjective
<1>5. IsFiniteSet(1..c) /\ Cardinality(1..c) = c
  BY <1>1, FS_Interval
<1>6. rank \in Surjection(nodes, 1..c)
  BY <1>4, <1>5, FS_Injection
<1>7. \A i \in 1..c : \E n \in nodes : rank[n] = i
  BY <1>6 DEF Surjection
<1>8. ASSUME NEW i \in 1..c PROVE \E n \in nodes : Cardinality(Before(nodes, n)) = i - 1
  <2>1. PICK n \in nodes : rank[n] = i
    BY <1>7
  <2>2. Cardinality(Before(nodes, n)) \in Nat /\ i \in Nat
    BY <1>1, <1>2
  <2> QED BY <2>1, <2>2
<1> QED BY <1>1, <1>8

LEMMA HasItsLength ==
  ASSUME NEW n \in Nat, NEW f, f = [i \in 1..n |-> f[i]] PROVE Len(f) = n
OBVIOUS

LEMMA InOrderIsOfThem ==
  ASSUME NEW nodes \in SUBSET Nat, IsFiniteSet(nodes)
  PROVE  /\ Cardinality(nodes) \in Nat
         /\ DOMAIN InOrder(nodes) = 1..Cardinality(nodes)
         /\ \A i \in 1..Cardinality(nodes) :
              InOrder(nodes)[i] \in nodes /\ Cardinality(Before(nodes, InOrder(nodes)[i])) = i - 1
         /\ Len(InOrder(nodes)) = Cardinality(nodes)
<1>1. ASSUME NEW i \in 1..Cardinality(nodes)
      PROVE  InOrder(nodes)[i] \in nodes /\ Cardinality(Before(nodes, InOrder(nodes)[i])) = i - 1
  <2>1. InOrder(nodes)[i] = CHOOSE n \in nodes : Cardinality(Before(nodes, n)) = i - 1
    BY DEF InOrder, Before
  <2>2. \E n \in nodes : Cardinality(Before(nodes, n)) = i - 1
    BY EveryPlaceIsTaken
  <2> QED BY <2>1, <2>2
<1>2. Cardinality(nodes) \in Nat /\ DOMAIN InOrder(nodes) = 1..Cardinality(nodes)
  BY EveryPlaceIsTaken DEF InOrder
<1>3. Len(InOrder(nodes)) = Cardinality(nodes)
  <2>1. InOrder(nodes) = [i \in 1..Cardinality(nodes) |-> InOrder(nodes)[i]]
    <3> DEFINE at(i) == CHOOSE m \in nodes : Cardinality({k \in nodes : k < m}) = i - 1
    <3>1. InOrder(nodes) = [i \in 1..Cardinality(nodes) |-> at(i)]
      BY DEF InOrder
    <3> HIDE DEF at
    <3> QED BY <3>1
  <2> QED BY <1>2, <2>1, HasItsLength
<1> QED BY <1>1, <1>2, <1>3

LEMMA PlacesAreCounted ==
  ASSUME NEW s, NEW places \in SUBSET Nat, IsFiniteSet(places)
  PROVE  /\ Cardinality(places) \in Nat
         /\ DOMAIN AtPlaces(s, places) = 1..Cardinality(places)
         /\ Len(AtPlaces(s, places)) = Cardinality(places)
         /\ \A i \in DOMAIN AtPlaces(s, places) : \E j \in places : AtPlaces(s, places)[i] = s[j]
<1>1. DOMAIN AtPlaces(s, places) = 1..Cardinality(places) /\ Cardinality(places) \in Nat
  BY InOrderIsOfThem DEF AtPlaces
<1>2. Len(AtPlaces(s, places)) = Cardinality(places)
  <2>1. AtPlaces(s, places) = [i \in DOMAIN AtPlaces(s, places) |-> AtPlaces(s, places)[i]]
    BY DEF AtPlaces
  <2> QED BY <1>1, <2>1, HasItsLength
<1>3. ASSUME NEW i \in 1..Cardinality(places)
      PROVE  \E j \in places : AtPlaces(s, places)[i] = s[j]
  <2>1. AtPlaces(s, places)[i] = s[InOrder(places)[i]]
    BY DEF AtPlaces
  <2> QED BY <2>1, InOrderIsOfThem
<1> QED BY <1>1, <1>2, <1>3

-----------------------------------------------------------------------------
(* As many numbered grams as gram_count says, from the length alone.        *)
LEMMA GramsAreNumbered ==
  ASSUME NEW tokens, Len(tokens) \in Nat
  PROVE  /\ IsFiniteSet(NumberedGrams(tokens))
         /\ Cardinality(NumberedGrams(tokens)) = GramCount(tokens)
         /\ GramCount(tokens) \in Nat \ {0}
<1>1. CASE Len(tokens) < GramLength
  <2>1. NumberedGrams(tokens) = {<<tokens, 1>>} /\ GramCount(tokens) = 1
    BY <1>1 DEF NumberedGrams, GramCount
  <2>2. IsFiniteSet({<<tokens, 1>>}) /\ Cardinality({<<tokens, 1>>}) = 1
    BY FS_Singleton
  <2> QED BY <2>1, <2>2
<1>2. CASE ~(Len(tokens) < GramLength)
  <2> DEFINE count == Len(tokens) - GramLength + 1
             alike(i, n) == {j \in 1..n : GramAt(tokens, j) = GramAt(tokens, i)}
             numbered == [i \in 1..count |-> <<GramAt(tokens, i), OccurrenceAt(tokens, i)>>]
  <2>1. count \in Nat \ {0} /\ GramCount(tokens) = count
    BY <1>2, GramAssumption DEF GramCount
  <2>2. NumberedGrams(tokens) = {numbered[i] : i \in 1..count}
    BY <1>2 DEF NumberedGrams
  <2> HIDE DEF count
  <2>3. ASSUME NEW i \in 1..count, NEW j \in 1..count, i < j, numbered[i] = numbered[j]
        PROVE  FALSE
    <3>1. GramAt(tokens, i) = GramAt(tokens, j) /\ OccurrenceAt(tokens, i) = OccurrenceAt(tokens, j)
      BY <2>3
    <3>2. i \in Nat /\ j \in Nat
      BY <2>1
    <3>3. OccurrenceAt(tokens, i) = Cardinality(alike(i, i)) /\ OccurrenceAt(tokens, j) = Cardinality(alike(i, j))
      BY <3>1 DEF OccurrenceAt
    <3>4. IsFiniteSet(alike(i, j))
      <4>1. IsFiniteSet(1..j)
        BY <3>2, FS_Interval
      <4> QED BY <4>1, FS_Subset
    <3>5. alike(i, i) \in SUBSET alike(i, j) /\ j \in alike(i, j) /\ j \notin alike(i, i)
      BY <2>3, <3>1, <3>2
    <3> QED BY <3>1, <3>3, <3>4, <3>5, FS_Subset
  <2>4. \A i, j \in 1..count : numbered[i] = numbered[j] => i = j
    <3> SUFFICES ASSUME NEW i \in 1..count, NEW j \in 1..count, numbered[i] = numbered[j], i # j
                 PROVE  FALSE
      OBVIOUS
    <3>1. i < j \/ j < i
      BY <2>1
    <3> QED BY <2>3, <3>1
  <2> DEFINE grams == NumberedGrams(tokens)
  <2>5. numbered \in Bijection(1..count, grams)
    <3> HIDE DEF numbered
    <3>1. DOMAIN numbered = 1..count
      BY DEF numbered
    <3>2. numbered \in [1..count -> grams]
      <4>1. numbered = [i \in 1..count |-> numbered[i]]
        BY DEF numbered
      <4>2. \A i \in 1..count : numbered[i] \in grams
        BY <2>2
      <4> QED BY <4>1, <4>2
    <3>3. \A g \in grams : \E i \in 1..count : numbered[i] = g
      BY <2>2
    <3> QED BY <2>4, <3>2, <3>3 DEF Bijection, Injection, Surjection, IsInjective
  <2>6. IsFiniteSet(1..count) /\ Cardinality(1..count) = count
    BY <2>1, FS_Interval
  <2>7. ExistsBijection(1..count, grams)
    BY <2>5 DEF ExistsBijection
  <2>8. IsFiniteSet(grams) /\ Cardinality(grams) = Cardinality(1..count)
    BY <2>6, <2>7, FS_Bijection
  <2> QED BY <2>1, <2>6, <2>8
<1> QED BY <1>1, <1>2

LEMMA SharedAndCombined ==
  ASSUME NEW A, NEW B, IsFiniteSet(A), IsFiniteSet(B)
  PROVE  /\ Cardinality(A \cap B) \in Nat /\ Cardinality(A \cup B) \in Nat
         /\ Cardinality(A) \in Nat /\ Cardinality(B) \in Nat
         /\ Cardinality(A \cap B) <= Cardinality(A) /\ Cardinality(A \cap B) <= Cardinality(B)
         /\ Cardinality(A) <= Cardinality(A \cup B) /\ Cardinality(B) <= Cardinality(A \cup B)
<1>1. IsFiniteSet(A \cup B)
  BY FS_Union
<1>2. /\ A \cap B \in SUBSET A /\ A \cap B \in SUBSET B
      /\ A \in SUBSET (A \cup B) /\ B \in SUBSET (A \cup B)
  OBVIOUS
<1>3. IsFiniteSet(A \cap B)
  BY <1>2, FS_Subset
<1>4. /\ Cardinality(A \cap B) <= Cardinality(A) /\ Cardinality(A \cap B) <= Cardinality(B)
  BY <1>2, FS_Subset
<1>5. Cardinality(A) <= Cardinality(A \cup B) /\ Cardinality(B) <= Cardinality(A \cup B)
  BY <1>1, <1>2, FS_Subset
<1> QED BY <1>1, <1>3, <1>4, <1>5, FS_CardinalityType

LEMMA TwoInOrder ==
  ASSUME NEW m \in Nat, NEW n \in Nat
  PROVE  /\ Min({m, n}) \in {m, n} /\ Min({m, n}) <= m /\ Min({m, n}) <= n
         /\ Max({m, n}) \in {m, n} /\ m <= Max({m, n}) /\ n <= Max({m, n})
<1>1. {m, n} \in SUBSET Nat /\ {m, n} # {}
  OBVIOUS
<1>2. Min({m, n}) \in {m, n} /\ \A x \in {m, n} : Min({m, n}) <= x
  BY <1>1, LeastIsThere
<1>3. m + n \in Nat /\ \A x \in {m, n} : x <= m + n
  OBVIOUS
<1>4. Max({m, n}) \in {m, n} /\ \A x \in {m, n} : x <= Max({m, n})
  BY <1>1, <1>3, GreatestIsThere
<1> QED BY <1>2, <1>4

LEMMA ProductsAreNumbers ==
  ASSUME NEW a \in Nat, NEW b \in Nat
  PROVE  a * b \in Nat
OBVIOUS

LEMMA ProductsGrow ==
  ASSUME NEW a \in Nat, NEW b \in Nat, NEW c \in Nat, a <= b
  PROVE  a * c <= b * c /\ c * a <= c * b
<1>1. PICK d \in Nat : b = a + d
  <2>1. b - a \in Nat /\ b = a + (b - a)
    OBVIOUS
  <2> QED BY <2>1
<1>2. (a + d) * c = a * c + d * c /\ c * (a + d) = c * a + c * d
  OBVIOUS
<1>3. a * c \in Nat /\ d * c \in Nat /\ c * a \in Nat /\ c * d \in Nat
  BY <1>1, ProductsAreNumbers
<1> QED BY <1>1, <1>2, <1>3

(* What is similar by its grams is so by their number.                      *)
LEMMA CeilingIsAbove ==
  ASSUME NEW mine, NEW theirs, Len(mine) \in Nat, Len(theirs) \in Nat,
         NEW t, IsQuotient(t), AtLeast(SimilarityWith(mine, theirs), t)
  PROVE  AtLeast(SimilarityCeilingWith(mine, theirs), t)
<1> DEFINE A == NumberedGrams(mine)
           B == NumberedGrams(theirs)
           m == GramCount(mine)
           n == GramCount(theirs)
           shared == Cardinality(A \cap B)
           combined == Cardinality(A \cup B)
<1>1. /\ IsFiniteSet(A) /\ Cardinality(A) = m /\ m \in Nat \ {0}
      /\ IsFiniteSet(B) /\ Cardinality(B) = n /\ n \in Nat \ {0}
  BY GramsAreNumbered
<1>2. /\ shared \in Nat /\ combined \in Nat /\ shared <= m /\ shared <= n
      /\ m <= combined /\ n <= combined
  <2> HIDE DEF A, B, m, n
  <2> QED BY <1>1, SharedAndCombined
<1>3. SimilarityWith(mine, theirs) = Similarity(shared, combined)
  BY DEF SimilarityWith
<1>4. SimilarityCeilingWith(mine, theirs) = Similarity(Min({m, n}), Max({m, n}))
  BY DEF SimilarityCeilingWith
<1> HIDE DEF A, B, m, n, shared, combined
<1>5. /\ Min({m, n}) \in Nat /\ Max({m, n}) \in Nat \ {0} /\ combined # 0
      /\ shared <= Min({m, n}) /\ Max({m, n}) <= combined
  BY <1>1, <1>2, TwoInOrder
<1>6. /\ Similarity(shared, combined) = [shared |-> shared, of |-> combined]
      /\ Similarity(Min({m, n}), Max({m, n})) = [shared |-> Min({m, n}), of |-> Max({m, n})]
  BY <1>5 DEF Similarity
<1>7. shared * t.of >= t.shared * combined
  BY <1>3, <1>6 DEF AtLeast
<1>8. t.of \in Nat /\ t.shared \in Nat
  BY DEF IsQuotient
<1>9. /\ shared * t.of <= Min({m, n}) * t.of
      /\ t.shared * Max({m, n}) <= t.shared * combined
  BY <1>2, <1>5, <1>8, ProductsGrow
<1>10. /\ shared * t.of \in Nat /\ Min({m, n}) * t.of \in Nat
       /\ t.shared * Max({m, n}) \in Nat /\ t.shared * combined \in Nat
  <2>1. Max({m, n}) \in Nat
    BY <1>5
  <2> QED BY <1>2, <1>5, <1>8, <2>1, ProductsAreNumbers
<1>11. Min({m, n}) * t.of >= t.shared * Max({m, n})
  <2> DEFINE p == shared * t.of
             q == Min({m, n}) * t.of
             r == t.shared * Max({m, n})
             s == t.shared * combined
  <2>1. p \in Nat /\ q \in Nat /\ r \in Nat /\ s \in Nat /\ p >= s /\ p <= q /\ r <= s
    BY <1>7, <1>9, <1>10
  <2> HIDE DEF p, q, r, s
  <2>2. q >= r
    BY <2>1
  <2> QED BY <2>2 DEF q, r
<1>12. /\ SimilarityCeilingWith(mine, theirs).shared = Min({m, n})
       /\ SimilarityCeilingWith(mine, theirs).of = Max({m, n})
  <2>1. SimilarityCeilingWith(mine, theirs) = [shared |-> Min({m, n}), of |-> Max({m, n})]
    BY <1>4, <1>6, Zenon
  <2>2. \A x, y : [shared |-> x, of |-> y].shared = x /\ [shared |-> x, of |-> y].of = y
    OBVIOUS
  <2> QED BY <2>1, <2>2, Zenon
<1> QED BY <1>11, <1>12, Zenon DEF AtLeast

-----------------------------------------------------------------------------
(* The functions that are cut have a number of tokens each.                 *)
LEMMA TokensAreCounted ==
  ASSUME NEW tree, NEW n, Nodes(tree) \subseteq Nat, IsFiniteSet(Nodes(tree))
  PROVE  Len(TokensOf(tree, n)) \in Nat
<1> DEFINE kept(m) ==
             /\ tree[m].kind \notin CommentKinds
             /\ \A k \in (Above(tree, m) \cap Within(tree, n)) \ {m} :
                  tree[k].kind \notin CommentKinds /\ ~IsCollapsed(tree[k].kind)
           nodes == {m \in Within(tree, n) : kept(m)}
<1>1. TokenNodes(tree, n) = InOrder(nodes)
  BY DEF TokenNodes
<1> HIDE DEF kept
<1>2. nodes \in SUBSET Nodes(tree)
  BY DEF Within
<1>3. nodes \in SUBSET Nat /\ IsFiniteSet(nodes)
  BY <1>2, FS_Subset
<1> HIDE DEF nodes
<1>4. Cardinality(nodes) \in Nat /\ DOMAIN InOrder(nodes) = 1..Cardinality(nodes)
  BY <1>3, InOrderIsOfThem
<1> DEFINE tokens == TokensOf(tree, n)
<1>5. tokens = [i \in 1..Cardinality(nodes) |-> tokens[i]]
  BY <1>1, <1>4 DEF TokensOf
<1> HIDE DEF tokens
<1>6. Len(tokens) = Cardinality(nodes)
  BY <1>4, <1>5
<1> QED BY <1>4, <1>6 DEF tokens

LEMMA NewLinesAreCounted ==
  ASSUME FilesInStep, NEW i \in Nat PROVE NewLinesUpTo(i) \in Nat
<1>1. IsFiniteSet(1..i)
  BY FS_Interval
<1>2. {j \in 1..i : script[j].how \in {"keep", "add"}} \in SUBSET (1..i)
  OBVIOUS
<1> QED BY <1>1, <1>2, FS_Subset, FS_CardinalityType DEF NewLinesUpTo, Count

LEMMA EditedRangesAreRanges ==
  ASSUME FilesInStep, NEW ranges \in EditedRanges
  PROVE  \E k \in 0..2 : /\ DOMAIN ranges = 1..k
                          /\ \A i \in 1..k : ranges[i].first \in Nat /\ ranges[i].last \in Nat
                                               /\ IsWritten(ranges[i])
<1> DEFINE lines == 1..NewLinesUpTo(Len(script))
           all == {r \in [first : lines, last : lines] : r.first <= r.last}
<1>1. NewLinesUpTo(Len(script)) \in Nat
  <2>1. Len(script) \in Nat
    BY DEF FilesInStep
  <2> QED BY <2>1, NewLinesAreCounted
<1>2. \A r \in all : r.first \in Nat /\ r.last \in Nat /\ IsWritten(r)
  BY <1>1 DEF IsWritten
<1>3. ranges = <<>> \/ (\E r \in all : ranges = <<r>>) \/ ranges \in all \X all
  BY DEF EditedRanges
<1> HIDE DEF all
<1>4. CASE ranges = <<>>
  BY <1>4
<1>5. CASE \E r \in all : ranges = <<r>>
  <2>1. PICK r \in all : ranges = <<r>>
    BY <1>5
  <2>2. DOMAIN ranges = 1..1 /\ \A i \in 1..1 : ranges[i] = r
    BY <2>1
  <2> QED BY <1>2, <2>2
<1>6. CASE ranges \in all \X all
  <2>1. PICK r \in all, s \in all : ranges = <<r, s>>
    BY <1>6
  <2>2. DOMAIN ranges = 1..2 /\ \A i \in 1..2 : ranges[i] \in all
    BY <2>1
  <2> QED BY <1>2, <2>2
<1> QED BY <1>3, <1>4, <1>5, <1>6

(* What is cut of the two files, in a row.                                  *)
CutOf(ranges, rest) == [i \in DOMAIN ranges |-> EditedChunk(ranges[i])] \o rest

(* A function of the library, or one that is written in the edited file.    *)
IsCutOut(c) ==
  /\ Len(c.tokens) \in Nat
  /\ \/ c.path = Shelved
     \/ c.path = Edited /\ Edited \in paths /\ IsWritten(c)

LEMMA LibraryIsCounted ==
  /\ \E k \in Nat : LibraryChunks = [i \in 1..k |-> LibraryChunks[i]]
  /\ \A i \in DOMAIN LibraryChunks : /\ LibraryChunks[i].path = Shelved
                                      /\ Len(LibraryChunks[i].tokens) \in Nat
<1> DEFINE nodes == FileChunks(Library, TestsExcluded).chunks
<1>1. nodes \in SUBSET Nodes(Library.tree)
  BY DEF FileChunks, ChunkNodes
<1>2. nodes \in SUBSET Nat /\ IsFiniteSet(nodes)
  BY <1>1, LibraryAssumption, FS_Subset
<1> HIDE DEF nodes
<1>3. Cardinality(nodes) \in Nat /\ DOMAIN InOrder(nodes) = 1..Cardinality(nodes)
  BY <1>2, InOrderIsOfThem
<1>4. LibraryChunks = [i \in 1..Cardinality(nodes) |-> LibraryChunk(InOrder(nodes)[i])]
  BY <1>3 DEF LibraryChunks, ChunksAt, nodes
<1>5. \A n : LibraryChunk(n).path = Shelved /\ Len(LibraryChunk(n).tokens) \in Nat
  BY TokensAreCounted, LibraryAssumption DEF LibraryChunk, Chunk
<1> QED BY <1>3, <1>4, <1>5

LEMMA CutIsCounted ==
  ASSUME FilesInStep, NEW ranges \in EditedRanges, ranges = <<>> \/ Edited \in paths,
         NEW rest \in {LibraryChunks, <<>>}
  PROVE  /\ \E k \in Nat : DOMAIN CutOf(ranges, rest) = 1..k
         /\ \A i \in DOMAIN CutOf(ranges, rest) : IsCutOut(CutOf(ranges, rest)[i])
<1>1. PICK k \in 0..2 : /\ DOMAIN ranges = 1..k
                        /\ \A i \in 1..k : ranges[i].first \in Nat /\ ranges[i].last \in Nat
                                             /\ IsWritten(ranges[i])
  BY EditedRangesAreRanges
<1> DEFINE ours == [i \in DOMAIN ranges |-> EditedChunk(ranges[i])]
<1>2. /\ DOMAIN ours = 1..k /\ k \in Nat
      /\ \A i \in 1..k : IsCutOut(ours[i])
  <2> SUFFICES ASSUME NEW i \in 1..k PROVE IsCutOut(ours[i])
    BY <1>1
  <2> DEFINE r == ranges[i]
             count == r.last - r.first + 1
  <2>1. count \in Nat
    BY <1>1 DEF IsWritten
  <2>2. ours[i].tokens = [n \in 1..count |-> script[PlaceOf(r.first + n - 1)].text]
    BY <1>1 DEF EditedChunk, Chunk
  <2> HIDE DEF count
  <2>3. Len([n \in 1..count |-> script[PlaceOf(r.first + n - 1)].text]) = count
    BY <2>1
  <2>4. Len(ours[i].tokens) \in Nat
    BY <2>1, <2>2, <2>3
  <2>5. ours[i].path = Edited /\ ours[i].first = r.first /\ ours[i].last = r.last
    BY <1>1 DEF EditedChunk, Chunk
  <2>6. IsWritten(ours[i])
    BY <1>1, <2>5 DEF IsWritten
  <2>7. Edited \in paths
    <3>1. ranges # <<>>
      BY <1>1
    <3> QED BY <3>1
  <2> HIDE DEF ours
  <2> QED BY <2>4, <2>5, <2>6, <2>7 DEF IsCutOut
<1>3. PICK l \in Nat : rest = [i \in 1..l |-> rest[i]] /\ \A i \in 1..l : IsCutOut(rest[i])
  <2>1. CASE rest = LibraryChunks
    <3>1. PICK l \in Nat : LibraryChunks = [i \in 1..l |-> LibraryChunks[i]]
      BY LibraryIsCounted
    <3>2. DOMAIN LibraryChunks = 1..l
      BY <3>1
    <3>3. \A i \in DOMAIN LibraryChunks : IsCutOut(LibraryChunks[i])
      <4>1. \A i \in DOMAIN LibraryChunks : /\ LibraryChunks[i].path = Shelved
                                            /\ Len(LibraryChunks[i].tokens) \in Nat
        BY LibraryIsCounted
      <4>2. \A c : c.path = Shelved /\ Len(c.tokens) \in Nat => IsCutOut(c)
        BY Zenon DEF IsCutOut
      <4> QED BY <4>1, <4>2, Zenon
    <3> QED BY <2>1, <3>1, <3>2, <3>3
  <2>2. CASE rest = <<>>
    <3>1. rest = [i \in 1..0 |-> rest[i]] /\ 0 \in Nat
      BY <2>2
    <3>2. 1..0 = {}
      OBVIOUS
    <3> QED BY <3>1, <3>2
  <2> QED BY <2>1, <2>2
<1>4. ours = [i \in 1..k |-> ours[i]]
  BY <1>2
<1> HIDE DEF ours
<1> DEFINE cut == ours \o rest
<1>5. /\ DOMAIN cut = 1..(k + l)
      /\ \A i \in 1..k : cut[i] = ours[i]
      /\ \A i \in (k + 1)..(k + l) : cut[i] = rest[i - k]
  <2>1. Len(ours) = k /\ Len(rest) = l
    BY <1>2, <1>3, <1>4
  <2>2. cut = [i \in 1..(k + l) |-> IF i <= k THEN ours[i] ELSE rest[i - k]]
    BY <1>2, <1>3, <1>4, <2>1
  <2> HIDE DEF cut
  <2>3. DOMAIN cut = 1..(k + l) /\ \A i \in 1..(k + l) : cut[i] = IF i <= k THEN ours[i] ELSE rest[i - k]
    BY <2>2
  <2>4. \A i \in 1..k : i \in 1..(k + l) /\ i <= k
    BY <1>2, <1>3
  <2>5. \A i \in (k + 1)..(k + l) : i \in 1..(k + l) /\ ~(i <= k)
    BY <1>2, <1>3
  <2> QED BY <2>3, <2>4, <2>5
<1> HIDE DEF cut
<1>6. ASSUME NEW i \in 1..(k + l) PROVE IsCutOut(cut[i])
  <2>1. CASE i \in 1..k
    BY <1>2, <1>5, <2>1
  <2>2. CASE i \in (k + 1)..(k + l)
    <3>1. i - k \in 1..l
      BY <1>2, <1>3, <2>2
    <3> QED BY <1>3, <1>5, <2>2, <3>1
  <2> QED BY <1>2, <1>3, <2>1, <2>2
<1>7. CutOf(ranges, rest) = cut /\ k + l \in Nat
  BY <1>2, <1>3 DEF CutOf, cut, ours
<1> QED BY <1>5, <1>6, <1>7

LEMMA CutChunksAreCounted ==
  ASSUME FilesInStep, CutChunks
  PROVE  \A i \in DOMAIN chunks' : IsCutOut(chunks'[i])
<1>1. PICK ranges \in EditedRanges, rest \in {LibraryChunks, <<>>} :
        /\ ranges = <<>> \/ Edited \in paths
        /\ chunks' = AtPlaces(CutOf(ranges, rest),
                              {i \in DOMAIN CutOf(ranges, rest) :
                                 IsLongEnough(CutOf(ranges, rest)[i].tokens)})
  <2>1. <<>> \in EditedRanges
    BY DEF EditedRanges
  <2>2. PICK ranges \in IF Edited \in paths THEN EditedRanges ELSE {<<>>} :
          LET cut == [i \in DOMAIN ranges |-> EditedChunk(ranges[i])]
                     \o IF Shelved \in paths THEN LibraryChunks ELSE <<>>
          IN  chunks' = AtPlaces(cut, {i \in DOMAIN cut : IsLongEnough(cut[i].tokens)})
    BY DEF CutChunks
  <2>3. ranges \in EditedRanges /\ (ranges = <<>> \/ Edited \in paths)
    BY <2>1, <2>2
  <2>4. (IF Shelved \in paths THEN LibraryChunks ELSE <<>>) \in {LibraryChunks, <<>>}
    OBVIOUS
  <2> QED BY <2>2, <2>3, <2>4 DEF CutOf
<1> DEFINE cut == CutOf(ranges, rest)
           places == {i \in DOMAIN cut : IsLongEnough(cut[i].tokens)}
<1>2. PICK k \in Nat : DOMAIN cut = 1..k
  BY <1>1, CutIsCounted
<1>3. \A i \in DOMAIN cut : IsCutOut(cut[i])
  BY <1>1, CutIsCounted
<1> HIDE DEF cut
<1>4. places \in SUBSET Nat /\ IsFiniteSet(places)
  <2>1. IsFiniteSet(1..k)
    BY FS_Interval
  <2>2. places \in SUBSET (1..k)
    BY <1>2
  <2> QED BY <2>1, <2>2, FS_Subset
<1> HIDE DEF places
<1>5. \A i \in DOMAIN AtPlaces(cut, places) : \E j \in places : AtPlaces(cut, places)[i] = cut[j]
  BY <1>4, PlacesAreCounted
<1>6. chunks' = AtPlaces(cut, places)
  BY <1>1 DEF cut, places
<1>7. \A j \in places : IsCutOut(cut[j])
  BY <1>3 DEF places
<1> QED BY <1>5, <1>6, <1>7

LEMMA SimilarPairsStay == ASSUME UNCHANGED <<settings, changed, chunks>> PROVE SimilarPairs' = SimilarPairs
<1>1. Pairs' = Pairs
  BY DEF Pairs
<1>2. \A c, d : (Targeted(c)' <=> Targeted(c)) /\ (IsRuledOut(c, d)' <=> IsRuledOut(c, d))
  BY DEF Targeted, IsRuledOut, IsSimilar
<1>3. ASSUME NEW p
      PROVE  /\ IsCompared(p)' <=> IsCompared(p)
             /\ IsRuledOut(chunks[p[1]], chunks[p[2]])' <=> IsRuledOut(chunks[p[1]], chunks[p[2]])
             /\ IsCandidate(p)' <=> IsCandidate(p)
  <2>1. IsCompared(p)' <=> IsCompared(p)
    BY <1>2 DEF IsCompared, Targeted, IsNested
  <2>2. IsRuledOut(chunks[p[1]], chunks[p[2]])' <=> IsRuledOut(chunks[p[1]], chunks[p[2]])
    BY DEF IsRuledOut, IsSimilar
  <2>3. IsCandidate(p)' <=> IsCandidate(p)
    BY DEF IsCandidate, IsSimilar
  <2> QED BY <2>1, <2>2, <2>3
<1> QED BY <1>1, <1>3 DEF SimilarPairs

LEMMA CheckKeepsFiles == ASSUME FilesInStep, CheckNext PROVE FilesInStep'
<1>1. UNCHANGED settings
  BY DEF CheckNext, configVars
<1>2. CASE Edit
  <2>1. PICK how \in {"keep", "delete", "add"}, text \in Texts :
          script' = Append(script, [how |-> how, text |-> text])
    BY <1>2 DEF Edit
  <2>2. script' \in Seq([how : {"keep", "delete", "add"}, text : Texts])
    BY <2>1 DEF FilesInStep
  <2>3. step' = "edit"
    BY <1>2 DEF Edit
  <2> QED BY <2>2, <2>3 DEF FilesInStep
<1>3. CASE StopUnconfigured \/ AskGit \/ ListFiles \/ RefuseAmbiguous
  <2>1. UNCHANGED script /\ step' \notin {"cut", "compared"}
    BY <1>3 DEF StopUnconfigured, AskGit, ListFiles, RefuseAmbiguous
  <2> QED BY <2>1 DEF FilesInStep
<1>4. CASE CutChunks
  <2>1. UNCHANGED script /\ step' = "cut"
    BY <1>4 DEF CutChunks
  <2>2. \A i \in DOMAIN chunks' : Len(chunks'[i].tokens) \in Nat
    BY <1>4, CutChunksAreCounted DEF IsCutOut
  <2> QED BY <2>1, <2>2 DEF FilesInStep
<1>5. CASE ComparePairs
  <2>1. UNCHANGED <<script, changed, chunks>> /\ step = "cut" /\ step' = "compared"
    BY <1>5 DEF ComparePairs
  <2>2. candidates' = SimilarPairs'
    BY <1>1, <1>5, <2>1, SimilarPairsStay DEF ComparePairs
  <2>3. \A i \in DOMAIN chunks : Len(chunks[i].tokens) \in Nat
    BY <2>1 DEF FilesInStep
  <2> QED BY <2>1, <2>2, <2>3 DEF FilesInStep
<1> QED BY <1>2, <1>3, <1>4, <1>5 DEF CheckNext

LEMMA ConfiguredIsQuotient ==
  ASSUME IsQuotient(settings.thresholds.structure), DomainsInStep, Configure,
         \E s \in Scenarios : toml = s.toml /\ flag = s.flag
  PROVE  IsQuotient(settings'.thresholds.structure)
<1> DEFINE text == ConfigurationOfText(toml.lines)
           applied == AppliedTo(Defaults, text.thresholds)
<1>1. PICK s \in Scenarios : toml = s.toml /\ flag = s.flag
  OBVIOUS
<1>2. /\ \A key \in DOMAIN text.thresholds : IsQuotient(text.thresholds[key])
      /\ \A t \in flag : IsQuotient(t)
  BY <1>1, ThresholdsAssumption
<1>3. /\ "structure" \in DOMAIN applied /\ IsQuotient(applied["structure"])
  <2> DEFINE given == text.thresholds
             written(key) == {k \in DOMAIN given : ThresholdOf[k] = key}
  <2> HIDE DEF text
  <2>1. "structure" \in DOMAIN Defaults /\ IsQuotient(Defaults["structure"])
    BY ThresholdsAssumption
  <2>2. applied = [key \in DOMAIN Defaults |->
                     IF written(key) = {} THEN Defaults[key]
                     ELSE given[CHOOSE k \in written(key) : TRUE]]
    BY DEF AppliedTo
  <2>3. applied["structure"] = IF written("structure") = {} THEN Defaults["structure"]
                               ELSE given[CHOOSE k \in written("structure") : TRUE]
    BY <2>1, <2>2
  <2>4. written("structure") # {} =>
          (CHOOSE k \in written("structure") : TRUE) \in DOMAIN given
    OBVIOUS
  <2> QED BY <1>2, <2>1, <2>2, <2>3, <2>4
<1>4. ASSUME NEW fromFile, "structure" \in DOMAIN fromFile, IsQuotient(fromFile["structure"])
      PROVE  IsQuotient(ConfiguredThresholds(fromFile).structure)
  <2>1. ConfiguredThresholds(fromFile)["structure"] =
          IF flag = {} THEN fromFile["structure"] ELSE CHOOSE t \in flag : TRUE
    BY <1>4 DEF ConfiguredThresholds
  <2>2. flag # {} => (CHOOSE t \in flag : TRUE) \in flag
    OBVIOUS
  <2> QED BY <1>2, <1>4, <2>1, <2>2
<1> HIDE DEF text, applied
<1>5. \/ \E read : settings' = [settings EXCEPT !.read = read]
      \/ \E fromFile \in {Defaults, applied} :
           settings'.thresholds = ConfiguredThresholds(fromFile)
  BY DEF Configure, text, applied
<1>6. CASE \E read : settings' = [settings EXCEPT !.read = read]
  <2>1. settings'.thresholds = settings.thresholds
    BY <1>6 DEF DomainsInStep
  <2> QED BY <2>1
<1>7. CASE \E fromFile \in {Defaults, applied} :
           settings'.thresholds = ConfiguredThresholds(fromFile)
  BY <1>3, <1>4, <1>7, ThresholdsAssumption
<1> QED BY <1>5, <1>6, <1>7

(* At every stage: the threshold for similar is a quotient, the functions   *)
(* that are cut have a number of tokens, and what is found is what is left  *)
(* of the pairs after the two comparisons.                                  *)
THEOREM CheckInStepHolds == Spec => []CheckInStep
<1>1. Init => CheckInStep
  <2> SUFFICES ASSUME Init PROVE CheckInStep
    OBVIOUS
  <2>1. script \in Seq([how : {"keep", "delete", "add"}, text : Texts]) /\ step = "edit"
    BY DEF Init, CheckInit
  <2>2. \E s \in Scenarios : toml = s.toml /\ flag = s.flag
    BY DEF Init
  <2>3. IsQuotient(settings.thresholds.structure)
    BY ThresholdsAssumption DEF Init, Unread
  <2> QED BY <2>1, <2>2, <2>3 DEF CheckInStep, FilesInStep
<1>2. CheckInStep /\ DomainsInStep /\ [Next]_vars => CheckInStep'
  <2> SUFFICES ASSUME CheckInStep, DomainsInStep, [Next]_vars PROVE CheckInStep'
    OBVIOUS
  <2>1. ASSUME UNCHANGED checkVars, UNCHANGED settings PROVE FilesInStep'
    <3>1. UNCHANGED <<script, step, chunks, changed, candidates>> /\ FilesInStep
      BY <2>1 DEF checkVars, CheckInStep
    <3>2. SimilarPairs' = SimilarPairs
      BY <2>1, <3>1, SimilarPairsStay
    <3> QED BY <3>1, <3>2 DEF FilesInStep
  <2>2. CASE UNCHANGED <<configVars, checkVars>>
    <3>1. UNCHANGED <<toml, flag, settings, step>> /\ UNCHANGED checkVars
      BY <2>2 DEF configVars, checkVars
    <3> QED BY <2>1, <3>1 DEF CheckInStep
  <2>3. CASE Configure /\ UNCHANGED checkVars
    <3>1. settings.read = "unread" /\ UNCHANGED <<toml, flag>>
      BY <2>3 DEF Configure
    <3>2. IsQuotient(settings'.thresholds.structure)
      BY <2>3, ConfiguredIsQuotient DEF CheckInStep
    <3>3. step = "edit" \/ step = "refused"
      BY <3>1 DEF CheckInStep
    <3>4. settings'.read # "ready" => step' \in {"edit", "refused"}
      BY <2>3, <3>3 DEF checkVars
    <3> QED BY <2>3, <3>1, <3>2, <3>3, <3>4 DEF CheckInStep, FilesInStep, checkVars
  <2>4. CASE CheckNext
    <3>1. UNCHANGED configVars
      BY <2>4 DEF CheckNext
    <3>2. settings.read = "ready" \/ step' \in {"edit", "refused"}
      BY <2>4 DEF CheckNext, CheckInStep, Edit, StopUnconfigured
    <3> QED BY <2>4, <3>1, <3>2, CheckKeepsFiles DEF CheckInStep, configVars
  <2> QED BY <2>2, <2>3, <2>4 DEF Next, vars, CompareNext
<1> QED BY <1>1, <1>2, DomainsInStepHolds, PTL DEF Spec

(* Whatever the edits, the files and the threshold: looking at the ceiling  *)
(* before the grams loses no pair that is similar (is_ruled_out_by_ceiling, *)
(* similarity_ceiling_with).                                                *)
THEOREM PruningIsSafe == Spec => []PruningLosesNoCandidate
<1>1. CheckInStep => PruningLosesNoCandidate
  <2> SUFFICES ASSUME CheckInStep, step = "compared", NEW p \in Pairs, IsCompared(p), IsCandidate(p)
               PROVE  p \in candidates
    BY DEF PruningLosesNoCandidate
  <2>1. p[1] \in DOMAIN chunks /\ p[2] \in DOMAIN chunks
    BY DEF Pairs
  <2>2. Len(chunks[p[1]].tokens) \in Nat /\ Len(chunks[p[2]].tokens) \in Nat
    BY <2>1 DEF CheckInStep, FilesInStep
  <2>3. AtLeast(SimilarityCeilingWith(chunks[p[1]].tokens, chunks[p[2]].tokens),
                settings.thresholds.structure)
    BY <2>2, CeilingIsAbove DEF CheckInStep, IsCandidate, IsSimilar
  <2> QED BY <2>3 DEF CheckInStep, FilesInStep, SimilarPairs, IsRuledOut, IsSimilar
<1> QED BY <1>1, CheckInStepHolds, PTL

-----------------------------------------------------------------------------
(* Counting up, and what is defined by counting up.                         *)
LEMMA CountingUp ==
  ASSUME NEW n \in Nat, NEW S, 0 \in S, \A i \in 0..n - 1 : i \in S => i + 1 \in S
  PROVE  \A i \in 0..n : i \in S
<1> DEFINE others == {i \in 0..n : i \notin S}
<1> SUFFICES ASSUME others # {} PROVE FALSE
  OBVIOUS
<1>1. Min(others) \in others /\ \A x \in others : Min(others) <= x
  BY LeastIsThere
<1> DEFINE m == Min(others)
<1>2. m \in 0..n /\ m \notin S /\ m # 0
  BY <1>1
<1>3. m - 1 \in 0..n - 1
  BY <1>2
<1>4. m - 1 \notin others
  BY <1>1, <1>3
<1>5. m - 1 \in S
  BY <1>3, <1>4
<1>6. m - 1 + 1 = m
  BY <1>2
<1> HIDE DEF m
<1> QED BY <1>2, <1>3, <1>5, <1>6

CanStep(start, turn, n, S) == n \in Nat /\ start \in S /\ turn \in [S \X (1..n) -> S]

StepsUp(f, start, turn, n, S) ==
  f \in [0..n -> S] /\ f[0] = start /\ \A k \in 1..n : f[k] = turn[<<f[k - 1], k>>]

LEMMA RecursionIsThere ==
  ASSUME NEW n, NEW S, NEW start, NEW turn, CanStep(start, turn, n, S)
  PROVE  \E f : StepsUp(f, start, turn, n, S)
<1> DEFINE Goes(f, m) == f[0] = start /\ \A k \in 1..m : f[k] = turn[<<f[k - 1], k>>]
           T == {m \in 0..n : \E f \in [0..m -> S] : Goes(f, m)}
<1>0. n \in Nat /\ start \in S /\ turn \in [S \X (1..n) -> S]
  BY DEF CanStep
<1>1. 0 \in T
  <2> DEFINE f == [k \in 0..0 |-> start]
  <2>1. f \in [0..0 -> S] /\ f[0] = start /\ 1..0 = {} /\ 0 \in 0..n
    BY <1>0
  <2> HIDE DEF f
  <2>2. Goes(f, 0)
    BY <2>1
  <2> QED BY <2>1, <2>2
<1>2. ASSUME NEW m \in 0..n - 1, m \in T PROVE m + 1 \in T
  <2>1. PICK f \in [0..m -> S] : Goes(f, m)
    BY <1>2
  <2>2. m \in Nat /\ m \in 0..m /\ m + 1 \in 1..n /\ m + 1 \in 0..n
    BY <1>0
  <2> DEFINE g == [k \in 0..m + 1 |-> IF k = m + 1 THEN turn[<<f[m], m + 1>>] ELSE f[k]]
  <2>3. turn[<<f[m], m + 1>>] \in S
    BY <1>0, <2>1, <2>2
  <2>4. g \in [0..m + 1 -> S]
    <3> SUFFICES ASSUME NEW k \in 0..m + 1 PROVE g[k] \in S
      OBVIOUS
    <3>1. k = m + 1 \/ k \in 0..m
      BY <2>2
    <3> QED BY <2>1, <2>3, <3>1
  <2>5. g[0] = start
    BY <2>1, <2>2
  <2>6. ASSUME NEW k \in 1..m + 1 PROVE g[k] = turn[<<g[k - 1], k>>]
    <3>1. CASE k = m + 1
      <4>1. k - 1 = m /\ k - 1 \in 0..m + 1 /\ k - 1 # m + 1 /\ k \in 0..m + 1
        BY <2>2, <3>1
      <4> QED BY <3>1, <4>1
    <3>2. CASE k # m + 1
      <4>1. k \in 1..m /\ k \in 0..m + 1 /\ k - 1 \in 0..m + 1 /\ k - 1 # m + 1
        BY <2>2, <3>2
      <4>2. f[k] = turn[<<f[k - 1], k>>]
        BY <2>1, <4>1
      <4> QED BY <3>2, <4>1, <4>2
    <3> QED BY <3>1, <3>2
  <2> HIDE DEF g
  <2>7. Goes(g, m + 1)
    BY <2>5, <2>6
  <2> QED BY <2>2, <2>4, <2>7
<1> HIDE DEF T
<1>3. \A m \in 0..n : m \in T
  BY <1>0, <1>1, <1>2, CountingUp
<1>4. n \in T
  BY <1>0, <1>3
<1> QED BY <1>4 DEF T, StepsUp

-----------------------------------------------------------------------------
(* The leaves of two functions, compared one way and the other.             *)
Mirrored(p) == [a |-> p.b, b |-> p.a]

MirroredAll(leaves) == [k \in 1..Len(leaves) |-> Mirrored(leaves[k])]

MirroredSeen(seen) ==
  [renames |-> {Mirrored(r) : r \in seen.renames}, leaves |-> MirroredAll(seen.leaves)]

TextPairs(mine, theirs) ==
  [a : {mine[i].text : i \in DOMAIN mine}, b : {theirs[i].text : i \in DOMAIN theirs}]

SeenOf(P) == [renames : SUBSET P, leaves : Seq(P)]

LEMMA SeenIsOfPairs ==
  ASSUME NEW mine, NEW theirs, NEW i \in DOMAIN mine, i \in DOMAIN theirs,
         NEW seen \in SeenOf(TextPairs(mine, theirs))
  PROVE  Seen(seen, mine, theirs, i) \in SeenOf(TextPairs(mine, theirs))
<1> DEFINE P == TextPairs(mine, theirs)
           met == [a |-> mine[i].text, b |-> theirs[i].text]
<1>1. met \in P
  BY DEF TextPairs
<1> HIDE DEF P
<1>2. seen.renames \in SUBSET P /\ seen.leaves \in Seq(P) /\ seen \in SeenOf(P)
  BY DEF SeenOf, P
<1> HIDE DEF met
<1>3. Append(seen.leaves, met) \in Seq(P) /\ seen.renames \cup {met} \in SUBSET P
  BY <1>1, <1>2
<1>4. \/ Seen(seen, mine, theirs, i) = [seen EXCEPT !.renames = seen.renames \cup {met}]
      \/ Seen(seen, mine, theirs, i) = seen
      \/ Seen(seen, mine, theirs, i) = [seen EXCEPT !.leaves = Append(seen.leaves, met)]
  BY DEF Seen, met
<1>5. Seen(seen, mine, theirs, i) \in SeenOf(P)
  BY <1>2, <1>3, <1>4 DEF SeenOf
<1> QED BY <1>5 DEF P

LEMMA MirrorsOfPairs ==
  ASSUME NEW A, NEW B, NEW p \in [a : A, b : B], NEW q \in [a : A, b : B]
  PROVE  /\ Mirrored(p) = Mirrored(q) <=> p = q
         /\ Mirrored(p).a = p.b /\ Mirrored(p).b = p.a
BY DEF Mirrored

LEMMA SeenIsMirrored ==
  ASSUME NEW mine, NEW theirs, NEW i \in DOMAIN mine, i \in DOMAIN theirs,
         NEW seen \in SeenOf(TextPairs(mine, theirs))
  PROVE  Seen(MirroredSeen(seen), theirs, mine, i) = MirroredSeen(Seen(seen, mine, theirs, i))
<1> DEFINE P == TextPairs(mine, theirs)
           met == [a |-> mine[i].text, b |-> theirs[i].text]
           back == [a |-> theirs[i].text, b |-> mine[i].text]
           mirror == MirroredSeen(seen)
           L == seen.leaves
           both(how) == mine[i].how = how /\ theirs[i].how = how
           renamed == both("Bound") /\ Consistent(seen.renames, met.a, met.b)
           same == both("Fixed") /\ met.a = met.b
           known == \E k \in DOMAIN L : L[k] = met
<1>1. met \in P /\ back = Mirrored(met)
  BY DEF TextPairs, Mirrored
<1>2. seen.renames \in SUBSET P /\ L \in Seq(P) /\ seen = [renames |-> seen.renames, leaves |-> L]
  BY DEF SeenOf
<1>3. mirror = [renames |-> {Mirrored(r) : r \in seen.renames}, leaves |-> MirroredAll(L)]
  BY DEF MirroredSeen
<1>4. Consistent(mirror.renames, back.a, back.b) <=> Consistent(seen.renames, met.a, met.b)
  <2>1. mirror.renames = {Mirrored(r) : r \in seen.renames}
    BY <1>3
  <2>2. \A r \in seen.renames : Mirrored(r).a = r.b /\ Mirrored(r).b = r.a
    BY DEF Mirrored
  <2>3. back.a = met.b /\ back.b = met.a
    OBVIOUS
  <2> HIDE DEF mirror, met, back
  <2> QED BY <2>1, <2>2, <2>3 DEF Consistent
<1>5. /\ DOMAIN MirroredAll(L) = DOMAIN L
      /\ \A k \in DOMAIN L : MirroredAll(L)[k] = back <=> L[k] = met
  <2>1. DOMAIN L = 1..Len(L) /\ \A k \in DOMAIN L : L[k] \in P
    BY <1>2
  <2>2. \A k \in DOMAIN L : MirroredAll(L)[k] = Mirrored(L[k])
    BY <2>1 DEF MirroredAll
  <2>3. \A p \in P, q \in P : Mirrored(p) = Mirrored(q) <=> p = q
    <3> DEFINE A == {mine[j].text : j \in DOMAIN mine}
               B == {theirs[j].text : j \in DOMAIN theirs}
    <3>1. P = [a : A, b : B]
      BY DEF TextPairs
    <3> HIDE DEF A, B
    <3>2. \A p \in [a : A, b : B], q \in [a : A, b : B] : Mirrored(p) = Mirrored(q) <=> p = q
      BY MirrorsOfPairs
    <3> HIDE DEF P
    <3> QED BY <3>1, <3>2
  <2>4. DOMAIN MirroredAll(L) = DOMAIN L
    BY <2>1 DEF MirroredAll
  <2> HIDE DEF P, met, back, L
  <2> QED BY <1>1, <2>1, <2>2, <2>3, <2>4
<1>6. CASE renamed
  <2>1. Seen(seen, mine, theirs, i) = [seen EXCEPT !.renames = seen.renames \cup {met}]
    BY <1>6 DEF Seen
  <2>2. Seen(mirror, theirs, mine, i) = [mirror EXCEPT !.renames = mirror.renames \cup {back}]
    <3>1. theirs[i].how = "Bound" /\ mine[i].how = "Bound" /\ Consistent(mirror.renames, back.a, back.b)
      BY <1>4, <1>6
    <3> HIDE DEF mirror
    <3> QED BY <3>1 DEF Seen
  <2>3. {Mirrored(r) : r \in seen.renames \cup {met}} = {Mirrored(r) : r \in seen.renames} \cup {back}
    BY <1>1
  <2> HIDE DEF met, back, L, mirror
  <2>4. [seen EXCEPT !.renames = seen.renames \cup {met}]
          = [renames |-> seen.renames \cup {met}, leaves |-> L]
    <3> DEFINE R == seen.renames
               x == seen.renames \cup {met}
    <3>1. seen = [renames |-> R, leaves |-> L]
      BY <1>2
    <3> HIDE DEF R, x
    <3>2. [seen EXCEPT !.renames = x] = [renames |-> x, leaves |-> L]
      BY <3>1
    <3> QED BY <3>2 DEF R, x
  <2>5. [mirror EXCEPT !.renames = mirror.renames \cup {back}]
          = [renames |-> {Mirrored(r) : r \in seen.renames} \cup {back}, leaves |-> MirroredAll(L)]
    <3> DEFINE R == {Mirrored(r) : r \in seen.renames}
               M == MirroredAll(L)
               x == R \cup {back}
    <3>1. mirror = [renames |-> R, leaves |-> M]
      BY <1>3
    <3>2. mirror.renames = R
      BY <3>1
    <3> HIDE DEF R, M, x
    <3>3. [mirror EXCEPT !.renames = x] = [renames |-> x, leaves |-> M]
      BY <3>1
    <3> QED BY <3>2, <3>3 DEF R, M, x
  <2>6. MirroredSeen([renames |-> seen.renames \cup {met}, leaves |-> L])
          = [renames |-> {Mirrored(r) : r \in seen.renames \cup {met}}, leaves |-> MirroredAll(L)]
    BY DEF MirroredSeen
  <2> QED BY <2>1, <2>2, <2>3, <2>4, <2>5, <2>6 DEF mirror
<1>7. CASE ~renamed /\ (same \/ known)
  <2>1. Seen(seen, mine, theirs, i) = seen
    BY <1>7 DEF Seen
  <2>2. Seen(mirror, theirs, mine, i) = mirror
    <3>1. /\ ~(theirs[i].how = "Bound" /\ mine[i].how = "Bound" /\ Consistent(mirror.renames, back.a, back.b))
          /\ \/ theirs[i].how = "Fixed" /\ mine[i].how = "Fixed" /\ back.a = back.b
             \/ \E k \in DOMAIN MirroredAll(L) : MirroredAll(L)[k] = back
      BY <1>4, <1>5, <1>7
    <3>2. mirror.leaves = MirroredAll(L)
      BY <1>3
    <3> HIDE DEF mirror, L
    <3> QED BY <3>1, <3>2 DEF Seen
  <2> QED BY <2>1, <2>2
<1>8. CASE ~renamed /\ ~(same \/ known)
  <2>1. Seen(seen, mine, theirs, i) = [seen EXCEPT !.leaves = Append(L, met)]
    BY <1>8 DEF Seen
  <2>2. Seen(mirror, theirs, mine, i) = [mirror EXCEPT !.leaves = Append(mirror.leaves, back)]
    <3>1. /\ ~(theirs[i].how = "Bound" /\ mine[i].how = "Bound" /\ Consistent(mirror.renames, back.a, back.b))
          /\ ~(theirs[i].how = "Fixed" /\ mine[i].how = "Fixed" /\ back.a = back.b)
          /\ ~(\E k \in DOMAIN MirroredAll(L) : MirroredAll(L)[k] = back)
      BY <1>4, <1>5, <1>8
    <3>2. mirror.leaves = MirroredAll(L)
      BY <1>3
    <3> HIDE DEF mirror, L
    <3> QED BY <3>1, <3>2 DEF Seen
  <2>3. MirroredAll(Append(L, met)) = Append(MirroredAll(L), back)
    <3> HIDE DEF met, back, L, P
    <3> DEFINE n == Len(L)
    <3>1. n \in Nat /\ Append(L, met) \in Seq(P) /\ Len(Append(L, met)) = n + 1
      BY <1>1, <1>2
    <3>2. /\ Append(L, met)[n + 1] = met
          /\ \A k \in 1..n : Append(L, met)[k] = L[k]
      BY <1>1, <1>2
    <3>3. MirroredAll(L) = [k \in 1..n |-> Mirrored(L[k])]
      BY DEF MirroredAll
    <3>4. MirroredAll(Append(L, met)) = [k \in 1..n + 1 |-> Mirrored(Append(L, met)[k])]
      BY <3>1 DEF MirroredAll
    <3>5. Append(MirroredAll(L), back) = [k \in 1..n + 1 |-> IF k = n + 1 THEN back ELSE MirroredAll(L)[k]]
      <4>1. Len(MirroredAll(L)) = n
        BY <3>1, <3>3
      <4> QED BY <3>1, <3>3, <4>1
    <3> HIDE DEF n
    <3>6. ASSUME NEW k \in 1..n + 1
          PROVE  Mirrored(Append(L, met)[k]) = IF k = n + 1 THEN back ELSE MirroredAll(L)[k]
      <4>1. CASE k = n + 1
        BY <1>1, <3>2, <4>1
      <4>2. CASE k # n + 1
        <5>1. k \in 1..n
          BY <3>1, <4>2
        <5> QED BY <3>2, <3>3, <4>2, <5>1
      <4> QED BY <4>1, <4>2
    <3> QED BY <3>4, <3>5, <3>6
  <2> HIDE DEF met, back, L, mirror
  <2>4. [seen EXCEPT !.leaves = Append(L, met)]
          = [renames |-> seen.renames, leaves |-> Append(L, met)]
    <3> DEFINE R == seen.renames
               x == Append(L, met)
    <3>1. seen = [renames |-> R, leaves |-> L]
      BY <1>2
    <3> HIDE DEF R, x
    <3>2. [seen EXCEPT !.leaves = x] = [renames |-> R, leaves |-> x]
      BY <3>1
    <3> QED BY <3>2 DEF R, x
  <2>5. [mirror EXCEPT !.leaves = Append(mirror.leaves, back)]
          = [renames |-> {Mirrored(r) : r \in seen.renames}, leaves |-> Append(MirroredAll(L), back)]
    <3> DEFINE R == {Mirrored(r) : r \in seen.renames}
               M == MirroredAll(L)
               x == Append(M, back)
    <3>1. mirror = [renames |-> R, leaves |-> M]
      BY <1>3
    <3>2. mirror.leaves = M
      BY <3>1
    <3> HIDE DEF R, M, x
    <3>3. [mirror EXCEPT !.leaves = x] = [renames |-> R, leaves |-> x]
      BY <3>1
    <3> QED BY <3>2, <3>3 DEF R, M, x
  <2>6. MirroredSeen([renames |-> seen.renames, leaves |-> Append(L, met)])
          = [renames |-> {Mirrored(r) : r \in seen.renames}, leaves |-> MirroredAll(Append(L, met))]
    BY DEF MirroredSeen
  <2> QED BY <2>1, <2>2, <2>3, <2>4, <2>5, <2>6 DEF mirror
<1> QED BY <1>6, <1>7, <1>8

NothingSeen == [renames |-> {}, leaves |-> <<>>]

SpelledIn(spelled, n, mine, theirs) ==
  /\ n \in Nat /\ Len(spelled) = n
  /\ \A k \in 1..n : spelled[k] \in DOMAIN mine /\ spelled[k] \in DOMAIN theirs

SeenStepwise(u, spelled, n, mine, theirs) ==
  /\ u[0] = NothingSeen
  /\ \A k \in 1..n : u[k] = Seen(u[k - 1], mine, theirs, spelled[k])
  /\ \A k \in 0..n : u[k] \in SeenOf(TextPairs(mine, theirs))

LEMMA SeenIsThere ==
  ASSUME NEW mine, NEW theirs, NEW n, NEW spelled, SpelledIn(spelled, n, mine, theirs)
  PROVE  SeenStepwise(SeenUpTo(mine, theirs, spelled), spelled, n, mine, theirs)
<1> DEFINE S == SeenOf(TextPairs(mine, theirs))
           Goes(f) == f = [k \in 0..n |-> IF k = 0 THEN NothingSeen
                                           ELSE Seen(f[k - 1], mine, theirs, spelled[k])]
           turn == [x \in S \X (1..n) |-> Seen(x[1], mine, theirs, spelled[x[2]])]
           u == SeenUpTo(mine, theirs, spelled)
<1>0. /\ n \in Nat /\ Len(spelled) = n
      /\ \A k \in 1..n : spelled[k] \in DOMAIN mine /\ spelled[k] \in DOMAIN theirs
  BY DEF SpelledIn
<1>1. NothingSeen \in S
  BY DEF NothingSeen, SeenOf
<1>2. \A seen \in S, k \in 1..n : Seen(seen, mine, theirs, spelled[k]) \in S
  BY <1>0, SeenIsOfPairs
<1>3. u = CHOOSE f : Goes(f)
  BY <1>0 DEF SeenUpTo, NothingSeen
<1> HIDE DEF S, u
<1>4. turn \in [S \X (1..n) -> S]
  BY <1>2
<1>5. \A seen \in S, k \in 1..n : turn[<<seen, k>>] = Seen(seen, mine, theirs, spelled[k])
  OBVIOUS
<1> HIDE DEF turn
<1>6. PICK f : f \in [0..n -> S] /\ f[0] = NothingSeen /\ \A k \in 1..n : f[k] = turn[<<f[k - 1], k>>]
  <2>1. CanStep(NothingSeen, turn, n, S)
    BY <1>0, <1>1, <1>4 DEF CanStep
  <2>2. \E f : StepsUp(f, NothingSeen, turn, n, S)
    BY <2>1, RecursionIsThere
  <2> QED BY <2>2 DEF StepsUp
<1>7. Goes(f)
  <2> SUFFICES ASSUME NEW k \in 0..n
               PROVE  f[k] = IF k = 0 THEN NothingSeen ELSE Seen(f[k - 1], mine, theirs, spelled[k])
    BY <1>6
  <2>1. CASE k = 0
    BY <1>6, <2>1
  <2>2. CASE k # 0
    <3>1. k \in 1..n /\ k - 1 \in 0..n
      BY <1>0, <2>2
    <3>2. f[k - 1] \in S
      BY <1>6, <3>1
    <3> QED BY <1>5, <1>6, <2>2, <3>1, <3>2
  <2> QED BY <2>1, <2>2
<1>8. Goes(u)
  BY <1>3, <1>7
<1>9. \A k \in 0..n : u[k] = IF k = 0 THEN NothingSeen ELSE Seen(u[k - 1], mine, theirs, spelled[k])
  BY <1>8
<1>10. u[0] = NothingSeen /\ \A k \in 1..n : u[k] = Seen(u[k - 1], mine, theirs, spelled[k])
  <2>1. \A k \in 1..n : k \in 0..n /\ k # 0
    BY <1>0
  <2>2. 0 \in 0..n
    BY <1>0
  <2> QED BY <1>9, <2>1, <2>2
<1> DEFINE T == {k \in 0..n : u[k] \in S}
<1>11. 0 \in T
  BY <1>0, <1>1, <1>10
<1>12. ASSUME NEW k \in 0..n - 1, k \in T PROVE k + 1 \in T
  <2>1. k + 1 \in 1..n /\ k + 1 - 1 = k /\ k + 1 \in 0..n
    BY <1>0
  <2>2. u[k + 1] = Seen(u[k], mine, theirs, spelled[k + 1])
    BY <1>10, <2>1
  <2> QED BY <1>2, <1>12, <2>1, <2>2
<1> HIDE DEF T
<1>13. \A k \in 0..n : k \in T
  BY <1>0, <1>11, <1>12, CountingUp
<1>14. \A k \in 0..n : u[k] \in S
  BY <1>13 DEF T
<1> QED BY <1>10, <1>14 DEF u, S, SeenStepwise

LEMMA SeenUpToIsMirrored ==
  ASSUME NEW mine, NEW theirs, NEW n, NEW spelled, SpelledIn(spelled, n, mine, theirs)
  PROVE  SeenUpTo(theirs, mine, spelled)[n] = MirroredSeen(SeenUpTo(mine, theirs, spelled)[n])
<1> DEFINE u == SeenUpTo(mine, theirs, spelled)
           v == SeenUpTo(theirs, mine, spelled)
           T == {k \in 0..n : v[k] = MirroredSeen(u[k])}
<1>0. n \in Nat /\ \A k \in 1..n : spelled[k] \in DOMAIN mine /\ spelled[k] \in DOMAIN theirs
  BY DEF SpelledIn
<1>1. /\ u[0] = NothingSeen
      /\ \A k \in 1..n : u[k] = Seen(u[k - 1], mine, theirs, spelled[k])
      /\ \A k \in 0..n : u[k] \in SeenOf(TextPairs(mine, theirs))
  BY SeenIsThere DEF SeenStepwise
<1>2. v[0] = NothingSeen /\ \A k \in 1..n : v[k] = Seen(v[k - 1], theirs, mine, spelled[k])
  <2>1. SpelledIn(spelled, n, theirs, mine)
    BY DEF SpelledIn
  <2> QED BY <2>1, SeenIsThere DEF SeenStepwise
<1> HIDE DEF u, v
<1>3. 0 \in T
  <2>1. MirroredSeen(NothingSeen) = NothingSeen
    <3>1. NothingSeen.renames = {} /\ NothingSeen.leaves = <<>>
      BY DEF NothingSeen
    <3>2. {Mirrored(r) : r \in {}} = {}
      OBVIOUS
    <3>3. MirroredAll(<<>>) = <<>>
      BY DEF MirroredAll
    <3> QED BY <3>1, <3>2, <3>3 DEF MirroredSeen, NothingSeen
  <2>2. 0 \in 0..n
    BY <1>0
  <2> QED BY <1>1, <1>2, <2>1, <2>2
<1>4. ASSUME NEW k \in 0..n - 1, k \in T PROVE k + 1 \in T
  <2>1. k + 1 \in 1..n /\ k + 1 - 1 = k /\ k + 1 \in 0..n /\ k \in 0..n
    BY <1>0
  <2>2. /\ u[k + 1] = Seen(u[k], mine, theirs, spelled[k + 1])
        /\ v[k + 1] = Seen(v[k], theirs, mine, spelled[k + 1])
    BY <1>1, <1>2, <2>1
  <2>3. u[k] \in SeenOf(TextPairs(mine, theirs)) /\ spelled[k + 1] \in DOMAIN mine
        /\ spelled[k + 1] \in DOMAIN theirs
    BY <1>0, <1>1, <2>1
  <2>4. Seen(MirroredSeen(u[k]), theirs, mine, spelled[k + 1])
          = MirroredSeen(Seen(u[k], mine, theirs, spelled[k + 1]))
    BY <2>3, SeenIsMirrored
  <2>5. v[k] = MirroredSeen(u[k])
    BY <1>4
  <2> QED BY <2>1, <2>2, <2>4, <2>5
<1> HIDE DEF T
<1>5. \A k \in 0..n : k \in T
  BY <1>0, <1>3, <1>4, CountingUp
<1>6. n \in T
  BY <1>0, <1>5
<1> QED BY <1>6 DEF T, u, v

(* A sequence of leaves as the program has it.                              *)
IsCounted(s) == Len(s) \in Nat /\ DOMAIN s = 1..Len(s)

LEMMA LeavesHaveNoSide ==
  ASSUME NEW mine, NEW theirs, IsCounted(mine), IsCounted(theirs)
  PROVE  ComparedWith(theirs, mine).kind = ComparedWith(mine, theirs).kind
<1> DEFINE at(s) == {i \in DOMAIN s : s[i].how # "Unspelled"}
           spelled == InOrder(at(mine))
           n == Cardinality(at(mine))
           u == SeenUpTo(mine, theirs, spelled)
<1>1. Aligned(mine, theirs) => Aligned(theirs, mine) /\ at(theirs) = at(mine) /\ DOMAIN theirs = DOMAIN mine
  BY DEF Aligned, IsCounted
<1>2. Aligned(theirs, mine) => Aligned(mine, theirs)
  BY DEF Aligned, IsCounted
<1>3. CASE ~Aligned(mine, theirs)
  BY <1>2, <1>3 DEF ComparedWith
<1>4. CASE Aligned(mine, theirs)
  <2>1. at(mine) \in SUBSET Nat /\ IsFiniteSet(at(mine))
    <3>1. IsFiniteSet(1..Len(mine))
      BY FS_Interval DEF IsCounted
    <3>2. at(mine) \in SUBSET (1..Len(mine)) /\ 1..Len(mine) \in SUBSET Nat
      BY DEF IsCounted
    <3> QED BY <3>1, <3>2, FS_Subset
  <2>2. at(mine) \in SUBSET DOMAIN mine
    OBVIOUS
  <2> HIDE DEF at
  <2>3. n \in Nat /\ DOMAIN spelled = 1..n /\ \A k \in 1..n : spelled[k] \in at(mine)
    BY <2>1, InOrderIsOfThem
  <2>4. Len(spelled) = n
    BY <2>1, InOrderIsOfThem
  <2>5. \A k \in 1..n : spelled[k] \in DOMAIN mine /\ spelled[k] \in DOMAIN theirs
    BY <1>1, <1>4, <2>2, <2>3
  <2> HIDE DEF spelled, n
  <2>6. SpelledIn(spelled, n, mine, theirs)
    BY <2>3, <2>4, <2>5 DEF SpelledIn
  <2>7. SeenUpTo(theirs, mine, spelled)[n] = MirroredSeen(u[n])
    BY <2>6, SeenUpToIsMirrored
  <2>8. u[n] \in SeenOf(TextPairs(mine, theirs))
    <3>1. n \in 0..n
      BY <2>3
    <3> QED BY <2>6, <3>1, SeenIsThere DEF SeenStepwise
  <2>9. u[n].leaves = <<>> <=> MirroredSeen(u[n]).leaves = <<>>
    <3> DEFINE L == u[n].leaves
    <3>1. L \in Seq(TextPairs(mine, theirs))
      BY <2>8 DEF SeenOf
    <3>2. MirroredSeen(u[n]).leaves = MirroredAll(L)
      BY DEF MirroredSeen
    <3> HIDE DEF L
    <3>3. Len(MirroredAll(L)) = Len(L) /\ Len(L) \in Nat
      BY <3>1 DEF MirroredAll
    <3>4. L = <<>> <=> Len(L) = 0
      BY <3>1
    <3>5. MirroredAll(L) = <<>> <=> Len(MirroredAll(L)) = 0
      BY <3>1 DEF MirroredAll
    <3> QED BY <3>2, <3>3, <3>4, <3>5 DEF L
  <2>10. /\ ComparedWith(mine, theirs).kind
             = IF u[n].leaves = <<>> THEN "NoDivergence" ELSE "Diverged"
        /\ ComparedWith(theirs, mine).kind
             = IF SeenUpTo(theirs, mine, spelled)[n].leaves = <<>> THEN "NoDivergence" ELSE "Diverged"
    <3>1. /\ InOrder({i \in DOMAIN mine : mine[i].how # "Unspelled"}) = spelled
          /\ InOrder({i \in DOMAIN theirs : theirs[i].how # "Unspelled"}) = spelled
      BY <1>1, <1>4 DEF spelled, at
    <3> QED BY <1>1, <1>4, <2>4, <3>1 DEF ComparedWith
  <2> QED BY <2>7, <2>9, <2>10
<1> QED BY <1>3, <1>4

-----------------------------------------------------------------------------
(* What is located was cut from its file and can be measured.               *)
LEMMA LeavesAreCounted ==
  ASSUME NEW tree, NEW n, NEW own, NEW grammar, Nodes(tree) \subseteq Nat, IsFiniteSet(Nodes(tree))
  PROVE  IsCounted(LeavesOf(tree, n, own, grammar))
<1> DEFINE kept(m) ==
             /\ tree[m].kind \notin CommentKinds
             /\ \A k \in (Above(tree, m) \cap Within(tree, n)) \ {m} :
                  tree[k].kind \notin CommentKinds /\ ~IsCollapsed(tree[k].kind)
           nodes == {m \in Within(tree, n) : kept(m)}
           leaves == LeavesOf(tree, n, own, grammar)
<1>1. TokenNodes(tree, n) = InOrder(nodes)
  BY DEF TokenNodes
<1> HIDE DEF kept
<1>2. nodes \in SUBSET Nodes(tree)
  BY DEF Within
<1>3. nodes \in SUBSET Nat /\ IsFiniteSet(nodes)
  BY <1>2, FS_Subset
<1> HIDE DEF nodes
<1>4. Cardinality(nodes) \in Nat /\ DOMAIN InOrder(nodes) = 1..Cardinality(nodes)
  BY <1>3, InOrderIsOfThem
<1>5. leaves = [i \in 1..Cardinality(nodes) |-> leaves[i]]
  BY <1>1, <1>4 DEF LeavesOf
<1> HIDE DEF leaves
<1>6. Len(leaves) = Cardinality(nodes) /\ DOMAIN leaves = 1..Cardinality(nodes)
  BY <1>4, <1>5, HasItsLength
<1> QED BY <1>4, <1>6 DEF leaves, IsCounted

LEMMA CutIsAChunk ==
  ASSUME NEW place, place.path \in DOMAIN Sources,
         NEW v \in DOMAIN Sources[place.path].versions,
         CutFailure(Sources[place.path].versions[v], place.line) = "none"
  PROVE  LET source == Sources[place.path]
             file == source.versions[v].file
             n == FindEnclosing(file, place.line).node
         IN  /\ CutAt(place, file, v) = ChunkAt(source, v, n)
             /\ n \in ChunkNodes(file) /\ ~file.tree[n].error
<1> DEFINE source == Sources[place.path]
           file == source.versions[v].file
           n == FindEnclosing(file, place.line).node
<1>1. Nodes(file.tree) \subseteq Nat /\ IsFiniteSet(Nodes(file.tree))
  BY SourcesAssumption
<1>2. FindEnclosing(file, place.line).kind = "Chunk"
  BY DEF CutFailure
<1>3. n \in ChunkNodes(file)
  BY <1>1, <1>2, EnclosingIsAFunction
<1>4. Cuts[place.path][v] = [m \in ChunkNodes(file) |-> ChunkAt(source, v, m)]
  BY DEF Cuts, CutsOf
<1>5. CutAt(place, file, v) = ChunkAt(source, v, n)
  BY <1>3, <1>4 DEF CutAt
<1>6. ~file.tree[n].error
  BY <1>2 DEF FindEnclosing
<1> QED BY <1>3, <1>5, <1>6

LEMMA CutIsMeasurable ==
  ASSUME NEW place, place.path \in DOMAIN Sources,
         NEW v \in DOMAIN Sources[place.path].versions,
         CutFailure(Sources[place.path].versions[v], place.line) = "none"
  PROVE  LET chunk == CutAt(place, Sources[place.path].versions[v].file, v)
         IN  chunk.path = Sources[place.path].path /\ IsCounted(chunk.leaves)
<1> DEFINE source == Sources[place.path]
           file == source.versions[v].file
           n == FindEnclosing(file, place.line).node
<1>1. Nodes(file.tree) \subseteq Nat /\ IsFiniteSet(Nodes(file.tree))
  BY SourcesAssumption
<1>2. CutAt(place, file, v) = ChunkAt(source, v, n)
  BY CutIsAChunk
<1>3. /\ ChunkAt(source, v, n).path = source.path
      /\ ChunkAt(source, v, n).leaves = LeavesOf(file.tree, n, NameNode(file, n), file.grammar)
  BY DEF ChunkAt
<1>4. IsCounted(LeavesOf(file.tree, n, NameNode(file, n), file.grammar))
  BY <1>1, LeavesAreCounted
<1> QED BY <1>2, <1>3, <1>4

LEMMA LocatedIsMeasurable ==
  ASSUME ShownInvariant, PairIsMeasurable, NEW s \in Sides, Located(s)
  PROVE  pair[s].path = Sources[request[s].path].path /\ IsCounted(pair[s].leaves)
<1>1. request[s].path \in DOMAIN Sources
  BY DEF ShownInvariant, PairIsCut
<1> QED BY <1>1, CutIsMeasurable DEF PairIsMeasurable

LEMMA PairStaysMeasurable ==
  ASSUME PairIsMeasurable, UNCHANGED <<request, pair>>,
         \A s \in Sides : Located(s)' => Located(s)
  PROVE  PairIsMeasurable'
BY DEF PairIsMeasurable

LEMMA LocateKeepsMeasurable ==
  ASSUME ShownInvariant, PairIsMeasurable, NEW s \in Sides, Locate(s)
  PROVE  PairIsMeasurable'
<1> DEFINE source == Sources[request[s].path]
<1>1. stage = <<"locate", s>> /\ UNCHANGED request /\ request[s].path \in DOMAIN Sources
  BY DEF Locate, ShownInvariant, PairIsCut
<1>2. PICK v \in Readings(s, source) :
        LET version == source.versions[v]
            failure == CutFailure(version, request[s].line)
            foreign == s = "b" /\ ~ReadOnce /\ ~SameLanguage(pair.a.grammar, version.grammar)
        IN  IF failure # "none" THEN Refused(failure) /\ UNCHANGED pair
            ELSE /\ pair' = [pair EXCEPT ![s] = CutAt(request[s], version.file, v)]
                 /\ IF foreign THEN Refused("DifferentLanguages")
                    ELSE stage' = (IF s = "a" THEN <<"locate", "b">> ELSE Turn("measure")) /\ UNCHANGED exit
  BY DEF Locate, Read
<1>3. v \in DOMAIN source.versions
  BY <1>1, ReadingIsAVersion DEF ShownInvariant
<1>4. CASE stage'[1] = "refused"
  BY <1>4 DEF PairIsMeasurable, Located
<1>5. CASE stage'[1] # "refused"
  <2>1. /\ CutFailure(source.versions[v], request[s].line) = "none"
        /\ pair' = [pair EXCEPT ![s] = CutAt(request[s], source.versions[v].file, v)]
        /\ stage' = IF s = "a" THEN <<"locate", "b">> ELSE Turn("measure")
    BY <1>2, <1>5 DEF Refused, Refusal
  <2> DEFINE chunk == CutAt(request[s], source.versions[v].file, v)
  <2>2. \E w \in DOMAIN source.versions :
          /\ CutFailure(source.versions[w], request[s].line) = "none"
          /\ chunk = CutAt(request[s], source.versions[w].file, w)
    BY <1>3, <2>1
  <2> HIDE DEF chunk
  <2>3. pair' = [pair EXCEPT ![s] = chunk] /\ pair = [t \in Sides |-> pair[t]]
    BY <2>1 DEF chunk, ShownInvariant, PairIsCut
  <2>4. pair'[s] = chunk /\ \A t \in Sides \ {s} : pair'[t] = pair[t]
    BY <2>3
  <2>5. \A t \in Sides \ {s} : Located(t)' => Located(t)
    BY <1>1, <2>1 DEF Located, Sides
  <2>6. ASSUME NEW t \in Sides, Located(t)'
        PROVE  \E w \in DOMAIN Sources[request'[t].path].versions :
                 /\ CutFailure(Sources[request'[t].path].versions[w], request'[t].line) = "none"
                 /\ pair'[t] = CutAt(request'[t], Sources[request'[t].path].versions[w].file, w)
    <3>1. CASE t = s
      BY <1>1, <2>2, <2>4, <3>1
    <3>2. CASE t # s
      BY <1>1, <2>4, <2>5, <2>6, <3>2 DEF PairIsMeasurable
    <3> QED BY <3>1, <3>2
  <2> QED BY <2>6 DEF PairIsMeasurable
<1> QED BY <1>4, <1>5

(* At every stage of every run, each function that has been located was cut *)
(* from a version of the file that the command line names (chunk_pair_of).  *)
THEOREM PairIsMeasurableHolds == Spec => []PairIsMeasurable
<1>1. Init => PairIsMeasurable
  BY DEF Init, CompareInit, PairIsMeasurable, Located
<1>2. PairIsMeasurable /\ ShownInvariant /\ [Next]_vars => PairIsMeasurable'
  <2> SUFFICES ASSUME PairIsMeasurable, ShownInvariant, [Next]_vars PROVE PairIsMeasurable'
    OBVIOUS
  <2>1. CASE UNCHANGED compareVars
    <3>1. UNCHANGED <<request, pair, stage>>
      BY <2>1 DEF compareVars
    <3> QED BY <3>1, PairStaysMeasurable DEF Located
  <2>2. CASE CompareWith(Server)
    <3>1. CASE \E s \in Sides : Locate(s)
      BY <3>1, LocateKeepsMeasurable
    <3>2. CASE ~\E s \in Sides : Locate(s)
      <4>1. UNCHANGED <<request, pair>>
        BY <2>2, <3>2 DEF CompareWith, RefuseSettings, Measure, Prepare, ShutDown, Report, Open,
                          AskTypes, AskMembership, AskCallers, AskCallees, Note
      <4>2. \/ stage'[1] = "refused"
            \/ stage # <<"locate", "a">> /\ stage # <<"locate", "b">> /\ stage[1] # "refused"
        BY <2>2, <3>2 DEF CompareWith, RefuseSettings, Measure, Prepare, ShutDown, Report, Open,
                          AskTypes, AskMembership, AskCallers, AskCallees, Note,
                          Refused, Refusal, Turn
      <4>3. \A s \in Sides : Located(s)' => Located(s)
        BY <4>2 DEF Located
      <4> QED BY <4>1, <4>3, PairStaysMeasurable
    <3> QED BY <3>1, <3>2
  <2> QED BY <2>1, <2>2 DEF Next, CompareNext, vars
<1> QED BY <1>1, <1>2, ShownInvariantHolds, PTL DEF Spec

-----------------------------------------------------------------------------
(* Nothing that is measured depends on which function comes first.          *)
LEMMA SwappedSides ==
  ASSUME NEW f
  PROVE  Swapped(f)["a"] = f["b"] /\ Swapped(f)["b"] = f["a"]
BY DEF Swapped, Sides, Other

LEMMA StructureHasNoSide ==
  ASSUME NEW p PROVE StructuralSimilarity(Swapped(p)) = StructuralSimilarity(p)
<1>1. (\E s \in Sides : Swapped(p)[s].tokens = <<>>) <=> \E s \in Sides : p[s].tokens = <<>>
  BY SwappedSides DEF Sides
<1>2. SimilarityWith(p["b"].tokens, p["a"].tokens) = SimilarityWith(p["a"].tokens, p["b"].tokens)
  <2> DEFINE x == NumberedGrams(p["a"].tokens)
             y == NumberedGrams(p["b"].tokens)
  <2>1. SimilarityWith(p["b"].tokens, p["a"].tokens)
          = Similarity(Cardinality(y \cap x), Cardinality(y \cup x))
    BY DEF SimilarityWith
  <2>2. SimilarityWith(p["a"].tokens, p["b"].tokens)
          = Similarity(Cardinality(x \cap y), Cardinality(x \cup y))
    BY DEF SimilarityWith
  <2> HIDE DEF x, y
  <2>3. x \cap y = y \cap x /\ x \cup y = y \cup x
    OBVIOUS
  <2> QED BY <2>1, <2>2, <2>3
<1> QED BY <1>1, <1>2, SwappedSides DEF StructuralSimilarity

LEMMA DivergenceHasNoSide ==
  ASSUME NEW p, IsCounted(p["a"].leaves), IsCounted(p["b"].leaves)
  PROVE  LeafDivergence(Swapped(p)) = LeafDivergence(p)
<1>1. (\E s \in Sides : Swapped(p)[s].tokens = <<>>) <=> \E s \in Sides : p[s].tokens = <<>>
  BY SwappedSides DEF Sides
<1>2. ComparedWith(p["b"].leaves, p["a"].leaves).kind = ComparedWith(p["a"].leaves, p["b"].leaves).kind
  BY LeavesHaveNoSide
<1> QED BY <1>1, <1>2, SwappedSides DEF LeafDivergence

LEMMA DistanceHasNoSide ==
  ASSUME NEW a, NEW b, Len(a) \in Nat, Len(b) \in Nat
  PROVE  ModuleDistance(b, a) = ModuleDistance(a, b)
<1> DEFINE shared(x, y) == {n \in 0..Min({Len(x), Len(y)}) : SubSeq(x, 1, n) = SubSeq(y, 1, n)}
<1>1. {Len(a), Len(b)} = {Len(b), Len(a)}
  OBVIOUS
<1>2. Min({Len(a), Len(b)}) \in {Len(a), Len(b)} /\ {Len(a), Len(b)} \in SUBSET Nat
  BY LeastIsThere
<1>3. shared(a, b) = shared(b, a)
  BY <1>1
<1>4. 0 \in shared(a, b)
  <2>1. SubSeq(a, 1, 0) = SubSeq(b, 1, 0)
    OBVIOUS
  <2>2. 0 \in 0..Min({Len(a), Len(b)})
    BY <1>2
  <2> QED BY <2>1, <2>2
<1>5. shared(a, b) \in SUBSET Nat /\ shared(a, b) # {}
      /\ \A n \in shared(a, b) : n <= Min({Len(a), Len(b)})
  <2> DEFINE least == Min({Len(a), Len(b)})
  <2>1. least \in Nat
    BY <1>2
  <2>2. shared(a, b) \in SUBSET (0..least)
    OBVIOUS
  <2> HIDE DEF least, shared
  <2>3. \A n \in shared(a, b) : n \in Nat /\ n <= least
    BY <2>1, <2>2
  <2> QED BY <1>4, <2>3 DEF least
<1>6. Max(shared(a, b)) \in Nat
  <2>1. Min({Len(a), Len(b)}) \in Nat
    BY <1>2
  <2> HIDE DEF shared
  <2>2. Max(shared(a, b)) \in shared(a, b)
    BY <1>5, <2>1, GreatestIsThere
  <2> QED BY <1>5, <2>2
<1>7. /\ ModuleDistance(a, b) = (Len(a) - Max(shared(a, b))) + (Len(b) - Max(shared(a, b)))
      /\ ModuleDistance(b, a) = (Len(b) - Max(shared(b, a))) + (Len(a) - Max(shared(b, a)))
  BY DEF ModuleDistance
<1> HIDE DEF shared
<1> QED BY <1>3, <1>6, <1>7

LEMMA DirectoryIsCounted ==
  ASSUME NEW segments \in Seq(STRING) PROVE Len(DirectoryOf(segments)) \in Nat
<1> DEFINE places == {i \in 1..(Len(segments) - 1) : segments[i] \notin {Here, Back}}
<1>1. Len(segments) \in Nat
  OBVIOUS
<1>2. IsFiniteSet(1..(Len(segments) - 1)) /\ 1..(Len(segments) - 1) \in SUBSET Nat
  BY <1>1, FS_Interval
<1>3. places \in SUBSET Nat /\ IsFiniteSet(places)
  <2>1. places \in SUBSET (1..(Len(segments) - 1))
    OBVIOUS
  <2> QED BY <1>2, <2>1, FS_Subset
<1>4. DirectoryOf(segments) = AtPlaces(segments, places)
  BY DEF DirectoryOf
<1> HIDE DEF places
<1> QED BY <1>3, <1>4, PlacesAreCounted

NameAt(path, declarations) ==
  LET domain == DeclaredDomainOf(path, declarations)
  IN  IF domain.kind = "Declared" THEN domain.names[1] ELSE Absent

LEMMA SeparationIs ==
  ASSUME NEW r, NEW declarations
  PROVE  ModuleSeparation(r, declarations) =
           [steps |-> ModuleDistance(DirectoryOf(r["a"].path.segments), DirectoryOf(r["b"].path.segments)),
            declared |-> IF \E s \in Sides : DeclaredDomainOf(r[s].path, declarations).kind = "Declared"
                         THEN {[s \in Sides |-> NameAt(r[s].path, declarations)]} ELSE {}]
<1> DEFINE declared == [s \in Sides |-> DeclaredDomainOf(r[s].path, declarations)]
           name(s) == IF declared[s].kind = "Declared" THEN declared[s].names[1] ELSE Absent
<1>1. \A s \in Sides : declared[s] = DeclaredDomainOf(r[s].path, declarations)
  OBVIOUS
<1>2. ModuleSeparation(r, declarations) =
           [steps |-> ModuleDistance(DirectoryOf(r["a"].path.segments), DirectoryOf(r["b"].path.segments)),
            declared |-> IF \E s \in Sides : declared[s].kind = "Declared"
                         THEN {[s \in Sides |-> name(s)]} ELSE {}]
  BY DEF ModuleSeparation
<1>3. \A s \in Sides : name(s) = NameAt(r[s].path, declarations)
  BY <1>1 DEF NameAt
<1> HIDE DEF declared, name
<1>4. [s \in Sides |-> name(s)] = [s \in Sides |-> NameAt(r[s].path, declarations)]
  BY <1>3
<1> QED BY <1>1, <1>2, <1>4

LEMMA SeparationIsMirrored ==
  ASSUME NEW p, NEW declarations, p["a"].path.segments \in Seq(STRING), p["b"].path.segments \in Seq(STRING)
  PROVE  /\ ModuleSeparation(Swapped(p), declarations).steps = ModuleSeparation(p, declarations).steps
         /\ ModuleSeparation(p, declarations).declared
              = {Swapped(d) : d \in ModuleSeparation(Swapped(p), declarations).declared}
<1> DEFINE there == ModuleSeparation(p, declarations)
           back == ModuleSeparation(Swapped(p), declarations)
           directory(s) == DirectoryOf(p[s].path.segments)
           name(s) == NameAt(p[s].path, declarations)
           names(r) == [s \in Sides |-> NameAt(r[s].path, declarations)]
           someone(r) == \E s \in Sides : DeclaredDomainOf(r[s].path, declarations).kind = "Declared"
<1>1. /\ there.steps = ModuleDistance(directory("a"), directory("b"))
      /\ there.declared = IF someone(p) THEN {names(p)} ELSE {}
  BY SeparationIs
<1>2. /\ back.steps = ModuleDistance(directory("b"), directory("a"))
      /\ back.declared = IF someone(Swapped(p)) THEN {names(Swapped(p))} ELSE {}
  BY SeparationIs, SwappedSides
<1>3. someone(Swapped(p)) <=> someone(p)
  BY SwappedSides DEF Sides
<1>4. Swapped(names(Swapped(p))) = names(p)
  <2>1. /\ names(Swapped(p))["a"] = name("b") /\ names(Swapped(p))["b"] = name("a")
        /\ names(p)["a"] = name("a") /\ names(p)["b"] = name("b")
    BY SwappedSides DEF Sides
  <2> DEFINE n == names(Swapped(p))
  <2>2. Swapped(n)["a"] = n["b"] /\ Swapped(n)["b"] = n["a"]
    BY SwappedSides
  <2>3. Swapped(n) = [s \in Sides |-> Swapped(n)[s]]
    BY DEF Swapped
  <2>4. names(p) = [s \in Sides |-> names(p)[s]]
    OBVIOUS
  <2> HIDE DEF names, n
  <2>5. \A s \in Sides : Swapped(n)[s] = names(p)[s]
    BY <2>1, <2>2 DEF Sides, n
  <2> QED BY <2>3, <2>4, <2>5 DEF n
<1>5. Len(directory("a")) \in Nat /\ Len(directory("b")) \in Nat
  BY DirectoryIsCounted
<1>6. ModuleDistance(directory("b"), directory("a")) = ModuleDistance(directory("a"), directory("b"))
  BY <1>5, DistanceHasNoSide
<1> HIDE DEF there, back, names, someone
<1>7. there.declared = {Swapped(d) : d \in back.declared}
  BY <1>1, <1>2, <1>3, <1>4
<1> QED BY <1>1, <1>2, <1>6, <1>7 DEF there, back

-----------------------------------------------------------------------------
(* There is a word for all that a server may say of a type.                 *)
Heard == {"Answered", "NoAnswer", "Unreadable", "NotSupported", "ServerStillWorking"}
IsTold(answer) == answer.kind = "Normalized" \/ ReportedReason(answer) \in ToSet(TypeReasons)

LEMMA TypeReasonsByName ==
  ToSet(TypeReasons) =
    {"Failed", "NoSignatureReader", "SiteDependentSpelling", "ServerStillWorking", "NoTypeThere",
     "UnreadableHover", "OverloadSetMiscounted", "UnreadableSignature", "HoverNotProvided",
     "UnopenedTypeName", "OmittedTypeAnnotation", "NoTracedRecord", "UnalignedParameters"}
BY DEF ToSet, TypeReasons

LEMMA HoverIsHeard ==
  ASSUME NEW exchange, NEW tried PROVE HoverOutcome(exchange, tried).reply \in Heard
<1>1. ASSUME NEW items PROVE HoverIn(items, tried).reply \in Heard
  BY DEF HoverIn, Told, Heard
<1>2. Silence(exchange).reply \in Heard
  BY DEF Silence, Told, Heard
<1> QED BY <1>1, <1>2 DEF HoverOutcome

LEMMA UnavailableIsTold ==
  ASSUME NEW kind, NEW reason,
         \/ kind \in ToSet(TypeReasons) /\ kind # "UntracedTypeName"
         \/ kind = "UntracedTypeName" /\ reason \in ToSet(TypeReasons)
  PROVE  IsTold(Unavailable(kind, reason))
BY DEF IsTold, ReportedReason, Unavailable

LEMMA MeasuredIsTold == ASSUME NEW signatures PROVE IsTold(Measured(signatures))
BY DEF IsTold, Measured

LEMMA AskedFailureIsTold ==
  ASSUME NEW reply \in Heard \ {"Answered"}
  PROVE  AskedFailure(reply) \in ToSet(TypeReasons) /\ AskedFailure(reply) # "UntracedTypeName"
BY TypeReasonsByName DEF AskedFailure, Heard

LEMMA RustIsTold ==
  ASSUME NEW hover, hover.reply \in Heard, NEW header, NEW traced, NEW templates
  PROVE  IsTold(RustOutcome(hover, header, traced, templates))
<1>1. ASSUME NEW read PROVE IsTold(CallableSignature(read, traced))
  <2> USE TypeReasonsByName, UnavailableIsTold, MeasuredIsTold
  <2> QED BY DEF CallableSignature
<1>2. CASE hover.reply # "Answered"
  <2>1. RustOutcome(hover, header, traced, templates) = Unavailable(AskedFailure(hover.reply), "none")
    BY <1>2 DEF RustOutcome
  <2> QED BY <1>2, <2>1, AskedFailureIsTold, UnavailableIsTold
<1>3. CASE hover.reply = "Answered"
  BY <1>1, <1>3, TypeReasonsByName, UnavailableIsTold DEF RustOutcome
<1> QED BY <1>2, <1>3

LEMMA SwiftIsTold ==
  ASSUME NEW hover, hover.reply \in Heard, NEW traced
  PROVE  IsTold(SwiftOutcome(hover, traced))
<1>1. ASSUME NEW read PROVE IsTold(CallableOutcome(read, traced))
  <2> USE TypeReasonsByName, UnavailableIsTold, MeasuredIsTold
  <2> QED BY DEF CallableOutcome
<1>2. CASE hover.reply # "Answered"
  <2>1. SwiftOutcome(hover, traced) = Unavailable(AskedFailure(hover.reply), "none")
    BY <1>2 DEF SwiftOutcome
  <2> QED BY <1>2, <2>1, AskedFailureIsTold, UnavailableIsTold
<1>3. CASE hover.reply = "Answered"
  BY <1>1, <1>3, TypeReasonsByName, UnavailableIsTold DEF SwiftOutcome
<1> QED BY <1>2, <1>3

LEMMA SingleIsTold ==
  ASSUME NEW reading, NEW annotated, NEW traced
  PROVE  IsTold(SingleOutcome(reading, annotated, traced))
<1>1. ASSUME NEW spelled PROVE OmittedParameter(spelled, annotated) \in
        {"none", "OmittedTypeAnnotation", "UnalignedParameters"}
  BY DEF OmittedParameter
<1>2. ASSUME NEW type, NEW spelled, NEW remaining
      PROVE  IsTold(OutcomeOver(reading, type, spelled, annotated, traced, remaining))
  BY <1>1, TypeReasonsByName, UnavailableIsTold, MeasuredIsTold DEF OutcomeOver
<1>3. IsTold(UnreadableOutcome(reading, traced))
  BY TypeReasonsByName, UnavailableIsTold DEF UnreadableOutcome
<1> QED BY <1>2, <1>3 DEF SingleOutcome, ReadableOutcome

LEMMA TogetherIsTold ==
  ASSUME NEW outcomes, DOMAIN outcomes \in SUBSET Nat, \A i \in DOMAIN outcomes : IsTold(outcomes[i])
  PROVE  IsTold(TogetherOf(outcomes))
<1> DEFINE without == {i \in DOMAIN outcomes : outcomes[i].kind # "Normalized"}
<1>1. without \in SUBSET Nat /\ without \subseteq DOMAIN outcomes
  OBVIOUS
<1>2. CASE without # {}
  <2>1. Min(without) \in without
    BY <1>1, <1>2, LeastIsThere
  <2> QED BY <1>1, <1>2, <2>1 DEF TogetherOf
<1>3. CASE without = {}
  BY <1>3, MeasuredIsTold DEF TogetherOf
<1> QED BY <1>2, <1>3

LEMMA DeclarationIsTold ==
  ASSUME NEW declaration, declaration.hover.reply \in Heard, NEW traced
  PROVE  IsTold(DeclarationOutcome(declaration, traced))
BY SingleIsTold, AskedFailureIsTold, UnavailableIsTold DEF DeclarationOutcome

(* How an answer about types is understood.                                 *)
LEMMA UnderstoodIs ==
  ASSUME NEW said, {"language", "hover", "overloads"} \subseteq DOMAIN said
  PROVE  /\ Understood(said).language = said.language
         /\ Understood(said).hover.reply \in Heard
         /\ \A i \in DOMAIN said.overloads : Understood(said).overloads[i].reply \in Heard
<1> DEFINE tried == HoverFences[said.language]
           world == WorldOf(said)
           heardIn(hover) == HoverOutcome(hover, tried)
           u == Understood(said)
           overloads == [i \in DOMAIN said.overloads |-> heardIn(said.overloads[i])]
<1>1. u = [said EXCEPT !.hover = heardIn(said.hover), !.world = world, !.overloads = overloads]
  BY DEF Understood
<1>2. \A hover : heardIn(hover).reply \in Heard
  BY HoverIsHeard
<1>3. \A i \in DOMAIN said.overloads : overloads[i] = heardIn(said.overloads[i])
  OBVIOUS
<1> HIDE DEF u, world, heardIn, overloads
<1>4. u.language = said.language /\ u.hover = heardIn(said.hover) /\ u.overloads = overloads
  BY <1>1
<1> QED BY <1>2, <1>3, <1>4 DEF u

LEMMA ServerIs ==
  ASSUME server \in DOMAIN Servers
  PROVE  /\ Server.language = Servers[server].language
         /\ Server.types = {Understood(said) : said \in Servers[server].types}
<1> DEFINE types == {Understood(said) : said \in Servers[server].types}
<1>1. Server = [Servers[server] EXCEPT !.types = types]
  BY DEF Server, Understanding
<1>2. "types" \in DOMAIN Servers[server]
  BY ServersAssumption
<1> HIDE DEF types
<1>3. Server.language = Servers[server].language /\ Server.types = types
  BY <1>1, <1>2
<1> QED BY <1>3 DEF types

LEMMA AnswerIsHeard ==
  ASSUME server \in DOMAIN Servers, NEW answer \in Server.types
  PROVE  /\ answer.hover.reply \in Heard
         /\ Server.language = "TypeScript" =>
              /\ answer.language = "TypeScript"
              /\ answer.hover.reply = "Answered" =>
                   \A i \in 1..answer.hover.reading.overloads : answer.overloads[i].reply \in Heard
<1>1. PICK said \in Servers[server].types : answer = Understood(said)
  BY ServerIs
<1>2. /\ {"language", "hover", "overloads"} \subseteq DOMAIN said
      /\ Servers[server].language = "TypeScript" =>
           /\ said.language = "TypeScript"
           /\ Understood(said).hover.reply = "Answered" =>
                1..Understood(said).hover.reading.overloads \subseteq DOMAIN said.overloads
  BY ServersAssumption
<1>3. /\ answer.language = said.language /\ answer.hover.reply \in Heard
      /\ \A i \in DOMAIN said.overloads : answer.overloads[i].reply \in Heard
  BY <1>1, <1>2, UnderstoodIs
<1>4. Server.language = Servers[server].language
  BY ServerIs
<1> QED BY <1>1, <1>2, <1>3, <1>4

-----------------------------------------------------------------------------
(* TypeScript, where each overload is asked about.                          *)
LEMMA OverloadsAreNodes ==
  ASSUME NEW tree, NEW n PROVE OverloadDeclarations(tree, n) \subseteq Nodes(tree)
<1>1. ASSUME NEW m, NEW k PROVE NamedChildren(tree, k) \subseteq Nodes(tree)
  BY DEF NamedChildren, Children
<1>2. ASSUME NEW k, NEW m \in NamedChildren(tree, k) PROVE DeclarationIn(tree, m) \subseteq Nodes(tree)
  BY <1>1 DEF DeclarationIn
<1>3. OverloadDeclarations(tree, n)
        \subseteq UNION {DeclarationIn(tree, m) : m \in NamedChildren(tree, EnclosingScope(tree, n))}
  BY DEF OverloadDeclarations
<1> QED BY <1>2, <1>3

LEMMA TypeScriptIsTold ==
  ASSUME NEW hover, hover.reply \in Heard, NEW annotated, NEW overloads, NEW traced,
         DOMAIN overloads = 1..Len(overloads), Len(overloads) \in Nat,
         hover.reply = "Answered" /\ hover.reading.overloads = Len(overloads) =>
           \A i \in DOMAIN overloads : overloads[i].hover.reply \in Heard
  PROVE  IsTold(TypeScriptOutcome(hover, annotated, overloads, traced))
<1> DEFINE declarations ==
             IF overloads = <<>> THEN <<[hover |-> hover, annotated |-> annotated]>> ELSE overloads
           outcomes == [i \in DOMAIN declarations |-> DeclarationOutcome(declarations[i], traced)]
<1>1. CASE hover.reply # "Answered"
  <2>1. TypeScriptOutcome(hover, annotated, overloads, traced)
          = Unavailable(AskedFailure(hover.reply), "none")
    BY <1>1 DEF TypeScriptOutcome
  <2> QED BY <1>1, <2>1, AskedFailureIsTold, UnavailableIsTold
<1>2. CASE hover.reply = "Answered" /\ hover.reading.overloads # Len(declarations)
  <2>1. TypeScriptOutcome(hover, annotated, overloads, traced)
          = Unavailable("OverloadSetMiscounted", <<hover.reading.overloads, Len(declarations)>>)
    BY <1>2 DEF TypeScriptOutcome
  <2> QED BY <2>1, TypeReasonsByName, UnavailableIsTold
<1>3. CASE hover.reply = "Answered" /\ hover.reading.overloads = Len(declarations)
  <2>1. TypeScriptOutcome(hover, annotated, overloads, traced) = SetOutcome(declarations, traced)
    BY <1>3 DEF TypeScriptOutcome
  <2>2. \A i \in DOMAIN declarations : declarations[i].hover.reply \in Heard
    BY <1>3
  <2>3. DOMAIN declarations \in SUBSET Nat
    OBVIOUS
  <2> HIDE DEF declarations
  <2>4. \A i \in DOMAIN declarations : IsTold(DeclarationOutcome(declarations[i], traced))
    BY <2>2, DeclarationIsTold
  <2>5. DOMAIN outcomes = DOMAIN declarations /\ \A i \in DOMAIN outcomes : IsTold(outcomes[i])
    BY <2>4
  <2> HIDE DEF outcomes
  <2>6. IsTold(TogetherOf(outcomes))
    BY <2>3, <2>5, TogetherIsTold
  <2> QED BY <2>1, <2>6 DEF SetOutcome, outcomes
<1> QED BY <1>1, <1>2, <1>3

LEMMA TypeScriptSignatureIsTold ==
  ASSUME NEW file, NEW n, NEW answer, answer.hover.reply \in Heard,
         Nodes(file.tree) \subseteq Nat, IsFiniteSet(Nodes(file.tree)),
         answer.hover.reply = "Answered" =>
           \A i \in 1..answer.hover.reading.overloads : answer.overloads[i].reply \in Heard
  PROVE  IsTold(TypeScriptSignature(file, n, answer))
<1> DEFINE declared == InOrder(OverloadDeclarations(file.tree, n))
           traced == TypeScriptTrace(answer.world, ChunkTypeReferences(file.tree, n))
           annotations(i) == AnnotatedPositions(file, declared[i])
           overloads == [i \in DOMAIN declared |->
                           [hover |-> answer.overloads[i], annotated |-> annotations(i)]]
           count == Cardinality(OverloadDeclarations(file.tree, n))
<1>1. OverloadDeclarations(file.tree, n) \in SUBSET Nat /\ IsFiniteSet(OverloadDeclarations(file.tree, n))
  BY OverloadsAreNodes, FS_Subset
<1>2. count \in Nat /\ DOMAIN declared = 1..count
  BY <1>1, InOrderIsOfThem
<1>3. TypeScriptSignature(file, n, answer)
        = TypeScriptOutcome(answer.hover, AnnotatedPositions(file, n), overloads, traced)
  BY DEF TypeScriptSignature
<1> HIDE DEF declared, traced, annotations, count
<1>4. overloads = [i \in 1..count |-> overloads[i]] /\ DOMAIN overloads = 1..count
  BY <1>2
<1>5. \A i \in DOMAIN overloads : overloads[i].hover = answer.overloads[i]
  OBVIOUS
<1> HIDE DEF overloads
<1>6. Len(overloads) = count
  BY <1>2, <1>4, HasItsLength
<1> QED BY <1>2, <1>3, <1>4, <1>5, <1>6, TypeScriptIsTold

-----------------------------------------------------------------------------
(* What is asked about was cut from a file by the grammar of a language     *)
(* that the server reads.                                                   *)
LEMMA LocatedIsCut ==
  ASSUME ShownInvariant, PairIsMeasurable, NEW s \in Sides, Located(s)
  PROVE  \E v \in DOMAIN Sources[request[s].path].versions :
           LET source == Sources[request[s].path]
               file == source.versions[v].file
           IN  \E n \in FileChunks(file, FALSE).chunks :
                 /\ pair[s].file = file /\ pair[s].node = n /\ pair[s].grammar = file.grammar
                 /\ pair[s].openable = IsOpenable(source)
                 /\ pair[s].imports = ImportsOf(file, source.path)
<1> DEFINE source == Sources[request[s].path]
<1>1. request[s].path \in DOMAIN Sources
  BY DEF ShownInvariant, PairIsCut
<1>2. PICK v \in DOMAIN source.versions : /\ CutFailure(source.versions[v], request[s].line) = "none"
                                          /\ pair[s] = CutAt(request[s], source.versions[v].file, v)
  BY DEF PairIsMeasurable
<1> DEFINE version == source.versions[v]
           file == version.file
           n == FindEnclosing(file, request[s].line).node
<1>3. pair[s] = ChunkAt(source, v, n) /\ n \in ChunkNodes(file) /\ ~file.tree[n].error
  BY <1>1, <1>2, CutIsAChunk
<1>4. version.grammar = file.grammar
  <2>1. version.grammar # "none"
    BY <1>2 DEF CutFailure
  <2>2. version.grammar \in {"none", version.file.grammar}
    BY <1>1, <1>2, SourcesAssumption
  <2> QED BY <2>1, <2>2
<1>5. n \in FileChunks(file, FALSE).chunks
  BY <1>3 DEF FileChunks
<1>6. /\ pair[s].file = file /\ pair[s].node = n /\ pair[s].grammar = version.grammar
      /\ pair[s].openable = IsOpenable(source) /\ pair[s].imports = ImportsOf(file, source.path)
  <2> DEFINE chunk == ChunkAt(source, v, n)
  <2>1. /\ chunk.file = file /\ chunk.node = n /\ chunk.grammar = version.grammar
        /\ chunk.openable = IsOpenable(source) /\ chunk.imports = ImportsOf(file, source.path)
    BY DEF ChunkAt
  <2> HIDE DEF chunk, file, version, n
  <2>2. pair[s] = chunk
    BY <1>3 DEF chunk, file, version, n
  <2> QED BY <2>1, <2>2
<1> QED BY <1>2, <1>4, <1>5, <1>6

LEMMA SignatureIsTold ==
  ASSUME ShownInvariant, PairIsMeasurable, WordsInStep, NEW s \in Sides, stage = <<"types", s>>,
         NEW answer \in Server.types, NEW rust
  PROVE  IsTold(Signature(pair[s], answer, rust))
<1> DEFINE grammar == pair[s].grammar
<1>1. Located(s) /\ stage \in {Course[i] : i \in 1..10}
  <2>1. <<"types", "a">> = Course[3] /\ <<"types", "b">> = Course[4]
    BY DEF Course
  <2> QED BY <2>1 DEF Located, Sides
<1>2. Supports(Server.language, grammar) /\ pair[s].openable /\ server \in DOMAIN Servers
  BY <1>1, ServerIs DEF WordsInStep
<1>3. answer.hover.reply \in Heard
  BY <1>2, AnswerIsHeard
<1>4. CASE grammar = "Rust"
  BY <1>3, <1>4, RustIsTold DEF Signature
<1>5. CASE grammar = "Swift"
  BY <1>3, <1>5, SwiftIsTold DEF Signature
<1>6. CASE grammar = "Java"
  BY <1>6, TypeReasonsByName, UnavailableIsTold DEF Signature
<1>7. CASE grammar \notin {"Rust", "Swift", "Java"}
  <2>1. Server.language = "TypeScript" /\ grammar \in {"TypeScript", "Tsx"}
    <3>1. Server.language \in ServerLanguages
      BY <1>2, ServerIs, ServersAssumption
    <3> QED BY <1>2, <1>7, <3>1 DEF Supports, ServerLanguages
  <2> DEFINE source == Sources[request[s].path]
  <2>2. PICK v \in DOMAIN source.versions : \E m \in FileChunks(source.versions[v].file, FALSE).chunks :
          /\ pair[s].file = source.versions[v].file /\ pair[s].node = m
          /\ grammar = source.versions[v].file.grammar /\ pair[s].openable = IsOpenable(source)
    BY <1>1, LocatedIsCut
  <2> DEFINE file == source.versions[v].file
             n == pair[s].node
  <2>3. /\ pair[s].file = file /\ n \in FileChunks(file, FALSE).chunks
        /\ IsTypeScript(file.grammar) /\ IsOpenable(source)
    BY <1>2, <2>1, <2>2 DEF IsTypeScript
  <2>4. request[s].path \in DOMAIN Sources
    BY DEF ShownInvariant, PairIsCut
  <2>5. <<file, n>> \in TypeScriptChunks(Sources)
    <3> DEFINE openable == {p \in DOMAIN Sources : IsOpenable(Sources[p])}
               files == UNION {{w.file : w \in ToSet(Sources[p].versions)} : p \in openable}
    <3>1. source.versions[v] \in ToSet(source.versions)
      BY DEF ToSet
    <3>2. file \in files
      <4> DEFINE filesAt(p) == {w.file : w \in ToSet(Sources[p].versions)}
      <4>1. request[s].path \in openable /\ file \in filesAt(request[s].path)
        BY <2>3, <2>4, <3>1
      <4> HIDE DEF openable, filesAt, file
      <4>2. file \in UNION {filesAt(p) : p \in openable}
        BY <4>1
      <4> QED BY <4>2 DEF filesAt
    <3> HIDE DEF files, file, n
    <3>3. <<file, n>> \in {file} \X FileChunks(file, FALSE).chunks
      BY <2>3
    <3>4. {file} \X FileChunks(file, FALSE).chunks
            \in {{f} \X FileChunks(f, FALSE).chunks : f \in {g \in files : IsTypeScript(g.grammar)}}
      BY <2>3, <3>2
    <3>5. TypeScriptChunks(Sources)
            = UNION {{f} \X FileChunks(f, FALSE).chunks : f \in {g \in files : IsTypeScript(g.grammar)}}
      BY DEF TypeScriptChunks, files
    <3> QED BY <3>3, <3>4, <3>5
  <2>6. answer.language = "TypeScript" /\ answer \in TypeScriptAnswers
    <3>1. answer.language = "TypeScript"
      BY <1>2, <2>1, AnswerIsHeard
    <3>2. server \in DOMAIN Understanding /\ answer \in Understanding[server].types
      BY <1>2 DEF Server, Understanding
    <3> QED BY <3>1, <3>2 DEF TypeScriptAnswers, TypeScriptAnswersOf
  <2>7. Signature(pair[s], answer, rust) = TypeScriptSignature(file, n, answer)
    <3> DEFINE at == <<<<file, n>>, answer>>
               signature(q) == TypeScriptSignature(q[1][1], q[1][2], q[2])
    <3>1. Signature(pair[s], answer, rust) = TypeScriptSignatures[at]
      BY <1>7, <2>3 DEF Signature
    <3>2. TypeScriptSignatures = [q \in TypeScriptChunks(Sources) \X TypeScriptAnswers |-> signature(q)]
      BY DEF TypeScriptSignatures
    <3>3. at \in TypeScriptChunks(Sources) \X TypeScriptAnswers
      BY <2>5, <2>6
    <3>4. signature(at) = TypeScriptSignature(file, n, answer)
      OBVIOUS
    <3> HIDE DEF at, signature
    <3> QED BY <3>1, <3>2, <3>3, <3>4
  <2>8. Nodes(file.tree) \subseteq Nat /\ IsFiniteSet(Nodes(file.tree))
    BY <2>2, <2>4, SourcesAssumption
  <2>9. answer.hover.reply = "Answered" =>
          \A i \in 1..answer.hover.reading.overloads : answer.overloads[i].reply \in Heard
    BY <1>2, <2>1, AnswerIsHeard
  <2> QED BY <1>3, <2>7, <2>8, <2>9, TypeScriptSignatureIsTold
<1> QED BY <1>4, <1>5, <1>6, <1>7

-----------------------------------------------------------------------------
(* There is a word for what comes back for the other questions.             *)
LEMMA CallerReasonsByName ==
  ToSet(CallerReasons) =
    {"Unrooted", "OutsideProject", "NotProvided", "Unreachable", "Failed", "AmbiguousDomain",
     "UnclassifiedReference", "NoReferences", "UnreadableReferences", "ServerStillWorking",
     "ReferencesNotProvided"}
BY DEF ToSet, CallerReasons

LEMMA CalleeReasonsByName ==
  ToSet(CalleeReasons) =
    {"Failed", "AmbiguousDomain", "NoCallees", "OnlyExternalCallees", "ServerStillWorking",
     "NoCallHierarchyItem", "SeveralCallHierarchyItems", "UnreadableCallees",
     "CallHierarchyNotProvided"}
BY DEF ToSet, CalleeReasons

LEMMA FailedHasAWord ==
  /\ IsAnAnswer(Failed, CallerReasons, CallersReplies)
  /\ IsAnAnswer(Failed, CalleeReasons, CalleesReplies)
BY CallerReasonsByName, CalleeReasonsByName DEF IsAnAnswer, Failed

LEMMA SaidHasAWord ==
  ASSUME NEW reply, NEW reasons, NEW replies, IsAnAnswer(Failed, reasons, replies),
         reply = Failed \/ reply.kind \in replies
  PROVE  IsAnAnswer(Said(reply), reasons, replies)
<1>1. CASE reply = Failed
  BY <1>1 DEF Said
<1>2. CASE reply # Failed
  <2>1. Said(reply) = [kind |-> "Asked", said |-> reply]
    BY <1>2 DEF Said
  <2> QED BY <1>2, <2>1 DEF IsAnAnswer
<1> QED BY <1>1, <1>2

LEMMA CallersHaveAWord ==
  ASSUME NEW exchange PROVE IsAnAnswer(Said(ReferencesOutcome(exchange)), CallerReasons, CallersReplies)
<1>1. \A locations : ReferencesIn(locations).kind \in CallersReplies
  BY DEF ReferencesIn, Without, Because, Outcome, CallersReplies
<1>2. Unsettled(exchange).kind \in CallersReplies
  BY DEF Unsettled, Without, Because, CallersReplies
<1>3. ReferencesOutcome(exchange) = Failed \/ ReferencesOutcome(exchange).kind \in CallersReplies
  BY <1>1, <1>2 DEF ReferencesOutcome
<1> QED BY <1>3, SaidHasAWord, FailedHasAWord

LEMMA CalleesHaveAWord ==
  ASSUME NEW exchange PROVE IsAnAnswer(Said(CalleesReply(exchange)), CalleeReasons, CalleesReplies)
<1>1. \A calls : CalleesIn(calls).kind \in CalleesReplies
  BY DEF CalleesIn, Without, Because, Outcome, CalleesReplies
<1>2. Unsettled(exchange).kind \in CalleesReplies
  BY DEF Unsettled, Without, Because, CalleesReplies
<1>3. ASSUME NEW items, NEW outgoing
      PROVE  \/ CalleesFrom(items, outgoing) = Failed
             \/ CalleesFrom(items, outgoing).kind \in CalleesReplies
  <2>1. /\ StartOf(items) \in {"NoItem", "Item", "SeveralItems"}
        /\ StartOf(items) = "Item" => Len(items) = 1
    BY DEF StartOf
  <2>2. Len(items) > 1 \/ Len(items) = 0 => StartOf(items) \in {"NoItem", "SeveralItems"}
    <3>1. ASSUME NEW n, n = 1 PROVE ~(n > 1) /\ n # 0
      BY <3>1
    <3> QED BY <2>1, <3>1
  <2> QED BY <1>1, <2>2 DEF CalleesFrom, Without, Because, CalleesReplies
<1>4. CalleesReply(exchange) = Failed \/ CalleesReply(exchange).kind \in CalleesReplies
  BY <1>2, <1>3 DEF CalleesReply
<1> QED BY <1>4, SaidHasAWord, FailedHasAWord

LEMMA MembershipsAreKnown ==
  /\ \A peer, chunk : KnownMembership(peer, chunk) \subseteq MembershipKinds \ {"Unasked"}
  /\ \A exchange : Membership[MembershipReply(exchange).kind] \in MembershipKinds \ {"Unasked"}
<1>1. ASSUME NEW peer, NEW chunk PROVE KnownMembership(peer, chunk) \subseteq MembershipKinds \ {"Unasked"}
  BY DEF KnownMembership, MembershipKinds
<1>2. ASSUME NEW exchange PROVE MembershipReply(exchange).kind \in DOMAIN Membership
  BY DEF MembershipReply, MembershipOf, Membership, Without, Because, Failed
<1>3. \A kind \in DOMAIN Membership : Membership[kind] \in MembershipKinds \ {"Unasked"}
  BY DEF Membership, MembershipKinds
<1> QED BY <1>1, <1>2, <1>3

-----------------------------------------------------------------------------
(* An answer for which there is a word is put down at its turn.             *)
LEMMA NoteKeepsWords ==
  ASSUME AskingInvariant, WordsInStep, NEW q \in QuestionNames, NEW s \in Sides, stage = <<q, s>>,
         NEW answer, HasAWord(q, answer), Note(q, s, answer)
  PROVE  WordsInStep'
<1>1. PICK i \in Asking : stage = Course[i] /\ Course[i] = <<q, s>>
                          /\ Course[i][1] = q /\ Course[i][2] = s
  BY TurnOf
<1>2. /\ stage' = Course[i + 1] /\ AnswerAt(i)' = answer /\ setup = "none"
      /\ \A j \in Asking \ {i} : AnswerAt(j)' = AnswerAt(j)
  BY <1>1, NoteTakesItsTurn
<1>3. UNCHANGED <<server, pair, setup>>
  BY DEF Note
<1>4. stage \in {Course[j] : j \in 1..10}
  BY <1>1 DEF Asking
<1>5. ASSUME NEW j \in Asking, stage' \in Beyond(j) PROVE HasAWord(Course[j][1], AnswerAt(j)')
  <2>1. j <= i
    <3>1. Course[i + 1] # Turn("report")
      BY CourseIsLinear DEF Asking
    <3>2. PICK k \in (j + 1)..11 : Course[i + 1] = Course[k]
      BY <1>2, <1>5, <3>1 DEF Beyond
    <3>3. i + 1 = k
      BY <3>2, CourseIsLinear DEF Asking
    <3> QED BY <3>3 DEF Asking
  <2>2. CASE j = i
    BY <1>1, <1>2, <2>2
  <2>3. CASE j # i
    <3>1. i \in (j + 1)..11
      BY <2>1, <2>3 DEF Asking
    <3>2. stage \in Beyond(j)
      BY <1>1, <3>1 DEF Beyond
    <3>3. HasAWord(Course[j][1], AnswerAt(j))
      BY <1>2, <3>2 DEF WordsInStep
    <3> QED BY <1>2, <2>3, <3>3
  <2> QED BY <2>2, <2>3
<1>6. \A j \in Asking : (setup = "none" /\ stage \in Beyond(j) => HasAWord(Course[j][1], AnswerAt(j)))'
  BY <1>5 DEF Beyond
<1> QED BY <1>3, <1>4, <1>6 DEF WordsInStep

LEMMA AskTypesKeepsWords ==
  ASSUME AskingInvariant, ShownInvariant, PairIsMeasurable, WordsInStep, NEW s \in Sides,
         AskTypes(Server, s)
  PROVE  WordsInStep'
<1>1. stage = <<"types", s>>
  BY DEF AskTypes
<1>2. PICK answer \in Server.types, failing \in BOOLEAN : \E rust :
        Note("types", s, IF failing THEN Failed ELSE Signature(pair[s], answer, rust))
  BY DEF AskTypes
<1>3. IsTold(Failed)
  BY TypeReasonsByName DEF IsTold, ReportedReason, Failed
<1>4. \A rust : IsTold(Signature(pair[s], answer, rust))
  BY <1>1, SignatureIsTold
<1>5. \A rust : HasAWord("types", IF failing THEN Failed ELSE Signature(pair[s], answer, rust))
  BY <1>3, <1>4 DEF HasAWord, IsTold
<1> QED BY <1>1, <1>2, <1>5, NoteKeepsWords DEF QuestionNames

LEMMA AskMembershipKeepsWords ==
  ASSUME AskingInvariant, WordsInStep, NEW peer, NEW s \in Sides, AskMembership(peer, s)
  PROVE  WordsInStep'
<1>1. stage = <<"membership", s>>
  BY DEF AskMembership
<1>2. PICK kind \in MembershipKinds \ {"Unasked"} : Note("membership", s, [kind |-> kind])
  <2>1. CASE \E m \in KnownMembership(peer, pair[s]) : Note("membership", s, [kind |-> m])
    BY <2>1, MembershipsAreKnown
  <2>2. CASE \E exchange \in peer.members :
               Note("membership", s, [kind |-> Membership[MembershipReply(exchange).kind]])
    BY <2>2, MembershipsAreKnown
  <2> QED BY <2>1, <2>2 DEF AskMembership
<1>3. HasAWord("membership", [kind |-> kind])
  BY DEF HasAWord
<1> QED BY <1>1, <1>2, <1>3, NoteKeepsWords DEF QuestionNames

LEMMA AskCallersKeepsWords ==
  ASSUME AskingInvariant, WordsInStep, NEW peer, NEW s \in Sides, AskCallers(peer, s)
  PROVE  WordsInStep'
<1>1. stage = <<"callers", s>>
  BY DEF AskCallers
<1>2. HasAWord("membership", asked["membership"][s])
  <2>1. PICK i \in {5, 6} : Course[i] = <<"membership", s>> /\ stage = Course[i + 2]
    BY <1>1 DEF Course, Sides
  <2>2. i \in Asking /\ i + 2 \in (i + 1)..11
    BY DEF Asking
  <2>3. stage \in Beyond(i) /\ AnswerAt(i) = asked["membership"][s] /\ Course[i][1] = "membership"
    BY <2>1, <2>2 DEF Beyond, AnswerAt
  <2>4. stage \notin {Turn("shutdown"), Turn("report")}
    BY <1>1 DEF Turn
  <2>5. setup = "none"
    BY <2>4 DEF AskingInvariant, SetupComesLast
  <2> QED BY <2>2, <2>3, <2>5 DEF WordsInStep
<1>3. PICK answer : Note("callers", s, answer) /\ HasAWord("callers", answer)
  <2>1. CASE asked["membership"][s].kind # "Askable" /\ Note("callers", s, asked["membership"][s])
    <3>1. asked["membership"][s].kind \in ToSet(CallerReasons)
      BY <1>2, <2>1, CallerReasonsByName DEF HasAWord, MembershipKinds
    <3> QED BY <2>1, <3>1 DEF HasAWord, IsAnAnswer
  <2>2. CASE \E exchange \in peer.callers : Note("callers", s, Said(ReferencesOutcome(exchange)))
    BY <2>2, CallersHaveAWord DEF HasAWord
  <2> QED BY <2>1, <2>2 DEF AskCallers
<1> QED BY <1>1, <1>3, NoteKeepsWords DEF QuestionNames

LEMMA AskCalleesKeepsWords ==
  ASSUME AskingInvariant, WordsInStep, NEW peer, NEW s \in Sides, AskCallees(peer, s)
  PROVE  WordsInStep'
<1>1. stage = <<"callees", s>>
  BY DEF AskCallees
<1>2. PICK exchange : Note("callees", s, Said(CalleesReply(exchange)))
  BY DEF AskCallees
<1>3. HasAWord("callees", Said(CalleesReply(exchange)))
  BY CalleesHaveAWord DEF HasAWord
<1> QED BY <1>1, <1>2, <1>3, NoteKeepsWords DEF QuestionNames

-----------------------------------------------------------------------------
(* Who is asked reads both languages, from Measure on, and is shown both    *)
(* files, from Prepare on.                                                  *)
LEMMA NobodyIsAskedYet ==
  ASSUME NEW turn, turn[1] \in {"locate", "refused", "measure", "prepare", "report"}
  PROVE  turn \notin {Course[i] : i \in 1..10}
BY TurnsByName

LEMMA EarlyStepsKeepWords ==
  ASSUME AskingInvariant, WordsInStep, NEW s \in Sides,
         \/ RefuseSettings \/ Locate(s) \/ Measure(Server) \/ Prepare(Server) \/ Open(Server, s)
  PROVE  WordsInStep'
<1>1. \A i \in Asking : ~(setup' = "none" /\ stage' \in Beyond(i))
  <2>1. \/ setup' = "none" /\ \A i \in Asking : stage' \notin Beyond(i)
        \/ setup' # "none" /\ stage' \in {Turn("shutdown"), Turn("report")}
    BY EarlyStepsLead
  <2> QED BY <2>1
<1>2. UNCHANGED server /\ setup' \in {"none", "NoName"} \cup Unavailables
  <2>1. setup \in {"none", "NoName"} \cup Unavailables
    BY DEF WordsInStep
  <2> QED BY <2>1 DEF RefuseSettings, Locate, Read, Measure, Prepare, Open, SetupFails, Unavailables
<1>3. /\ stage' \in {Turn("prepare")} \cup {Course[i] : i \in 1..10} =>
           \A t \in Sides : Supports(Servers[server].language, pair'[t].grammar)
      /\ stage' \in {Course[i] : i \in 1..10} => \A t \in Sides : pair'[t].openable
  <2>1. CASE RefuseSettings \/ Locate(s)
    <3>1. \/ \E failure : stage' = Refusal(failure)
          \/ stage' \in {<<"locate", "b">>, Turn("measure")}
      BY <2>1 DEF RefuseSettings, Locate, Read, Refused
    <3>2. stage'[1] \in {"locate", "refused", "measure"} /\ stage' # Turn("prepare")
      BY <3>1 DEF Refusal, Turn
    <3> QED BY <3>2, NobodyIsAskedYet
  <2>2. CASE Measure(Server)
    <3>1. stage'[1] \in {"refused", "report", "prepare"} /\ UNCHANGED pair
      BY <2>2 DEF Measure, Refused, Refusal, Turn
    <3>2. ASSUME stage' = Turn("prepare"), NEW t \in Sides
          PROVE  Supports(Servers[server].language, pair[t].grammar)
      <4>1. Supports(Server.language, pair[t].grammar)
        BY <2>2, <3>2 DEF Measure, Refused, Refusal, Turn
      <4> QED BY <4>1, ServerIs DEF WordsInStep
    <3> QED BY <3>1, <3>2, NobodyIsAskedYet
  <2>3. CASE Prepare(Server)
    <3>1. \A t \in Sides : Supports(Servers[server].language, pair[t].grammar)
      BY <2>3 DEF Prepare, WordsInStep
    <3>2. UNCHANGED pair /\ (stage' = Turn("report") \/ \A t \in Sides : pair[t].openable)
      BY <2>3 DEF Prepare, SetupFails
    <3>3. Turn("report") \notin {Course[i] : i \in 1..10}
      BY CourseIsLinear
    <3> QED BY <3>1, <3>2, <3>3
  <2>4. CASE Open(Server, s)
    <3>1. stage \in {Course[i] : i \in 1..10} /\ UNCHANGED pair
      BY <2>4, StagesOfTheCourse DEF Open, Sides
    <3> QED BY <3>1 DEF WordsInStep
  <2> QED BY <2>1, <2>2, <2>3, <2>4
<1>4. server' \in DOMAIN Servers
  BY <1>2 DEF WordsInStep
<1>5. \A i \in Asking : (setup = "none" /\ stage \in Beyond(i) => HasAWord(Course[i][1], AnswerAt(i)))'
  BY <1>1 DEF Beyond
<1> QED BY <1>2, <1>3, <1>4, <1>5 DEF WordsInStep

LEMMA LateStepsKeepWords ==
  ASSUME WordsInStep, NEW peer, ShutDown(peer) \/ Report
  PROVE  WordsInStep'
<1>1. /\ stage \in {Turn("shutdown"), Turn("report")} /\ stage' = Turn("report")
      /\ UNCHANGED <<server, pair, asked>> /\ setup' \in {setup, "LspUnusable"}
  BY DEF ShutDown, Report, questions
<1>2. stage' # Turn("prepare") /\ stage' \notin {Course[i] : i \in 1..10}
  BY <1>1, CourseIsLinear DEF Turn
<1>3. setup' \in {"none", "NoName"} \cup Unavailables
  BY <1>1 DEF WordsInStep, Unavailables
<1>4. ASSUME NEW i \in Asking, setup' = "none" PROVE HasAWord(Course[i][1], AnswerAt(i)')
  <2>1. stage \in Beyond(i)
    BY <1>1, StagesOfTheCourse DEF Beyond, Asking
  <2>2. setup = "none" /\ AnswerAt(i)' = AnswerAt(i)
    BY <1>1, <1>4 DEF AnswerAt
  <2> QED BY <2>1, <2>2 DEF WordsInStep
<1>5. server' \in DOMAIN Servers
  BY <1>1 DEF WordsInStep
<1>6. \A i \in Asking : (setup = "none" /\ stage \in Beyond(i) => HasAWord(Course[i][1], AnswerAt(i)))'
  BY <1>4
<1> QED BY <1>2, <1>3, <1>5, <1>6 DEF WordsInStep

LEMMA UntouchedKeepsWords ==
  ASSUME WordsInStep, UNCHANGED compareVars PROVE WordsInStep'
<1>1. UNCHANGED <<server, stage, pair, asked, setup>>
  BY DEF compareVars, questions
<1>2. \A i \in Asking : (setup = "none" /\ stage \in Beyond(i) => HasAWord(Course[i][1], AnswerAt(i)))'
  <2> SUFFICES ASSUME NEW i \in Asking, setup' = "none", stage' \in Beyond(i)
               PROVE  HasAWord(Course[i][1], AnswerAt(i)')
    BY DEF Beyond
  <2>1. AnswerAt(i)' = AnswerAt(i)
    BY <1>1 DEF AnswerAt
  <2> QED BY <1>1, <2>1 DEF WordsInStep
<1> QED BY <1>1, <1>2 DEF WordsInStep

LEMMA WordsStart == Init => WordsInStep
<1> SUFFICES ASSUME Init PROVE WordsInStep
  OBVIOUS
<1>1. stage = <<"locate", "a">> /\ setup = "none"
  BY DEF Init, CompareInit
<1>2. server \in DOMAIN Servers
  BY ScenariosAssumption DEF Init
<1>3. stage # Turn("prepare") /\ stage \notin {Course[i] : i \in 1..10}
  BY <1>1, NobodyIsAskedYet DEF Turn
<1>4. \A i \in Asking : stage \notin Beyond(i)
  BY <1>1, BeforeIsNotBeyond DEF BeforeTheQuestions
<1> QED BY <1>1, <1>2, <1>3, <1>4 DEF WordsInStep

(* At every stage of every run, who is asked reads the languages of both    *)
(* functions and could be shown their files, and for all that came back,    *)
(* and for what kept the rest from being asked, there is a word.            *)
THEOREM WordsInStepHolds == Spec => []WordsInStep
<1>1. WordsInStep /\ AskingInvariant /\ ShownInvariant /\ PairIsMeasurable /\ [Next]_vars => WordsInStep'
  <2> SUFFICES ASSUME WordsInStep, AskingInvariant, ShownInvariant, PairIsMeasurable, [Next]_vars
               PROVE  WordsInStep'
    OBVIOUS
  <2>1. CASE UNCHANGED compareVars
    BY <2>1, UntouchedKeepsWords
  <2>2. CASE CompareWith(Server)
    <3>1. CASE \E s \in Sides : AskTypes(Server, s)
      BY <3>1, AskTypesKeepsWords
    <3>2. CASE \E s \in Sides : AskMembership(Server, s)
      BY <3>2, AskMembershipKeepsWords
    <3>3. CASE \E s \in Sides : AskCallers(Server, s)
      BY <3>3, AskCallersKeepsWords
    <3>4. CASE \E s \in Sides : AskCallees(Server, s)
      BY <3>4, AskCalleesKeepsWords
    <3>5. CASE \/ RefuseSettings \/ Measure(Server) \/ Prepare(Server)
               \/ \E s \in Sides : Locate(s) \/ Open(Server, s)
      BY <3>5, EarlyStepsKeepWords DEF Sides
    <3>6. CASE ShutDown(Server) \/ Report
      BY <3>6, LateStepsKeepWords
    <3> QED BY <2>2, <3>1, <3>2, <3>3, <3>4, <3>5, <3>6 DEF CompareWith
  <2> QED BY <2>1, <2>2 DEF Next, CompareNext, vars
<1> QED BY <1>1, WordsStart, AskingInvariantHolds, ShownInvariantHolds, PairIsMeasurableHolds, PTL DEF Spec

-----------------------------------------------------------------------------
(* For whatever a signal comes out as, there is a word.                     *)
LEMMA ImportsAreOfAKind ==
  ASSUME NEW file, NEW importer
  PROVE  ImportsOf(file, importer).kind \in
           {"Imports", "UnreadableDeclaration", "ReboundSpelling", "NoDeclaration"}
<1> DEFINE kinds == {"Imports", "UnreadableDeclaration", "ReboundSpelling", "NoDeclaration"}
<1>1. \A set : Specifiers(set).kind \in kinds
  BY DEF Specifiers
<1>0. \A tree, nodes : UnreadableAmong(tree, nodes).kind = "UnreadableDeclaration"
  BY DEF UnreadableAmong, Unreadable
<1>2. \A tree : TypeScriptSpecifiers(tree).kind \in kinds
  BY <1>0, <1>1 DEF TypeScriptSpecifiers, SpecifiersAmong, Unreadable
<1>3. \A tree : RustPaths(tree).kind \in kinds
  BY <1>0, <1>1 DEF RustPaths
<1>4. \A tree, unreadable, names : DeclaredPaths(tree, unreadable, names).kind \in kinds
  BY <1>0, <1>1 DEF DeclaredPaths
<1>5. Unreadable("NoDeclaration").kind \in kinds
  BY DEF Unreadable
<1> HIDE DEF kinds
<1>6. ImportsOf(file, importer).kind \in kinds
  BY <1>1, <1>2, <1>3, <1>4, <1>5 DEF ImportsOf
<1> QED BY <1>6 DEF kinds

LEMMA FirstShownIsShown ==
  ASSUME NEW order, DOMAIN order \subseteq Nat, NEW kinds, \E i \in DOMAIN order : order[i] \in kinds
  PROVE  FirstShown(order, kinds) \in ToSet(order) \cap kinds
<1> DEFINE places == {i \in DOMAIN order : order[i] \in kinds}
<1>1. Min(places) \in places
  BY LeastIsThere
<1> QED BY <1>1 DEF FirstShown, ToSet

(* If a side is not what it is when nothing is lost, its reason is told.    *)
LEMMA AReasonIsTold ==
  ASSUME NEW outcomes, NEW order, DOMAIN order \subseteq Nat, NEW t \in Sides,
         outcomes[t].kind \in ToSet(order)
  PROVE  /\ ToldFirst(order, outcomes).kind \in ToSet(order)
         /\ FirstShown(order, Kinds(outcomes)) \in Kinds(outcomes)
<1>1. \E i \in DOMAIN order : order[i] \in Kinds(outcomes)
  BY DEF ToSet, Kinds
<1>2. FirstShown(order, Kinds(outcomes)) \in ToSet(order) \cap Kinds(outcomes)
  BY <1>1, FirstShownIsShown
<1> QED BY <1>2 DEF ToldFirst, Signal

LEMMA ReasonsAreListed ==
  /\ DOMAIN ImportReasons \subseteq Nat /\ DOMAIN TypeReasons \subseteq Nat
  /\ DOMAIN CallerReasons \subseteq Nat /\ DOMAIN CalleeReasons \subseteq Nat
  /\ ToSet(ImportReasons) = {"UnreadableDeclaration", "ReboundSpelling", "NoDeclaration"}
BY DEF ImportReasons, TypeReasons, CallerReasons, CalleeReasons, ToSet

LEMMA ImportsHaveAWord ==
  ASSUME NEW imports, \A s \in Sides : imports[s].kind \in {"Imports"} \cup ToSet(ImportReasons)
  PROVE  ImportOverlap(imports).kind \in ImportKinds
<1>1. CASE Kinds(imports) = {"Imports"}
  BY <1>1 DEF ImportOverlap, ImportKinds, Signal
<1>2. CASE Kinds(imports) # {"Imports"}
  <2>1. PICK s \in Sides : imports[s].kind \in ToSet(ImportReasons)
    BY <1>2 DEF Kinds, Sides
  <2>2. ToldFirst(ImportReasons, imports).kind \in ToSet(ImportReasons)
    BY <2>1, AReasonIsTold, ReasonsAreListed
  <2> QED BY <1>2, <2>2, ReasonsAreListed DEF ImportOverlap, ImportKinds
<1> QED BY <1>1, <1>2

LEMMA TypesHaveAWord ==
  ASSUME NEW types, \A s \in Sides : IsTold(types[s])
  PROVE  TypeMatch(types).kind \in {"unifiable", "notUnifiable"} \cup ToSet(TypeReasons)
<1>1. CASE Kinds(types) = {"Normalized"}
  BY <1>1 DEF TypeMatch, Signal
<1>2. CASE Kinds(types) # {"Normalized"}
  <2>1. PICK s \in Sides : types[s].kind # "Normalized"
    BY <1>2 DEF Kinds, Sides
  <2>2. Reported(types)[s].kind \in ToSet(TypeReasons)
    BY <2>1 DEF IsTold, Reported
  <2>3. ToldFirst(TypeReasons, Reported(types)).kind \in ToSet(TypeReasons)
    BY <2>2, AReasonIsTold, ReasonsAreListed
  <2> QED BY <1>2, <2>3 DEF TypeMatch
<1> QED BY <1>1, <1>2

LEMMA OverlapHasAWord ==
  ASSUME NEW outcomes, NEW reasons, DOMAIN reasons \subseteq Nat,
         \A s \in Sides : outcomes[s].kind \in {"Counted"} \cup ToSet(reasons)
  PROVE  DomainOverlap(outcomes, reasons).kind \in {"Measured"} \cup ToSet(reasons)
<1>1. CASE Kinds(outcomes) = {"Counted"}
  BY <1>1 DEF DomainOverlap, Signal
<1>2. CASE Kinds(outcomes) # {"Counted"}
  <2>1. PICK s \in Sides : outcomes[s].kind \in ToSet(reasons)
    BY <1>2 DEF Kinds, Sides
  <2>2. ToldFirst(reasons, outcomes).kind \in ToSet(reasons)
    BY <2>1, AReasonIsTold
  <2> QED BY <1>2, <2>2 DEF DomainOverlap
<1> QED BY <1>1, <1>2

LEMMA OutcomesAreOfAKind ==
  ASSUME NEW answer, NEW declarations
  PROVE  /\ answer.kind \in CallersReplies =>
              CallersOutcome(answer, declarations).kind \in {"Counted"} \cup ToSet(CallerReasons)
         /\ answer.kind \in CalleesReplies =>
              CalleesOutcome(answer, declarations).kind \in {"Counted"} \cup ToSet(CalleeReasons)
<1>1. /\ \A kind : Without(kind).kind = kind
      /\ \A kind, cause : Because(kind, cause).kind = kind
      /\ \A references : Unclassified(references).kind = "UnclassifiedReference"
  BY DEF Without, Because, Unclassified
<1>2. \A listed, none : CountedOutcome(listed, declarations, none).kind \in {"Counted", "AmbiguousDomain", none}
  BY <1>1 DEF CountedOutcome, OutcomeIn, Outcome
<1>3. ASSUME answer.kind \in CallersReplies
      PROVE  CallersOutcome(answer, declarations).kind \in {"Counted"} \cup ToSet(CallerReasons)
  BY <1>1, <1>2, <1>3, CallerReasonsByName DEF CallersOutcome, CallersReplies
<1>4. ASSUME answer.kind \in CalleesReplies
      PROVE  CalleesOutcome(answer, declarations).kind \in {"Counted"} \cup ToSet(CalleeReasons)
  BY <1>1, <1>2, <1>4, CalleeReasonsByName DEF CalleesOutcome, CalleesReplies
<1> QED BY <1>3, <1>4

LEMMA AnswersHaveAWord ==
  ASSUME WordsInStep, setup = "none", stage = Turn("report")
  PROVE  /\ \A s \in Sides : IsTold(asked.types[s])
         /\ \A s \in Sides : IsAnAnswer(asked.callers[s], CallerReasons, CallersReplies)
         /\ \A s \in Sides : IsAnAnswer(asked.callees[s], CalleeReasons, CalleesReplies)
<1>1. ASSUME NEW q \in QuestionNames, NEW s \in Sides PROVE HasAWord(q, asked[q][s])
  <2>1. PICK i \in Asking : Course[i] = <<q, s>>
    BY TurnsOfQuestions
  <2>2. stage \in Beyond(i) /\ AnswerAt(i) = asked[q][s] /\ Course[i][1] = q
    BY <2>1 DEF Beyond, AnswerAt
  <2> QED BY <2>2 DEF WordsInStep
<1>2. \A s \in Sides : HasAWord("types", asked["types"][s]) /\ HasAWord("callers", asked["callers"][s])
                       /\ HasAWord("callees", asked["callees"][s])
  BY <1>1 DEF QuestionNames
<1> QED BY <1>2 DEF HasAWord, IsTold

(* What was withheld or failed has a reason, and so has what cannot be      *)
(* counted.                                                                 *)
LEMMA DomainsAreTold ==
  ASSUME WordsInStep, setup = "none", stage = Turn("report"), NEW declarations, NEW s \in Sides
  PROVE  /\ CallerDomains(asked.callers, declarations)[s].kind \in {"Counted"} \cup ToSet(CallerReasons)
         /\ CalleeDomains(asked.callees, declarations)[s].kind \in {"Counted"} \cup ToSet(CalleeReasons)
<1>1. IsAnAnswer(asked.callers[s], CallerReasons, CallersReplies)
  BY AnswersHaveAWord
<1>2. IsAnAnswer(asked.callees[s], CalleeReasons, CalleesReplies)
  BY AnswersHaveAWord
<1>3. CallerDomains(asked.callers, declarations)[s]
        = IF asked.callers[s].kind = "Asked" THEN CallersOutcome(asked.callers[s].said, declarations)
          ELSE Without(asked.callers[s].kind)
  BY DEF CallerDomains
<1>4. CalleeDomains(asked.callees, declarations)[s]
        = IF asked.callees[s].kind = "Asked" THEN CalleesOutcome(asked.callees[s].said, declarations)
          ELSE Without(asked.callees[s].kind)
  BY DEF CalleeDomains
<1>5. "Asked" \notin ToSet(CallerReasons) /\ "Asked" \notin ToSet(CalleeReasons)
  BY CallerReasonsByName, CalleeReasonsByName
<1>6. \A kind : Without(kind).kind = kind
  BY DEF Without, Because
<1>7. CallerDomains(asked.callers, declarations)[s].kind \in {"Counted"} \cup ToSet(CallerReasons)
  BY <1>1, <1>3, <1>5, <1>6, OutcomesAreOfAKind DEF IsAnAnswer
<1>8. CalleeDomains(asked.callees, declarations)[s].kind \in {"Counted"} \cup ToSet(CalleeReasons)
  BY <1>2, <1>4, <1>5, <1>6, OutcomesAreOfAKind DEF IsAnAnswer
<1> QED BY <1>7, <1>8

(* What is told of the three signals that the server is asked about.        *)
LEMMA SemanticsHaveAWord ==
  ASSUME WordsInStep, stage = Turn("report"), NEW declarations
  PROVE  LET semantics == Semantics(asked, setup, declarations)
         IN  /\ ToldOf(semantics.types.kind) \in TypeKinds
             /\ ToldOf(semantics.callers.kind) \in CallerKinds
             /\ ToldOf(semantics.callees.kind) \in CalleeKinds
<1> DEFINE semantics == Semantics(asked, setup, declarations)
<1>1. "LspUnusable" \in Unavailables
  BY DEF Unavailables
<1>2. CASE setup # "none"
  <2>1. setup \in {"NoName"} \cup Unavailables
    BY <1>2 DEF WordsInStep
  <2>2. ToldOf(setup) = setup
    BY <2>1 DEF ToldOf, Unavailables
  <2>3. /\ semantics.types.kind = setup /\ semantics.callers.kind = setup
        /\ semantics.callees.kind = setup
    BY <1>2 DEF Semantics, Signal
  <2> QED BY <2>1, <2>2, <2>3 DEF TypeKinds, CallerKinds, CalleeKinds
<1>3. CASE setup = "none"
  <2> DEFINE callers == CallerDomains(asked.callers, declarations)
             callees == CalleeDomains(asked.callees, declarations)
  <2>1. /\ semantics.types = TypeMatch(asked.types)
        /\ semantics.callers = DomainOverlap(callers, CallerReasons)
        /\ semantics.callees = DomainOverlap(callees, CalleeReasons)
    BY <1>3 DEF Semantics
  <2>2. /\ \A s \in Sides : callers[s].kind \in {"Counted"} \cup ToSet(CallerReasons)
        /\ \A s \in Sides : callees[s].kind \in {"Counted"} \cup ToSet(CalleeReasons)
    BY <1>3, DomainsAreTold
  <2> HIDE DEF callers, callees, semantics
  <2>3. semantics.types.kind \in {"unifiable", "notUnifiable"} \cup ToSet(TypeReasons)
    BY <1>3, <2>1, AnswersHaveAWord, TypesHaveAWord
  <2>4. semantics.callers.kind \in {"Measured"} \cup ToSet(CallerReasons)
    BY <2>1, <2>2, ReasonsAreListed, OverlapHasAWord
  <2>5. semantics.callees.kind \in {"Measured"} \cup ToSet(CalleeReasons)
    BY <2>1, <2>2, ReasonsAreListed, OverlapHasAWord
  <2>6. /\ semantics.types.kind \in {"unifiable", "notUnifiable"} \cup ToSet(TypeReasons) =>
             ToldOf(semantics.types.kind) \in TypeKinds
        /\ semantics.callers.kind \in {"Measured"} \cup ToSet(CallerReasons) =>
             ToldOf(semantics.callers.kind) \in CallerKinds
        /\ semantics.callees.kind \in {"Measured"} \cup ToSet(CalleeReasons) =>
             ToldOf(semantics.callees.kind) \in CalleeKinds
    BY <1>1, CalleeReasonsByName DEF ToldOf, TypeKinds, CallerKinds, CalleeKinds
  <2> QED BY <2>3, <2>4, <2>5, <2>6 DEF semantics
<1> QED BY <1>2, <1>3

(* The imports of the two functions that were found.                        *)
LEMMA ImportsAreTold ==
  ASSUME ShownInvariant, PairIsMeasurable, stage = Turn("report"), NEW s \in Sides
  PROVE  ImportsIn(pair)[s].kind \in {"Imports"} \cup ToSet(ImportReasons)
<1>1. Located(s)
  BY DEF Located, Turn
<1>2. PICK v \in DOMAIN Sources[request[s].path].versions :
        pair[s].imports = ImportsOf(Sources[request[s].path].versions[v].file,
                                    Sources[request[s].path].path)
  BY <1>1, LocatedIsCut
<1> QED BY <1>2, ImportsAreOfAKind, ReasonsAreListed DEF ImportsIn

LEMMA AllIsOfAKind ==
  ASSUME ShownInvariant, PairIsMeasurable, WordsInStep, stage = Turn("report"),
         NEW s \in Signals
  PROVE  ReasonsOf(MeasuredPair, settings.thresholds)[s].signal \in KindsOf[s]
<1> DEFINE m == MeasuredPair
           reasons == ReasonsOf(m, settings.thresholds)
           semantics == Semantics(asked, setup, settings.declarations)
<1>1. /\ m.leaves = LeafDivergence(pair) /\ m.imports = ImportOverlap(ImportsIn(pair))
      /\ m.types = semantics.types /\ m.callers = semantics.callers /\ m.callees = semantics.callees
  BY DEF MeasuredPair, Measurements
<1> HIDE DEF m, semantics
<1>2. /\ reasons.structure.signal = IF m.structure = Absent THEN "NoTokens" ELSE "Measured"
      /\ reasons.leaves.signal = m.leaves /\ reasons.imports.signal = m.imports.kind
      /\ reasons.distance.signal = IF m.separation.declared = {} THEN "Directories" ELSE "Declared"
      /\ reasons.types.signal = ToldOf(m.types.kind)
      /\ reasons.callers.signal = ToldOf(m.callers.kind)
      /\ reasons.callees.signal = ToldOf(m.callees.kind)
  BY DEF ReasonsOf, Reason
<1>3. m.leaves \in LeafKinds
  BY <1>1, LeavesAreOfAKind
<1>4. m.imports.kind \in ImportKinds
  BY <1>1, ImportsAreTold, ImportsHaveAWord
<1>5. /\ ToldOf(m.types.kind) \in TypeKinds /\ ToldOf(m.callers.kind) \in CallerKinds
      /\ ToldOf(m.callees.kind) \in CalleeKinds
  BY <1>1, SemanticsHaveAWord DEF semantics
<1> HIDE DEF reasons
<1>6. \A k \in Signals : reasons[k].signal \in KindsOf[k]
  BY <1>2, <1>3, <1>4, <1>5 DEF Signals, KindsOf, StructureKinds, SeparationKinds
<1> QED BY <1>6 DEF reasons, m

(* Whatever the sources, the servers, the declarations and the thresholds:  *)
(* when compare reports, text and JSON tell the same of every signal, what  *)
(* is told determines the verdict, a lean follows from the value and the    *)
(* threshold next to it, and however a signal came out, there is a word for *)
(* it (text_of, json_of, reasons_of, and the outcomes of each signal).      *)
THEOREM EveryReportShowsWhy == Spec => []ReportShowsWhy
<1>1. ShownInvariant /\ PairIsMeasurable /\ WordsInStep => ReportShowsWhy
  BY LeavesAreOfAKind, MeasuresAreShown, AllIsOfAKind DEF ReportShowsWhy, MeasuredPair, Measurements
<1> QED BY <1>1, ShownInvariantHolds, PairIsMeasurableHolds, WordsInStepHolds, PTL

-----------------------------------------------------------------------------
(* What is told of a signal with the sides exchanged: the same, with the    *)
(* same cause, unless both sides are lost in one way.                       *)
Agree(there, back, alike) ==
  /\ there = Signal(there.kind, there.overlap, there.cause)
  /\ back = Signal(there.kind, there.overlap, back.cause)
  /\ back.cause # there.cause => alike

LEMMA KindsHaveNoSide == ASSUME NEW outcomes PROVE Kinds(Swapped(outcomes)) = Kinds(outcomes)
<1>1. Kinds(Swapped(outcomes)) = {outcomes["b"].kind, outcomes["a"].kind}
  BY SwappedSides DEF Kinds, Sides
<1>2. Kinds(outcomes) = {outcomes["a"].kind, outcomes["b"].kind}
  BY DEF Kinds, Sides
<1> QED BY <1>1, <1>2

LEMMA ToldFirstHasNoSide ==
  ASSUME NEW order, NEW outcomes, FirstShown(order, Kinds(outcomes)) \in Kinds(outcomes)
  PROVE  Agree(ToldFirst(order, outcomes), ToldFirst(order, Swapped(outcomes)),
               outcomes["a"].kind = outcomes["b"].kind)
<1> DEFINE first == FirstShown(order, Kinds(outcomes))
           x == outcomes["a"]
           y == outcomes["b"]
           back == Swapped(outcomes)
<1>1. ToldFirst(order, outcomes)
        = Signal(first, Absent, outcomes[IF x.kind = first THEN "a" ELSE "b"].cause)
  BY DEF ToldFirst
<1>2. ToldFirst(order, back) = Signal(first, Absent, back[IF back["a"].kind = first THEN "a" ELSE "b"].cause)
  BY KindsHaveNoSide DEF ToldFirst
<1>3. back["a"] = y /\ back["b"] = x
  BY SwappedSides
<1>4. first \in {x.kind, y.kind}
  BY DEF Kinds, Sides
<1>5. \A kind, c, d, alike : (d # c => alike) =>
        Agree(Signal(kind, Absent, c), Signal(kind, Absent, d), alike)
  BY DEF Agree, Signal
<1> HIDE DEF first, back, x, y
<1>6. CASE x.kind = first /\ y.kind = first
  <2>1. ToldFirst(order, outcomes) = Signal(first, Absent, x.cause)
    BY <1>1, <1>6 DEF x
  <2>2. ToldFirst(order, back) = Signal(first, Absent, y.cause)
    BY <1>2, <1>3, <1>6
  <2>3. outcomes["a"].kind = outcomes["b"].kind
    BY <1>6 DEF x, y
  <2>4. \A c : Signal(first, Absent, c) = [kind |-> first, overlap |-> Absent, cause |-> c]
    BY DEF Signal
  <2> QED BY <2>1, <2>2, <2>3, <2>4 DEF Agree, back
<1>7. CASE x.kind = first /\ y.kind # first
  <2>1. ToldFirst(order, outcomes) = Signal(first, Absent, x.cause)
    BY <1>1, <1>7 DEF x
  <2>2. ToldFirst(order, back) = Signal(first, Absent, x.cause)
    BY <1>2, <1>3, <1>7
  <2> QED BY <1>5, <2>1, <2>2 DEF back
<1>8. CASE x.kind # first /\ y.kind = first
  <2>1. ToldFirst(order, outcomes) = Signal(first, Absent, y.cause)
    BY <1>1, <1>8 DEF y
  <2>2. ToldFirst(order, back) = Signal(first, Absent, y.cause)
    BY <1>2, <1>3, <1>8
  <2> QED BY <1>5, <2>1, <2>2 DEF back
<1> QED BY <1>4, <1>6, <1>7, <1>8 DEF x, y, back

(* The same of the signals.                                                 *)
LEMMA ImportsHaveNoSide ==
  ASSUME NEW imports, \A s \in Sides : imports[s].kind \in {"Imports"} \cup ToSet(ImportReasons)
  PROVE  Agree(ImportOverlap(imports), ImportOverlap(Swapped(imports)),
               imports["a"].kind = imports["b"].kind)
<1>1. CASE Kinds(imports) = {"Imports"}
  <2> DEFINE sets(r) == [s \in Sides |-> r[s].set]
             measured(r) == Signal("Measured",
                                   Similarity(Cardinality(sets(r)["a"] \cap sets(r)["b"]),
                                              Cardinality(sets(r)["a"] \cup sets(r)["b"])), <<>>)
  <2>1. /\ ImportOverlap(imports) = measured(imports)
        /\ ImportOverlap(Swapped(imports)) = measured(Swapped(imports))
    BY <1>1, KindsHaveNoSide DEF ImportOverlap
  <2>2. /\ sets(Swapped(imports))["a"] = sets(imports)["b"]
        /\ sets(Swapped(imports))["b"] = sets(imports)["a"]
    BY SwappedSides DEF Sides
  <2> HIDE DEF sets
  <2>3. \A v, w : v \cap w = w \cap v /\ v \cup w = w \cup v
    OBVIOUS
  <2>4. measured(Swapped(imports)) = measured(imports)
    BY <2>2, <2>3
  <2>5. measured(imports) = Signal(measured(imports).kind, measured(imports).overlap,
                                   measured(imports).cause)
    BY DEF Signal
  <2> HIDE DEF measured
  <2> QED BY <2>1, <2>4, <2>5 DEF Agree
<1>2. CASE Kinds(imports) # {"Imports"}
  <2>1. PICK s \in Sides : imports[s].kind \in ToSet(ImportReasons)
    BY <1>2 DEF Kinds, Sides
  <2>2. FirstShown(ImportReasons, Kinds(imports)) \in Kinds(imports)
    BY <2>1, AReasonIsTold, ReasonsAreListed
  <2>3. /\ ImportOverlap(imports) = ToldFirst(ImportReasons, imports)
        /\ ImportOverlap(Swapped(imports)) = ToldFirst(ImportReasons, Swapped(imports))
    BY <1>2, KindsHaveNoSide DEF ImportOverlap
  <2> QED BY <2>2, <2>3, ToldFirstHasNoSide
<1> QED BY <1>1, <1>2

LEMMA TypesHaveNoSide ==
  ASSUME NEW types, \A s \in Sides : IsTold(types[s])
  PROVE  Agree(TypeMatch(types), TypeMatch(Swapped(types)),
               Reported(types)["a"].kind = Reported(types)["b"].kind)
<1>1. CASE Kinds(types) = {"Normalized"}
  <2>1. IsUnifiable(types["a"], types["b"]) <=> IsUnifiable(types["b"], types["a"])
    BY DEF IsUnifiable
  <2>2. TypeMatch(Swapped(types)) = TypeMatch(types)
    BY <1>1, <2>1, KindsHaveNoSide, SwappedSides DEF TypeMatch
  <2>3. TypeMatch(types) = Signal(TypeMatch(types).kind, TypeMatch(types).overlap,
                                  TypeMatch(types).cause)
    BY <1>1 DEF TypeMatch, Signal
  <2> QED BY <2>2, <2>3 DEF Agree
<1>2. CASE Kinds(types) # {"Normalized"}
  <2>1. PICK s \in Sides : types[s].kind # "Normalized"
    BY <1>2 DEF Kinds, Sides
  <2>2. Reported(types)[s].kind \in ToSet(TypeReasons)
    BY <2>1 DEF IsTold, Reported
  <2>3. FirstShown(TypeReasons, Kinds(Reported(types))) \in Kinds(Reported(types))
    BY <2>2, AReasonIsTold, ReasonsAreListed
  <2>4. Reported(Swapped(types)) = Swapped(Reported(types))
    <3>1. \A t \in Sides : Other[t] \in Sides
      BY DEF Sides, Other
    <3> QED BY <3>1 DEF Reported, Swapped
  <2>5. /\ TypeMatch(types) = ToldFirst(TypeReasons, Reported(types))
        /\ TypeMatch(Swapped(types)) = ToldFirst(TypeReasons, Reported(Swapped(types)))
    BY <1>2, KindsHaveNoSide DEF TypeMatch
  <2> QED BY <2>3, <2>4, <2>5, ToldFirstHasNoSide
<1> QED BY <1>1, <1>2

LEMMA DomainsHaveNoSide ==
  ASSUME NEW outcomes, NEW reasons, DOMAIN reasons \subseteq Nat,
         \A s \in Sides : outcomes[s].kind \in {"Counted"} \cup ToSet(reasons)
  PROVE  Agree(DomainOverlap(outcomes, reasons), DomainOverlap(Swapped(outcomes), reasons),
               outcomes["a"].kind = outcomes["b"].kind)
<1>1. CASE Kinds(outcomes) = {"Counted"}
  <2> DEFINE counts(r) == [s \in Sides |-> r[s].counts]
             measured(r) == Signal("Measured",
                                   Similarity(SharedDomains(counts(r)["a"], counts(r)["b"]),
                                              CombinedDomains(counts(r)["a"], counts(r)["b"])), <<>>)
  <2>1. /\ DomainOverlap(outcomes, reasons) = measured(outcomes)
        /\ DomainOverlap(Swapped(outcomes), reasons) = measured(Swapped(outcomes))
    BY <1>1, KindsHaveNoSide DEF DomainOverlap
  <2>2. /\ counts(Swapped(outcomes))["a"] = counts(outcomes)["b"]
        /\ counts(Swapped(outcomes))["b"] = counts(outcomes)["a"]
    BY SwappedSides DEF Sides
  <2> HIDE DEF counts
  <2>3. \A v, w : SharedDomains(v, w) = SharedDomains(w, v) /\ CombinedDomains(v, w) = CombinedDomains(w, v)
    <3>1. \A v, w : v \cap w = w \cap v /\ v \cup w = w \cup v
      OBVIOUS
    <3> QED BY <3>1 DEF SharedDomains, CombinedDomains
  <2>4. measured(Swapped(outcomes)) = measured(outcomes)
    BY <2>2, <2>3
  <2>5. measured(outcomes) = Signal(measured(outcomes).kind, measured(outcomes).overlap,
                                    measured(outcomes).cause)
    BY DEF Signal
  <2> HIDE DEF measured
  <2> QED BY <2>1, <2>4, <2>5 DEF Agree
<1>2. CASE Kinds(outcomes) # {"Counted"}
  <2>1. PICK s \in Sides : outcomes[s].kind \in ToSet(reasons)
    BY <1>2 DEF Kinds, Sides
  <2>2. FirstShown(reasons, Kinds(outcomes)) \in Kinds(outcomes)
    BY <2>1, AReasonIsTold
  <2>3. /\ DomainOverlap(outcomes, reasons) = ToldFirst(reasons, outcomes)
        /\ DomainOverlap(Swapped(outcomes), reasons) = ToldFirst(reasons, Swapped(outcomes))
    BY <1>2, KindsHaveNoSide DEF DomainOverlap
  <2> QED BY <2>2, <2>3, ToldFirstHasNoSide
<1> QED BY <1>1, <1>2

LEMMA SemanticsHaveNoSide ==
  ASSUME WordsInStep, stage = Turn("report"), NEW replies, NEW declarations,
         replies.types = Swapped(asked.types), replies.callers = Swapped(asked.callers),
         replies.callees = Swapped(asked.callees)
  PROVE  LET there == Semantics(asked, setup, declarations)
             back == Semantics(replies, setup, declarations)
             alike(f) == f["a"].kind = f["b"].kind
         IN  /\ Agree(there.types, back.types, alike(Reported(asked.types)))
             /\ Agree(there.callers, back.callers, alike(CallerDomains(asked.callers, declarations)))
             /\ Agree(there.callees, back.callees, alike(CalleeDomains(asked.callees, declarations)))
<1> DEFINE there == Semantics(asked, setup, declarations)
           back == Semantics(replies, setup, declarations)
           callers == CallerDomains(asked.callers, declarations)
           callees == CalleeDomains(asked.callees, declarations)
<1>1. CASE setup # "none"
  <2> DEFINE lost == Signal(setup, Absent, <<>>)
  <2>1. /\ there.types = lost /\ there.callers = lost /\ there.callees = lost
        /\ back.types = lost /\ back.callers = lost /\ back.callees = lost
    BY <1>1 DEF Semantics
  <2>2. lost = Signal(lost.kind, lost.overlap, lost.cause)
    BY DEF Signal
  <2> HIDE DEF lost, there, back
  <2>3. \A alike : Agree(lost, lost, alike)
    BY <2>2 DEF Agree
  <2> QED BY <2>1, <2>3 DEF there, back
<1>2. CASE setup = "none"
  <2>1. \A s \in Sides : Other[s] \in Sides /\ \A f : Swapped(f)[s] = f[Other[s]]
    BY DEF Sides, Other, Swapped
  <2>2. CallerDomains(replies.callers, declarations) = Swapped(callers)
    BY <2>1 DEF CallerDomains, Swapped
  <2>3. CalleeDomains(replies.callees, declarations) = Swapped(callees)
    BY <2>1 DEF CalleeDomains, Swapped
  <2>4. /\ there.types = TypeMatch(asked.types) /\ back.types = TypeMatch(Swapped(asked.types))
        /\ there.callers = DomainOverlap(callers, CallerReasons)
        /\ back.callers = DomainOverlap(Swapped(callers), CallerReasons)
        /\ there.callees = DomainOverlap(callees, CalleeReasons)
        /\ back.callees = DomainOverlap(Swapped(callees), CalleeReasons)
    BY <1>2, <2>2, <2>3 DEF Semantics
  <2>5. /\ \A s \in Sides : callers[s].kind \in {"Counted"} \cup ToSet(CallerReasons)
        /\ \A s \in Sides : callees[s].kind \in {"Counted"} \cup ToSet(CalleeReasons)
    BY <1>2, DomainsAreTold
  <2> HIDE DEF there, back, callers, callees
  <2>6. Agree(there.types, back.types, Reported(asked.types)["a"].kind = Reported(asked.types)["b"].kind)
    BY <1>2, <2>4, AnswersHaveAWord, TypesHaveNoSide
  <2>7. Agree(there.callers, back.callers, callers["a"].kind = callers["b"].kind)
    BY <2>4, <2>5, ReasonsAreListed, DomainsHaveNoSide
  <2>8. Agree(there.callees, back.callees, callees["a"].kind = callees["b"].kind)
    BY <2>4, <2>5, ReasonsAreListed, DomainsHaveNoSide
  <2> QED BY <2>6, <2>7, <2>8 DEF there, back, callers, callees
<1> QED BY <1>1, <1>2

(* The verdict looks at two names of a declaration, not at their sides, and *)
(* at no cause.                                                             *)
LEMMA VerdictHasNoSide ==
  ASSUME NEW m, NEW n, NEW thresholds,
         n.structure = m.structure, n.leaves = m.leaves,
         n.imports.kind = m.imports.kind, n.imports.overlap = m.imports.overlap,
         n.types.kind = m.types.kind,
         n.callers.kind = m.callers.kind, n.callers.overlap = m.callers.overlap,
         n.callees.kind = m.callees.kind, n.callees.overlap = m.callees.overlap,
         n.separation.steps = m.separation.steps,
         m.separation.declared = {Swapped(d) : d \in n.separation.declared}
  PROVE  VerdictOf(n, thresholds) = VerdictOf(m, thresholds)
<1> DEFINE D == n.separation.declared
           E == m.separation.declared
           v == Judged(n, thresholds)
           w == Judged(m, thresholds)
<1>1. /\ v.structure = w.structure /\ v.leaves = w.leaves /\ v.imports = w.imports
      /\ v.types = w.types /\ v.callers = w.callers /\ v.callees = w.callees
      /\ v.separation = n.separation /\ w.separation = m.separation
  BY DEF Judged, LevelOf
<1>2. E = {Swapped(d) : d \in D}
  OBVIOUS
<1>3. v.separation.declared = D /\ w.separation.declared = E /\ v.separation.steps = w.separation.steps
  BY <1>1
<1> HIDE DEF D, E, v, w
<1>4. D = {} <=> E = {}
  BY <1>2
<1>5. (\A d \in D : Judge!IsSameDomain(d)) <=> \A d \in E : Judge!IsSameDomain(d)
  <2>1. \A d : Judge!IsSameDomain(Swapped(d)) <=> Judge!IsSameDomain(d)
    <3>1. \A d : Swapped(d)["a"] = d["b"] /\ Swapped(d)["b"] = d["a"]
      BY SwappedSides
    <3> QED BY <3>1 DEF Judge!IsSameDomain
  <2> QED BY <1>2, <2>1
<1>6. Judge!DistanceLean(v.separation) = Judge!DistanceLean(w.separation)
  BY <1>3, <1>4, <1>5 DEF Judge!DistanceLean
<1>7. Judge!LeansOf(v, Crossed) = Judge!LeansOf(w, Crossed)
  BY <1>1, <1>6 DEF Judge!LeansOf
<1>8. Judge!ClassificationOf(v, Crossed) = Judge!ClassificationOf(w, Crossed)
  BY <1>1, <1>7 DEF Judge!ClassificationOf
<1> QED BY <1>8 DEF VerdictOf, v, w

(* `compare b a` would find what `compare a b` finds and come to the same   *)
(* verdict, whatever the two functions, the declarations and the server; of *)
(* a signal that is lost it would tell the same reason, and the same cause  *)
(* unless both functions lose the signal in the same way (measured_pair_of, *)
(* type_signature_match_of, ComparedLeaves).                                *)
THEOREM SidesInterchange == Spec => []SidesAreInterchangeable
<1>1. ShownInvariant /\ AskingInvariant /\ PairIsMeasurable /\ WordsInStep => SidesAreInterchangeable
  <2> DEFINE declarations == settings.declarations
             replies == [q \in DOMAIN asked |-> Swapped(asked[q])]
             there == MeasuredPair
             back == SwappedPair
             apart == ModuleSeparation(pair, declarations)
             mirrored == ModuleSeparation(Swapped(pair), declarations)
             se == Semantics(asked, setup, declarations)
             es == Semantics(replies, setup, declarations)
             im == ImportOverlap(ImportsIn(pair))
             mi == ImportOverlap(Swapped(ImportsIn(pair)))
             st == StructuralSimilarity(pair)
             le == LeafDivergence(pair)
             imports == ImportsIn(pair)["a"].kind = ImportsIn(pair)["b"].kind
             types == Reported(asked.types)["a"].kind = Reported(asked.types)["b"].kind
             callers == CallerDomains(asked.callers, declarations)["a"].kind
                          = CallerDomains(asked.callers, declarations)["b"].kind
             callees == CalleeDomains(asked.callees, declarations)["a"].kind
                          = CalleeDomains(asked.callees, declarations)["b"].kind
  <2> SUFFICES ASSUME ShownInvariant, AskingInvariant, PairIsMeasurable, WordsInStep,
                      stage = Turn("report")
               PROVE  /\ back.structure = there.structure /\ back.leaves = there.leaves
                      /\ MirroredSeparation(back.separation) = there.separation
                      /\ \A q \in DOMAIN SidesFound :
                           /\ WithoutCause(back[q]) = WithoutCause(there[q])
                           /\ back[q].cause # there[q].cause => AreAlike(SidesFound[q])
                      /\ VerdictOf(back, settings.thresholds) = VerdictOf(there, settings.thresholds)
    BY DEF SidesAreInterchangeable, Interchangeable
  <2>1. \A s \in Sides : Located(s)
    BY DEF Located, Turn
  <2>2. \A s \in Sides : /\ pair[s].path = Sources[request[s].path].path
                         /\ request[s].path \in DOMAIN Sources /\ IsCounted(pair[s].leaves)
    BY <2>1, LocatedIsMeasurable DEF ShownInvariant, PairIsCut
  <2>3. \A s \in Sides : pair[s].path.segments \in Seq(STRING)
    BY <2>2, SourcesAssumption
  <2>4. /\ mirrored.steps = apart.steps
        /\ apart.declared = {Swapped(d) : d \in mirrored.declared}
    BY <2>3, SeparationIsMirrored DEF Sides
  <2>5. /\ apart = [steps |-> apart.steps, declared |-> apart.declared]
        /\ mirrored = [steps |-> mirrored.steps, declared |-> mirrored.declared]
    BY DEF ModuleSeparation
  <2>6. /\ replies.types = Swapped(asked.types) /\ replies.callers = Swapped(asked.callers)
        /\ replies.callees = Swapped(asked.callees)
    BY QuestionsNamed DEF AskingInvariant, IsAsked, QuestionNames
  <2>7. back = Measurements(Swapped(pair), replies, setup, declarations)
    BY DEF SwappedPair
  <2> HIDE DEF replies
  <2>8. /\ Agree(se.types, es.types, types) /\ Agree(se.callers, es.callers, callers)
        /\ Agree(se.callees, es.callees, callees)
    BY <2>6, SemanticsHaveNoSide
  <2>9. /\ StructuralSimilarity(Swapped(pair)) = st /\ LeafDivergence(Swapped(pair)) = le
    BY <2>2, StructureHasNoSide, DivergenceHasNoSide DEF Sides
  <2>10. Agree(im, mi, imports)
    BY ImportsAreTold, ImportsHaveNoSide
  <2>11. ImportsIn(Swapped(pair)) = Swapped(ImportsIn(pair))
    <3>1. \A t \in Sides : Other[t] \in Sides
      BY DEF Sides, Other
    <3> QED BY <3>1 DEF ImportsIn, Swapped
  <2>12. /\ there.structure = st /\ there.leaves = le /\ there.imports = im /\ there.types = se.types
         /\ there.callers = se.callers /\ there.callees = se.callees /\ there.separation = apart
    BY DEF MeasuredPair, Measurements
  <2>13. /\ back.structure = st /\ back.leaves = le /\ back.imports = mi /\ back.types = es.types
         /\ back.callers = es.callers /\ back.callees = es.callees /\ back.separation = mirrored
    BY <2>7, <2>9, <2>11 DEF Measurements
  <2>14. /\ SidesFound = [imports |-> ImportsIn(pair), types |-> Reported(asked.types),
                          callers |-> CallerDomains(asked.callers, declarations),
                          callees |-> CalleeDomains(asked.callees, declarations)]
         /\ DOMAIN SidesFound = {"imports", "types", "callers", "callees"}
    BY DEF SidesFound
  <2>15. /\ AreAlike(SidesFound["imports"]) <=> imports
         /\ AreAlike(SidesFound["types"]) <=> types
         /\ AreAlike(SidesFound["callers"]) <=> callers
         /\ AreAlike(SidesFound["callees"]) <=> callees
    BY <2>14 DEF AreAlike
  <2> HIDE DEF there, back, apart, mirrored, st, le, im, mi, se, es, imports, types, callers, callees
  <2>16. \A v, w, alike : Agree(v, w, alike) =>
            /\ WithoutCause(v) = WithoutCause(w) /\ w.kind = v.kind /\ w.overlap = v.overlap
            /\ w.cause # v.cause => alike
    BY DEF Agree, WithoutCause, Signal
  <2>17. MirroredSeparation(back.separation) = there.separation
    BY <2>4, <2>5, <2>12, <2>13 DEF MirroredSeparation
  <2>18. /\ Agree(there.imports, back.imports, imports) /\ Agree(there.types, back.types, types)
         /\ Agree(there.callers, back.callers, callers) /\ Agree(there.callees, back.callees, callees)
    BY <2>8, <2>10, <2>12, <2>13
  <2>19. ASSUME NEW q \in DOMAIN SidesFound
         PROVE  /\ WithoutCause(back[q]) = WithoutCause(there[q])
                /\ back[q].cause # there[q].cause => AreAlike(SidesFound[q])
    BY <2>14, <2>15, <2>16, <2>18
  <2>20. VerdictOf(back, settings.thresholds) = VerdictOf(there, settings.thresholds)
    <3>1. /\ back.imports.kind = there.imports.kind /\ back.imports.overlap = there.imports.overlap
          /\ back.types.kind = there.types.kind
          /\ back.callers.kind = there.callers.kind /\ back.callers.overlap = there.callers.overlap
          /\ back.callees.kind = there.callees.kind /\ back.callees.overlap = there.callees.overlap
      BY <2>16, <2>18
    <3>2. /\ back.separation.steps = there.separation.steps
          /\ there.separation.declared = {Swapped(d) : d \in back.separation.declared}
      BY <2>4, <2>12, <2>13
    <3> QED BY <2>12, <2>13, <3>1, <3>2, VerdictHasNoSide
  <2> QED BY <2>12, <2>13, <2>17, <2>19, <2>20
<1> QED BY <1>1, ShownInvariantHolds, AskingInvariantHolds, PairIsMeasurableHolds, WordsInStepHolds, PTL

-----------------------------------------------------------------------------
(* Reading lines, one after the other, from one reading to another.         *)
CountedTo(s, n) == n \in Nat /\ s = [i \in 1..n |-> s[i]]

LineByLine(at, r, lines, n, out) ==
  at[0] = r /\ at[n] = out /\ \A k \in 1..n : at[k] = ReadLine(at[k - 1], lines[k])

Reads(r, lines, out) == \E n : CountedTo(lines, n) /\ \E at : LineByLine(at, r, lines, n, out)

LEMMA ReadIsTheLast ==
  ASSUME NEW r, NEW lines, NEW out, Reads(r, lines, out)
  PROVE  ReadUpTo(r, lines)[Len(lines)] = out
<1>0. PICK n, at : CountedTo(lines, n) /\ LineByLine(at, r, lines, n, out)
  BY DEF Reads
<1>1. n \in Nat /\ lines = [i \in 1..n |-> lines[i]]
  BY <1>0 DEF CountedTo
<1>2. at[0] = r /\ at[n] = out /\ \A k \in 1..n : at[k] = ReadLine(at[k - 1], lines[k])
  BY <1>0 DEF LineByLine
<1>3. Len(lines) = n
  BY <1>1, HasItsLength
<1> DEFINE Goes(f) == f = [k \in 0..n |-> IF k = 0 THEN r ELSE ReadLine(f[k - 1], lines[k])]
           u == ReadUpTo(r, lines)
           f == [k \in 0..n |-> at[k]]
<1>4. u = CHOOSE g : Goes(g)
  BY <1>3 DEF ReadUpTo
<1> HIDE DEF u
<1>5. Goes(f)
  <2> SUFFICES ASSUME NEW k \in 0..n PROVE f[k] = IF k = 0 THEN r ELSE ReadLine(f[k - 1], lines[k])
    OBVIOUS
  <2>1. CASE k = 0
    BY <1>2, <2>1
  <2>2. CASE k # 0
    <3>1. k \in 1..n /\ k - 1 \in 0..n
      BY <1>1, <2>2
    <3> QED BY <1>2, <2>2, <3>1
  <2> QED BY <2>1, <2>2
<1> HIDE DEF f
<1>6. Goes(u)
  BY <1>4, <1>5
<1>7. \A k \in 0..n : u[k] = IF k = 0 THEN r ELSE ReadLine(u[k - 1], lines[k])
  BY <1>6
<1> DEFINE T == {k \in 0..n : u[k] = at[k]}
<1>8. 0 \in T
  BY <1>1, <1>2, <1>7
<1>9. ASSUME NEW k \in 0..n - 1, k \in T PROVE k + 1 \in T
  <2>1. k + 1 \in 0..n /\ k + 1 \in 1..n /\ k + 1 # 0 /\ k + 1 - 1 = k
    BY <1>1
  <2>2. u[k + 1] = ReadLine(u[k], lines[k + 1]) /\ at[k + 1] = ReadLine(at[k], lines[k + 1])
    BY <1>2, <1>7, <2>1
  <2> QED BY <1>9, <2>1, <2>2
<1> HIDE DEF T
<1>10. \A k \in 0..n : k \in T
  BY <1>1, <1>8, <1>9, CountingUp
<1>11. u[n] = at[n]
  BY <1>1, <1>10 DEF T
<1> QED BY <1>2, <1>3, <1>11 DEF u

PutTogether(u, s, m, t, n) ==
  /\ CountedTo(u, m + n)
  /\ \A i \in 1..m : u[i] = s[i]
  /\ \A i \in 1..n : u[m + i] = t[i]

LEMMA JoinedSequences ==
  ASSUME NEW m, NEW n, NEW s, NEW t, CountedTo(s, m), CountedTo(t, n)
  PROVE  PutTogether(s \o t, s, m, t, n)
<1>0. m \in Nat /\ n \in Nat /\ s = [i \in 1..m |-> s[i]] /\ t = [i \in 1..n |-> t[i]]
  BY DEF CountedTo
<1>1. Len(s) = m /\ Len(t) = n
  BY <1>0, HasItsLength
<1> DEFINE u == s \o t
<1>2. u = [i \in 1..(m + n) |-> IF i <= m THEN s[i] ELSE t[i - m]]
  BY <1>0, <1>1
<1> HIDE DEF u
<1>3. \A i \in 1..m : i \in 1..(m + n) /\ i <= m
  BY <1>0
<1>4. \A i \in 1..n : m + i \in 1..(m + n) /\ ~(m + i <= m) /\ m + i - m = i
  BY <1>0
<1>5. \A i \in 1..m : u[i] = s[i]
  BY <1>2, <1>3
<1>6. \A i \in 1..n : u[m + i] = t[i]
  <2> SUFFICES ASSUME NEW i \in 1..n PROVE u[m + i] = t[i]
    OBVIOUS
  <2>1. PICK x \in Int : x = m + i
    BY <1>0
  <2>2. x \in 1..(m + n) /\ ~(x <= m) /\ x - m = i
    BY <1>0, <2>1
  <2>3. u[x] = t[x - m]
    BY <1>2, <2>2
  <2> QED BY <2>1, <2>2, <2>3
<1>7. CountedTo(u, m + n)
  BY <1>0, <1>2 DEF CountedTo
<1> QED BY <1>5, <1>6, <1>7 DEF u, PutTogether

LEMMA ReadsOn ==
  ASSUME NEW r, NEW s, NEW mid, NEW t, NEW out, Reads(r, s, mid), Reads(mid, t, out)
  PROVE  Reads(r, s \o t, out)
<1>1. PICK m, f : CountedTo(s, m) /\ LineByLine(f, r, s, m, mid)
  BY DEF Reads
<1>2. m \in Nat /\ f[0] = r /\ f[m] = mid /\ \A k \in 1..m : f[k] = ReadLine(f[k - 1], s[k])
  BY <1>1 DEF LineByLine, CountedTo
<1>3. PICK n, g : CountedTo(t, n) /\ LineByLine(g, mid, t, n, out)
  BY DEF Reads
<1>4. n \in Nat /\ g[0] = mid /\ g[n] = out /\ \A k \in 1..n : g[k] = ReadLine(g[k - 1], t[k])
  BY <1>3 DEF LineByLine, CountedTo
<1> DEFINE u == s \o t
           at == [k \in 0..(m + n) |-> IF k <= m THEN f[k] ELSE g[k - m]]
<1>5. /\ CountedTo(u, m + n)
      /\ \A i \in 1..m : u[i] = s[i]
      /\ \A i \in 1..n : u[m + i] = t[i]
  <2> HIDE DEF u
  <2>1. PutTogether(s \o t, s, m, t, n)
    BY <1>1, <1>3, JoinedSequences, Zenon
  <2> QED BY <2>1 DEF u, PutTogether
<1> HIDE DEF u
<1>6. at[0] = r /\ at[m + n] = out
  <2>1. 0 \in 0..(m + n) /\ m + n \in 0..(m + n) /\ m + n - m = n
    BY <1>2, <1>4
  <2>2. n = 0 => g[n] = f[m]
    BY <1>2, <1>4
  <2> QED BY <1>2, <1>4, <2>1, <2>2
<1>7. ASSUME NEW k \in 1..(m + n) PROVE at[k] = ReadLine(at[k - 1], u[k])
  <2>1. k \in 0..(m + n) /\ k - 1 \in 0..(m + n)
    BY <1>2, <1>4
  <2>2. CASE k \in 1..m
    <3>1. k <= m /\ k - 1 <= m
      BY <1>2, <1>4, <2>2
    <3>2. at[k] = f[k] /\ at[k - 1] = f[k - 1]
      BY <2>1, <3>1
    <3> HIDE DEF at
    <3> QED BY <1>2, <1>5, <2>2, <3>2
  <2>3. CASE k = m + 1
    <3>1. ~(k <= m) /\ k - 1 = m /\ k - m = 1 /\ 1 \in 1..n
      BY <1>2, <1>4, <2>3
    <3>2. at[k] = g[1] /\ at[k - 1] = f[m]
      BY <2>1, <3>1
    <3>3. u[k] = t[1]
      BY <1>5, <2>3, <3>1
    <3> HIDE DEF at
    <3>4. g[1] = ReadLine(g[1 - 1], t[1]) /\ 1 - 1 = 0
      BY <1>4, <3>1
    <3> QED BY <1>2, <1>4, <3>2, <3>3, <3>4
  <2>4. CASE k > m + 1
    <3>1. /\ ~(k <= m) /\ ~(k - 1 <= m) /\ k - m \in 1..n /\ k - 1 - m = k - m - 1
          /\ m + (k - m) = k
      BY <1>2, <1>4, <2>4
    <3>2. at[k] = g[k - m] /\ at[k - 1] = g[k - m - 1]
      BY <2>1, <3>1
    <3>3. u[k] = t[k - m]
      BY <1>5, <3>1
    <3> HIDE DEF at
    <3> QED BY <1>4, <3>1, <3>2, <3>3
  <2> QED BY <1>2, <1>4, <2>2, <2>3, <2>4
<1> HIDE DEF at
<1>8. \A k \in 1..(m + n) : at[k] = ReadLine(at[k - 1], u[k])
  BY <1>7, Zenon
<1>9. LineByLine(at, r, u, m + n, out)
  BY <1>6, <1>8, Zenon DEF LineByLine
<1> QED BY <1>5, <1>9, Zenon DEF Reads, u

LEMMA ReadsNothing == ASSUME NEW r PROVE Reads(r, <<>>, r)
<1> DEFINE at == [k \in 0..0 |-> r]
<1>1. CountedTo(<<>>, 0)
  BY DEF CountedTo
<1>2. at[0] = r /\ 1..0 = {}
  OBVIOUS
<1> HIDE DEF at
<1>3. LineByLine(at, r, <<>>, 0, r)
  BY <1>2 DEF LineByLine
<1> QED BY <1>1, <1>3, Zenon DEF Reads

LEMMA ReadsOne == ASSUME NEW r, NEW line PROVE Reads(r, <<line>>, ReadLine(r, line))
<1> DEFINE at == [k \in 0..1 |-> IF k = 0 THEN r ELSE ReadLine(r, line)]
           s == <<line>>
<1>1. CountedTo(s, 1) /\ s[1] = line
  BY DEF CountedTo
<1>2. at[0] = r /\ at[1] = ReadLine(r, line) /\ 1..1 = {1} /\ 1 - 1 = 0
  OBVIOUS
<1> HIDE DEF at, s
<1>3. \A k \in 1..1 : at[k] = ReadLine(at[k - 1], s[k])
  BY <1>1, <1>2
<1>4. LineByLine(at, r, s, 1, ReadLine(r, line))
  BY <1>2, <1>3, Zenon DEF LineByLine
<1>5. Reads(r, s, ReadLine(r, line))
  BY <1>1, <1>4, Zenon DEF Reads
<1> QED BY <1>5 DEF s

-----------------------------------------------------------------------------
(* What has been read of the edited file, so many lines before the end of a *)
(* hunk.                                                                    *)
InFile(removed, added, hunks) ==
  [removed |-> removed, added |-> added, current |-> Edited, hunks |-> hunks, failure |-> "none"]

LEMMA DeletionIsRead ==
  ASSUME NEW d \in Nat, d > 0, NEW a \in Nat, NEW H
  PROVE  ReadLine(InFile(d, a, H), Line("-", "none")) = InFile(d - 1, a, H)
BY DEF ReadLine, InFile, Line, InBody, ReadBody

LEMMA AdditionIsRead ==
  ASSUME NEW a \in Nat, a > 0, NEW H, NEW text
  PROVE  ReadLine(InFile(0, a, H), Added(text)) = InFile(0, a - 1, H)
<1>1. Added(text).first = "+"
  BY DEF Added, Line
<1> QED BY <1>1 DEF ReadLine, InFile, InBody, ReadBody

LEMMA NoNewlineIsRead ==
  ASSUME NEW a \in Nat, NEW H
  PROVE  ReadLine(InFile(0, a, H), Line("backslash", "none")) = InFile(0, a, H)
BY DEF ReadLine, InFile, Line, InBody, ReadBody, ReadHeading

(* A hunk of the edited file, where it is on the new side.                  *)
Place(first, last) == [path |-> Edited, hunk |-> NewSide(HeadingOf(first, last))]

LEMMA HeadingIsRead ==
  ASSUME NEW first, NEW last, NEW H
  PROVE  ReadLine(InFile(0, 0, H), HeadingOf(first, last))
           = InFile(HeadingOf(first, last).old, HeadingOf(first, last).new, H \cup {Place(first, last)})
<1> DEFINE line == HeadingOf(first, last)
<1>1. line.heading = "@@"
  BY DEF HeadingOf, Line
<1>2. Edited # NoPath
  BY DEF Edited, NoPath
<1> HIDE DEF line
<1> DEFINE r == InFile(0, 0, H)
<1>3. r.failure = "none" /\ ~InBody(r) /\ r.current = Edited /\ r.hunks = H
  BY DEF InFile, InBody
<1>4. ReadLine(r, line) = ReadHeading(r, line)
  BY <1>3 DEF ReadLine
<1>5. ReadHeading(r, line) =
        [r EXCEPT !.removed = line.old, !.added = line.new,
                  !.hunks = H \cup {[path |-> Edited, hunk |-> NewSide(line)]}]
  BY <1>1, <1>2, <1>3 DEF ReadHeading
<1>6. Place(first, last) = [path |-> Edited, hunk |-> NewSide(line)]
  BY DEF Place, line
<1> QED BY <1>4, <1>5, <1>6 DEF InFile, line

LEMMA DeletionsAreRead ==
  ASSUME NEW d \in Nat, NEW a \in Nat, NEW H
  PROVE  Reads(InFile(d, a, H), [i \in 1..d |-> Line("-", "none")], InFile(0, a, H))
<1> DEFINE s == [i \in 1..d |-> Line("-", "none")]
           at == [k \in 0..d |-> InFile(d - k, a, H)]
<1>1. CountedTo(s, d)
  BY DEF CountedTo
<1>2. at[0] = InFile(d, a, H) /\ at[d] = InFile(0, a, H)
  <2>1. 0 \in 0..d /\ d \in 0..d /\ d - 0 = d /\ d - d = 0
    OBVIOUS
  <2> QED BY <2>1
<1>3. ASSUME NEW k \in 1..d PROVE at[k] = ReadLine(at[k - 1], s[k])
  <2>1. k \in 0..d /\ k - 1 \in 0..d /\ d - (k - 1) \in Nat /\ d - (k - 1) > 0 /\ d - (k - 1) - 1 = d - k
    OBVIOUS
  <2>2. at[k] = InFile(d - k, a, H) /\ at[k - 1] = InFile(d - (k - 1), a, H) /\ s[k] = Line("-", "none")
    BY <2>1
  <2>3. ReadLine(InFile(d - (k - 1), a, H), Line("-", "none")) = InFile(d - (k - 1) - 1, a, H)
    BY <2>1, DeletionIsRead
  <2> HIDE DEF at, s
  <2> QED BY <2>1, <2>2, <2>3
<1> HIDE DEF at, s
<1>4. LineByLine(at, InFile(d, a, H), s, d, InFile(0, a, H))
  BY <1>2, <1>3, Zenon DEF LineByLine
<1>5. Reads(InFile(d, a, H), s, InFile(0, a, H))
  BY <1>1, <1>4, Zenon DEF Reads
<1> QED BY <1>5 DEF s

LEMMA AdditionsAreRead ==
  ASSUME NEW a, NEW H, NEW s, CountedTo(s, a), \A i \in 1..a : \E text : s[i] = Added(text)
  PROVE  Reads(InFile(0, a, H), s, InFile(0, 0, H))
<1> DEFINE at == [k \in 0..a |-> InFile(0, a - k, H)]
<1>1. a \in Nat
  BY DEF CountedTo
<1>2. at[0] = InFile(0, a, H) /\ at[a] = InFile(0, 0, H)
  <2>1. 0 \in 0..a /\ a \in 0..a /\ a - 0 = a /\ a - a = 0
    BY <1>1
  <2> QED BY <2>1
<1>3. ASSUME NEW k \in 1..a PROVE at[k] = ReadLine(at[k - 1], s[k])
  <2>1. k \in 0..a /\ k - 1 \in 0..a /\ a - (k - 1) \in Nat /\ a - (k - 1) > 0 /\ a - (k - 1) - 1 = a - k
    BY <1>1
  <2>2. at[k] = InFile(0, a - k, H) /\ at[k - 1] = InFile(0, a - (k - 1), H)
    BY <2>1
  <2>3. PICK text : s[k] = Added(text)
    OBVIOUS
  <2>4. ReadLine(InFile(0, a - (k - 1), H), Added(text)) = InFile(0, a - (k - 1) - 1, H)
    BY <2>1, AdditionIsRead
  <2> HIDE DEF at
  <2> QED BY <2>1, <2>2, <2>3, <2>4
<1> HIDE DEF at
<1>4. LineByLine(at, InFile(0, a, H), s, a, InFile(0, 0, H))
  BY <1>2, <1>3, Zenon DEF LineByLine
<1> QED BY <1>4, Zenon DEF Reads

LEMMA HowOftenIsCounted ==
  ASSUME NEW hows, NEW f \in Nat, NEW l \in Nat PROVE Count(hows, f..l) \in Nat
<1>1. IsFiniteSet(f..l)
  BY FS_Interval
<1>2. {i \in f..l : script[i].how \in hows} \in SUBSET (f..l)
  OBVIOUS
<1> QED BY <1>1, <1>2, FS_Subset, FS_CardinalityType DEF Count

LEMMA AddedLinesAreThere ==
  ASSUME FilesInStep, NEW l \in 1..Len(script), NEW f \in 1..l, NEW added,
         added = AtPlaces([i \in DOMAIN script |-> Added(script[i].text)],
                          {i \in f..l : script[i].how = "add"})
  PROVE  /\ CountedTo(added, Count({"add"}, f..l))
         /\ \A k \in 1..Count({"add"}, f..l) : \E text : added[k] = Added(text)
<1> DEFINE places == {i \in f..l : script[i].how = "add"}
           texts == [i \in DOMAIN script |-> Added(script[i].text)]
<1>1. DOMAIN script = 1..Len(script) /\ Len(script) \in Nat
  BY DEF FilesInStep
<1>2. f..l \subseteq DOMAIN script /\ f..l \subseteq Nat /\ f \in Nat /\ l \in Nat
  BY <1>1
<1>3. places \in SUBSET Nat /\ IsFiniteSet(places) /\ places \subseteq DOMAIN script
  <2>1. IsFiniteSet(f..l) /\ places \in SUBSET (f..l)
    BY <1>2, FS_Interval
  <2> QED BY <1>2, <2>1, FS_Subset
<1>4. Count({"add"}, f..l) = Cardinality(places)
  <2>1. {i \in f..l : script[i].how \in {"add"}} = places
    OBVIOUS
  <2> QED BY <2>1 DEF Count
<1>5. \A j \in places : texts[j] = Added(script[j].text)
  BY <1>3
<1> HIDE DEF places, texts
<1>6. /\ Cardinality(places) \in Nat /\ DOMAIN AtPlaces(texts, places) = 1..Cardinality(places)
      /\ \A k \in DOMAIN AtPlaces(texts, places) : \E j \in places : AtPlaces(texts, places)[k] = texts[j]
  <2>1. Cardinality(places) \in Nat /\ DOMAIN AtPlaces(texts, places) = 1..Cardinality(places)
    BY <1>3, PlacesAreCounted, ZenonT(60)
  <2>2. \A k \in DOMAIN AtPlaces(texts, places) :
          \E j \in places : AtPlaces(texts, places)[k] = texts[j]
    BY <1>3, PlacesAreCounted, ZenonT(60)
  <2> QED BY <2>1, <2>2, Zenon
<1>7. AtPlaces(texts, places) = [k \in DOMAIN AtPlaces(texts, places) |-> AtPlaces(texts, places)[k]]
  BY DEF AtPlaces
<1>8. added = AtPlaces(texts, places)
  BY DEF texts, places
<1>9. CountedTo(added, Cardinality(places))
  BY <1>6, <1>7, <1>8 DEF CountedTo
<1>10. ASSUME NEW k \in 1..Cardinality(places) PROVE \E text : added[k] = Added(text)
  <2>1. PICK j \in places : added[k] = texts[j]
    BY <1>6, <1>8
  <2> QED BY <1>5, <2>1
<1> QED BY <1>4, <1>9, <1>10

LEMMA HunkIsRead ==
  ASSUME FilesInStep, NEW l \in 1..Len(script), NEW f \in 1..l, NEW H
  PROVE  Reads(InFile(0, 0, H), HunkOf(f, l), InFile(0, 0, H \cup {Place(f, l)}))
<1> DEFINE d == Count({"delete"}, f..l)
           a == Count({"add"}, f..l)
           G == H \cup {Place(f, l)}
           heading == HeadingOf(f, l)
           deletions == [i \in 1..d |-> Line("-", "none")]
           mark == IF l = Len(script) /\ d > 0 /\ a > 0 THEN <<Line("backslash", "none")>> ELSE <<>>
           added == AtPlaces([i \in DOMAIN script |-> Added(script[i].text)],
                             {i \in f..l : script[i].how = "add"})
<1>1. f \in Nat /\ l \in Nat
  OBVIOUS
<1>2. d \in Nat /\ a \in Nat
  BY <1>1, HowOftenIsCounted
<1>3. heading.old = d /\ heading.new = a
  BY DEF HeadingOf, Line
<1>4. HunkOf(f, l) = <<heading>> \o deletions \o mark \o added \o mark
  BY <1>3 DEF HunkOf
<1>5. CountedTo(added, a) /\ \A k \in 1..a : \E text : added[k] = Added(text)
  <2> HIDE DEF added
  <2>1. added = AtPlaces([i \in DOMAIN script |-> Added(script[i].text)],
                         {i \in f..l : script[i].how = "add"})
    BY DEF added
  <2> QED BY <2>1, AddedLinesAreThere, ZenonT(60)
<1>6. Reads(InFile(0, 0, H), <<heading>>, InFile(d, a, G))
  <2>1. ReadLine(InFile(0, 0, H), heading) = InFile(d, a, G)
    BY <1>3, HeadingIsRead
  <2> QED BY <2>1, ReadsOne
<1> HIDE DEF d, a, G, heading
<1>7. Reads(InFile(d, a, G), deletions, InFile(0, a, G))
  BY <1>2, DeletionsAreRead
<1>8. ASSUME NEW n \in Nat PROVE Reads(InFile(0, n, G), mark, InFile(0, n, G))
  <2>1. Reads(InFile(0, n, G), <<>>, InFile(0, n, G))
    BY ReadsNothing
  <2>2. ReadLine(InFile(0, n, G), Line("backslash", "none")) = InFile(0, n, G)
    BY NoNewlineIsRead
  <2>3. Reads(InFile(0, n, G), <<Line("backslash", "none")>>, InFile(0, n, G))
    BY <2>2, ReadsOne
  <2> QED BY <2>1, <2>3
<1> HIDE DEF deletions, mark, added
<1>9. Reads(InFile(0, a, G), added, InFile(0, 0, G))
  BY <1>5, AdditionsAreRead
<1>10. Reads(InFile(0, 0, H), <<heading>> \o deletions, InFile(0, a, G))
  BY <1>6, <1>7, ReadsOn
<1>11. Reads(InFile(0, 0, H), <<heading>> \o deletions \o mark, InFile(0, a, G))
  BY <1>2, <1>8, <1>10, ReadsOn
<1>12. Reads(InFile(0, 0, H), <<heading>> \o deletions \o mark \o added, InFile(0, 0, G))
  BY <1>9, <1>11, ReadsOn
<1>13. Reads(InFile(0, 0, G), mark, InFile(0, 0, G))
  BY <1>8
<1>14. Reads(InFile(0, 0, H), <<heading>> \o deletions \o mark \o added \o mark, InFile(0, 0, G))
  BY <1>12, <1>13, ReadsOn
<1> QED BY <1>4, <1>14 DEF G

-----------------------------------------------------------------------------
(* What is put together piece by piece.                                     *)
Piecewise(f, pieces, n) == f[0] = <<>> /\ \A k \in 1..n : f[k] = f[k - 1] \o pieces[k]

LEMMA PiecesAddUp ==
  ASSUME NEW n \in Nat, NEW pieces
  PROVE  \E f : f = [k \in 0..n |-> f[k]] /\ Piecewise(f, pieces, n)
<1> DEFINE Goes(f, m) == f = [k \in 0..m |-> f[k]] /\ Piecewise(f, pieces, m)
           T == {m \in 0..n : \E f : Goes(f, m)}
<1>1. 0 \in T
  <2> DEFINE f == [k \in 0..0 |-> <<>>]
  <2>1. f = [k \in 0..0 |-> f[k]] /\ f[0] = <<>> /\ 1..0 = {} /\ 0 \in 0..n
    OBVIOUS
  <2> HIDE DEF f
  <2>2. Goes(f, 0)
    BY <2>1 DEF Piecewise
  <2> QED BY <2>1, <2>2
<1>2. ASSUME NEW m \in 0..n - 1, m \in T PROVE m + 1 \in T
  <2>1. PICK f : Goes(f, m)
    BY <1>2
  <2>2. m \in Nat /\ m \in 0..m /\ m + 1 \in 0..n
    OBVIOUS
  <2> DEFINE g == [k \in 0..m + 1 |-> IF k = m + 1 THEN f[m] \o pieces[m + 1] ELSE f[k]]
  <2>3. g = [k \in 0..m + 1 |-> g[k]]
    OBVIOUS
  <2>4. g[0] = <<>>
    <3>1. 0 \in 0..m + 1 /\ 0 # m + 1
      BY <2>2, SMTT(30)
    <3> QED BY <2>1, <3>1 DEF Piecewise
  <2>5. ASSUME NEW k \in 1..m + 1 PROVE g[k] = g[k - 1] \o pieces[k]
    <3>1. CASE k = m + 1
      <4>1. k - 1 = m /\ k - 1 \in 0..m + 1 /\ k - 1 # m + 1 /\ k \in 0..m + 1
        BY <2>2, <3>1
      <4>2. g[k] = f[m] \o pieces[k] /\ g[k - 1] = f[m]
        BY <3>1, <4>1
      <4> HIDE DEF g
      <4> QED BY <4>2
    <3>2. CASE k # m + 1
      <4>1. k \in 1..m /\ k \in 0..m + 1 /\ k - 1 \in 0..m + 1 /\ k - 1 # m + 1
        BY <2>2, <3>2
      <4>2. g[k] = f[k] /\ g[k - 1] = f[k - 1]
        BY <3>2, <4>1
      <4>3. f[k] = f[k - 1] \o pieces[k]
        BY <2>1, <4>1 DEF Piecewise
      <4> HIDE DEF g
      <4> QED BY <4>2, <4>3
    <3> QED BY <3>1, <3>2, Zenon
  <2> HIDE DEF g
  <2>6. Goes(g, m + 1)
    BY <2>3, <2>4, <2>5 DEF Piecewise
  <2> QED BY <2>2, <2>6
<1> HIDE DEF T
<1>3. \A m \in 0..n : m \in T
  BY <1>1, <1>2, CountingUp
<1>4. n \in T
  BY <1>3
<1> QED BY <1>4 DEF T

LEMMA HunksAreThere ==
  ASSUME FilesInStep
  PROVE  /\ HunksUpTo[0] = <<>>
         /\ \A i \in 1..Len(script) :
              HunksUpTo[i] = HunksUpTo[i - 1] \o IF EndsRun(i) THEN HunkOf(RunUpTo(i), i) ELSE <<>>
<1> DEFINE N == Len(script)
           piece(i) == IF EndsRun(i) THEN HunkOf(RunUpTo(i), i) ELSE <<>>
           pieces == [i \in 1..N |-> piece(i)]
           Goes(f) == f = [i \in 0..N |-> IF i = 0 THEN <<>> ELSE f[i - 1] \o piece(i)]
           u == HunksUpTo
<1>1. N \in Nat
  BY DEF FilesInStep
<1>2. u = CHOOSE f : Goes(f)
  BY DEF HunksUpTo
<1> HIDE DEF piece, u
<1>3. \A i \in 1..N : pieces[i] = piece(i)
  OBVIOUS
<1> HIDE DEF pieces, N
<1>4. PICK f : f = [k \in 0..N |-> f[k]] /\ Piecewise(f, pieces, N)
  BY <1>1, PiecesAddUp
<1>5. \A k \in 0..N : f[k] = IF k = 0 THEN <<>> ELSE f[k - 1] \o piece(k)
  <2> SUFFICES ASSUME NEW k \in 0..N PROVE f[k] = IF k = 0 THEN <<>> ELSE f[k - 1] \o piece(k)
    OBVIOUS
  <2>1. CASE k = 0
    BY <1>4, <2>1 DEF Piecewise
  <2>2. CASE k # 0
    <3>1. k \in 1..N
      BY <1>1, <2>2
    <3> QED BY <1>3, <1>4, <2>2, <3>1 DEF Piecewise
  <2> QED BY <2>1, <2>2
<1>6. Goes(f)
  BY <1>4, <1>5, Zenon
<1>7. Goes(u)
  BY <1>2, <1>6, Zenon
<1>8. \A i \in 0..N : u[i] = IF i = 0 THEN <<>> ELSE u[i - 1] \o piece(i)
  BY <1>7
<1>9. 0 \in 0..N /\ \A i \in 1..N : i \in 0..N /\ i # 0
  BY <1>1
<1>10. u[0] = <<>> /\ \A i \in 1..N : u[i] = u[i - 1] \o piece(i)
  BY <1>8, <1>9
<1> QED BY <1>10 DEF u, N, piece

(* A run of edited lines begins after the last line that was kept.          *)
LEMMA RunIsThere ==
  ASSUME NEW i \in Nat \ {0}, ~Kept(i)
  PROVE  /\ RunUpTo(i) \in 1..i
         /\ \A k \in RunUpTo(i)..i : ~Kept(k)
         /\ \A j \in 1..i : (\A k \in j..i : ~Kept(k)) => RunUpTo(i) <= j
<1> DEFINE starts == {j \in 1..i : \A k \in j..i : ~Kept(k)}
<1>1. i \in starts
  <2>1. i \in 1..i /\ i..i = {i}
    OBVIOUS
  <2> QED BY <2>1
<1>2. starts \in SUBSET Nat
  OBVIOUS
<1>3. Min(starts) \in starts /\ \A x \in starts : Min(starts) <= x
  BY <1>1, <1>2, LeastIsThere
<1>4. RunUpTo(i) = Min(starts)
  BY DEF RunUpTo
<1> QED BY <1>3, <1>4

(* The hunks of the runs that end before a line.                            *)
Places(i) == {Place(RunUpTo(j), j) : j \in {k \in 1..i : EndsRun(k)}}

LEMMA HunksAreRead ==
  ASSUME FilesInStep
  PROVE  Reads(InFile(0, 0, {}), HunksUpTo[Len(script)], InFile(0, 0, Places(Len(script))))
<1> DEFINE N == Len(script)
           r == InFile(0, 0, {})
           T == {i \in 0..N : Reads(r, HunksUpTo[i], InFile(0, 0, Places(i)))}
<1>1. N \in Nat
  BY DEF FilesInStep
<1>2. 0 \in T
  <2>1. Places(0) = {}
    <3>1. 1..0 = {}
      OBVIOUS
    <3> QED BY <3>1 DEF Places
  <2>2. Reads(r, <<>>, r)
    BY ReadsNothing
  <2>3. HunksUpTo[0] = <<>>
    BY HunksAreThere
  <2>4. 0 \in 0..N
    BY <1>1
  <2> QED BY <2>1, <2>2, <2>3, <2>4, Zenon
<1>3. ASSUME NEW i \in 0..N - 1, i \in T PROVE i + 1 \in T
  <2>1. i \in Nat /\ i + 1 \in 1..N /\ i + 1 \in 0..N /\ i + 1 - 1 = i /\ i + 1 \in Nat \ {0}
    BY <1>1
  <2>2. Reads(r, HunksUpTo[i], InFile(0, 0, Places(i)))
    BY <1>3
  <2>3. HunksUpTo[i + 1] = HunksUpTo[i] \o IF EndsRun(i + 1) THEN HunkOf(RunUpTo(i + 1), i + 1) ELSE <<>>
    <3> DEFINE piece(k) == IF EndsRun(k) THEN HunkOf(RunUpTo(k), k) ELSE <<>>
    <3>1. \A k \in 1..N : HunksUpTo[k] = HunksUpTo[k - 1] \o piece(k)
      BY HunksAreThere
    <3> HIDE DEF piece
    <3>2. PICK m \in 1..N : m = i + 1 /\ m - 1 = i
      BY <2>1
    <3>3. HunksUpTo[m] = HunksUpTo[m - 1] \o piece(m)
      BY <3>1, Zenon
    <3> QED BY <3>2, <3>3 DEF piece
  <2>4. {k \in 1..(i + 1) : EndsRun(k)}
          = {k \in 1..i : EndsRun(k)} \cup IF EndsRun(i + 1) THEN {i + 1} ELSE {}
    <3>1. \A k : k \in 1..(i + 1) <=> k \in 1..i \/ k = i + 1
      BY <2>1
    <3> QED BY <3>1
  <2>5. CASE EndsRun(i + 1)
    <3>1. ~Kept(i + 1)
      BY <2>5 DEF EndsRun
    <3>2. RunUpTo(i + 1) \in 1..(i + 1)
      BY <2>1, <3>1, RunIsThere
    <3>3. Reads(InFile(0, 0, Places(i)), HunkOf(RunUpTo(i + 1), i + 1),
                InFile(0, 0, Places(i) \cup {Place(RunUpTo(i + 1), i + 1)}))
      BY <2>1, <3>2, HunkIsRead
    <3>4. Places(i + 1) = Places(i) \cup {Place(RunUpTo(i + 1), i + 1)}
      BY <2>4, <2>5 DEF Places
    <3>5. Reads(r, HunksUpTo[i + 1], InFile(0, 0, Places(i + 1)))
      BY <2>2, <2>3, <2>5, <3>3, <3>4, ReadsOn
    <3> QED BY <2>1, <3>5
  <2>6. CASE ~EndsRun(i + 1)
    <3>1. Places(i + 1) = Places(i)
      BY <2>4, <2>6 DEF Places
    <3>2. Reads(InFile(0, 0, Places(i)), <<>>, InFile(0, 0, Places(i)))
      BY ReadsNothing
    <3>3. Reads(r, HunksUpTo[i + 1], InFile(0, 0, Places(i + 1)))
      BY <2>2, <2>3, <2>6, <3>1, <3>2, ReadsOn
    <3> QED BY <2>1, <3>3
  <2> QED BY <2>5, <2>6
<1> HIDE DEF T
<1>4. \A i \in 0..N : i \in T
  BY <1>1, <1>2, <1>3, CountingUp
<1>5. N \in T
  BY <1>1, <1>4
<1> QED BY <1>5 DEF T

(* Whatever the edits, what is read out of the diff are the hunks that git  *)
(* has written into it, one for each run: no line of a body is mistaken for *)
(* a heading, and no hunk ends too early.                                   *)
LEMMA DiffIsRead ==
  ASSUME FilesInStep
  PROVE  /\ FromDiff(Diff).failure = "none"
         /\ FromDiff(Diff).hunks = IF setting.tracked THEN Places(Len(script)) ELSE {}
<1> DEFINE N == Len(script)
           H == IF setting.tracked THEN Places(N) ELSE {}
<1>0. N \in Nat /\ DOMAIN script = 1..N
  BY DEF FilesInStep
<1>1. CASE ~setting.tracked \/ \A i \in DOMAIN script : Kept(i)
  <2>1. Diff = <<>>
    BY <1>1 DEF Diff
  <2>2. ReadUpTo(Reading, <<>>)[Len(<<>>)] = Reading
    BY ReadsNothing, ReadIsTheLast
  <2>3. FromDiff(Diff) = Reading
    BY <2>1, <2>2 DEF FromDiff, Reading, InBody
  <2>4. setting.tracked => Places(N) = {}
    <3> SUFFICES ASSUME setting.tracked PROVE Places(N) = {}
      BY Zenon
    <3>1. \A k \in 1..N : ~EndsRun(k)
      BY <1>0, <1>1, Zenon DEF EndsRun
    <3> QED BY <3>1 DEF Places
  <2> QED BY <2>3, <2>4 DEF Reading
<1>2. CASE ~(~setting.tracked \/ \A i \in DOMAIN script : Kept(i))
  <2> DEFINE first == Line("d", "diff")
             second == [Line("+", "+++") EXCEPT !.path = Edited]
             out == InFile(0, 0, Places(N))
  <2>1. Diff = <<first, second>> \o HunksUpTo[N]
    BY <1>2 DEF Diff
  <2>2. ReadLine(Reading, first) = Reading
    BY DEF ReadLine, Reading, InBody, ReadHeading, Line
  <2>3. ReadLine(Reading, second) = InFile(0, 0, {})
    BY DEF ReadLine, Reading, InBody, ReadHeading, Line, InFile
  <2> HIDE DEF first, second
  <2>4. Reads(Reading, <<first>>, Reading) /\ Reads(Reading, <<second>>, InFile(0, 0, {}))
    BY <2>2, <2>3, ReadsOne
  <2>5. Reads(Reading, <<first>> \o <<second>>, InFile(0, 0, {}))
    BY <2>4, ReadsOn
  <2>6. <<first>> \o <<second>> = <<first, second>>
    <3> DEFINE u == <<first>> \o <<second>>
    <3>1. Len(<<first>>) = 1 /\ Len(<<second>>) = 1
      OBVIOUS
    <3>2. u = [i \in 1..1 + 1 |-> IF i <= 1 THEN <<first>>[i] ELSE <<second>>[i - 1]]
      BY <3>1
    <3>3. 1..1 + 1 = 1..2 /\ \A i \in 1..2 : i = 1 \/ i = 2
      OBVIOUS
    <3> HIDE DEF u
    <3>4. u = [i \in 1..2 |-> u[i]] /\ u[1] = first /\ u[2] = second
      BY <3>2, <3>3
    <3>5. u = <<first, second>>
      BY <3>3, <3>4
    <3> QED BY <3>5 DEF u
  <2>7. Reads(InFile(0, 0, {}), HunksUpTo[N], out)
    BY HunksAreRead
  <2> HIDE DEF out, N
  <2>8. Reads(Reading, <<first, second>> \o HunksUpTo[N], out)
    BY <2>5, <2>6, <2>7, ReadsOn
  <2>9. ReadUpTo(Reading, Diff)[Len(Diff)] = out
    BY <2>1, <2>8, ReadIsTheLast
  <2>10. FromDiff(Diff) = out
    BY <2>9 DEF FromDiff, out, InFile, InBody
  <2> QED BY <1>2, <2>10 DEF out, InFile, N
<1> QED BY <1>1, <1>2

-----------------------------------------------------------------------------
(* The lines of the new side, counted along the script.                     *)
NewPlaces(i) == {k \in 1..i : script[k].how \in {"keep", "add"}}

LEMMA NewPlacesAreCounted ==
  ASSUME NEW i \in Nat
  PROVE  /\ IsFiniteSet(NewPlaces(i)) /\ NewLinesUpTo(i) = Cardinality(NewPlaces(i))
         /\ NewLinesUpTo(i) \in Nat
<1>1. IsFiniteSet(1..i) /\ NewPlaces(i) \in SUBSET (1..i)
  BY FS_Interval DEF NewPlaces
<1>2. IsFiniteSet(NewPlaces(i)) /\ Cardinality(NewPlaces(i)) \in Nat
  BY <1>1, FS_Subset, FS_CardinalityType
<1> QED BY <1>2 DEF NewLinesUpTo, Count, NewPlaces

LEMMA NewLinesGrow ==
  ASSUME NEW i \in Nat, NEW j \in Nat, i <= j PROVE NewLinesUpTo(i) <= NewLinesUpTo(j)
<1>1. 1..i \subseteq 1..j
  OBVIOUS
<1>2. NewPlaces(i) \in SUBSET NewPlaces(j)
  BY <1>1 DEF NewPlaces
<1>3. Cardinality(NewPlaces(i)) <= Cardinality(NewPlaces(j))
  BY <1>2, NewPlacesAreCounted, FS_Subset
<1> QED BY <1>3, NewPlacesAreCounted

LEMMA NoLineAtFirst == NewLinesUpTo(0) = 0
<1>1. NewPlaces(0) = {}
  <2>1. 1..0 = {}
    OBVIOUS
  <2> QED BY <2>1 DEF NewPlaces
<1> QED BY <1>1, NewPlacesAreCounted, FS_EmptySet

LEMMA LineByLineTheyGrow ==
  ASSUME FilesInStep, NEW i \in 1..Len(script)
  PROVE  NewLinesUpTo(i) = IF script[i].how = "delete" THEN NewLinesUpTo(i - 1)
                           ELSE NewLinesUpTo(i - 1) + 1
<1>1. i \in Nat /\ i - 1 \in Nat /\ \A k : k \in 1..i <=> k \in 1..(i - 1) \/ k = i
  BY DEF FilesInStep
<1>2. i \notin NewPlaces(i - 1)
  BY DEF NewPlaces
<1>3. script[i].how \in {"keep", "delete", "add"}
  <2> DEFINE lines == [how : {"keep", "delete", "add"}, text : Texts]
  <2>1. \A line \in lines : line.how \in {"keep", "delete", "add"}
    OBVIOUS
  <2>2. script \in Seq(lines)
    BY DEF FilesInStep
  <2> HIDE DEF lines
  <2>3. script[i] \in lines
    BY <2>2
  <2> QED BY <2>1, <2>3
<1>4. CASE script[i].how = "delete"
  <2>1. NewPlaces(i) = NewPlaces(i - 1)
    BY <1>1, <1>4 DEF NewPlaces
  <2> QED BY <1>1, <1>4, <2>1, NewPlacesAreCounted
<1>5. CASE script[i].how # "delete"
  <2>1. NewPlaces(i) = NewPlaces(i - 1) \cup {i}
    BY <1>1, <1>3, <1>5 DEF NewPlaces
  <2>2. Cardinality(NewPlaces(i)) = Cardinality(NewPlaces(i - 1)) + 1
    BY <1>1, <1>2, <2>1, NewPlacesAreCounted, FS_AddElement
  <2> QED BY <1>1, <1>5, <2>2, NewPlacesAreCounted
<1> QED BY <1>4, <1>5

(* A line of the new side is one more than there were before.               *)
LEMMA ALineIsOneMore ==
  ASSUME FilesInStep, NEW i \in Nat, NEW j \in 1..Len(script), i < j, script[j].how # "delete"
  PROVE  NewLinesUpTo(i) < NewLinesUpTo(j)
<1>1. j \in Nat /\ j - 1 \in Nat /\ i <= j - 1
  BY DEF FilesInStep
<1>2. NewLinesUpTo(i) <= NewLinesUpTo(j - 1)
  BY <1>1, NewLinesGrow
<1>3. NewLinesUpTo(j) = NewLinesUpTo(j - 1) + 1
  BY LineByLineTheyGrow
<1>4. NewLinesUpTo(i) \in Nat /\ NewLinesUpTo(j - 1) \in Nat /\ NewLinesUpTo(j) \in Nat
  BY <1>1, NewPlacesAreCounted
<1> QED BY <1>2, <1>3, <1>4

(* A run has added what is more after it.                                   *)
LEMMA ARunAdds ==
  ASSUME FilesInStep, NEW l \in 1..Len(script), NEW f \in 1..l, \A k \in f..l : ~Kept(k)
  PROVE  NewLinesUpTo(l) = NewLinesUpTo(f - 1) + Count({"add"}, f..l)
<1> DEFINE added == {k \in f..l : script[k].how \in {"add"}}
<1>1. l \in Nat /\ f \in Nat /\ f - 1 \in Nat
      /\ \A k : k \in 1..l <=> k \in 1..(f - 1) \/ k \in f..l
  BY DEF FilesInStep
<1>2. \A k \in f..l : script[k].how \in {"keep", "add"} <=> script[k].how \in {"add"}
  BY DEF Kept
<1>3. NewPlaces(l) = NewPlaces(f - 1) \cup added
  BY <1>1, <1>2 DEF NewPlaces
<1>4. NewPlaces(f - 1) \cap added = {}
  BY <1>1 DEF NewPlaces
<1>5. IsFiniteSet(added)
  <2>1. IsFiniteSet(f..l) /\ added \in SUBSET (f..l)
    BY <1>1, FS_Interval
  <2> QED BY <2>1, FS_Subset
<1>6. Cardinality(added) \in Nat /\ Cardinality(added) = Count({"add"}, f..l)
  BY <1>5, FS_CardinalityType DEF Count
<1> HIDE DEF added
<1>7. Cardinality(NewPlaces(l)) = Cardinality(NewPlaces(f - 1)) + Cardinality(added) - 0
  <2>1. IsFiniteSet(NewPlaces(f - 1))
    BY <1>1, NewPlacesAreCounted
  <2>2. Cardinality(NewPlaces(f - 1) \cup added)
          = Cardinality(NewPlaces(f - 1)) + Cardinality(added) - Cardinality(NewPlaces(f - 1) \cap added)
    BY <1>5, <2>1, FS_Union
  <2> QED BY <1>3, <1>4, <2>2, FS_EmptySet
<1> QED BY <1>1, <1>6, <1>7, NewPlacesAreCounted

(* Each line of the new side has its place.                                 *)
LEMMA PlaceIsThere ==
  ASSUME FilesInStep, NEW line \in 1..NewLinesUpTo(Len(script))
  PROVE  /\ PlaceOf(line) \in 1..Len(script) /\ NewLinesUpTo(PlaceOf(line)) = line
         /\ script[PlaceOf(line)].how # "delete"
<1> DEFINE N == Len(script)
           after == {i \in 0..N : NewLinesUpTo(i) >= line}
           p == Min(after)
<1>1. N \in Nat /\ DOMAIN script = 1..N
  BY DEF FilesInStep
<1>2. NewLinesUpTo(N) \in Nat
  BY <1>1, NewPlacesAreCounted
<1>3. line \in Nat /\ line >= 1 /\ line <= NewLinesUpTo(N)
  BY <1>2
<1>4. N \in after /\ after \in SUBSET Nat
  BY <1>1, <1>2, <1>3
<1>5. p \in after /\ \A x \in after : p <= x
  BY <1>4, LeastIsThere
<1> HIDE DEF p
<1>6. p \in 0..N /\ NewLinesUpTo(p) >= line
  BY <1>5
<1>7. p # 0
  BY <1>3, <1>6, NoLineAtFirst
<1>8. p \in 1..N /\ p - 1 \in 0..N /\ p - 1 \in Nat /\ p - 1 < p
  BY <1>1, <1>6, <1>7
<1>9. NewLinesUpTo(p - 1) < line
  <2>1. p - 1 \notin after
    BY <1>5, <1>8
  <2>2. NewLinesUpTo(p - 1) \in Nat
    BY <1>8, NewPlacesAreCounted
  <2> QED BY <1>3, <1>8, <2>1, <2>2
<1>10. NewLinesUpTo(p) = IF script[p].how = "delete" THEN NewLinesUpTo(p - 1) ELSE NewLinesUpTo(p - 1) + 1
  BY <1>8, LineByLineTheyGrow
<1>11. NewLinesUpTo(p - 1) \in Nat
  BY <1>8, NewPlacesAreCounted
<1>12. NewLinesUpTo(p) = line /\ script[p].how # "delete"
  BY <1>3, <1>6, <1>9, <1>10, <1>11
<1> DEFINE at == PlaceOf(line)
<1>13. at \in DOMAIN script /\ NewLinesUpTo(at) = line /\ script[at].how # "delete"
  BY <1>1, <1>8, <1>12 DEF PlaceOf
<1> QED BY <1>1, <1>13

(* A hunk touches a function exactly if its run reaches between the first   *)
(* and the last line of it.                                                 *)
LEMMA ARunTouches ==
  ASSUME FilesInStep, NEW l \in 1..Len(script), NEW f \in 1..l, \A k \in f..l : ~Kept(k),
         NEW c, IsWritten(c)
  PROVE  HunkTouches(NewSide(HeadingOf(f, l)), c)
           <=> \E p \in f..l : PlaceOf(c.first) <= p /\ p <= PlaceOf(c.last)
<1> DEFINE N == Len(script)
           P == PlaceOf(c.first)
           Q == PlaceOf(c.last)
           a == Count({"add"}, f..l)
           b == NewLinesUpTo(f - 1)
           heading == HeadingOf(f, l)
<1>1. N \in Nat /\ l \in Nat /\ f \in Nat /\ f - 1 \in Nat /\ f <= l
  BY DEF FilesInStep
<1>2. a \in Nat /\ b \in Nat /\ NewLinesUpTo(l) = b + a
  BY <1>1, HowOftenIsCounted, NewPlacesAreCounted, ARunAdds
<1>3. /\ c.first \in 1..NewLinesUpTo(N) /\ c.last \in 1..NewLinesUpTo(N) /\ c.first <= c.last
      /\ NewLinesUpTo(N) \in Nat
  BY <1>1, NewPlacesAreCounted DEF IsWritten
<1>4. /\ P \in 1..N /\ NewLinesUpTo(P) = c.first /\ script[P].how # "delete"
      /\ Q \in 1..N /\ NewLinesUpTo(Q) = c.last /\ script[Q].how # "delete"
  BY <1>3, PlaceIsThere
<1>5. heading.new = a /\ heading.start = IF a = 0 THEN b ELSE b + 1
  BY DEF HeadingOf, Line
<1> HIDE DEF P, Q, a, b, heading
<1>6. P <= l <=> c.first <= b + a
  <2>1. P <= l => NewLinesUpTo(P) <= NewLinesUpTo(l)
    BY <1>1, <1>4, NewLinesGrow
  <2>2. l < P => NewLinesUpTo(l) < NewLinesUpTo(P)
    BY <1>1, <1>4, ALineIsOneMore
  <2> QED BY <1>1, <1>2, <1>3, <1>4, <2>1, <2>2
<1>7. f <= Q <=> b + 1 <= c.last
  <2>1. Q <= f - 1 => NewLinesUpTo(Q) <= NewLinesUpTo(f - 1)
    BY <1>1, <1>4, NewLinesGrow
  <2>2. f - 1 < Q => NewLinesUpTo(f - 1) < NewLinesUpTo(Q)
    BY <1>1, <1>4, ALineIsOneMore
  <2> QED BY <1>1, <1>2, <1>3, <1>4, <2>1, <2>2 DEF b
<1>8. P <= Q
  <2>1. Q < P => NewLinesUpTo(Q) < NewLinesUpTo(P)
    BY <1>1, <1>4, ALineIsOneMore
  <2> QED BY <1>1, <1>3, <1>4, <2>1
<1>9. NewSide(heading) = IF a = 0 THEN [deletion |-> TRUE, first |-> b + 1, last |-> b + 1]
                         ELSE [deletion |-> FALSE, first |-> b + 1, last |-> b + a]
  <2>1. b + 1 + a - 1 = b + a
    BY <1>2
  <2> QED BY <1>5, <2>1 DEF NewSide
<1>10. HunkTouches(NewSide(heading), c) <=> c.first <= b + a /\ b + 1 <= c.last
  <2>1. CASE a = 0
    <3>1. HunkTouches(NewSide(heading), c) <=> c.first <= b + 1 /\ b + 1 <= c.last /\ c.first < b + 1
      BY <1>9, <2>1 DEF HunkTouches, Covers
    <3> QED BY <1>2, <1>3, <2>1, <3>1
  <2>2. CASE a # 0
    <3>1. HunkTouches(NewSide(heading), c) <=> b + 1 <= c.last /\ c.first <= b + a
      BY <1>9, <2>2 DEF HunkTouches, Overlaps
    <3> QED BY <3>1
  <2> QED BY <2>1, <2>2
<1>11. P <= l /\ f <= Q <=> \E p \in f..l : P <= p /\ p <= Q
  <2>1. ASSUME P <= l, f <= Q PROVE \E p \in f..l : P <= p /\ p <= Q
    <3>1. CASE P <= f
      <4>1. f \in f..l
        BY <1>1
      <4> QED BY <2>1, <3>1, <4>1
    <3>2. CASE f < P
      <4>1. P \in f..l
        BY <1>1, <1>4, <2>1, <3>2
      <4> QED BY <1>4, <1>8, <4>1, SMTT(30)
    <3> QED BY <1>1, <1>4, <3>1, <3>2
  <2>2. ASSUME NEW p \in f..l, P <= p, p <= Q PROVE P <= l /\ f <= Q
    BY <1>1, <1>4, <2>2
  <2> QED BY <2>1, <2>2
<1> QED BY <1>6, <1>7, <1>10, <1>11 DEF P, Q, heading

(* Each edited line is in a run that ends.                                  *)
LEMMA RunAround ==
  ASSUME FilesInStep, NEW p \in 1..Len(script), ~Kept(p)
  PROVE  \E l \in 1..Len(script) : /\ EndsRun(l) /\ p <= l /\ RunUpTo(l) \in 1..l
                                   /\ RunUpTo(l) <= p /\ \A k \in RunUpTo(l)..l : ~Kept(k)
<1> DEFINE N == Len(script)
           ends == {j \in p..N : j = N \/ Kept(j + 1)}
           l == Min(ends)
<1>1. N \in Nat /\ p \in Nat /\ p <= N
  BY DEF FilesInStep
<1>2. N \in ends /\ ends \in SUBSET Nat
  BY <1>1
<1>3. l \in ends /\ \A x \in ends : l <= x
  BY <1>2, LeastIsThere
<1> HIDE DEF l
<1>4. l \in p..N /\ l \in 1..N /\ l \in Nat \ {0} /\ p <= l /\ p \in 1..l
  BY <1>1, <1>3
<1>5. ASSUME NEW k \in p..l PROVE ~Kept(k)
  <2> SUFFICES ASSUME Kept(k) PROVE FALSE
    OBVIOUS
  <2>1. PICK m \in Int : m = k - 1
    BY <1>1, <1>4
  <2>2. k # p
    OBVIOUS
  <2>3. m \in p..N /\ m + 1 = k /\ m < l
    BY <1>1, <1>4, <2>1, <2>2
  <2>4. m \in ends
    BY <2>3
  <2> QED BY <1>3, <1>4, <2>3, <2>4
<1>6. ~Kept(l)
  BY <1>4, <1>5
<1>7. EndsRun(l)
  BY <1>3, <1>6 DEF EndsRun
<1>8. /\ RunUpTo(l) \in 1..l /\ RunUpTo(l) <= p
      /\ \A k \in RunUpTo(l)..l : ~Kept(k)
  BY <1>4, <1>5, <1>6, RunIsThere
<1> QED BY <1>4, <1>7, <1>8

LEMMA RunsTouchWhatWasEdited ==
  ASSUME FilesInStep, NEW c, IsWritten(c)
  PROVE  (\E h \in Places(Len(script)) : h.path = Edited /\ HunkTouches(h.hunk, c))
           <=> \E p \in PlaceOf(c.first)..PlaceOf(c.last) : ~Kept(p)
<1> DEFINE N == Len(script)
           P == PlaceOf(c.first)
           Q == PlaceOf(c.last)
<1>1. P \in 1..N /\ Q \in 1..N /\ N \in Nat
  <2>1. N \in Nat /\ NewLinesUpTo(N) \in Nat
    BY NewPlacesAreCounted DEF FilesInStep
  <2>2. c.first \in 1..NewLinesUpTo(N) /\ c.last \in 1..NewLinesUpTo(N)
    BY DEF IsWritten
  <2> QED BY <2>1, <2>2, PlaceIsThere
<1>2. ASSUME NEW h \in Places(N), HunkTouches(h.hunk, c) PROVE \E p \in P..Q : ~Kept(p)
  <2>1. PICK l \in 1..N : EndsRun(l) /\ h = Place(RunUpTo(l), l)
    BY <1>2 DEF Places
  <2>2. RunUpTo(l) \in 1..l /\ \A k \in RunUpTo(l)..l : ~Kept(k)
    BY <1>1, <2>1, RunIsThere DEF EndsRun
  <2>3. HunkTouches(NewSide(HeadingOf(RunUpTo(l), l)), c)
    BY <1>2, <2>1 DEF Place
  <2>4. PICK p \in RunUpTo(l)..l : P <= p /\ p <= Q
    BY <2>2, <2>3, ARunTouches
  <2>5. p \in P..Q
    BY <1>1, <2>2, <2>4
  <2> QED BY <2>2, <2>5
<1>3. ASSUME NEW p \in P..Q, ~Kept(p)
      PROVE  \E h \in Places(N) : h.path = Edited /\ HunkTouches(h.hunk, c)
  <2>1. p \in 1..N /\ P <= p /\ p <= Q
    BY <1>1
  <2>2. PICK l \in 1..N : /\ EndsRun(l) /\ p <= l /\ RunUpTo(l) \in 1..l
                          /\ RunUpTo(l) <= p /\ \A k \in RunUpTo(l)..l : ~Kept(k)
    BY <1>3, <2>1, RunAround
  <2>3. p \in RunUpTo(l)..l
    BY <1>1, <2>1, <2>2
  <2>4. HunkTouches(NewSide(HeadingOf(RunUpTo(l), l)), c)
    BY <2>1, <2>2, <2>3, ARunTouches
  <2>5. Place(RunUpTo(l), l) \in Places(N)
    <3>1. l \in {k \in 1..N : EndsRun(k)}
      BY <1>1, <2>2
    <3> QED BY <3>1 DEF Places
  <2> QED BY <2>4, <2>5 DEF Place
<1> QED BY <1>2, <1>3

-----------------------------------------------------------------------------
LEMMA DiffStays == ASSUME UNCHANGED <<script, setting>> PROVE Diff' = Diff
<1>1. \A i : Kept(i)' <=> Kept(i)
  BY DEF Kept
<1>2. \A hows, range : Count(hows, range)' = Count(hows, range)
  BY DEF Count
<1>3. \A i : NewLinesUpTo(i)' = NewLinesUpTo(i)
  BY <1>2 DEF NewLinesUpTo
<1>4. \A f, l : HeadingOf(f, l)' = HeadingOf(f, l)
  BY <1>2, <1>3, Zenon DEF HeadingOf
<1>5. \A f, l : HunkOf(f, l)' = HunkOf(f, l)
  BY <1>4, ZenonT(60) DEF HunkOf
<1>6. \A i : EndsRun(i)' <=> EndsRun(i)
  BY <1>1 DEF EndsRun
<1>7. \A i : RunUpTo(i)' = RunUpTo(i)
  BY <1>1, SMTT(30) DEF RunUpTo
<1>8. HunksUpTo' = HunksUpTo
  BY <1>5, <1>6, <1>7 DEF HunksUpTo
<1> QED BY <1>1, <1>8 DEF Diff

LEMMA ChangedStays ==
  ASSUME UNCHANGED <<script, setting>>
  PROVE  ChangedLines(Diff, Untracked, setting.target)' = ChangedLines(Diff, Untracked, setting.target)
BY DiffStays DEF Untracked, ChangedLines

(* The edited file is only found in the index if git tracks it.             *)
LEMMA TrackedIfListed ==
  ASSUME ListFiles, Edited \in paths' PROVE setting.tracked \/ setting.target = "WorkTree"
<1> SUFFICES ASSUME ~setting.tracked, setting.target # "WorkTree" PROVE FALSE
  OBVIOUS
<1> DEFINE listed == <<Entry(<<"node_modules", "library">>, "100644", "TypeScript", 0),
                       Entry(<<"src", "link">>, "120000", "TypeScript", 0),
                       Entry(Shelved, "100644", Library.grammar, IF setting.conflict THEN 2 ELSE 0)>>
<1>1. paths' = IndexEntries(IndexListing, "TypeScript").paths
  BY DEF ListFiles
<1>2. IndexListing = listed \o <<>>
  BY DEF IndexListing
<1>3. DOMAIN listed = 1..3 /\ \A i \in 1..3 : listed[i].path # Edited
  BY DEF Entry, Edited, Shelved
<1>4. listed \o <<>> = listed
  OBVIOUS
<1> HIDE DEF listed
<1>5. \A entry \in Range(listed) : entry.path # Edited
  BY <1>3 DEF Range
<1>6. paths' = {} \/ paths' = SourcePaths(Range(listed), "TypeScript")
  BY <1>1, <1>2, <1>4 DEF IndexEntries
<1> QED BY <1>5, <1>6 DEF SourcePaths

LEMMA WhatWasCutIsWritten ==
  ASSUME FilesInStep, CutChunks
  PROVE  \A i \in DOMAIN chunks' :
           \/ chunks'[i].path = Shelved
           \/ chunks'[i].path = Edited /\ Edited \in paths /\ IsWritten(chunks'[i])
BY CutChunksAreCounted DEF IsCutOut

LEMMA CheckKeepsTouches ==
  ASSUME FilesInStep, TouchesInStep, CheckNext PROVE TouchesInStep'
<1> DEFINE told == ChangedLines(Diff, Untracked, setting.target)
           ofFiles(c) == \/ c.path = Shelved
                         \/ c.path = Edited /\ Edited \in paths /\ IsWritten(c)
           allOfFiles == \A i \in DOMAIN chunks : ofFiles(chunks[i])
<1>1. CASE Edit
  <2>1. step' = "edit" /\ UNCHANGED <<setting, changed, paths>>
    BY <1>1 DEF Edit
  <2> QED BY <2>1 DEF TouchesInStep
<1>2. CASE StopUnconfigured \/ RefuseAmbiguous
  <2>1. step' = "refused" /\ UNCHANGED <<setting, changed, paths>>
    BY <1>2 DEF StopUnconfigured, RefuseAmbiguous
  <2> QED BY <2>1 DEF TouchesInStep
<1>3. CASE AskGit
  <2>1. UNCHANGED <<script, setting, paths>> /\ changed' = told /\ step' \notin {"cut", "compared"}
    BY <1>3 DEF AskGit
  <2>2. told' = told
    BY <2>1, ChangedStays
  <2>3. told.failure = "none"
    BY DiffIsRead DEF ChangedLines
  <2> HIDE DEF told
  <2>4. changed' = told'
    BY <2>1, <2>2
  <2>5. changed'.failure = "none" /\ (Edited \in paths' => setting'.tracked \/ setting'.target = "WorkTree")
    BY <2>1, <2>3 DEF TouchesInStep
  <2> QED BY <2>1, <2>4, <2>5 DEF TouchesInStep, told
<1>4. CASE ListFiles
  <2>1. /\ UNCHANGED <<script, setting, changed>> /\ step = "changed"
        /\ step' \notin {"cut", "compared"}
    BY <1>4 DEF ListFiles
  <2>2. told' = told
    BY <2>1, ChangedStays
  <2>3. changed' = told'
    BY <2>1, <2>2 DEF TouchesInStep
  <2>4. Edited \in paths' => setting'.tracked \/ setting'.target = "WorkTree"
    BY <1>4, <2>1, TrackedIfListed
  <2> HIDE DEF told
  <2>5. changed'.failure = "none"
    BY <2>1 DEF TouchesInStep
  <2> QED BY <2>1, <2>3, <2>4, <2>5 DEF TouchesInStep, told
<1>5. CASE CutChunks \/ ComparePairs
  <2>1. UNCHANGED <<script, setting, changed, paths>> /\ step \in {"listed", "cut"}
    BY <1>5 DEF CutChunks, ComparePairs
  <2>2. told' = told
    BY <2>1, ChangedStays
  <2>3. changed' = told'
    BY <2>1, <2>2 DEF TouchesInStep
  <2>4. \A i \in DOMAIN chunks' : ofFiles(chunks'[i])
    <3>1. CASE CutChunks
      BY <3>1, WhatWasCutIsWritten
    <3>2. CASE ComparePairs
      <4>1. UNCHANGED chunks /\ step = "cut"
        BY <3>2 DEF ComparePairs
      <4> QED BY <4>1 DEF TouchesInStep
    <3> QED BY <1>5, <3>1, <3>2
  <2>5. allOfFiles'
    BY <2>1, <2>4 DEF IsWritten, NewLinesUpTo, Count
  <2> HIDE DEF told
  <2>6. changed'.failure = "none" /\ (Edited \in paths' => setting'.tracked \/ setting'.target = "WorkTree")
    BY <2>1 DEF TouchesInStep
  <2> QED BY <2>3, <2>5, <2>6 DEF TouchesInStep, told
<1> QED BY <1>1, <1>2, <1>3, <1>4, <1>5 DEF CheckNext

(* What git said is what was edited, at every step, and the functions are   *)
(* cut out of what the edits have left.                                     *)
THEOREM TouchesInStepHolds == Spec => []TouchesInStep
<1>1. Init => TouchesInStep
  <2> SUFFICES ASSUME Init PROVE TouchesInStep
    OBVIOUS
  <2>1. step = "edit" /\ changed = ChangedLines(<<>>, {}, "Index") /\ paths = {}
    BY DEF Init, CheckInit
  <2>2. ReadUpTo(Reading, <<>>)[Len(<<>>)] = Reading
    BY ReadsNothing, ReadIsTheLast
  <2>3. FromDiff(<<>>) = Reading
    BY <2>2 DEF FromDiff, Reading, InBody
  <2>4. changed.failure = "none"
    BY <2>1, <2>3 DEF ChangedLines, Reading
  <2> QED BY <2>1, <2>4 DEF TouchesInStep
<1>2. TouchesInStep /\ CheckInStep /\ [Next]_vars => TouchesInStep'
  <2> SUFFICES ASSUME TouchesInStep, CheckInStep, [Next]_vars PROVE TouchesInStep'
    OBVIOUS
  <2>1. CASE UNCHANGED checkVars
    <3> DEFINE told == ChangedLines(Diff, Untracked, setting.target)
               allOfFiles == \A i \in DOMAIN chunks :
                               \/ chunks[i].path = Shelved
                               \/ chunks[i].path = Edited /\ Edited \in paths /\ IsWritten(chunks[i])
    <3>1. UNCHANGED <<script, setting, step, changed, paths, chunks>>
      BY <2>1 DEF checkVars
    <3>2. told' = told
      BY <3>1, ChangedStays
    <3>3. allOfFiles' <=> allOfFiles
      BY <3>1 DEF IsWritten, NewLinesUpTo, Count
    <3> HIDE DEF told
    <3> QED BY <3>1, <3>2, <3>3 DEF TouchesInStep, told
  <2>2. CASE CheckNext
    BY <2>2, CheckKeepsTouches DEF CheckInStep
  <2> QED BY <2>1, <2>2 DEF Next, vars
<1> QED BY <1>1, <1>2, CheckInStepHolds, PTL DEF Spec

(* Whatever the edits and wherever the functions: a function counts as      *)
(* changed exactly if a line of it is new, or lines between two of its      *)
(* lines are gone (ChangedLines::from_diff, skip_hunk_body, Hunk::touches). *)
THEOREM TouchedIsEdited == Spec => []TouchedIffNotCarriedOver
<1>1. TouchesInStep /\ CheckInStep => TouchedIffNotCarriedOver
  <2> SUFFICES ASSUME TouchesInStep, FilesInStep PROVE TouchedIffNotCarriedOver
    BY DEF CheckInStep
  <2> DEFINE edited(c) == \E p \in PlaceOf(c.first)..PlaceOf(c.last) : ~Kept(p)
             touched(c) == Targeted(c) <=> c.path = Edited /\ (~setting.tracked \/ edited(c))
  <2>1. Edited # Shelved
    BY DEF Edited, Shelved
  <2>2. ASSUME step \in {"cut", "compared"}, NEW i \in DOMAIN chunks PROVE touched(chunks[i])
    <3> DEFINE c == chunks[i]
               hunks == IF setting.tracked THEN Places(Len(script)) ELSE {}
               whole == IF setting.target = "WorkTree" THEN Untracked ELSE {}
    <3>1. c.path = Shelved \/ (c.path = Edited /\ Edited \in paths /\ IsWritten(c))
      BY <2>2 DEF TouchesInStep
    <3>2. changed.hunks = hunks /\ changed.whole = whole
      <4>1. changed = ChangedLines(Diff, Untracked, setting.target)
        BY <2>2 DEF TouchesInStep
      <4>2. FromDiff(Diff).hunks = hunks
        BY DiffIsRead
      <4> HIDE DEF hunks
      <4> QED BY <4>1, <4>2 DEF ChangedLines
    <3>3. \A h \in hunks : h.path = Edited
      BY DEF Places, Place
    <3> HIDE DEF c, edited
    <3>4. CASE c.path = Shelved
      <4>1. c.path \notin whole
        BY <2>1, <3>4 DEF Untracked
      <4>2. ~Targeted(c)
        BY <2>1, <3>2, <3>3, <3>4, <4>1 DEF Targeted, TouchesLines
      <4> QED BY <2>1, <3>4, <4>2 DEF c
    <3>5. CASE c.path = Edited /\ Edited \in paths /\ IsWritten(c)
      <4>1. setting.tracked \/ setting.target = "WorkTree"
        BY <3>5 DEF TouchesInStep
      <4>2. CASE setting.tracked
        <5>1. whole = {} /\ hunks = Places(Len(script))
          BY <4>2 DEF Untracked
        <5>2. Targeted(c) <=> \E h \in Places(Len(script)) : h.path = Edited /\ HunkTouches(h.hunk, c)
          BY <3>2, <3>5, <5>1 DEF Targeted, TouchesLines
        <5>3. Targeted(c) <=> edited(c)
          BY <3>5, <5>2, RunsTouchWhatWasEdited DEF edited
        <5> QED BY <3>5, <4>2, <5>3 DEF c
      <4>3. CASE ~setting.tracked
        <5>1. c.path \in whole
          BY <3>5, <4>1, <4>3 DEF Untracked
        <5>2. Targeted(c)
          BY <3>2, <5>1 DEF Targeted, TouchesLines
        <5> QED BY <3>5, <4>3, <5>2 DEF c
      <4> QED BY <4>2, <4>3
    <3> QED BY <3>1, <3>4, <3>5
  <2>3. changed.failure = "none"
    BY DEF TouchesInStep
  <2> QED BY <2>2, <2>3 DEF TouchedIffNotCarriedOver
<1> QED BY <1>1, TouchesInStepHolds, CheckInStepHolds, PTL
=============================================================================
