---------------------------- MODULE FramingProofs ----------------------------
(***************************************************************************)
(* What is read of a wire and what the deadline of a wait does to a frame, *)
(* for any limits, any size of the chunks and any bytes.                   *)
(***************************************************************************)
EXTENDS Framing, WellFoundedInduction, SequenceTheorems, TLAPS

-----------------------------------------------------------------------------
(* The deadline.                                                           *)
LEMMA InitDeadline == Init => DeadlineInvariant
<1> SUFFICES ASSUME Init PROVE DeadlineInvariant
  OBVIOUS
<1>1. /\ late \in BOOLEAN /\ watched \in BOOLEAN /\ frameStarted \in BOOLEAN
      /\ ~watched /\ ~frameStarted /\ outcome = "none" /\ pieces = 0 /\ lateRefills = 0
  BY DEF Init
<1> QED BY <1>1 DEF DeadlineInvariant

\* A refill that comes too late is the last one of a frame that had begun.
LEMMA RefillKeepsDeadline ==
    ASSUME DeadlineInvariant, Refill PROVE DeadlineInvariant'
<1>1. /\ pc # "ended" /\ pieces' = pieces + 1 /\ UNCHANGED <<late, watched>>
      /\ lateRefills' = IF late THEN lateRefills + 1 ELSE lateRefills
  BY DEF Refill, Starved
<1>2. CASE PastDeadline
  <2>1. pc' = "ended" /\ outcome' = "UnfinishedByDeadline" /\ UNCHANGED frameStarted
    BY <1>2 DEF Refill, Return
  <2> QED BY <1>1, <1>2, <2>1 DEF DeadlineInvariant, PastDeadline
<1>3. CASE ~PastDeadline
  <2>1. frameStarted' = TRUE /\ UNCHANGED <<pc, outcome>>
    BY <1>3 DEF Refill
  <2>2. watched /\ late => lateRefills = 0
    BY <1>1, <1>3 DEF DeadlineInvariant, PastDeadline
  <2> QED BY <1>1, <2>1, <2>2 DEF DeadlineInvariant
<1> QED BY <1>2, <1>3

\* An error that is not the deadline's.
LEMMA ReturnKeepsDeadline ==
    ASSUME DeadlineInvariant, pc # "ended", UNCHANGED <<late, watched, frameStarted, pieces, lateRefills>>,
           NEW e, e # "UnfinishedByDeadline", Return(e)
    PROVE  DeadlineInvariant'
BY DEF DeadlineInvariant, Return

\* What is read from the buffer needs no refill.
LEMMA ReadLineKeepsDeadline ==
    ASSUME DeadlineInvariant, ReadLine PROVE DeadlineInvariant'
<1>1. /\ pc # "ended" /\ outcome = "none" /\ frameStarted' = TRUE
      /\ pieces' = IF pieces = 0 THEN 1 ELSE pieces
      /\ UNCHANGED <<late, watched, lateRefills>>
  BY DEF ReadLine, DeadlineInvariant
<1>2. outcome' # "UnfinishedByDeadline" /\ (outcome' # "none" => pc' = "ended")
  <2>1. ASSUME NEW text, Line(text) PROVE outcome' # "UnfinishedByDeadline" /\ (outcome' # "none" => pc' = "ended")
    BY <1>1, <2>1 DEF Line, Return
  <2> QED BY <1>1, <2>1 DEF ReadLine
<1> QED BY <1>1, <1>2 DEF DeadlineInvariant

LEMMA NextDeadline == DeadlineInvariant /\ [Next]_vars => DeadlineInvariant'
<1> SUFFICES ASSUME DeadlineInvariant, [Next]_vars PROVE DeadlineInvariant'
  OBVIOUS
<1>1. CASE PayloadOf
  <2>1. /\ pc = "idle" /\ pc' = "line" /\ watched' \in BOOLEAN /\ late' \in {late, FALSE}
        /\ frameStarted' = FALSE /\ pieces' = 0 /\ lateRefills' = 0 /\ UNCHANGED outcome
    BY <1>1 DEF PayloadOf
  <2>2. late' \in BOOLEAN /\ frameStarted' \in BOOLEAN /\ ~frameStarted'
    BY <2>1 DEF DeadlineInvariant
  <2>3. outcome' = "none"
    BY <2>1 DEF DeadlineInvariant
  <2> QED BY <2>1, <2>2, <2>3 DEF DeadlineInvariant
<1>2. CASE DeadlinePasses
  BY <1>2 DEF DeadlinePasses, DeadlineInvariant, source, frame, history
<1>3. CASE Refill
  BY <1>3, RefillKeepsDeadline
<1>4. CASE EndOfInput \/ RefillFails \/ HeaderTooLong
  <2>1. /\ pc # "ended" /\ UNCHANGED <<late, watched, frameStarted, pieces, lateRefills>>
        /\ \E e \in {"TruncatedFrame", "Read", "ServerClosed", "HeaderTooLong"} : Return(e)
    BY <1>4 DEF EndOfInput, RefillFails, HeaderTooLong, Starved, frame, history
  <2> QED BY <2>1, ReturnKeepsDeadline
<1>5. CASE ReadLine
  BY <1>5, ReadLineKeepsDeadline
<1>6. CASE ReadBody
  BY <1>6 DEF ReadBody, DeadlineInvariant, history
<1>7. CASE PayloadComplete
  <2>1. pc # "ended" /\ UNCHANGED <<late, watched, frameStarted, pieces, lateRefills>>
    BY <1>7 DEF PayloadComplete, frame
  <2>2. CASE Return("NotUtf8")
    BY <2>1, <2>2, ReturnKeepsDeadline
  <2>3. CASE pc' = "idle" /\ UNCHANGED outcome
    BY <2>1, <2>3 DEF DeadlineInvariant
  <2> QED BY <1>7, <2>2, <2>3 DEF PayloadComplete
<1>8. CASE UNCHANGED vars
  BY <1>8 DEF vars, frame, history, source, DeadlineInvariant
<1> QED BY <1>1, <1>2, <1>3, <1>4, <1>5, <1>6, <1>7, <1>8 DEF Next

\* A deadline gives up only a frame that had begun and was still incomplete, and
\* it ends the wait after at most two more refills (DeadlineWatchedReader::fill_buf).
THEOREM DeadlineEndsTheWait == Spec => []DeadlineIsForTheRestOfAFrame
<1>1. DeadlineInvariant => DeadlineIsForTheRestOfAFrame
  BY DEF DeadlineInvariant, DeadlineIsForTheRestOfAFrame
<1> QED BY <1>1, InitDeadline, NextDeadline, PTL DEF Spec

-----------------------------------------------------------------------------
(* Counting up and down.                                                   *)
IsSmaller(x, y) == x < y

LEMMA LeastIsThere ==
  ASSUME NEW S \in SUBSET Nat, S # {}
  PROVE  Min(S) \in S /\ \A x \in S : Min(S) <= x
<1>1. IsWellFoundedOn(OpToRel(IsSmaller, Nat), Nat)
  BY NatLessThanWellFounded DEF OpToRel, IsSmaller
<1>2. PICK m \in S : \A y \in S : <<y, m>> \notin OpToRel(IsSmaller, Nat)
  BY <1>1, WFMin
<1>3. \A y \in S : m <= y
  <2> SUFFICES ASSUME NEW y \in S PROVE m <= y
    OBVIOUS
  <2>1. ~IsSmaller(y, m)
    BY <1>2 DEF OpToRel
  <2>2. m \in Nat /\ y \in Nat
    OBVIOUS
  <2> QED BY <2>1, <2>2 DEF IsSmaller
<1> QED BY <1>3 DEF Min

LEMMA MinIs ==
  ASSUME NEW S \in SUBSET Nat, NEW m \in S, \A x \in S : m <= x
  PROVE  Min(S) = m
<1>1. Min(S) \in S /\ \A x \in S : Min(S) <= x
  BY LeastIsThere
<1>2. Min(S) \in Nat /\ m \in Nat /\ Min(S) <= m /\ m <= Min(S)
  BY <1>1
<1> QED BY <1>2

LEMMA CountingUp ==
  ASSUME NEW n \in Nat, NEW S, 0 \in S, \A i \in 0..n - 1 : i \in S => i + 1 \in S
  PROVE  \A i \in 0..n : i \in S
<1> DEFINE others == {i \in 0..n : i \notin S}
<1> SUFFICES ASSUME others # {} PROVE FALSE
  OBVIOUS
<1>1. Min(others) \in others /\ \A x \in others : Min(others) <= x
  BY LeastIsThere
<1> DEFINE m == Min(others)
<1>2. m \in 0..n /\ m \notin S /\ m # 0
  BY <1>1
<1>3. m - 1 \in 0..n - 1
  BY <1>2
<1>4. m - 1 \notin others
  BY <1>1, <1>3
<1>5. m - 1 \in S
  BY <1>3, <1>4
<1>6. m - 1 + 1 = m
  BY <1>2
<1> HIDE DEF m
<1> QED BY <1>2, <1>3, <1>5, <1>6

(* To show something at n, n - 1, ..., 1, it may be taken for granted      *)
(* further up.                                                             *)
LEMMA CountingDown ==
  ASSUME NEW n \in Nat, NEW S,
         \A i \in 1..n : (\A j \in i + 1..n : j \in S) => i \in S
  PROVE  \A i \in 1..n : i \in S
<1> DEFINE missed == {d \in 0..n - 1 : n - d \notin S}
<1> SUFFICES ASSUME missed # {} PROVE FALSE
  <2>1. \A i \in 1..n : n - i \in 0..n - 1 /\ n - (n - i) = i
    OBVIOUS
  <2> QED BY <2>1
<1>1. missed \in SUBSET Nat
  OBVIOUS
<1>2. Min(missed) \in missed /\ \A x \in missed : Min(missed) <= x
  BY <1>1, LeastIsThere
<1> DEFINE d == Min(missed)
<1>3. d \in 0..n - 1 /\ n - d \notin S /\ n - d \in 1..n
  BY <1>2
<1> HIDE DEF d
<1>4. ASSUME NEW j \in n - d + 1..n PROVE j \in S
  <2>1. n - j \in 0..n - 1 /\ n - j < d /\ n - (n - j) = j
    BY <1>3
  <2>2. n - j \notin missed
    BY <1>2, <1>3, <2>1 DEF d
  <2> QED BY <2>1, <2>2
<1> QED BY <1>3, <1>4

-----------------------------------------------------------------------------
(* Pieces joined one after the other.                                      *)
Joins(f, parts, k) ==
  f = [i \in 0..k |-> IF i = 0 THEN <<>> ELSE f[i - 1] \o parts[i]]

LEMMA JoinsAreThere ==
  ASSUME NEW parts, Len(parts) \in Nat
  PROVE  \E f : Joins(f, parts, Len(parts))
<1> DEFINE S == {k \in 0..Len(parts) : \E f : Joins(f, parts, k)}
<1>1. 0 \in S
  <2>1. Joins([i \in 0..0 |-> <<>>], parts, 0)
    BY DEF Joins
  <2> QED BY <2>1
<1>2. ASSUME NEW k \in 0..Len(parts) - 1, k \in S PROVE k + 1 \in S
  <2>1. PICK f : Joins(f, parts, k)
    BY <1>2
  <2> DEFINE g == [i \in 0..k + 1 |-> IF i = k + 1 THEN f[k] \o parts[k + 1] ELSE f[i]]
  <2>2. ASSUME NEW i \in 0..k + 1 PROVE g[i] = IF i = 0 THEN <<>> ELSE g[i - 1] \o parts[i]
    <3>1. CASE i = k + 1
      BY <3>1
    <3>2. CASE i # k + 1
      <4>1. i \in 0..k /\ (i # 0 => i - 1 \in 0..k /\ i - 1 # k + 1)
        BY <3>2
      <4>2. f[i] = IF i = 0 THEN <<>> ELSE f[i - 1] \o parts[i]
        BY <2>1, <4>1 DEF Joins
      <4> QED BY <4>1, <4>2
    <3> QED BY <3>1, <3>2
  <2>3. Joins(g, parts, k + 1)
    BY <2>2 DEF Joins
  <2> QED BY <2>3
<1> HIDE DEF S
<1>3. \A k \in 0..Len(parts) : k \in S
  BY <1>1, <1>2, CountingUp
<1>4. Len(parts) \in S
  BY <1>3
<1> QED BY <1>4 DEF S

LEMMA JoinedUnfolds ==
  ASSUME NEW parts, Len(parts) \in Nat
  PROVE  /\ UpTo(parts)[0] = <<>>
         /\ \A i \in 0..Len(parts) - 1 : UpTo(parts)[i + 1] = UpTo(parts)[i] \o parts[i + 1]
<1>1. UpTo(parts) = CHOOSE f : Joins(f, parts, Len(parts))
  BY DEF UpTo, Joins
<1> DEFINE u == UpTo(parts)
<1>2. Joins(u, parts, Len(parts))
  BY <1>1, JoinsAreThere
<1> HIDE DEF u
<1>3. \A i \in 0..Len(parts) : u[i] = IF i = 0 THEN <<>> ELSE u[i - 1] \o parts[i]
  BY <1>2 DEF Joins
<1>4. ASSUME NEW i \in 0..Len(parts) - 1
      PROVE  u[i + 1] = u[i] \o parts[i + 1]
  <2> DEFINE j == i + 1
  <2>1. j \in 0..Len(parts) /\ j # 0 /\ j - 1 = i
    OBVIOUS
  <2> HIDE DEF j
  <2>2. u[j] = u[j - 1] \o parts[j]
    BY <2>1, <1>3
  <2>3. u[j] = u[i] \o parts[j]
    BY <2>1, <2>2
  <2> QED BY <2>3 DEF j
<1>5. u[0] = <<>>
  BY <1>3
<1> QED BY <1>4, <1>5 DEF u

LEMMA JoinedTyped ==
  ASSUME NEW S, NEW parts \in Seq(Seq(S))
  PROVE  \A i \in 0..Len(parts) : UpTo(parts)[i] \in Seq(S)
<1> DEFINE T == {i \in 0..Len(parts) : UpTo(parts)[i] \in Seq(S)}
<1>0. Len(parts) \in Nat
  OBVIOUS
<1>1. /\ UpTo(parts)[0] = <<>>
      /\ \A i \in 0..Len(parts) - 1 : UpTo(parts)[i + 1] = UpTo(parts)[i] \o parts[i + 1]
  BY <1>0, JoinedUnfolds, Zenon
<1>2. 0 \in T
  <2>1. <<>> \in Seq(S)
    OBVIOUS
  <2>2. UpTo(parts)[0] \in Seq(S)
    BY <2>1, <1>1, Zenon
  <2> QED BY <1>0, <2>2
<1>3. ASSUME NEW i \in 0..Len(parts) - 1, i \in T PROVE i + 1 \in T
  <2>1. i + 1 \in 1..Len(parts) /\ i + 1 - 1 = i /\ i + 1 \in 0..Len(parts)
    BY <1>0
  <2>2. UpTo(parts)[i + 1] = UpTo(parts)[i] \o parts[i + 1]
    BY <1>1, Zenon
  <2>3. parts[i + 1] \in Seq(S) /\ UpTo(parts)[i] \in Seq(S)
    BY <1>3, <2>1
  <2>4. UpTo(parts)[i + 1] \in Seq(S)
    BY <2>2, <2>3
  <2> QED BY <2>1, <2>4
<1> HIDE DEF T
<1>4. \A i \in 0..Len(parts) : i \in T
  BY <1>0, <1>2, <1>3, CountingUp
<1> QED BY <1>4 DEF T

LEMMA GreatestIsThere ==
  ASSUME NEW n \in Nat, NEW S \in SUBSET (0..n), S # {}
  PROVE  \E m \in S : \A x \in S : x <= m
<1> DEFINE T == {d \in 0..n : n - d \in S}
<1>1. PICK x \in S : TRUE
  OBVIOUS
<1>2. n - x \in T
  BY <1>1
<1>3. Min(T) \in T /\ \A d \in T : Min(T) <= d
  <2>1. T # {}
    BY <1>2
  <2>2. T \in SUBSET Nat
    OBVIOUS
  <2> HIDE DEF T
  <2> QED BY <2>1, <2>2, LeastIsThere
<1> DEFINE d == Min(T)
<1>4. d \in 0..n /\ n - d \in S
  BY <1>3
<1>5. ASSUME NEW y \in S PROVE y <= n - d
  <2>1. n - y \in T
    OBVIOUS
  <2>2. d <= n - y
    BY <1>3, <2>1
  <2> HIDE DEF d
  <2> QED BY <1>4, <2>2
<1> QED BY <1>4, <1>5

-----------------------------------------------------------------------------
(* Lines.                                                                  *)
LEMMA EndOfALine ==
  ASSUME NEW s \in Seq(Bytes), NEW p \in Nat \ {0}, Ends(s, p) # {}
  PROVE  /\ LineEnd(s, p) \in p..Len(s)
         /\ s[LineEnd(s, p)] = "n"
         /\ \A i \in p..LineEnd(s, p) - 1 : s[i] # "n"
<1>1. Ends(s, p) \in SUBSET Nat
  BY DEF Ends
<1>2. LineEnd(s, p) \in Ends(s, p) /\ \A i \in Ends(s, p) : LineEnd(s, p) <= i
  BY <1>1, LeastIsThere DEF LineEnd
<1> DEFINE e == LineEnd(s, p)
<1>3. e \in p..Len(s) /\ s[e] = "n"
  BY <1>2 DEF Ends
<1>4. ASSUME NEW i \in p..e - 1 PROVE s[i] # "n"
  <2> HIDE DEF e
  <2>1. i \in p..Len(s) /\ ~(e <= i)
    BY <1>3
  <2>2. i \notin Ends(s, p)
    BY <1>2, <2>1 DEF e
  <2> QED BY <2>1, <2>2 DEF Ends
<1> QED BY <1>3, <1>4

LEMMA LineEndIs ==
  ASSUME NEW s \in Seq(Bytes), NEW p \in Nat \ {0}, NEW e \in p..Len(s), s[e] = "n",
         \A i \in p..e - 1 : s[i] # "n"
  PROVE  Ends(s, p) # {} /\ LineEnd(s, p) = e
<1>1. e \in Ends(s, p) /\ Ends(s, p) \in SUBSET Nat
  BY DEF Ends
<1>2. ASSUME NEW i \in Ends(s, p) PROVE e <= i
  BY DEF Ends
<1> QED BY <1>1, <1>2, MinIs DEF LineEnd

LEMMA LineStartsTyped ==
  ASSUME NEW s \in Seq(Bytes), NEW h \in 1..Len(s) + 1
  PROVE  LineStarts(s, h) \subseteq h..Len(s) + 1
BY DEF LineStarts, Ends

LEMMA NextLine ==
  ASSUME NEW s \in Seq(Bytes), NEW h \in 1..Len(s) + 1, NEW p \in LineStarts(s, h), Ends(s, p) # {}
  PROVE  /\ LineEnd(s, p) + 1 \in LineStarts(s, h)
         /\ LineEnd(s, p) \in p..Len(s)
         /\ \A q \in LineStarts(s, h) : q < LineEnd(s, p) + 1 => q < p \/ q = p
<1>1. p \in h..Len(s) + 1 /\ p \in Nat \ {0}
  BY LineStartsTyped
<1> DEFINE e == LineEnd(s, p)
<1>2. e \in p..Len(s) /\ s[e] = "n" /\ \A i \in p..e - 1 : s[i] # "n"
  BY <1>1, EndOfALine
<1> HIDE DEF e
<1>3. e \in Ends(s, h)
  BY <1>1, <1>2 DEF Ends
<1>4. e + 1 \in LineStarts(s, h)
  BY <1>3 DEF LineStarts
<1>5. ASSUME NEW q \in LineStarts(s, h), q < e + 1 PROVE q < p \/ q = p
  <2>1. CASE q = h
    BY <2>1, <1>1
  <2>2. ASSUME NEW i \in Ends(s, h), q = i + 1 PROVE q < p \/ q = p
    <3>1. i \in h..Len(s) /\ s[i] = "n"
      BY DEF Ends
    <3>2. i \notin p..e - 1
      BY <3>1, <1>2
    <3> QED BY <3>1, <3>2, <2>2, <1>5, <1>2, <1>1
  <2> QED BY <2>1, <2>2 DEF LineStarts
<1> QED BY <1>2, <1>4, <1>5 DEF e

LEMMA KindsOfText ==
  ASSUME NEW text
  PROVE  /\ KindOf(text) \in {"notUtf8", "blank", "length", "malformed", "other"}
         /\ KindOf(text) = "notUtf8" <=> ~IsUtf8(text)
         /\ KindOf(text) = "length" => text # <<>> /\ text[1] \in DOMAIN Announced /\ Len(text) = 1
BY DEF KindOf

LEMMA LineOfALength ==
  ASSUME NEW s \in Seq(Bytes), NEW p \in Nat \ {0}, LineKind(s, p) = "length"
  PROVE  s[p] \in DOMAIN Announced /\ Announced[s[p]] \in Nat /\ p \in 1..Len(s)
<1>1. Ends(s, p) # {} /\ KindOf(SubSeq(s, p, LineEnd(s, p) - 1)) = "length"
  BY DEF LineKind
<1> DEFINE e == LineEnd(s, p)
           text == SubSeq(s, p, e - 1)
<1>2. e \in p..Len(s)
  BY <1>1, EndOfALine
<1>3. text[1] \in DOMAIN Announced /\ Len(text) = 1
  BY <1>1, KindsOfText
<1>4. text[1] = s[p]
  <2> HIDE DEF e
  <2>1. Len(text) = IF p <= e - 1 THEN e - 1 - p + 1 ELSE 0
    BY <1>2
  <2>2. e = p + 1 /\ e - 1 = p /\ p \in 1..Len(s)
    BY <1>2, <1>3, <2>1
  <2>3. text = SubSeq(s, p, p)
    BY <2>2
  <2>4. SubSeq(s, p, p)[1] = s[p]
    BY <2>2
  <2> HIDE DEF text
  <2> QED BY <2>3, <2>4
<1>5. s[p] \in DOMAIN Announced /\ p \in 1..Len(s)
  <2> HIDE DEF e, text
  <2> QED BY <1>2, <1>3, <1>4
<1> QED BY <1>5, FramingAssumption

LEMMA LengthsNext ==
  ASSUME NEW s \in Seq(Bytes), NEW h \in 1..Len(s) + 1, NEW p \in LineStarts(s, h), Ends(s, p) # {}
  PROVE  Lengths(s, h, LineEnd(s, p) + 1)
           = Lengths(s, h, p) \cup (IF LineKind(s, p) = "length" THEN {p} ELSE {})
<1> DEFINE e == LineEnd(s, p)
<1>1. e \in p..Len(s) /\ \A q \in LineStarts(s, h) : q < e + 1 => q < p \/ q = p
  BY NextLine
<1> HIDE DEF e
<1>2. LineStarts(s, h) \subseteq Nat
  BY LineStartsTyped
<1>3. ASSUME NEW q \in LineStarts(s, h) PROVE q < e + 1 <=> q < p \/ q = p
  BY <1>1, <1>2
<1>4. Lengths(s, h, e + 1)
        = {q \in LineStarts(s, h) : (q < p \/ q = p) /\ LineKind(s, q) = "length"}
  BY <1>3 DEF Lengths
<1> QED BY <1>4 DEF Lengths, e

LEMMA LengthsTyped ==
  ASSUME NEW s \in Seq(Bytes), NEW h \in 1..Len(s) + 1, NEW p, Lengths(s, h, p) # {}
  PROVE  /\ Min(Lengths(s, h, p)) \in Lengths(s, h, p)
         /\ Announced[s[Min(Lengths(s, h, p))]] \in Nat
<1>1. LineStarts(s, h) \subseteq Nat \ {0}
  BY LineStartsTyped
<1>2. Lengths(s, h, p) \in SUBSET Nat
  BY <1>1 DEF Lengths
<1>3. Min(Lengths(s, h, p)) \in Lengths(s, h, p)
  BY <1>2, LeastIsThere
<1> DEFINE m == Min(Lengths(s, h, p))
<1>4. m \in Nat \ {0} /\ LineKind(s, m) = "length"
  BY <1>1, <1>3 DEF Lengths
<1>5. Announced[s[m]] \in Nat
  <2> HIDE DEF m
  <2> QED BY <1>4, LineOfALength
<1> QED BY <1>3, <1>5

-----------------------------------------------------------------------------
(* Headers.                                                                *)
LEMMA LastLineIs ==
  ASSUME NEW s \in Seq(Bytes), NEW h \in 1..Len(s) + 1, NEW p \in LineStarts(s, h),
         IsLast(s, h, p), \A q \in LineStarts(s, h) : q < p => ~IsLast(s, h, q)
  PROVE  LastLine(s, h) = p
<1> DEFINE lasts == {q \in LineStarts(s, h) : IsLast(s, h, q)}
<1>1. LineStarts(s, h) \subseteq Nat
  BY LineStartsTyped
<1>2. lasts \in SUBSET Nat /\ p \in lasts
  BY <1>1
<1>3. ASSUME NEW q \in lasts PROVE p <= q
  BY <1>1
<1> HIDE DEF lasts
<1>4. Min(lasts) = p
  BY <1>2, <1>3, MinIs
<1> QED BY <1>4 DEF LastLine, lasts

LEMMA LastLineIsThere ==
  ASSUME NEW s \in Seq(Bytes), NEW h \in 1..Len(s) + 1
  PROVE  LastLine(s, h) \in LineStarts(s, h) /\ IsLast(s, h, LastLine(s, h))
<1> DEFINE lasts == {q \in LineStarts(s, h) : IsLast(s, h, q)}
<1>1. LineStarts(s, h) \subseteq h..Len(s) + 1
  BY LineStartsTyped
<1>2. \E p \in LineStarts(s, h) : Ends(s, p) = {}
  <2>1. h \in LineStarts(s, h) /\ LineStarts(s, h) \in SUBSET (0..Len(s) + 1) /\ Len(s) + 1 \in Nat
    BY <1>1 DEF LineStarts
  <2>2. PICK p \in LineStarts(s, h) : \A q \in LineStarts(s, h) : q <= p
    BY <2>1, GreatestIsThere
  <2>3. ASSUME Ends(s, p) # {} PROVE FALSE
    <3> DEFINE e == LineEnd(s, p)
    <3>1. e + 1 \in LineStarts(s, h) /\ e \in p..Len(s)
      BY <2>3, NextLine
    <3>2. e + 1 <= p
      BY <2>2, <3>1
    <3> HIDE DEF e
    <3> QED BY <3>1, <3>2, <1>1
  <2> QED BY <2>3
<1>3. PICK p \in LineStarts(s, h) : Ends(s, p) = {}
  BY <1>2
<1>4. IsLast(s, h, p)
  BY <1>3 DEF IsLast, IsWithinLimit
<1>5. lasts \in SUBSET Nat /\ lasts # {}
  BY <1>1, <1>4
<1> HIDE DEF lasts
<1>6. Min(lasts) \in lasts
  BY <1>5, LeastIsThere
<1> QED BY <1>6 DEF LastLine, lasts

\* What a header that is in order says.
LEMMA HeaderTyped ==
  ASSUME NEW s \in Seq(Bytes), NEW h \in 1..Len(s) + 1, Header(s, h).error = "none"
  PROVE  Header(s, h).length \in Nat /\ Header(s, h).next \in h + 1..Len(s) + 1
<1> DEFINE p == LastLine(s, h)
           lengths == Lengths(s, h, p)
<1>1. p \in LineStarts(s, h) /\ p \in h..Len(s) + 1
  BY LastLineIsThere, LineStartsTyped
<1>2. IsWithinLimit(s, h, p) /\ LineKind(s, p) = "blank" /\ lengths # {}
  BY DEF Header
<1>3. Header(s, h) = [error |-> "none", length |-> Announced[s[Min(lengths)]],
                      next |-> LineEnd(s, p) + 1]
  BY <1>2 DEF Header
<1>4. LineEnd(s, p) \in p..Len(s)
  BY <1>1, <1>2, EndOfALine DEF IsWithinLimit
<1>5. Announced[s[Min(lengths)]] \in Nat
  BY <1>2, LengthsTyped
<1> HIDE DEF p, lengths
<1> QED BY <1>1, <1>3, <1>4, <1>5

-----------------------------------------------------------------------------
(* What the bytes mean, from each position on.                             *)
LEMMA MeaningLooksAhead ==
  ASSUME NEW s \in Seq(Bytes), NEW p \in 1..Len(s) + 1, NEW f, NEW g,
         \A q \in p + 1..Len(s) + 1 : f[q] = g[q]
  PROVE  MeaningAt(s, p, f) = MeaningAt(s, p, g)
<1> DEFINE h == Header(s, p)
           next == h.next + h.length - 1 + 1
<1>1. CASE h.error = "none" /\ ~(h.next + h.length - 1 > Len(s))
  <2>1. h.length \in Nat /\ h.next \in p + 1..Len(s) + 1
    BY <1>1, HeaderTyped
  <2> HIDE DEF h
  <2>2. next \in p + 1..Len(s) + 1
    BY <1>1, <2>1
  <2> HIDE DEF next
  <2>3. f[next] = g[next]
    BY <2>2
  <2> QED BY <2>3 DEF MeaningAt, h, next
<1>2. CASE h.error # "none" \/ h.next + h.length - 1 > Len(s)
  BY <1>2 DEF MeaningAt
<1> QED BY <1>1, <1>2

IsMeaning(f, s, first) == f = [p \in first..Len(s) + 1 |-> MeaningAt(s, p, f)]

LEMMA MeaningsAreThere ==
  ASSUME NEW s \in Seq(Bytes)
  PROVE  \E f : IsMeaning(f, s, 1)
<1> DEFINE n == Len(s) + 1
           S == {d \in 0..n : \E f : IsMeaning(f, s, n + 1 - d)}
<1>0. n \in Nat
  OBVIOUS
<1>1. 0 \in S
  <2> DEFINE none == [p \in {} |-> p]
  <2>1. n + 1 - 0..n = {}
    BY <1>0
  <2>2. IsMeaning(none, s, n + 1 - 0)
    BY <2>1 DEF IsMeaning
  <2> QED BY <1>0, <2>2
<1>2. ASSUME NEW d \in 0..n - 1, d \in S PROVE d + 1 \in S
  <2>1. PICK f : IsMeaning(f, s, n + 1 - d)
    BY <1>2
  <2> DEFINE p == n - d
             g == [q \in p..n |-> IF q = p THEN MeaningAt(s, p, f) ELSE f[q]]
  <2>2. p \in 1..n /\ p + 1 = n + 1 - d /\ p = n + 1 - (d + 1) /\ p \in Nat
    BY <1>0
  <2>3. f = [q \in p + 1..n |-> MeaningAt(s, q, f)]
    BY <2>1, <2>2 DEF IsMeaning
  <2> HIDE DEF p, n
  <2>4. \A q \in p + 1..n : g[q] = f[q]
    BY <2>2, <1>0
  <2>5. ASSUME NEW q \in p..n PROVE g[q] = MeaningAt(s, q, g)
    <3>1. MeaningAt(s, q, g) = MeaningAt(s, q, f)
      <4> HIDE DEF g
      <4>1. q \in 1..Len(s) + 1 /\ \A r \in q + 1..Len(s) + 1 : g[r] = f[r]
        BY <2>2, <2>4, <1>0 DEF n
      <4> QED BY <4>1, MeaningLooksAhead
    <3>2. CASE q = p
      BY <3>1, <3>2
    <3>3. CASE q # p
      <4>1. q \in p + 1..n
        BY <3>3, <2>2, <1>0
      <4>2. f[q] = MeaningAt(s, q, f)
        BY <2>3, <4>1
      <4>3. g[q] = f[q]
        BY <2>4, <4>1
      <4> HIDE DEF g
      <4> QED BY <3>1, <4>2, <4>3
    <3> QED BY <3>2, <3>3
  <2>6. IsMeaning(g, s, p)
    <3>1. g = [q \in p..n |-> g[q]]
      OBVIOUS
    <3> HIDE DEF g
    <3>2. g = [q \in p..n |-> MeaningAt(s, q, g)]
      BY <3>1, <2>5
    <3> QED BY <3>2 DEF IsMeaning, n
  <2>7. IsMeaning(g, s, n + 1 - (d + 1))
    BY <2>6, <2>2
  <2> QED BY <2>7, <1>0
<1> HIDE DEF S
<1>3. \A d \in 0..n : d \in S
  BY <1>0, <1>1, <1>2, CountingUp
<1>4. n \in S
  BY <1>0, <1>3
<1>5. \E f : IsMeaning(f, s, n + 1 - n)
  BY <1>4 DEF S
<1>6. n + 1 - n = 1
  BY <1>0
<1> HIDE DEF n
<1> QED BY <1>5, <1>6

LEMMA MeaningsUnfold ==
  ASSUME NEW s \in Seq(Bytes), NEW p \in 1..Len(s) + 1
  PROVE  Meanings(s)[p] = MeaningAt(s, p, Meanings(s))
<1>1. Meanings(s) = CHOOSE f : IsMeaning(f, s, 1)
  BY DEF Meanings, IsMeaning
<1>2. IsMeaning(Meanings(s), s, 1)
  BY <1>1, MeaningsAreThere
<1> DEFINE m == Meanings(s)
<1> HIDE DEF m
<1>3. m = [q \in 1..Len(s) + 1 |-> MeaningAt(s, q, m)]
  BY <1>2 DEF IsMeaning, m
<1>4. m[p] = MeaningAt(s, p, m)
  BY <1>3
<1> QED BY <1>4 DEF m

LEMMA MeaningsTyped ==
  ASSUME NEW s \in Seq(Bytes)
  PROVE  \A p \in 1..Len(s) + 1 : Meanings(s)[p].payloads \in Seq(Seq(Bytes))
<1> DEFINE n == Len(s) + 1
           m == Meanings(s)
           S == {p \in 1..n : m[p].payloads \in Seq(Seq(Bytes))}
<1>0. n \in Nat
  OBVIOUS
<1>1. ASSUME NEW p \in 1..n, \A q \in p + 1..n : q \in S PROVE p \in S
  <2> DEFINE h == Header(s, p)
             last == h.next + h.length - 1
  <2>1. m[p] = MeaningAt(s, p, m)
    BY MeaningsUnfold
  <2>2. CASE h.error = "none" /\ ~(last > Len(s))
    <3>1. h.length \in Nat /\ h.next \in p + 1..Len(s) + 1
      BY <2>2, HeaderTyped
    <3> HIDE DEF h
    <3>2. last + 1 \in p + 1..n /\ last \in 0..Len(s) /\ h.next \in Nat \ {0}
      BY <2>2, <3>1
    <3>3. m[last + 1].payloads \in Seq(Seq(Bytes))
      BY <1>1, <3>2
    <3> HIDE DEF m, n, last
    <3>4. SubSeq(s, h.next, last) \in Seq(Bytes)
      BY <3>2
    <3>5. <<SubSeq(s, h.next, last)>> \o m[last + 1].payloads \in Seq(Seq(Bytes))
      BY <3>3, <3>4
    <3>6. MeaningAt(s, p, m).payloads \in {<<>>, <<SubSeq(s, h.next, last)>> \o m[last + 1].payloads}
      BY DEF MeaningAt, h, last
    <3>7. <<>> \in Seq(Seq(Bytes))
      OBVIOUS
    <3>8. MeaningAt(s, p, m).payloads \in Seq(Seq(Bytes))
      BY <3>5, <3>6, <3>7
    <3> QED BY <2>1, <3>8
  <2>3. CASE h.error # "none" \/ last > Len(s)
    <3> HIDE DEF m, n
    <3>1. \E error : MeaningAt(s, p, m) = [payloads |-> <<>>, error |-> error]
      BY <2>3 DEF MeaningAt
    <3>2. m[p].payloads = <<>>
      BY <2>1, <3>1
    <3>3. <<>> \in Seq(Seq(Bytes))
      OBVIOUS
    <3>4. m[p].payloads \in Seq(Seq(Bytes))
      BY <3>2, <3>3
    <3> QED BY <3>4
  <2> QED BY <2>2, <2>3
<1> HIDE DEF S
<1>2. \A p \in 1..n : p \in S
  BY <1>0, <1>1, CountingDown
<1> QED BY <1>2 DEF S

-----------------------------------------------------------------------------
(* Frames as they are sent.                                                *)
LEMMA Utf8Joins ==
  ASSUME NEW a \in Seq(Bytes), NEW b \in Seq(Bytes), IsUtf8(a), IsUtf8(b)
  PROVE  IsUtf8(a \o b)
<1> DEFINE c == a \o b
<1>1. /\ Len(c) = Len(a) + Len(b)
      /\ \A i \in 1..Len(a) : c[i] = a[i]
      /\ \A i \in 1..Len(c) : i > Len(a) => i - Len(a) \in 1..Len(b) /\ c[i] = b[i - Len(a)]
  OBVIOUS
<1> HIDE DEF c
<1>2. ASSUME NEW i \in 1..Len(c), c[i] = "w1" PROVE i < Len(c) /\ c[i + 1] = "w2"
  <2>1. CASE i <= Len(a)
    <3>1. i \in 1..Len(a) /\ a[i] = "w1"
      BY <1>1, <1>2, <2>1
    <3>2. i < Len(a) /\ a[i + 1] = "w2"
      BY <3>1 DEF IsUtf8
    <3>3. i + 1 \in 1..Len(a) /\ i < Len(c)
      BY <3>1, <3>2, <1>1
    <3> QED BY <3>2, <3>3, <1>1
  <2>2. CASE i > Len(a)
    <3> DEFINE j == i - Len(a)
    <3>1. j \in 1..Len(b) /\ b[j] = "w1"
      BY <1>1, <1>2, <2>2
    <3>2. j < Len(b) /\ b[j + 1] = "w2"
      <4> HIDE DEF j
      <4> QED BY <3>1 DEF IsUtf8
    <3>3. i + 1 \in 1..Len(c) /\ i + 1 > Len(a) /\ i + 1 - Len(a) = j + 1 /\ i < Len(c)
      BY <3>1, <3>2, <1>1, <2>2
    <3>4. c[i + 1] = b[i + 1 - Len(a)]
      BY <3>3, <1>1
    <3> QED BY <3>2, <3>3, <3>4
  <2> QED BY <2>1, <2>2
<1>3. ASSUME NEW i \in 1..Len(c), c[i] = "w2" PROVE i > 1 /\ c[i - 1] = "w1"
  <2>1. CASE i <= Len(a)
    <3>1. i \in 1..Len(a) /\ a[i] = "w2"
      BY <1>1, <1>3, <2>1
    <3>2. i > 1 /\ a[i - 1] = "w1"
      BY <3>1 DEF IsUtf8
    <3>3. i - 1 \in 1..Len(a)
      BY <3>1, <3>2, <1>1
    <3> QED BY <3>2, <3>3, <1>1
  <2>2. CASE i > Len(a)
    <3> DEFINE j == i - Len(a)
    <3>1. j \in 1..Len(b) /\ b[j] = "w2"
      BY <1>1, <1>3, <2>2
    <3>2. j > 1 /\ b[j - 1] = "w1"
      <4> HIDE DEF j
      <4> QED BY <3>1 DEF IsUtf8
    <3>3. i - 1 \in 1..Len(c) /\ i - 1 > Len(a) /\ i - 1 - Len(a) = j - 1 /\ i > 1
      BY <3>1, <3>2, <1>1, <2>2
    <3>4. c[i - 1] = b[i - 1 - Len(a)]
      BY <3>3, <1>1
    <3> QED BY <3>2, <3>3, <3>4
  <2> QED BY <2>1, <2>2
<1>4. \A i \in 1..Len(c) : /\ c[i] = "w1" => i < Len(c) /\ c[i + 1] = "w2"
                           /\ c[i] = "w2" => i > 1 /\ c[i - 1] = "w1"
  BY <1>2, <1>3
<1>5. IsUtf8(c)
  BY <1>4 DEF IsUtf8
<1> QED BY <1>5 DEF c

LEMMA BytesOfAText ==
  ASSUME NEW text \in Seq(Characters)
  PROVE  BytesOf(text) \in Seq(Bytes) /\ IsUtf8(BytesOf(text))
<1> DEFINE parts == [i \in 1..Len(text) |->
                       IF text[i] = "w" THEN <<"w1", "w2">> ELSE <<text[i]>>]
           u == UpTo(parts)
           n == Len(text)
           S == {k \in 0..n : IsUtf8(u[k])}
<1>1. ASSUME NEW i \in 1..n PROVE parts[i] \in Seq(Bytes) /\ IsUtf8(parts[i])
  <2>1. text[i] \in {"n", "x", "w"}
    BY DEF Characters
  <2>2. CASE text[i] = "w"
    <3>1. parts[i] = <<"w1", "w2">>
      BY <2>2
    <3>2. <<"w1", "w2">> \in Seq(Bytes)
      BY DEF Bytes
    <3>3. IsUtf8(<<"w1", "w2">>)
      BY DEF IsUtf8
    <3> QED BY <3>1, <3>2, <3>3
  <2>3. CASE text[i] # "w"
    <3>1. parts[i] = <<text[i]>> /\ text[i] \in Bytes /\ text[i] # "w1" /\ text[i] # "w2"
      BY <2>1, <2>3 DEF Bytes
    <3>2. IsUtf8(<<text[i]>>)
      BY <3>1 DEF IsUtf8
    <3> QED BY <3>1, <3>2
  <2> QED BY <2>2, <2>3
<1>2. n \in Nat /\ Len(parts) = n
  OBVIOUS
<1>3. parts \in Seq(Seq(Bytes))
  <2>1. parts \in [1..n -> Seq(Bytes)]
    <3>1. parts = [i \in 1..n |-> parts[i]]
      OBVIOUS
    <3> HIDE DEF parts, n
    <3> QED BY <3>1, <1>1
  <2> HIDE DEF parts, n
  <2> QED BY <2>1, <1>2
<1> HIDE DEF parts, n
<1>4. \A k \in 0..n : u[k] \in Seq(Bytes)
  BY <1>2, <1>3, JoinedTyped
<1>5. u[0] = <<>> /\ \A k \in 0..n - 1 : u[k + 1] = u[k] \o parts[k + 1]
  BY <1>2, JoinedUnfolds, Zenon
<1> HIDE DEF u
<1>6. 0 \in S
  BY <1>2, <1>5 DEF IsUtf8
<1>7. ASSUME NEW k \in 0..n - 1, k \in S PROVE k + 1 \in S
  <2>1. u[k] \in Seq(Bytes) /\ IsUtf8(u[k])
    BY <1>4, <1>7
  <2>2. k + 1 \in 1..n
    BY <1>2
  <2>3. parts[k + 1] \in Seq(Bytes) /\ IsUtf8(parts[k + 1])
    BY <1>1, <2>2
  <2>4. IsUtf8(u[k] \o parts[k + 1])
    BY <2>1, <2>3, Utf8Joins
  <2>5. IsUtf8(u[k + 1])
    BY <2>4, <1>5, Zenon
  <2> QED BY <2>2, <2>5
<1>8. \A k \in 0..n : IsUtf8(u[k])
  <2>1. \A k \in 0..n : k \in S
    <3> HIDE DEF S
    <3> QED BY <1>2, <1>6, <1>7, CountingUp
  <2> QED BY <2>1
<1>9. BytesOf(text) = u[n]
  BY <1>2 DEF BytesOf, Joined, u, parts
<1> QED BY <1>2, <1>4, <1>8, <1>9

LEMMA HeaderOfAFrame ==
  ASSUME NEW s \in Seq(Bytes), NEW p \in 1..Len(s), p + 2 <= Len(s),
         s[p] \in DOMAIN Announced, s[p + 1] = "n", s[p + 2] = "n"
  PROVE  Header(s, p) = [error |-> "none", length |-> Announced[s[p]], next |-> p + 3]
<1> DEFINE first == p + 1
           blank == p + 2
<1>1. s[p] # "n" /\ s[p] # "w1" /\ s[p] # "w2"
  BY FramingAssumption
<1>2. /\ first \in p..Len(s) /\ blank \in blank..Len(s)
      /\ p \in Nat \ {0} /\ blank \in Nat \ {0}
      /\ first + 1 = blank /\ first - 1 = p /\ p < blank /\ blank + 1 = p + 3
      /\ blank < p + MaxHeader /\ first < p + MaxHeader
      /\ \A i \in p..first - 1 : i = p
      /\ \A i \in blank..blank - 1 : FALSE
  <2>1. MaxHeader \in Nat /\ MaxHeader >= 3
    BY FramingAssumption, TextsAssumption
  <2> QED BY <2>1
<1>3. s[first] = "n" /\ s[blank] = "n"
  OBVIOUS
<1> HIDE DEF first, blank
<1>4. Ends(s, p) # {} /\ LineEnd(s, p) = first
  <2>1. \A i \in p..first - 1 : s[i] # "n"
    BY <1>1, <1>2
  <2> QED BY <2>1, <1>2, <1>3, LineEndIs
<1>5. Ends(s, blank) # {} /\ LineEnd(s, blank) = blank
  <2>1. \A i \in blank..blank - 1 : s[i] # "n"
    BY <1>2
  <2> QED BY <2>1, <1>2, <1>3, LineEndIs
<1>6. LineKind(s, p) = "length"
  <2> DEFINE text == SubSeq(s, p, p)
  <2>1. text # <<>> /\ text[1] = s[p] /\ Len(text) = 1
    OBVIOUS
  <2> HIDE DEF text
  <2>2. IsUtf8(text)
    BY <1>1, <2>1 DEF IsUtf8
  <2>3. KindOf(text) = "length"
    BY <2>1, <2>2 DEF KindOf
  <2>4. LineKind(s, p) = KindOf(text)
    BY <1>2, <1>4 DEF LineKind, text
  <2> QED BY <2>3, <2>4
<1>7. LineKind(s, blank) = "blank"
  <2>1. SubSeq(s, blank, blank - 1) = <<>>
    BY <1>2
  <2>2. KindOf(<<>>) = "blank"
    BY DEF KindOf, IsUtf8
  <2>3. LineKind(s, blank) = KindOf(SubSeq(s, blank, blank - 1))
    BY <1>5 DEF LineKind
  <2> QED BY <2>1, <2>2, <2>3
<1>8. p \in LineStarts(s, p) /\ LineStarts(s, p) \subseteq p..Len(s) + 1 /\ p \in 1..Len(s) + 1
  BY LineStartsTyped DEF LineStarts
<1>9. blank \in LineStarts(s, p) /\ \A q \in LineStarts(s, p) : q < blank => q < p \/ q = p
  BY <1>2, <1>4, <1>8, NextLine
<1>10. Lengths(s, p, p) = {}
  BY <1>8 DEF Lengths
<1>11. Lengths(s, p, blank) = {p}
  BY <1>2, <1>4, <1>6, <1>8, <1>10, LengthsNext
<1>12. ASSUME NEW q \in LineStarts(s, p), q < blank PROVE ~IsLast(s, p, q)
  <2>1. q = p
    BY <1>8, <1>9, <1>12
  <2>2. ~IsLast(s, p, p)
    BY <1>2, <1>4, <1>6, <1>10 DEF IsLast, IsWithinLimit
  <2> QED BY <2>1, <2>2
<1>13. IsWithinLimit(s, p, blank) /\ IsLast(s, p, blank)
  BY <1>2, <1>5, <1>7 DEF IsLast, IsWithinLimit
<1>14. LastLine(s, p) = blank
  BY <1>8, <1>9, <1>12, <1>13, LastLineIs
<1>15. Min({p}) = p
  <2>1. {p} \in SUBSET Nat /\ p \in {p} /\ \A x \in {p} : p <= x
    BY <1>2
  <2> QED BY <2>1, MinIs
<1> QED BY <1>2, <1>5, <1>7, <1>11, <1>13, <1>14, <1>15 DEF Header

\* A frame as a server writes it, wherever it is.
LEMMA FrameIsMeant ==
  ASSUME NEW text \in Texts, NEW a \in Seq(Bytes), NEW b \in Seq(Bytes), NEW s,
         s = a \o FramedBytesOf(text) \o b
  PROVE  /\ s \in Seq(Bytes)
         /\ Meanings(s)[Len(a) + 1].payloads =
              <<BytesOf(text)>> \o Meanings(s)[Len(a \o FramedBytesOf(text)) + 1].payloads
<1> DEFINE bytes == BytesOf(text)
           begin == CHOOSE c \in DOMAIN Announced : Announced[c] = Len(BytesOf(text))
           framed == <<begin, "n", "n">> \o bytes
           p == Len(a) + 1
           next == p + 3
           last == next + Len(bytes) - 1
<1>1. FramedBytesOf(text) = framed
  BY DEF FramedBytesOf
<1>2. bytes \in Seq(Bytes) /\ IsUtf8(bytes)
  BY FramingAssumption, BytesOfAText
<1>3. begin \in DOMAIN Announced /\ Announced[begin] = Len(bytes) /\ Len(bytes) <= MaxPayload
  BY TextsAssumption
<1>4. begin \in Bytes /\ "n" \in Bytes
  BY <1>3 DEF Bytes
<1> HIDE DEF bytes, begin
<1>5. framed \in Seq(Bytes) /\ Len(framed) = 3 + Len(bytes) /\ framed[1] = begin
      /\ framed[2] = "n" /\ framed[3] = "n" /\ SubSeq(framed, 4, Len(framed)) = bytes
  BY <1>2, <1>4
<1> HIDE DEF framed
<1>6. s = a \o framed \o b
  BY <1>1
<1>7. s \in Seq(Bytes) /\ Len(s) = Len(a) + Len(framed) + Len(b)
      /\ \A i \in 1..Len(framed) : s[Len(a) + i] = framed[i]
  <2> DEFINE af == a \o framed
  <2>1. af \in Seq(Bytes) /\ Len(af) = Len(a) + Len(framed)
    BY <1>5, ConcatProperties
  <2>2. \A i \in 1..Len(framed) : af[Len(a) + i] = framed[i]
    BY <1>5
  <2>3. s = af \o b
    BY <1>6
  <2> HIDE DEF af
  <2>4. s \in Seq(Bytes) /\ Len(s) = Len(af) + Len(b)
    BY <2>1, <2>3, ConcatProperties
  <2>5. \A i \in 1..Len(af) : s[i] = af[i]
    BY <2>1, <2>3
  <2>6. \A i \in 1..Len(framed) : Len(a) + i \in 1..Len(af)
    BY <2>1, <1>5
  <2> QED BY <2>1, <2>2, <2>4, <2>5, <2>6
<1>8. Len(a) \in Nat /\ Len(b) \in Nat /\ Len(bytes) \in Nat
  BY <1>2
<1>9. p \in 1..Len(s) /\ p + 2 <= Len(s) /\ p \in 1..Len(s) + 1
  BY <1>5, <1>7, <1>8
<1>10. s[p] = begin /\ s[p + 1] = "n" /\ s[p + 2] = "n"
  BY <1>5, <1>7, <1>8
<1>11. Header(s, p) = [error |-> "none", length |-> Announced[begin], next |-> next]
  <2> HIDE DEF p
  <2> QED BY <1>3, <1>7, <1>9, <1>10, HeaderOfAFrame
<1>12. next \in Nat \ {0} /\ last = Len(a) + Len(framed) /\ last <= Len(s) /\ last \in Nat
       /\ next = Len(a) + 4
  BY <1>5, <1>7, <1>8
<1>13. SubSeq(s, next, last) = bytes
  <2> DEFINE cut == SubSeq(s, next, last)
  <2>1. Len(cut) = Len(bytes) /\ \A i \in 1..Len(cut) : cut[i] = s[next + i - 1]
    BY <1>5, <1>7, <1>8, <1>12
  <2>2. ASSUME NEW i \in 1..Len(bytes) PROVE s[next + i - 1] = bytes[i]
    <3>1. next + i - 1 = Len(a) + (3 + i) /\ 3 + i \in 1..Len(framed)
      BY <1>5, <1>8, <1>12
    <3>2. framed[3 + i] = bytes[i]
      BY <1>2, <1>8 DEF framed
    <3> QED BY <3>1, <3>2, <1>7
  <2>3. cut \in Seq(Bytes)
    BY <1>7, <1>12
  <2> HIDE DEF cut
  <2>4. cut = bytes
    BY <1>2, <2>1, <2>2, <2>3, SeqEqual
  <2> QED BY <2>4 DEF cut
<1>14. Meanings(s)[p] = MeaningAt(s, p, Meanings(s))
  BY <1>7, <1>9, MeaningsUnfold
<1> DEFINE m == Meanings(s)
<1> HIDE DEF m, p, next
<1>15. ~(Len(bytes) > MaxPayload) /\ ~(last > Len(s)) /\ next + Announced[begin] - 1 = last
  BY <1>3, <1>12, <1>8, FramingAssumption
<1> HIDE DEF last
<1>16. MeaningAt(s, p, m) = [payloads |-> <<bytes>> \o m[last + 1].payloads,
                             error |-> m[last + 1].error]
  <2> DEFINE h == Header(s, p)
  <2>1. h.error = "none" /\ h.next = next /\ h.length = Announced[begin]
    BY <1>11
  <2>2. h.next + h.length - 1 = last /\ ~(h.length > MaxPayload)
    BY <2>1, <1>3, <1>15
  <2>3. SubSeq(s, h.next, last) = bytes
    BY <2>1, <1>13
  <2> HIDE DEF h
  <2> QED BY <2>1, <2>2, <2>3, <1>2, <1>15 DEF MeaningAt, h
<1>17. Len(a \o FramedBytesOf(text)) = last
  <2>1. Len(a \o framed) = Len(a) + Len(framed)
    BY <1>5, ConcatProperties
  <2> QED BY <1>1, <1>12, <2>1
<1>18. m[p].payloads = <<bytes>> \o m[last + 1].payloads
  BY <1>14, <1>16 DEF m
<1> QED BY <1>7, <1>17, <1>18 DEF m, p, bytes

LEMMA PrefixOfJoined ==
  ASSUME NEW S, NEW a \in Seq(S), NEW b \in Seq(S)
  PROVE  IsPrefix(a, a \o b)
<1> DEFINE ab == a \o b
           cut == SubSeq(ab, 1, Len(a))
<1>1. ab \in Seq(S) /\ Len(ab) = Len(a) + Len(b) /\ \A i \in 1..Len(a) : ab[i] = a[i]
  BY ConcatProperties
<1> HIDE DEF ab
<1>2. cut \in Seq(S) /\ Len(cut) = Len(a) /\ \A i \in 1..Len(a) : cut[i] = ab[i]
  BY <1>1
<1> HIDE DEF cut
<1>3. cut = a
  BY <1>1, <1>2, SeqEqual
<1>4. SubSeq(a, 1, Len(a)) = a
  BY SubSeqFull
<1>5. Len(a) <= Len(ab)
  BY <1>1
<1> QED BY <1>3, <1>4, <1>5 DEF IsPrefix, ab, cut

LEMMA NothingBefore ==
  ASSUME NEW S, NEW a \in Seq(S)
  PROVE  <<>> \o a = a
BY ConcatEmptySeq

LEMMA FramedTyped ==
  ASSUME NEW text \in Texts
  PROVE  FramedBytesOf(text) \in Seq(Bytes) /\ BytesOf(text) \in Seq(Bytes)
<1> DEFINE bytes == BytesOf(text)
           begin == CHOOSE c \in DOMAIN Announced : Announced[c] = Len(BytesOf(text))
<1>1. bytes \in Seq(Bytes)
  BY FramingAssumption, BytesOfAText
<1>2. begin \in DOMAIN Announced
  BY TextsAssumption
<1>3. begin \in Bytes /\ "n" \in Bytes
  BY <1>2 DEF Bytes
<1> HIDE DEF bytes, begin
<1>4. <<begin, "n", "n">> \in Seq(Bytes)
  BY <1>3
<1>5. <<begin, "n", "n">> \o bytes \in Seq(Bytes)
  BY <1>1, <1>4, ConcatProperties
<1> QED BY <1>1, <1>5 DEF FramedBytesOf, bytes, begin

\* A wire means, first of all, what the server has framed.
LEMMA SentIsMeant ==
  ASSUME NEW texts \in Seq(Texts), NEW tail \in Seq(Bytes)
  PROVE  /\ Wire(texts, tail) \in Seq(Bytes)
         /\ IsPrefix([i \in 1..Len(texts) |-> BytesOf(texts[i])],
                     Meaning(Wire(texts, tail)).payloads)
<1> DEFINE n == Len(texts)
           s == Wire(texts, tail)
           parts == [i \in 1..n |-> FramedBytesOf(texts[i])]
           u == UpTo(parts)
           m == Meanings(s)
           said(k) == [i \in 1..k |-> BytesOf(texts[i])]
           Rests(k) == {b \in Seq(Bytes) : s = u[k] \o b}
<1>1. n \in Nat /\ Len(parts) = n /\ \A i \in 1..n : texts[i] \in Texts
  OBVIOUS
<1>2. \A i \in 1..n : parts[i] = FramedBytesOf(texts[i]) /\ parts[i] \in Seq(Bytes)
                      /\ BytesOf(texts[i]) \in Seq(Bytes)
  BY <1>1, FramedTyped
<1>3. parts \in Seq(Seq(Bytes))
  <2>1. parts = [i \in 1..n |-> parts[i]]
    OBVIOUS
  <2> HIDE DEF parts, n
  <2>2. parts \in [1..n -> Seq(Bytes)]
    BY <2>1, <1>2
  <2> QED BY <2>2, <1>1
<1>4. s = u[n] \o tail
  BY <1>1 DEF Wire, Joined
<1> HIDE DEF parts, n, s
<1>5. \A k \in 0..n : u[k] \in Seq(Bytes)
  BY <1>1, <1>3, JoinedTyped
<1>6. u[0] = <<>> /\ \A k \in 0..n - 1 : u[k + 1] = u[k] \o parts[k + 1]
  BY <1>1, JoinedUnfolds, Zenon
<1> HIDE DEF u
<1>7. \A d \in 0..n : Rests(n - d) # {}
  <2> DEFINE S == {d \in 0..n : Rests(n - d) # {}}
  <2>1. 0 \in S
    <3>1. tail \in Rests(n) /\ n - 0 = n
      BY <1>1, <1>4
    <3> HIDE DEF Rests
    <3> QED BY <1>1, <3>1
  <2>2. ASSUME NEW d \in 0..n - 1, d \in S PROVE d + 1 \in S
    <3> DEFINE k == n - (d + 1)
    <3>1. k \in 0..n - 1 /\ k + 1 = n - d /\ k + 1 \in 1..n /\ k \in 0..n
      BY <1>1
    <3>2. PICK b \in Seq(Bytes) : s = u[n - d] \o b
      BY <2>2
    <3> HIDE DEF k
    <3>3. s = (u[k] \o parts[k + 1]) \o b
      BY <3>1, <3>2, <1>6
    <3>4. u[k] \in Seq(Bytes) /\ parts[k + 1] \in Seq(Bytes)
      BY <3>1, <1>2, <1>5
    <3>5. s = u[k] \o (parts[k + 1] \o b)
      <4>1. (u[k] \o parts[k + 1]) \o b = u[k] \o (parts[k + 1] \o b)
        <5> DEFINE a == u[k]
                   c == parts[k + 1]
        <5>1. a \in Seq(Bytes) /\ c \in Seq(Bytes)
          BY <3>4
        <5> HIDE DEF a, c
        <5>2. (a \o c) \o b = a \o (c \o b)
          BY <5>1
        <5> QED BY <5>2 DEF a, c
      <4> QED BY <3>3, <4>1
    <3>6. parts[k + 1] \o b \in Seq(Bytes)
      BY <3>4, ConcatProperties
    <3>7. Rests(k) # {}
      BY <3>5, <3>6
    <3> HIDE DEF Rests
    <3> QED BY <3>7, <1>1 DEF k
  <2> HIDE DEF S
  <2>3. \A d \in 0..n : d \in S
    BY <1>1, <2>1, <2>2, CountingUp
  <2> QED BY <2>3 DEF S
<1>8. ASSUME NEW k \in 0..n PROVE Rests(k) # {}
  <2>1. n - k \in 0..n /\ n - (n - k) = k
    BY <1>1
  <2> HIDE DEF Rests
  <2> QED BY <1>7, <2>1
<1>9. s \in Seq(Bytes)
  BY <1>1, <1>4, <1>5, ConcatProperties
<1>10. \A k \in 0..n : said(k) \in Seq(Seq(Bytes))
  <2> SUFFICES ASSUME NEW k \in 0..n PROVE said(k) \in Seq(Seq(Bytes))
    OBVIOUS
  <2>1. said(k) \in [1..k -> Seq(Bytes)]
    BY <1>1, <1>2
  <2> HIDE DEF said
  <2> QED BY <2>1, <1>1
<1>11. \A k \in 0..n : Len(u[k]) + 1 \in 1..Len(s) + 1
  <2> SUFFICES ASSUME NEW k \in 0..n PROVE Len(u[k]) + 1 \in 1..Len(s) + 1
    OBVIOUS
  <2>1. PICK b \in Seq(Bytes) : s = u[k] \o b
    BY <1>8
  <2>2. u[k] \in Seq(Bytes)
    BY <1>5
  <2>3. Len(s) = Len(u[k]) + Len(b)
    BY <2>1, <2>2, ConcatProperties
  <2> QED BY <2>2, <2>3
<1>12. \A k \in 0..n : m[Len(u[k]) + 1].payloads \in Seq(Seq(Bytes))
  BY <1>9, <1>11, MeaningsTyped
<1> DEFINE Says(k) == m[1].payloads = said(k) \o m[Len(u[k]) + 1].payloads
           T == {k \in 0..n : Says(k)}
<1> HIDE DEF m
<1>13. 0 \in T
  <2>1. said(0) = <<>>
    OBVIOUS
  <2>2. Len(u[0]) + 1 = 1
    BY <1>6
  <2>3. m[1].payloads \in Seq(Seq(Bytes))
    BY <1>1, <1>12, <2>2
  <2>4. m[1].payloads = <<>> \o m[1].payloads
    <3> DEFINE a == m[1].payloads
    <3>1. a \in Seq(Seq(Bytes))
      BY <2>3
    <3> HIDE DEF a
    <3>2. <<>> \o a = a
      BY <3>1, NothingBefore
    <3> QED BY <3>2 DEF a
  <2>5. m[Len(u[0]) + 1].payloads = m[1].payloads
    BY <2>2
  <2>6. Says(0)
    <3> HIDE DEF said
    <3> QED BY <2>1, <2>4, <2>5
  <2> HIDE DEF Says
  <2> QED BY <1>1, <2>6
<1>14. ASSUME NEW k \in 0..n - 1, k \in T PROVE k + 1 \in T
  <2> DEFINE i == k + 1
             text == texts[i]
             x == BytesOf(text)
             rest == m[Len(u[i]) + 1].payloads
  <2>1. i \in 1..n /\ i \in 0..n /\ k \in 0..n /\ k \in Nat
    BY <1>1
  <2>2. u[i] = u[k] \o FramedBytesOf(text)
    BY <2>1, <1>2, <1>6
  <2>3. text \in Texts /\ u[k] \in Seq(Bytes) /\ x \in Seq(Bytes)
    BY <2>1, <1>1, <1>2, <1>5
  <2>4. PICK b \in Seq(Bytes) : s = u[i] \o b
    BY <1>8, <2>1
  <2>5. s = u[k] \o FramedBytesOf(text) \o b
    BY <2>2, <2>4
  <2>6. m[Len(u[k]) + 1].payloads = <<x>> \o rest
    <3> HIDE DEF i, text
    <3>1. Meanings(s)[Len(u[k]) + 1].payloads =
            <<BytesOf(text)>> \o Meanings(s)[Len(u[k] \o FramedBytesOf(text)) + 1].payloads
      BY <2>3, <2>5, FrameIsMeant
    <3> QED BY <2>2, <3>1 DEF m
  <2>7. rest \in Seq(Seq(Bytes)) /\ <<x>> \in Seq(Seq(Bytes)) /\ said(k) \in Seq(Seq(Bytes))
    BY <1>10, <1>12, <2>1, <2>3
  <2>8. m[1].payloads = said(k) \o m[Len(u[k]) + 1].payloads
    BY <1>14
  <2> HIDE DEF i, x, rest, text
  <2>9. m[1].payloads = (said(k) \o <<x>>) \o rest
    <3> HIDE DEF said
    <3>1. (said(k) \o <<x>>) \o rest = said(k) \o (<<x>> \o rest)
      <4> DEFINE a == said(k)
                 b1 == <<x>>
                 payloads == Seq(Bytes)
      <4>1. a \in Seq(payloads) /\ b1 \in Seq(payloads) /\ rest \in Seq(payloads)
        BY <2>7
      <4> HIDE DEF a, b1, payloads
      <4>2. (a \o b1) \o rest = a \o (b1 \o rest)
        BY <4>1
      <4> QED BY <4>2 DEF a, b1
    <3>2. m[1].payloads = said(k) \o (<<x>> \o rest)
      BY <2>6, <2>8, Zenon
    <3> QED BY <3>1, <3>2, Zenon
  <2>10. said(k) \o <<x>> = said(i)
    <3> DEFINE more == said(k) \o <<x>>
    <3>1. Len(said(k)) = k /\ \A j \in 1..k : said(k)[j] = BytesOf(texts[j])
      BY <2>1
    <3>2. Len(said(i)) = i /\ \A j \in 1..i : said(i)[j] = BytesOf(texts[j])
      BY <2>1
    <3>3. more \in Seq(Seq(Bytes)) /\ said(i) \in Seq(Seq(Bytes))
      BY <2>1, <2>7, <1>10, ConcatProperties
    <3> HIDE DEF said
    <3>4. Len(more) = k + 1 /\ \A j \in 1..k + 1 : more[j] = IF j <= k THEN said(k)[j] ELSE x
      BY <2>1, <2>7, <3>1
    <3>5. i = k + 1 /\ x = BytesOf(texts[i])
      BY DEF i, x, text
    <3> HIDE DEF more
    <3>6. \A j \in 1..i : more[j] = said(i)[j]
      BY <2>1, <3>1, <3>2, <3>4, <3>5
    <3>7. more = said(i)
      BY <3>2, <3>3, <3>4, <3>5, <3>6, SeqEqual
    <3> QED BY <3>7 DEF more
  <2>11. Says(i)
    BY <2>9, <2>10 DEF rest
  <2> HIDE DEF Says
  <2>12. i \in T
    BY <2>1, <2>11
  <2> QED BY <2>12 DEF i
<1>15. Says(n)
  <2>1. \A k \in 0..n : k \in T
    <3> HIDE DEF T
    <3> QED BY <1>1, <1>13, <1>14, CountingUp
  <2> QED BY <2>1, <1>1
<1>16. IsPrefix(said(n), m[1].payloads)
  <2>1. said(n) \in Seq(Seq(Bytes)) /\ m[Len(u[n]) + 1].payloads \in Seq(Seq(Bytes))
    <3>1. n \in 0..n
      BY <1>1
    <3> HIDE DEF said
    <3> QED BY <3>1, <1>10, <1>12
  <2> HIDE DEF said
  <2> QED BY <1>15, <2>1, PrefixOfJoined
<1> QED BY <1>9, <1>16 DEF Meaning, m, s, n

-----------------------------------------------------------------------------
(* One frame.                                                              *)
LEMMA StartIsInPlace ==
  ASSUME FramesInvariant, pc # "ended"
  PROVE  FrameStart \in 1..Len(script) + 1
<1>1. Consumed \in Nat /\ Consumed <= Len(script) /\ Len(script) \in Nat
  BY DEF FramesInvariant, BytesInPlace, Consumed
<1>2. MaxHeader \in Nat
  BY FramingAssumption
<1>3. CASE pc = "line"
  <2>1. 1 <= FrameStart /\ remaining \in 0..MaxHeader
    BY <1>3 DEF FramesInvariant, LineInPlace
  <2>2. FrameStart = Consumed + 1 - (MaxHeader - remaining)
    BY <1>3 DEF FrameStart
  <2> QED BY <1>1, <1>2, <2>1, <2>2
<1>4. CASE pc = "body"
  <2>1. 1 <= FrameStart /\ remaining \in 0..MaxHeader /\ Len(payload) \in Nat
    BY <1>4 DEF FramesInvariant, BodyInPlace
  <2>2. FrameStart = Consumed + 1 - (MaxHeader - remaining) - Len(payload)
    BY <1>4 DEF FrameStart
  <2> QED BY <1>1, <1>2, <2>1, <2>2
<1>5. CASE pc = "idle"
  <2>1. FrameStart = Consumed + 1
    BY <1>5 DEF FrameStart
  <2> QED BY <1>1, <2>1
<1> QED BY <1>3, <1>4, <1>5 DEF FramesInvariant

LEMMA RestIsTyped ==
  ASSUME FramesInvariant, pc # "ended"
  PROVE  Meanings(script)[FrameStart].payloads \in Seq(Seq(Bytes))
<1>1. script \in Seq(Bytes)
  BY DEF FramesInvariant, BytesInPlace
<1> QED BY <1>1, StartIsInPlace, MeaningsTyped

\* An error ends the reading: one of the pipe or of the deadline, or the one that
\* the rest of the wire deserves.
LEMMA ErrorKeepsFrames ==
  ASSUME FramesInvariant, pc # "ended", BytesInPlace', UNCHANGED <<sent, script, read>>,
         NEW error, Return(error),
         \/ error \in {"Read", "UnfinishedByDeadline"}
         \/ Meanings(script)[FrameStart] = [payloads |-> <<>>, error |-> error]
  PROVE  FramesInvariant'
<1> DEFINE whole == Meaning(script)
           rest == Meanings(script)[FrameStart]
<1>1. pc' = "ended" /\ outcome' = error
  BY DEF Return
<1>2. read \in Seq(Seq(Bytes)) /\ whole.payloads = read \o rest.payloads /\ whole.error = rest.error
  BY DEF FramesInvariant, ReadInPlace
<1>3. IsPrefix(read, whole.payloads)
  <2>1. rest.payloads \in Seq(Seq(Bytes))
    BY RestIsTyped
  <2> DEFINE payloads == rest.payloads
  <2> HIDE DEF payloads
  <2>2. IsPrefix(read, read \o payloads)
    BY <1>2, <2>1, PrefixOfJoined DEF payloads
  <2> QED BY <1>2, <2>2 DEF payloads
<1>4. error \in {"Read", "UnfinishedByDeadline"} \/ (read = whole.payloads /\ error = whole.error)
  <2> SUFFICES ASSUME rest = [payloads |-> <<>>, error |-> error]
               PROVE  read = whole.payloads /\ error = whole.error
    OBVIOUS
  <2>1. rest.payloads = <<>> /\ rest.error = error
    OBVIOUS
  <2>2. read \o <<>> = read
    BY <1>2, ConcatEmptySeq
  <2> HIDE DEF rest
  <2> QED BY <1>2, <2>1, <2>2
<1>5. ReadInPlace'
  <2>1. Meaning(script)' = whole
    OBVIOUS
  <2> HIDE DEF whole, rest
  <2> QED BY <1>1, <1>2, <1>3, <1>4, <2>1 DEF ReadInPlace, whole
<1>6. \E tail \in Tails : sent' \in Seq(Texts) /\ script' = Wire(sent', tail)
  BY DEF FramesInvariant
<1> QED BY <1>1, <1>5, <1>6 DEF FramesInvariant

\* The header is refused.
LEMMA RefusedHeader ==
  ASSUME FramesInvariant, pc # "ended", BytesInPlace', UNCHANGED <<sent, script, read>>,
         NEW error, Return(error), Header(script, FrameStart).error = error, error # "none"
  PROVE  FramesInvariant'
<1>1. script \in Seq(Bytes)
  BY DEF FramesInvariant, BytesInPlace
<1> DEFINE s == script
           p == FrameStart
<1>2. p \in 1..Len(s) + 1
  BY StartIsInPlace
<1> HIDE DEF s, p
<1>3. Meanings(s)[p] = MeaningAt(s, p, Meanings(s))
  BY <1>1, <1>2, MeaningsUnfold DEF s
<1>4. MeaningAt(s, p, Meanings(s)) = [payloads |-> <<>>, error |-> error]
  BY DEF MeaningAt, s, p
<1>5. Meanings(script)[FrameStart] = [payloads |-> <<>>, error |-> error]
  BY <1>3, <1>4 DEF s, p
<1> QED BY <1>5, ErrorKeepsFrames

\* What is taken from the buffer has been consumed.
LEMMA BufferTaken ==
  ASSUME BytesInPlace, NEW n \in 0..Len(buffer), buffer' = From(buffer, n),
         UNCHANGED <<script, wire>>
  PROVE  BytesInPlace' /\ Consumed' = Consumed + n
<1>1. /\ script \in Seq(Bytes) /\ wire \in Seq(Bytes) /\ buffer \in Seq(Bytes)
      /\ Len(wire) + Len(buffer) <= Len(script)
      /\ \A i \in 1..Len(buffer) : buffer[i] = script[Consumed + i]
      /\ \A i \in 1..Len(wire) : wire[i] = script[Consumed + Len(buffer) + i]
  BY DEF BytesInPlace
<1>2. /\ buffer' \in Seq(Bytes) /\ Len(buffer') = Len(buffer) - n
      /\ \A i \in 1..Len(buffer') : buffer'[i] = buffer[n + i]
  BY <1>1 DEF From
<1>3. Consumed' = Len(script) - Len(wire) - Len(buffer')
  BY DEF Consumed
<1>4. Consumed' = Consumed + n
  BY <1>1, <1>2, <1>3 DEF Consumed
<1>5. \A i \in 1..Len(buffer') : buffer'[i] = script[Consumed' + i]
  <2> SUFFICES ASSUME NEW i \in 1..Len(buffer') PROVE buffer'[i] = script[Consumed' + i]
    OBVIOUS
  <2>1. n + i \in 1..Len(buffer) /\ Consumed' + i = Consumed + (n + i)
    BY <1>1, <1>2, <1>4 DEF Consumed
  <2> QED BY <1>1, <1>2, <2>1
<1>6. \A i \in 1..Len(wire) : wire[i] = script[Consumed' + Len(buffer') + i]
  <2>1. Consumed' + Len(buffer') = Consumed + Len(buffer)
    BY <1>1, <1>2, <1>4 DEF Consumed
  <2> QED BY <1>1, <2>1
<1>7. Len(wire) + Len(buffer') <= Len(script)
  BY <1>1, <1>2
<1> QED BY <1>1, <1>2, <1>4, <1>5, <1>6, <1>7 DEF BytesInPlace

\* Where the line stands on the wire.
LEMMA LineStands ==
  ASSUME FramesInvariant, pc = "line"
  PROVE  /\ script \in Seq(Bytes) /\ buffer \in Seq(Bytes) /\ line \in Seq(Bytes)
         /\ Consumed \in Nat /\ Consumed + Len(buffer) + Len(wire) = Len(script)
         /\ Len(wire) \in Nat /\ Len(buffer) \in Nat
         /\ FrameStart \in 1..Len(script) + 1
         /\ LineStart \in LineStarts(script, FrameStart)
         /\ LineStart \in FrameStart..Consumed + 1
         /\ \A i \in LineStart..Consumed : script[i] # "n"
         /\ line = SubSeq(script, LineStart, Consumed)
         /\ remaining \in 0..MaxHeader /\ FrameStart + MaxHeader - 1 = Consumed + remaining
<1>1. /\ script \in Seq(Bytes) /\ wire \in Seq(Bytes) /\ buffer \in Seq(Bytes)
      /\ Len(wire) + Len(buffer) <= Len(script)
  BY DEF FramesInvariant, BytesInPlace
<1>2. Consumed \in Nat /\ Consumed + Len(buffer) + Len(wire) = Len(script) /\ Consumed <= Len(script)
  BY <1>1 DEF Consumed
<1>3. FrameStart \in 1..Len(script) + 1
  BY StartIsInPlace
<1>4. /\ line \in Seq(Bytes) /\ remaining \in 0..MaxHeader
      /\ FrameStart <= LineStart /\ LineStart \in LineStarts(script, FrameStart)
      /\ \A i \in 1..Len(line) : line[i] = script[LineStart + i - 1] /\ line[i] # "n"
  BY DEF FramesInvariant, LineInPlace
<1>5. LineStart = Consumed + 1 - Len(line)
  BY DEF LineStart
<1>6. FrameStart = Consumed + 1 - (MaxHeader - remaining)
  BY DEF FrameStart
<1> DEFINE p == LineStart
           c == Consumed
           h == FrameStart
<1> HIDE DEF p, c, h
<1>7. p \in h..c + 1 /\ h + MaxHeader - 1 = c + remaining
  <2>1. MaxHeader \in Nat /\ remaining \in Nat /\ Len(line) \in Nat
    BY <1>4, FramingAssumption
  <2>2. p = c + 1 - Len(line) /\ h = c + 1 - (MaxHeader - remaining) /\ h <= p /\ c \in Nat
    BY <1>2, <1>4, <1>5, <1>6 DEF p, c, h
  <2> QED BY <2>1, <2>2
<1>8. \A i \in p..c : script[i] # "n"
  <2> SUFFICES ASSUME NEW i \in p..c PROVE script[i] # "n"
    OBVIOUS
  <2> DEFINE j == i - p + 1
  <2>1. j \in 1..Len(line) /\ p + j - 1 = i
    BY <1>2, <1>3, <1>4, <1>5, <1>7 DEF p, c, h
  <2> HIDE DEF j
  <2>2. line[j] = script[p + j - 1] /\ line[j] # "n"
    BY <1>4, <2>1 DEF p
  <2> QED BY <2>1, <2>2
<1>9. line = SubSeq(script, p, c)
  <2> DEFINE cut == SubSeq(script, p, c)
  <2>1. p \in Nat \ {0} /\ c <= Len(script) /\ c \in Nat /\ p <= c + 1 /\ Len(line) = c - p + 1
    BY <1>2, <1>3, <1>4, <1>5, <1>7 DEF p, c, h
  <2>2. cut \in Seq(Bytes) /\ Len(cut) = c - p + 1 /\ \A i \in 1..Len(cut) : cut[i] = script[p + i - 1]
    BY <1>1, <2>1
  <2> HIDE DEF cut
  <2>3. line = cut
    BY <1>4, <2>1, <2>2, SeqEqual DEF p
  <2> QED BY <2>3 DEF cut
<1> QED BY <1>1, <1>2, <1>3, <1>4, <1>7, <1>8, <1>9 DEF p, c, h

\* The frame goes on.
LEMMA SameFrame ==
  ASSUME FramesInvariant, pc # "ended", pc' # "ended", FrameStart' = FrameStart,
         UNCHANGED <<sent, script, read, outcome>>
  PROVE  /\ ReadInPlace'
         /\ \E tail \in Tails : sent' \in Seq(Texts) /\ script' = Wire(sent', tail)
<1>1. /\ Meaning(script)' = Meaning(script)
      /\ (Meanings(script)[FrameStart])' = Meanings(script)[FrameStart]
  OBVIOUS
<1>2. ReadInPlace'
  <2> DEFINE whole == Meaning(script)
             rest == Meanings(script)[FrameStart]
  <2>1. /\ read \in Seq(Seq(Bytes)) /\ outcome = "none"
        /\ whole.payloads = read \o rest.payloads /\ whole.error = rest.error
    BY DEF FramesInvariant, ReadInPlace
  <2>2. whole' = whole /\ rest' = rest
    BY <1>1
  <2> HIDE DEF whole, rest
  <2> QED BY <2>1, <2>2 DEF ReadInPlace, whole, rest
<1>3. \E tail \in Tails : sent' \in Seq(Texts) /\ script' = Wire(sent', tail)
  BY DEF FramesInvariant
<1> QED BY <1>2, <1>3

\* The line at hand is the last one.
LEMMA LineIsLast ==
  ASSUME FramesInvariant, pc = "line", IsLast(script, FrameStart, LineStart)
  PROVE  LastLine(script, FrameStart) = LineStart
<1>1. \A q \in LineStarts(script, FrameStart) :
        q < LineStart => ~IsLast(script, FrameStart, q)
  BY DEF FramesInvariant, LineInPlace
<1> DEFINE s == script
           h == FrameStart
           p == LineStart
<1>2. s \in Seq(Bytes) /\ h \in 1..Len(s) + 1 /\ p \in LineStarts(s, h)
  BY LineStands
<1>3. IsLast(s, h, p) /\ \A q \in LineStarts(s, h) : q < p => ~IsLast(s, h, q)
  BY <1>1
<1> HIDE DEF s, h, p
<1>4. LastLine(s, h) = p
  BY <1>2, <1>3, LastLineIs
<1> QED BY <1>4 DEF s, h, p

LEMMA LengthStands ==
  ASSUME FramesInvariant, pc = "line"
  PROVE  LET lengths == Lengths(script, FrameStart, LineStart)
         IN  /\ length = <<>> <=> lengths = {}
             /\ length # <<>> => length = <<Announced[script[Min(lengths)]]>>
<1> DEFINE lengths == Lengths(script, FrameStart, LineStart)
           value == Announced[script[Min(lengths)]]
<1>1. length = IF lengths = {} THEN <<>> ELSE <<value>>
  BY DEF FramesInvariant, LineInPlace
<1> HIDE DEF lengths, value
<1>2. <<value>> # <<>>
  OBVIOUS
<1> QED BY <1>1, <1>2 DEF lengths, value

LEMMA UnendedKeepsFrames ==
  ASSUME FramesInvariant, pc = "line", EndOfInput
  PROVE  FramesInvariant'
<1> DEFINE s == script
           h == FrameStart
           p == LineStart
           c == Consumed
           error == IF ~IsUtf8(line) THEN "Read"
                    ELSE IF line # <<>> \/ headerStarted THEN "TruncatedFrame" ELSE "ServerClosed"
<1>1. /\ s \in Seq(Bytes) /\ c = Len(s) /\ c \in Nat
      /\ h \in 1..Len(s) + 1 /\ p \in LineStarts(s, h) /\ p \in h..c + 1
      /\ \A i \in p..c : s[i] # "n"
      /\ line = SubSeq(s, p, c) /\ h + MaxHeader - 1 = c + remaining /\ remaining \in Nat
      /\ remaining > 0
  <2>1. buffer = <<>> /\ wire = <<>> /\ remaining > 0
    BY DEF EndOfInput, Starved
  <2>2. Len(buffer) = 0 /\ Len(wire) = 0
    BY <2>1
  <2>3. c \in Nat /\ c + Len(buffer) + Len(wire) = Len(s) /\ remaining \in Nat
    BY LineStands
  <2> HIDE DEF c, s
  <2>4. c = Len(s)
    BY <2>2, <2>3
  <2> QED BY <2>1, <2>3, <2>4, LineStands DEF c, s
<1>2. headerStarted <=> p > h
  BY DEF FramesInvariant, LineInPlace
<1>3. Return(error)
  BY DEF EndOfInput
<1> HIDE DEF s, h, p, c
<1>4. Ends(s, p) = {}
  BY <1>1 DEF Ends
<1>5. ~IsWithinLimit(s, h, p) /\ IsLast(s, h, p)
  BY <1>4 DEF IsLast, IsWithinLimit
<1>6. LastLine(s, h) = p
  BY <1>5, LineIsLast DEF s, h, p
<1>7. line = <<>> <=> p = c + 1
  <2>1. Len(line) = IF p <= c THEN c - p + 1 ELSE 0
    BY <1>1
  <2>2. line \in Seq(Bytes)
    BY LineStands
  <2>3. line = <<>> <=> Len(line) = 0
    BY <2>2
  <2>4. Len(line) = 0 <=> p = c + 1
    BY <1>1, <2>1
  <2> QED BY <2>3, <2>4
<1>8. h > Len(s) <=> (line = <<>> /\ ~headerStarted)
  BY <1>1, <1>2, <1>7
<1>9. Header(s, h).error = error
  <2>1. ~(Len(s) >= h + MaxHeader - 1)
    BY <1>1
  <2>2. SubSeq(s, p, Len(s)) = line
    BY <1>1
  <2> QED BY <1>5, <1>6, <1>8, <2>1, <2>2 DEF Header
<1>10. /\ pc # "ended" /\ error # "none" /\ UNCHANGED <<sent, script, read>>
       /\ UNCHANGED <<script, wire, buffer>>
  BY DEF EndOfInput, source, history
<1>11. BytesInPlace'
  BY <1>10 DEF FramesInvariant, BytesInPlace, Consumed
<1> HIDE DEF error
<1> QED BY <1>3, <1>9, <1>10, <1>11, RefusedHeader DEF s, h

LEMMA LongHeaderKeepsFrames ==
  ASSUME FramesInvariant, HeaderTooLong
  PROVE  FramesInvariant'
<1> DEFINE s == script
           h == FrameStart
           p == LineStart
           c == Consumed
           error == IF IsUtf8(line) THEN "HeaderTooLong" ELSE "Read"
<1>0. pc = "line" /\ remaining = 0
  BY DEF HeaderTooLong
<1>1. /\ s \in Seq(Bytes) /\ c <= Len(s) /\ c \in Nat
      /\ h \in 1..Len(s) + 1 /\ p \in LineStarts(s, h) /\ p \in h..c + 1
      /\ \A i \in p..c : s[i] # "n"
      /\ line = SubSeq(s, p, c) /\ h + MaxHeader - 1 = c
  <2>1. c \in Nat /\ c + Len(buffer) + Len(wire) = Len(s) /\ Len(buffer) \in Nat /\ Len(wire) \in Nat
        /\ h + MaxHeader - 1 = c + remaining
    BY <1>0, LineStands
  <2> HIDE DEF c, s, h
  <2>2. c <= Len(s) /\ h + MaxHeader - 1 = c
    BY <1>0, <2>1
  <2> QED BY <1>0, <2>2, LineStands DEF c, s, h
<1>2. Return(error)
  BY DEF HeaderTooLong
<1> HIDE DEF s, h, p, c
<1>3. ~IsWithinLimit(s, h, p) /\ IsLast(s, h, p)
  <2> SUFFICES ASSUME IsWithinLimit(s, h, p) PROVE FALSE
    BY DEF IsLast
  <2> DEFINE e == LineEnd(s, p)
  <2>1. Ends(s, p) # {} /\ e < h + MaxHeader
    BY DEF IsWithinLimit
  <2>2. e \in p..Len(s) /\ s[e] = "n"
    BY <1>1, <2>1, EndOfALine
  <2> HIDE DEF e
  <2>3. MaxHeader \in Nat
    BY FramingAssumption
  <2>4. e \in p..c
    BY <1>1, <2>1, <2>2, <2>3
  <2> QED BY <1>1, <2>2, <2>4
<1>4. LastLine(s, h) = p
  BY <1>0, <1>3, LineIsLast DEF s, h, p
<1>5. Header(s, h).error = error
  <2>1. Len(s) >= h + MaxHeader - 1 /\ SubSeq(s, p, h + MaxHeader - 1) = line
    BY <1>1
  <2> QED BY <1>3, <1>4, <2>1 DEF Header
<1>6. /\ pc # "ended" /\ error # "none" /\ UNCHANGED <<sent, script, read>>
      /\ UNCHANGED <<script, wire, buffer>>
  BY DEF HeaderTooLong, source, history
<1>7. BytesInPlace'
  BY <1>6 DEF FramesInvariant, BytesInPlace, Consumed
<1> HIDE DEF error
<1> QED BY <1>2, <1>5, <1>6, <1>7, RefusedHeader DEF s, h

-----------------------------------------------------------------------------
(* read_line.                                                              *)
LEMMA LineStopIs ==
  ASSUME buffer \in Seq(Bytes), buffer # <<>>, remaining \in Nat, remaining > 0
  PROVE  /\ LineStop \in 1..Len(buffer) /\ LineStop <= remaining
         /\ \A i \in 1..LineStop - 1 : buffer[i] # "n"
<1> DEFINE most == Lesser(Len(buffer), remaining)
           ends == {i \in 1..most : buffer[i] = "n"}
<1>1. LineStop = IF ends = {} THEN most ELSE Min(ends)
  BY DEF LineStop
<1>2. Len(buffer) \in Nat /\ Len(buffer) > 0
  OBVIOUS
<1>3. most \in 1..Len(buffer) /\ most <= remaining
  BY <1>2 DEF Lesser
<1> HIDE DEF most
<1>4. CASE ends = {}
  BY <1>1, <1>3, <1>4
<1>5. CASE ends # {}
  <2> DEFINE m == Min(ends)
  <2>1. ends \in SUBSET Nat
    OBVIOUS
  <2>2. m \in ends /\ \A i \in ends : m <= i
    <3> HIDE DEF ends
    <3> QED BY <1>5, <2>1, LeastIsThere
  <2>3. m \in 1..most /\ LineStop = m
    BY <1>1, <1>5, <2>2
  <2>4. ASSUME NEW i \in 1..m - 1 PROVE buffer[i] # "n"
    <3> HIDE DEF m
    <3>1. i \in 1..most /\ ~(m <= i)
      BY <1>3, <2>3
    <3> QED BY <2>2, <3>1
  <2> HIDE DEF m, ends
  <2> QED BY <1>3, <2>3, <2>4
<1> QED BY <1>4, <1>5

LEMMA CutOut ==
  ASSUME NEW s \in Seq(Bytes), NEW p \in 1..Len(s) + 1, NEW e \in p - 1..Len(s)
  PROVE  /\ SubSeq(s, p, e) \in Seq(Bytes)
         /\ Len(SubSeq(s, p, e)) = e - p + 1
         /\ \A i \in 1..e - p + 1 : SubSeq(s, p, e)[i] = s[p + i - 1]
OBVIOUS

\* The line and what is taken for it stand on the wire one after the other.
LEMMA TakenForTheLine ==
  ASSUME FramesInvariant, pc = "line", NEW n \in 1..Len(buffer)
  PROVE  line \o SubSeq(buffer, 1, n) = SubSeq(script, LineStart, Consumed + n)
<1> DEFINE s == script
           p == LineStart
           c == Consumed
           taken == SubSeq(buffer, 1, n)
           text == line \o taken
           cut == SubSeq(s, p, c + n)
<1>1. /\ s \in Seq(Bytes) /\ buffer \in Seq(Bytes) /\ line \in Seq(Bytes)
      /\ c \in Nat /\ c + Len(buffer) <= Len(s)
      /\ p \in 1..c + 1 /\ line = SubSeq(s, p, c)
  <2>1. /\ c \in Nat /\ c + Len(buffer) + Len(wire) = Len(s) /\ Len(wire) \in Nat /\ Len(buffer) \in Nat
        /\ p \in FrameStart..c + 1 /\ FrameStart \in 1..Len(s) + 1
    BY LineStands
  <2> HIDE DEF c, s, p
  <2>2. c + Len(buffer) <= Len(s) /\ p \in 1..c + 1
    BY <2>1
  <2> QED BY <2>1, <2>2, LineStands DEF c, s, p
<1>2. \A i \in 1..Len(buffer) : buffer[i] = s[c + i]
  BY DEF FramesInvariant, BytesInPlace
<1> HIDE DEF s, p, c
<1>3. taken \in Seq(Bytes) /\ Len(taken) = n /\ \A i \in 1..n : taken[i] = s[c + i]
  BY <1>1, <1>2
<1>4. Len(line) = c - p + 1 /\ \A i \in 1..Len(line) : line[i] = s[p + i - 1]
  BY <1>1
<1> HIDE DEF taken
<1>5. /\ text \in Seq(Bytes) /\ Len(text) = Len(line) + n
      /\ \A i \in 1..Len(line) : text[i] = line[i]
      /\ \A i \in 1..n : text[Len(line) + i] = taken[i]
  <2>1. text \in Seq(Bytes) /\ Len(text) = Len(line) + Len(taken)
    BY <1>1, <1>3, ConcatProperties
  <2>2. /\ \A i \in 1..Len(line) : text[i] = line[i]
        /\ \A i \in 1..Len(taken) : text[Len(line) + i] = taken[i]
    BY <1>1, <1>3
  <2> HIDE DEF text
  <2> QED BY <1>3, <2>1, <2>2
<1>6. cut \in Seq(Bytes) /\ Len(cut) = c + n - p + 1 /\ \A i \in 1..Len(cut) : cut[i] = s[p + i - 1]
  BY <1>1
<1> HIDE DEF text, cut
<1>7. \A i \in 1..Len(text) : text[i] = cut[i]
  <2> SUFFICES ASSUME NEW i \in 1..Len(text) PROVE text[i] = s[p + i - 1] /\ i \in 1..Len(cut)
    BY <1>6
  <2>1. i \in 1..Len(cut) /\ i \in 1..Len(line) + n
    BY <1>1, <1>4, <1>5, <1>6
  <2>2. CASE i <= Len(line)
    BY <1>4, <1>5, <2>1, <2>2
  <2>3. CASE ~(i <= Len(line))
    <3> DEFINE j == i - Len(line)
    <3>1. j \in 1..n /\ c + j = p + i - 1 /\ Len(line) + j = i
      BY <1>1, <1>4, <1>5, <2>1, <2>3
    <3> HIDE DEF j
    <3>2. text[Len(line) + j] = taken[j] /\ taken[j] = s[c + j]
      BY <1>3, <1>5, <3>1
    <3> QED BY <2>1, <3>1, <3>2
  <2> QED BY <2>2, <2>3
<1>8. Len(text) = Len(cut)
  BY <1>1, <1>4, <1>5, <1>6
<1>9. text = cut
  BY <1>5, <1>6, <1>7, <1>8, SeqEqual
<1> QED BY <1>9 DEF text, cut, taken, s, p, c

\* A line whose end has come is a line of the wire, within the limit of the header.
LEMMA LineComplete ==
  ASSUME FramesInvariant, pc = "line", NEW n \in 1..Len(buffer), n <= remaining,
         buffer[n] = "n", \A i \in 1..n - 1 : buffer[i] # "n",
         NEW text, text = line \o SubSeq(buffer, 1, n)
  PROVE  /\ Ends(script, LineStart) # {} /\ LineEnd(script, LineStart) = Consumed + n
         /\ IsWithinLimit(script, FrameStart, LineStart)
         /\ LineKind(script, LineStart) = KindOf(SubSeq(text, 1, Len(text) - 1))
<1> DEFINE s == script
           h == FrameStart
           p == LineStart
           c == Consumed
           e == c + n
<1>1. text = SubSeq(s, p, e)
  BY TakenForTheLine
<1>2. /\ s \in Seq(Bytes) /\ c \in Nat /\ e \in c + 1..Len(s) /\ h \in 1..Len(s) + 1
      /\ p \in h..c + 1 /\ p \in Nat \ {0} /\ \A i \in p..c : s[i] # "n"
      /\ h + MaxHeader - 1 = c + remaining /\ remaining \in Nat
  <2>1. /\ c \in Nat /\ c + Len(buffer) + Len(wire) = Len(s) /\ Len(wire) \in Nat /\ Len(buffer) \in Nat
        /\ p \in h..c + 1 /\ h \in 1..Len(s) + 1 /\ h + MaxHeader - 1 = c + remaining
        /\ remaining \in 0..MaxHeader
    BY LineStands
  <2> HIDE DEF c, s, p, h
  <2>2. e \in c + 1..Len(s) /\ p \in Nat \ {0} /\ remaining \in Nat
    BY <2>1
  <2> QED BY <2>1, <2>2, LineStands DEF c, s, p, h
<1>3. \A i \in 1..Len(buffer) : buffer[i] = s[c + i]
  BY DEF FramesInvariant, BytesInPlace
<1> HIDE DEF s, h, p, c
<1>4. s[e] = "n"
  BY <1>3
<1>5. \A i \in p..e - 1 : s[i] # "n"
  <2> SUFFICES ASSUME NEW i \in p..e - 1 PROVE s[i] # "n"
    OBVIOUS
  <2>1. CASE i <= c
    BY <1>2, <2>1
  <2>2. CASE i > c
    <3> DEFINE j == i - c
    <3>1. j \in 1..n - 1 /\ j \in 1..Len(buffer) /\ c + j = i
      BY <1>2, <2>2
    <3> HIDE DEF j
    <3>2. buffer[j] # "n" /\ buffer[j] = s[c + j]
      BY <1>3, <3>1
    <3> QED BY <3>1, <3>2
  <2> QED BY <1>2, <2>1, <2>2
<1>6. e \in p..Len(s)
  BY <1>2
<1> HIDE DEF e
<1>7. Ends(s, p) # {} /\ LineEnd(s, p) = e
  BY <1>2, <1>4, <1>5, <1>6, LineEndIs
<1>8. e < h + MaxHeader
  <2>1. MaxHeader \in Nat
    BY FramingAssumption
  <2> QED BY <1>2, <2>1 DEF e
<1>9. IsWithinLimit(s, h, p)
  BY <1>7, <1>8 DEF IsWithinLimit
<1>10. SubSeq(text, 1, Len(text) - 1) = SubSeq(s, p, e - 1)
  <2> DEFINE trimmed == SubSeq(text, 1, Len(text) - 1)
             cut == SubSeq(s, p, e - 1)
  <2>1. text \in Seq(Bytes) /\ Len(text) = e - p + 1 /\ \A i \in 1..Len(text) : text[i] = s[p + i - 1]
    <3>1. p \in 1..Len(s) + 1 /\ e \in p - 1..Len(s)
      BY <1>2, <1>6
    <3>2. /\ SubSeq(s, p, e) \in Seq(Bytes) /\ Len(SubSeq(s, p, e)) = e - p + 1
          /\ \A i \in 1..e - p + 1 : SubSeq(s, p, e)[i] = s[p + i - 1]
      BY <1>2, <3>1, CutOut
    <3> QED BY <1>1, <3>2, Zenon
  <2>2. /\ trimmed \in Seq(Bytes) /\ Len(trimmed) = e - p
        /\ \A i \in 1..Len(trimmed) : trimmed[i] = text[i]
    <3> DEFINE m == e - p
    <3>1. Len(text) - 1 = m /\ m \in 1 - 1..Len(text) /\ 1 \in 1..Len(text) + 1 /\ m - 1 + 1 = m
      BY <1>2, <1>6, <2>1
    <3> HIDE DEF m
    <3>2. /\ SubSeq(text, 1, m) \in Seq(Bytes) /\ Len(SubSeq(text, 1, m)) = m - 1 + 1
          /\ \A i \in 1..m - 1 + 1 : SubSeq(text, 1, m)[i] = text[1 + i - 1]
      BY <2>1, <3>1, CutOut
    <3>3. \A i \in 1..m : 1 + i - 1 = i
      BY <3>1
    <3>4. trimmed = SubSeq(text, 1, m)
      BY <3>1
    <3>5. e - p = m
      BY DEF m
    <3> HIDE DEF trimmed
    <3> QED BY <3>1, <3>2, <3>3, <3>4, <3>5
  <2>3. /\ cut \in Seq(Bytes) /\ Len(cut) = e - p
        /\ \A i \in 1..Len(cut) : cut[i] = s[p + i - 1]
    BY <1>2, <1>6
  <2> HIDE DEF trimmed, cut
  <2>4. \A i \in 1..Len(trimmed) : trimmed[i] = cut[i]
    <3>1. \A i \in 1..Len(trimmed) : i \in 1..Len(text) /\ i \in 1..Len(cut)
      BY <1>2, <1>6, <2>1, <2>2, <2>3
    <3> QED BY <2>1, <2>2, <2>3, <3>1
  <2>5. trimmed = cut
    BY <2>2, <2>3, <2>4, SeqEqual
  <2> QED BY <2>5 DEF trimmed, cut
<1>11. LineKind(s, p) = KindOf(SubSeq(text, 1, Len(text) - 1))
  BY <1>7, <1>10 DEF LineKind
<1> QED BY <1>7, <1>9, <1>11 DEF s, h, p, c, e

\* What content_length_of does after read_line, case by case.
LEMMA LineCases ==
  ASSUME NEW text, Line(text)
  PROVE  LET kind == KindOf(text) IN
         \/ kind = "notUtf8" /\ Return("Read")
         \/ kind = "blank" /\ length = <<>> /\ Return("MissingContentLength")
         \/ /\ kind = "blank" /\ length # <<>> /\ length[1] > MaxPayload
            /\ Return("PayloadTooLarge")
         \/ /\ kind = "blank" /\ length # <<>> /\ ~(length[1] > MaxPayload)
            /\ pc' = "body" /\ UNCHANGED <<outcome, length>>
         \/ /\ kind \in {"length", "malformed"} /\ length # <<>>
            /\ Return("DuplicateContentLength")
         \/ kind = "malformed" /\ length = <<>> /\ Return("MalformedContentLength")
         \/ /\ kind = "other" \/ (kind = "length" /\ length = <<>>)
            /\ headerStarted' = TRUE
            /\ length' = IF kind = "length" THEN <<Announced[text[1]]>> ELSE length
            /\ UNCHANGED <<pc, outcome>>
<1> DEFINE kind == KindOf(text)
<1>1. kind \in {"notUtf8", "blank", "length", "malformed", "other"}
  BY KindsOfText
<1> HIDE DEF kind
<1>2. CASE kind = "notUtf8"
  BY <1>2 DEF Line, kind
<1>3. CASE kind = "blank"
  <2>1. CASE length = <<>>
    BY <1>3, <2>1 DEF Line, kind
  <2>2. CASE length # <<>> /\ length[1] > MaxPayload
    BY <1>3, <2>2 DEF Line, kind
  <2>3. CASE length # <<>> /\ ~(length[1] > MaxPayload)
    BY <1>3, <2>3 DEF Line, kind
  <2> QED BY <2>1, <2>2, <2>3
<1>4. CASE kind \in {"length", "malformed"} /\ length # <<>>
  BY <1>4 DEF Line, kind
<1>5. CASE kind = "malformed" /\ length = <<>>
  BY <1>5 DEF Line, kind
<1>6. CASE kind = "other" \/ (kind = "length" /\ length = <<>>)
  BY <1>6 DEF Line, kind
<1> QED BY <1>1, <1>2, <1>3, <1>4, <1>5, <1>6

\* What the header of the wire is worth when the line at hand has come.
LEMMA HeaderVerdicts ==
  ASSUME FramesInvariant, pc = "line", IsWithinLimit(script, FrameStart, LineStart)
  PROVE  LET kind == LineKind(script, LineStart)
             header == Header(script, FrameStart)
         IN  /\ kind = "blank" /\ length = <<>> => header.error = "MissingContentLength"
             /\ kind = "blank" /\ length # <<>> =>
                  /\ header = [error |-> "none", length |-> length[1],
                               next |-> LineEnd(script, LineStart) + 1]
                  /\ length = <<header.length>> /\ header.length \in Nat
             /\ kind \in {"length", "malformed"} /\ length # <<>> =>
                  header.error = "DuplicateContentLength"
             /\ kind = "malformed" /\ length = <<>> => header.error = "MalformedContentLength"
<1> DEFINE s == script
           h == FrameStart
           p == LineStart
           kind == LineKind(s, p)
           lengths == Lengths(s, h, p)
           value == Announced[s[Min(lengths)]]
<1>1. length = <<>> <=> lengths = {}
  BY LengthStands
<1>2. length # <<>> => length = <<value>> /\ value \in Nat
  <2>1. s \in Seq(Bytes) /\ h \in 1..Len(s) + 1
    BY LineStands
  <2>2. length # <<>> => length = <<value>>
    BY LengthStands
  <2> HIDE DEF s, h, p
  <2>3. lengths # {} => value \in Nat
    BY <2>1, LengthsTyped
  <2> QED BY <1>1, <2>2, <2>3 DEF s, h, p
<1>3. \/ kind \in {"blank", "malformed"}
      \/ kind = "length" /\ length # <<>>
      => LastLine(s, h) = p
  <2> SUFFICES ASSUME kind \in {"blank", "malformed"} \/ (kind = "length" /\ length # <<>>)
               PROVE  IsLast(s, h, p)
    BY LineIsLast
  <2> HIDE DEF s, h, p
  <2> QED BY <1>1 DEF IsLast
<1>4. IsWithinLimit(s, h, p)
  OBVIOUS
<1> HIDE DEF s, h, p
<1>5. ASSUME kind = "blank", length = <<>> PROVE Header(s, h).error = "MissingContentLength"
  BY <1>1, <1>3, <1>4, <1>5 DEF Header
<1>6. ASSUME kind = "blank", length # <<>>
      PROVE  /\ Header(s, h) = [error |-> "none", length |-> length[1], next |-> LineEnd(s, p) + 1]
             /\ length = <<Header(s, h).length>> /\ Header(s, h).length \in Nat
  <2>1. LastLine(s, h) = p /\ lengths # {} /\ length = <<value>> /\ value \in Nat
    BY <1>1, <1>2, <1>3, <1>6
  <2>2. Header(s, h) = [error |-> "none", length |-> value, next |-> LineEnd(s, p) + 1]
    BY <1>4, <1>6, <2>1 DEF Header
  <2> HIDE DEF value
  <2>3. length[1] = value
    BY <2>1
  <2>4. Header(s, h).length = value
    BY <2>2
  <2> QED BY <2>1, <2>2, <2>3, <2>4
<1>7. ASSUME kind \in {"length", "malformed"}, length # <<>>
      PROVE  Header(s, h).error = "DuplicateContentLength"
  BY <1>1, <1>3, <1>4, <1>7 DEF Header
<1>8. ASSUME kind = "malformed", length = <<>>
      PROVE  Header(s, h).error = "MalformedContentLength"
  BY <1>1, <1>3, <1>4, <1>8 DEF Header
<1> HIDE DEF kind
<1> QED BY <1>5, <1>6, <1>7, <1>8 DEF kind, s, h, p

\* Another line of the same header.
LEMMA AnotherLine ==
  ASSUME FramesInvariant, ReadLine, buffer[LineStop] = "n",
         BytesInPlace', Consumed' = Consumed + LineStop,
         LET kind == LineKind(script, LineStart)
         IN  /\ kind = "other" \/ (kind = "length" /\ length = <<>>)
             /\ length' = IF kind = "length" THEN <<Announced[script[LineStart]]>> ELSE length,
         headerStarted' = TRUE, UNCHANGED pc,
         IsWithinLimit(script, FrameStart, LineStart),
         LineEnd(script, LineStart) = Consumed + LineStop
  PROVE  LineInPlace' /\ FrameStart' = FrameStart
<1> DEFINE n == LineStop
           s == script
           h == FrameStart
           p == LineStart
           c == Consumed
           e == c + n
           next == e + 1
           kind == LineKind(s, p)
           lengths == Lengths(s, h, p)
<1>1. /\ pc = "line" /\ pc' = "line" /\ line' = <<>> /\ remaining' = remaining - n
      /\ UNCHANGED <<script, payload>> /\ buffer \in Seq(Bytes) /\ buffer # <<>> /\ remaining > 0
  BY DEF ReadLine, FramesInvariant, BytesInPlace
<1>2. /\ s \in Seq(Bytes) /\ c \in Nat /\ h \in 1..Len(s) + 1 /\ p \in LineStarts(s, h)
      /\ p \in h..c + 1 /\ remaining \in 0..MaxHeader /\ h + MaxHeader - 1 = c + remaining
      /\ remaining \in Nat
  BY <1>1, LineStands
<1>3. n \in 1..Len(buffer) /\ n <= remaining
  BY <1>1, <1>2, LineStopIs
<1>4. payload = <<>>
  BY <1>1 DEF FramesInvariant, LineInPlace
<1>5. MaxHeader \in Nat
  BY FramingAssumption
<1>6. Ends(s, p) # {} /\ LineEnd(s, p) = e /\ e = c + n
  BY DEF IsWithinLimit
<1>7. FrameStart' = h
  <2>1. FrameStart' = Consumed' + 1 - (MaxHeader - remaining')
    BY <1>1 DEF FrameStart
  <2>2. h = c + 1 - (MaxHeader - remaining)
    BY <1>1 DEF FrameStart
  <2> HIDE DEF n, c, h
  <2>3. c + n + 1 - (MaxHeader - (remaining - n)) = c + 1 - (MaxHeader - remaining)
    BY <1>2, <1>3, <1>5
  <2>4. Consumed' = c + n
    BY DEF c, n
  <2> QED BY <1>1, <2>1, <2>2, <2>3, <2>4
<1>8. LineStart' = next
  <2>1. LineStart' = Consumed' + 1 - Len(line')
    BY DEF LineStart
  <2>2. Len(line') = 0
    BY <1>1
  <2>3. Consumed' = e
    OBVIOUS
  <2> HIDE DEF e
  <2>4. e \in Nat
    BY <1>2, <1>3 DEF e
  <2> QED BY <2>1, <2>2, <2>3, <2>4
<1>9. kind = "other" \/ (kind = "length" /\ length = <<>>)
  OBVIOUS
<1>10. length' = IF kind = "length" THEN <<Announced[s[p]]>> ELSE length
  OBVIOUS
<1>11. (length = <<>> <=> lengths = {}) /\ length = IF lengths = {} THEN <<>> ELSE <<Announced[s[Min(lengths)]]>>
  <2>1. length = <<>> <=> lengths = {}
    BY <1>1, LengthStands
  <2> QED BY <1>1, <2>1 DEF FramesInvariant, LineInPlace
<1>12. \A q \in LineStarts(s, h) : q < p => ~IsLast(s, h, q)
  BY <1>1 DEF FramesInvariant, LineInPlace
<1>13. IsWithinLimit(s, h, p)
  OBVIOUS
<1> HIDE DEF n, s, h, p, c
<1>14. /\ next \in LineStarts(s, h) /\ e \in p..Len(s)
       /\ \A q \in LineStarts(s, h) : q < next => q < p \/ q = p
  <2> HIDE DEF e
  <2> QED BY <1>2, <1>6, NextLine
<1>15. ~IsLast(s, h, p)
  BY <1>9, <1>11, <1>13 DEF IsLast
<1>16. \A q \in LineStarts(s, h) : q < next => ~IsLast(s, h, q)
  BY <1>12, <1>14, <1>15
<1> DEFINE after == Lengths(s, h, next)
<1>17. after = lengths \cup (IF kind = "length" THEN {p} ELSE {})
  <2> HIDE DEF e
  <2> QED BY <1>2, <1>6, LengthsNext
<1>18. length' = IF after = {} THEN <<>> ELSE <<Announced[s[Min(after)]]>>
  <2>1. CASE kind = "length"
    <3>1. after = {p}
      BY <1>9, <1>11, <1>17, <2>1
    <3>2. Min({p}) = p
      <4>1. p \in Nat
        BY <1>2
      <4>2. {p} \in SUBSET Nat /\ p \in {p} /\ \A x \in {p} : p <= x
        BY <4>1
      <4> QED BY <4>2, MinIs
    <3> QED BY <1>10, <2>1, <3>1, <3>2
  <2>2. CASE kind # "length"
    <3>1. after = lengths
      BY <1>17, <2>2
    <3> QED BY <1>10, <1>11, <2>2, <3>1
  <2> QED BY <2>1, <2>2
<1>19. next > h /\ 1 <= h /\ h <= next /\ remaining - n \in 0..MaxHeader
  BY <1>2, <1>3, <1>5, <1>14
<1> HIDE DEF next, after
<1>20. /\ script' = s /\ FrameStart' = h /\ LineStart' = next /\ line' = <<>>
       /\ remaining' = remaining - n /\ payload' = <<>> /\ headerStarted' = TRUE
  BY <1>1, <1>4, <1>7, <1>8 DEF s
<1>21. (LineStarts(script, FrameStart))' = LineStarts(s, h)
  BY <1>20
<1>22. (Lengths(script, FrameStart, LineStart))' = after
  BY <1>20 DEF after
<1>23. \A q \in LineStarts(s, h) : (IsLast(script, FrameStart, q))' = IsLast(s, h, q)
  BY <1>20
<1>24. (\A q \in LineStarts(script, FrameStart) : q < LineStart => ~IsLast(script, FrameStart, q))'
  BY <1>16, <1>20
<1>25. line' \in Seq(Bytes) /\ \A i \in 1..Len(line') : FALSE
  BY <1>20
<1>26. (LET ls == Lengths(script, FrameStart, LineStart)
        IN  length = IF ls = {} THEN <<>> ELSE <<Announced[script[Min(ls)]]>>)'
  BY <1>18, <1>20 DEF after
<1>27. (LineStart \in LineStarts(script, FrameStart))'
  BY <1>14, <1>20 DEF next
<1>28. (1 <= FrameStart /\ FrameStart <= LineStart)' /\ (headerStarted <=> LineStart > FrameStart)'
       /\ remaining' \in 0..MaxHeader
  BY <1>19, <1>20
<1> QED BY <1>7, <1>20, <1>24, <1>25, <1>26, <1>27, <1>28 DEF LineInPlace, h

\* A part of a line, whose end has not come.
LEMMA PartOfALine ==
  ASSUME FramesInvariant, ReadLine, buffer[LineStop] # "n",
         BytesInPlace', Consumed' = Consumed + LineStop
  PROVE  LineInPlace' /\ FrameStart' = FrameStart
<1> DEFINE n == LineStop
           s == script
           h == FrameStart
           p == LineStart
           c == Consumed
           e == c + n
           text == line \o SubSeq(buffer, 1, n)
<1>1. /\ pc = "line" /\ pc' = "line" /\ line' = text /\ remaining' = remaining - n
      /\ UNCHANGED <<script, payload, length, headerStarted>>
      /\ buffer \in Seq(Bytes) /\ buffer # <<>> /\ remaining > 0
  BY DEF ReadLine, FramesInvariant, BytesInPlace
<1>2. /\ s \in Seq(Bytes) /\ c \in Nat /\ h \in 1..Len(s) + 1 /\ p \in LineStarts(s, h)
      /\ p \in h..c + 1 /\ remaining \in Nat /\ remaining <= MaxHeader
      /\ c + Len(buffer) <= Len(s) /\ \A i \in p..c : s[i] # "n"
  <2>1. /\ c \in Nat /\ c + Len(buffer) + Len(wire) = Len(s) /\ Len(wire) \in Nat /\ Len(buffer) \in Nat
        /\ remaining \in 0..MaxHeader
    BY <1>1, LineStands
  <2>2. MaxHeader \in Nat
    BY FramingAssumption
  <2> HIDE DEF c, s
  <2>3. c + Len(buffer) <= Len(s) /\ remaining \in Nat /\ remaining <= MaxHeader
    BY <2>1, <2>2
  <2> QED BY <1>1, <2>1, <2>3, LineStands DEF c, s
<1>3. n \in 1..Len(buffer) /\ n <= remaining /\ \A i \in 1..n - 1 : buffer[i] # "n"
  BY <1>1, <1>2, LineStopIs
<1>4. text = SubSeq(s, p, e)
  BY <1>1, <1>3, TakenForTheLine
<1>5. \A i \in 1..Len(buffer) : buffer[i] = s[c + i]
  BY DEF FramesInvariant, BytesInPlace
<1>6. MaxHeader \in Nat
  BY FramingAssumption
<1>7. FrameStart' = h
  <2>1. FrameStart' = Consumed' + 1 - (MaxHeader - remaining')
    BY <1>1 DEF FrameStart
  <2>2. h = c + 1 - (MaxHeader - remaining)
    BY <1>1 DEF FrameStart
  <2>3. Consumed' = c + n
    OBVIOUS
  <2> HIDE DEF n, c, h
  <2>4. c + n + 1 - (MaxHeader - (remaining - n)) = c + 1 - (MaxHeader - remaining)
    BY <1>2, <1>3, <1>6
  <2> QED BY <1>1, <2>1, <2>2, <2>3, <2>4
<1>8. /\ \A q \in LineStarts(s, h) : q < p => ~IsLast(s, h, q)
      /\ LET lengths == Lengths(s, h, p)
         IN  length = IF lengths = {} THEN <<>> ELSE <<Announced[s[Min(lengths)]]>>
      /\ headerStarted <=> p > h
      /\ payload = <<>>
  BY <1>1 DEF FramesInvariant, LineInPlace
<1>9. LineStart' = Consumed' + 1 - Len(line')
  BY DEF LineStart
<1>10. Consumed' = e
  OBVIOUS
<1>11. buffer[n] # "n"
  OBVIOUS
<1> HIDE DEF n, s, h, p, c
<1>12. e \in p - 1..Len(s) /\ p \in 1..Len(s) + 1 /\ e \in Nat /\ e \in p..Len(s)
  BY <1>2, <1>3
<1> DEFINE cut == SubSeq(s, p, e)
<1> HIDE DEF e
<1>13. cut \in Seq(Bytes) /\ Len(cut) = e - p + 1 /\ \A i \in 1..e - p + 1 : cut[i] = s[p + i - 1]
  BY <1>2, <1>12, CutOut
<1>14. \A i \in p..e : s[i] # "n"
  <2> SUFFICES ASSUME NEW i \in p..e PROVE s[i] # "n"
    OBVIOUS
  <2>1. CASE i <= c
    BY <1>2, <1>12, <2>1
  <2>2. CASE i > c
    <3> DEFINE j == i - c
    <3>1. j \in 1..n /\ j \in 1..Len(buffer) /\ c + j = i
      BY <1>2, <1>3, <1>12, <2>2 DEF e
    <3> HIDE DEF j
    <3>2. buffer[j] # "n"
      <4>1. CASE j = n
        BY <4>1, <1>11
      <4>2. CASE j # n
        <5>1. j \in 1..n - 1
          BY <1>3, <3>1, <4>2
        <5> QED BY <1>3, <5>1
      <4> QED BY <4>1, <4>2
    <3>3. buffer[j] = s[c + j]
      BY <1>5, <3>1
    <3> QED BY <3>1, <3>2, <3>3
  <2> QED BY <1>2, <1>12, <2>1, <2>2
<1> HIDE DEF text
<1>15. line' = cut
  BY <1>1, <1>4
<1> HIDE DEF cut
<1>16. LineStart' = p
  BY <1>9, <1>10, <1>12, <1>13, <1>15
<1>17. \A i \in 1..Len(cut) : cut[i] = s[p + i - 1] /\ cut[i] # "n"
  <2> SUFFICES ASSUME NEW i \in 1..Len(cut) PROVE cut[i] = s[p + i - 1] /\ cut[i] # "n"
    OBVIOUS
  <2> DEFINE j == p + i - 1
  <2>1. i \in 1..e - p + 1 /\ j \in p..e
    BY <1>12, <1>13
  <2>2. cut[i] = s[j]
    BY <1>13, <2>1
  <2> HIDE DEF j
  <2>3. s[j] # "n"
    BY <1>14, <2>1
  <2> QED BY <2>2, <2>3 DEF j
<1>18. 1 <= h /\ h <= p /\ remaining - n \in 0..MaxHeader
  BY <1>2, <1>3, <1>6
<1>19. /\ script' = s /\ FrameStart' = h /\ LineStart' = p /\ line' = cut
       /\ remaining' = remaining - n /\ payload' = <<>> /\ UNCHANGED <<headerStarted, length>>
  BY <1>1, <1>7, <1>8, <1>15, <1>16 DEF s
<1>20. (\A q \in LineStarts(script, FrameStart) : q < LineStart => ~IsLast(script, FrameStart, q))'
  BY <1>8, <1>19
<1>21. (LET ls == Lengths(script, FrameStart, LineStart)
        IN  length = IF ls = {} THEN <<>> ELSE <<Announced[script[Min(ls)]]>>)'
  BY <1>8, <1>19
<1>22. (LineStart \in LineStarts(script, FrameStart))'
  BY <1>2, <1>19
<1>23. (1 <= FrameStart /\ FrameStart <= LineStart)' /\ (headerStarted <=> LineStart > FrameStart)'
       /\ remaining' \in 0..MaxHeader
  BY <1>8, <1>18, <1>19
<1>24. line' \in Seq(Bytes)
       /\ (\A i \in 1..Len(line) : line[i] = script[LineStart + i - 1] /\ line[i] # "n")'
  BY <1>13, <1>17, <1>19
<1> QED BY <1>7, <1>19, <1>20, <1>21, <1>22, <1>23, <1>24 DEF LineInPlace, h

LEMMA ReadLineKeepsFrames ==
  ASSUME FramesInvariant, ReadLine PROVE FramesInvariant'
<1> DEFINE n == LineStop
           text == line \o SubSeq(buffer, 1, n)
           trimmed == SubSeq(text, 1, Len(text) - 1)
<1>1. /\ pc = "line" /\ buffer \in Seq(Bytes) /\ buffer # <<>> /\ remaining > 0
      /\ buffer' = From(buffer, n) /\ remaining' = remaining - n
      /\ UNCHANGED <<sent, script, wire, payload, read>>
      /\ pc \in {"idle", "line", "body", "ended"} /\ BytesInPlace
  BY DEF ReadLine, FramesInvariant, BytesInPlace
<1>2. remaining \in Nat /\ Consumed \in Nat
  BY <1>1, LineStands
<1>3. n \in 1..Len(buffer) /\ n <= remaining /\ \A i \in 1..n - 1 : buffer[i] # "n"
  BY <1>1, <1>2, LineStopIs
<1>4. BytesInPlace' /\ Consumed' = Consumed + n
  <2>1. n \in 0..Len(buffer)
    BY <1>3
  <2> HIDE DEF n
  <2> QED BY <1>1, <2>1, BufferTaken
<1>5. CASE buffer[n] # "n"
  <2>1. LineInPlace' /\ FrameStart' = FrameStart
    BY <1>4, <1>5, PartOfALine
  <2>2. UNCHANGED <<pc, outcome>>
    BY <1>5 DEF ReadLine
  <2> QED BY <1>1, <1>4, <2>1, <2>2, SameFrame DEF FramesInvariant
<1>6. CASE buffer[n] = "n"
  <2>1. line' = <<>> /\ Line(trimmed)
    BY <1>6 DEF ReadLine
  <2>2. /\ Ends(script, LineStart) # {} /\ LineEnd(script, LineStart) = Consumed + n
        /\ IsWithinLimit(script, FrameStart, LineStart)
        /\ LineKind(script, LineStart) = KindOf(trimmed)
    <3> HIDE DEF n
    <3> QED BY <1>1, <1>3, <1>6, LineComplete
  <2> DEFINE kind == LineKind(script, LineStart)
             header == Header(script, FrameStart)
  <2>3. /\ kind = "blank" /\ length = <<>> => header.error = "MissingContentLength"
        /\ kind = "blank" /\ length # <<>> =>
             /\ header = [error |-> "none", length |-> length[1],
                          next |-> LineEnd(script, LineStart) + 1]
             /\ length = <<header.length>> /\ header.length \in Nat
        /\ kind \in {"length", "malformed"} /\ length # <<>> =>
             header.error = "DuplicateContentLength"
        /\ kind = "malformed" /\ length = <<>> => header.error = "MalformedContentLength"
    BY <1>1, <2>2, HeaderVerdicts
  <2>4. \/ kind = "notUtf8" /\ Return("Read")
        \/ kind = "blank" /\ length = <<>> /\ Return("MissingContentLength")
        \/ /\ kind = "blank" /\ length # <<>> /\ length[1] > MaxPayload
           /\ Return("PayloadTooLarge")
        \/ /\ kind = "blank" /\ length # <<>> /\ ~(length[1] > MaxPayload)
           /\ pc' = "body" /\ UNCHANGED <<outcome, length>>
        \/ /\ kind \in {"length", "malformed"} /\ length # <<>>
           /\ Return("DuplicateContentLength")
        \/ kind = "malformed" /\ length = <<>> /\ Return("MalformedContentLength")
        \/ /\ kind = "other" \/ (kind = "length" /\ length = <<>>)
           /\ headerStarted' = TRUE
           /\ length' = IF kind = "length" THEN <<Announced[trimmed[1]]>> ELSE length
           /\ UNCHANGED <<pc, outcome>>
    BY <2>1, <2>2, LineCases
  <2>5. /\ pc # "ended" /\ UNCHANGED <<sent, script, read>>
    BY <1>1
  <2> HIDE DEF kind, header, n, trimmed
  <2>6. CASE kind = "notUtf8" /\ Return("Read")
    BY <1>4, <2>5, <2>6, ErrorKeepsFrames
  <2>7. CASE kind = "blank" /\ length = <<>> /\ Return("MissingContentLength")
    BY <1>4, <2>3, <2>5, <2>7, RefusedHeader DEF header
  <2>8. CASE /\ kind = "blank" /\ length # <<>> /\ length[1] > MaxPayload
             /\ Return("PayloadTooLarge")
    <3>1. header.error = "none" /\ header.length > MaxPayload
      BY <2>3, <2>8
    <3>2. Meanings(script)[FrameStart] = MeaningAt(script, FrameStart, Meanings(script))
      BY <1>1, <2>5, StartIsInPlace, MeaningsUnfold DEF BytesInPlace
    <3>3. MeaningAt(script, FrameStart, Meanings(script)) = [payloads |-> <<>>, error |-> "PayloadTooLarge"]
      BY <3>1 DEF MeaningAt, header
    <3> QED BY <1>4, <2>5, <2>8, <3>2, <3>3, ErrorKeepsFrames
  <2>9. CASE /\ kind = "blank" /\ length # <<>> /\ ~(length[1] > MaxPayload)
             /\ pc' = "body" /\ UNCHANGED <<outcome, length>>
    <3>1. /\ header.error = "none" /\ header.length \in Nat /\ header.length <= MaxPayload
          /\ length' = <<header.length>> /\ header.next = Consumed + n + 1
      <4>1. length[1] = header.length /\ header.length \in Nat /\ header.error = "none"
            /\ header.next = Consumed + n + 1 /\ length = <<header.length>>
        BY <2>2, <2>3, <2>9
      <4>2. MaxPayload \in Nat
        BY FramingAssumption
      <4> QED BY <2>9, <4>1, <4>2
    <3>2. payload' = <<>> /\ remaining' \in 0..MaxHeader /\ remaining \in 0..MaxHeader /\ MaxHeader \in Nat
      <4>1. payload = <<>> /\ remaining \in 0..MaxHeader
        BY <1>1 DEF FramesInvariant, LineInPlace
      <4>2. MaxHeader \in Nat
        BY FramingAssumption
      <4> QED BY <1>1, <1>2, <1>3, <4>1, <4>2
    <3>3. FrameStart' = FrameStart
      <4>1. FrameStart' = Consumed' + 1 - (MaxHeader - remaining') - Len(payload')
        BY <2>9 DEF FrameStart
      <4>2. FrameStart = Consumed + 1 - (MaxHeader - remaining)
        BY <1>1 DEF FrameStart
      <4>3. Len(payload') = 0
        BY <3>2
      <4> QED BY <1>1, <1>2, <1>3, <1>4, <3>2, <4>1, <4>2, <4>3
    <3>4. FrameStart \in 1..Len(script) + 1
      BY <2>5, StartIsInPlace
    <3>5. BodyInPlace'
      <4>1. header' = header
        BY <2>5, <3>3 DEF header
      <4>2. header.next = Consumed' + 1 - Len(payload')
        <5>1. Len(payload') = 0
          BY <3>2
        <5> QED BY <1>2, <1>3, <1>4, <3>1, <5>1
      <4>3. payload' \in Seq(Bytes) /\ Len(payload') <= header.length
            /\ \A i \in 1..Len(payload') : FALSE
        BY <3>1, <3>2
      <4> QED BY <2>5, <3>1, <3>2, <3>3, <3>4, <4>1, <4>2, <4>3 DEF BodyInPlace, header
    <3>6. pc' # "ended" /\ UNCHANGED outcome
      BY <2>9
    <3> QED BY <1>4, <2>5, <2>9, <3>3, <3>5, <3>6, SameFrame DEF FramesInvariant
  <2>10. CASE kind \in {"length", "malformed"} /\ length # <<>> /\ Return("DuplicateContentLength")
    BY <1>4, <2>3, <2>5, <2>10, RefusedHeader DEF header
  <2>11. CASE kind = "malformed" /\ length = <<>> /\ Return("MalformedContentLength")
    BY <1>4, <2>3, <2>5, <2>11, RefusedHeader DEF header
  <2>12. CASE /\ kind = "other" \/ (kind = "length" /\ length = <<>>)
              /\ headerStarted' = TRUE
              /\ length' = IF kind = "length" THEN <<Announced[trimmed[1]]>> ELSE length
              /\ UNCHANGED <<pc, outcome>>
    <3>1. kind = "length" => trimmed[1] = script[LineStart]
      <4> SUFFICES ASSUME kind = "length" PROVE trimmed[1] = script[LineStart]
        OBVIOUS
      <4> DEFINE s == script
                 p == LineStart
                 e == LineEnd(s, p) - 1
                 whole == SubSeq(s, p, e + 1)
      <4>1. s \in Seq(Bytes) /\ p \in LineStarts(s, FrameStart) /\ FrameStart \in 1..Len(s) + 1
        BY <1>1, LineStands
      <4>2. LineEnd(s, p) \in p..Len(s) /\ LineEnd(s, p) \in Nat /\ p \in 1..Len(s)
        <5>1. p \in Nat \ {0}
          <6> HIDE DEF s, p
          <6> QED BY <4>1, LineStartsTyped
        <5> HIDE DEF s, p
        <5>2. LineEnd(s, p) \in p..Len(s)
          BY <2>2, <4>1, <5>1, EndOfALine DEF s, p
        <5> QED BY <4>1, <5>1, <5>2
      <4>3. Len(trimmed) = 1 /\ trimmed = SubSeq(text, 1, Len(text) - 1)
        BY <2>2, KindsOfText DEF kind, trimmed
      <4>4. text = SubSeq(script, LineStart, Consumed + n)
        BY <1>1, <1>3, TakenForTheLine DEF n
      <4>5. Consumed + n = LineEnd(s, p)
        BY <2>2
      <4> HIDE DEF text
      <4>6. text \in Seq(Bytes) /\ Len(text) >= 1 /\ text[1] = s[p]
        <5> DEFINE l == LineEnd(s, p)
        <5>1. text = SubSeq(s, p, l)
          BY <4>4, <4>5
        <5> HIDE DEF s, p, l
        <5>2. l \in p - 1..Len(s) /\ p \in 1..Len(s) + 1 /\ l \in p..Len(s)
          BY <4>1, <4>2 DEF l
        <5>3. /\ SubSeq(s, p, l) \in Seq(Bytes) /\ Len(SubSeq(s, p, l)) = l - p + 1
              /\ \A i \in 1..l - p + 1 : SubSeq(s, p, l)[i] = s[p + i - 1]
          BY <4>1, <5>2, CutOut
        <5>4. 1 \in 1..l - p + 1 /\ p + 1 - 1 = p /\ l - p + 1 >= 1
          BY <4>2, <5>2
        <5>5. SubSeq(s, p, l)[1] = s[p]
          BY <5>3, <5>4
        <5> QED BY <5>1, <5>3, <5>4, <5>5
      <4>7. trimmed[1] = text[1]
        BY <4>3, <4>6
      <4> QED BY <4>6, <4>7
    <3>2. LineInPlace' /\ FrameStart' = FrameStart
      <4>1. LET k == LineKind(script, LineStart)
            IN  /\ k = "other" \/ (k = "length" /\ length = <<>>)
                /\ length' = IF k = "length" THEN <<Announced[script[LineStart]]>> ELSE length
        BY <2>12, <3>1 DEF kind
      <4>2. buffer[LineStop] = "n" /\ Consumed' = Consumed + LineStop
            /\ LineEnd(script, LineStart) = Consumed + LineStop
        BY <1>4, <1>6, <2>2 DEF n
      <4> QED BY <1>4, <2>2, <2>12, <4>1, <4>2, AnotherLine
    <3> QED BY <1>1, <1>4, <2>5, <2>12, <3>2, SameFrame DEF FramesInvariant
  <2> QED BY <2>4, <2>6, <2>7, <2>8, <2>9, <2>10, <2>11, <2>12
<1> QED BY <1>5, <1>6

-----------------------------------------------------------------------------
(* The other steps.                                                        *)
LEMMA InitFrames == Init => FramesInvariant
<1> SUFFICES ASSUME Init PROVE FramesInvariant
  OBVIOUS
<1>1. PICK n \in 0..MaxSent, tail \in Tails : sent \in [1..n -> Texts] /\ script = Wire(sent, tail)
  BY DEF Init
<1>2. /\ wire = script /\ buffer = <<>> /\ pc = "idle" /\ read = <<>> /\ outcome = "none"
  BY DEF Init
<1>3. sent \in Seq(Texts) /\ tail \in Seq(Bytes)
  BY <1>1, FramingAssumption
<1>4. script \in Seq(Bytes)
  BY <1>1, <1>3, SentIsMeant
<1>5. Len(buffer) = 0 /\ Len(script) \in Nat
  BY <1>2, <1>4
<1>6. Consumed = 0
  <2>1. Len(wire) = Len(script)
    BY <1>2
  <2> QED BY <1>5, <2>1 DEF Consumed
<1>7. BytesInPlace
  <2>1. Len(wire) + Len(buffer) <= Len(script)
    BY <1>2, <1>5
  <2>2. \A i \in 1..Len(wire) : wire[i] = script[Consumed + Len(buffer) + i]
    <3>1. \A i \in 1..Len(wire) : Consumed + Len(buffer) + i = i
      BY <1>2, <1>5, <1>6
    <3> QED BY <1>2, <3>1
  <2>3. \A i \in 1..Len(buffer) : FALSE
    BY <1>5
  <2>4. buffer \in Seq(Bytes)
    BY <1>2
  <2> QED BY <1>2, <1>4, <2>1, <2>2, <2>3, <2>4 DEF BytesInPlace
<1>8. FrameStart = 1
  BY <1>2, <1>6 DEF FrameStart
<1>9. ReadInPlace
  <2> DEFINE a == Meaning(script).payloads
  <2>1. a = Meanings(script)[1].payloads
    BY DEF Meaning
  <2>2. 1 \in 1..Len(script) + 1
    BY <1>5
  <2>3. a \in Seq(Seq(Bytes))
    BY <1>4, <2>1, <2>2, MeaningsTyped
  <2> HIDE DEF a
  <2>4. <<>> \o a = a
    BY <2>3, NothingBefore
  <2>5. <<>> \in Seq(Seq(Bytes))
    OBVIOUS
  <2>6. Meaning(script) = Meanings(script)[1]
    BY DEF Meaning
  <2>7. Meaning(script).payloads = read \o Meanings(script)[FrameStart].payloads
    BY <1>2, <1>8, <2>1, <2>4, <2>6 DEF a
  <2>8. Meaning(script).error = Meanings(script)[FrameStart].error
    BY <1>8, <2>6
  <2> QED BY <1>2, <2>5, <2>7, <2>8 DEF ReadInPlace
<1> QED BY <1>1, <1>2, <1>3, <1>7, <1>9 DEF FramesInvariant

LEMMA PayloadOfKeepsFrames ==
  ASSUME FramesInvariant, PayloadOf PROVE FramesInvariant'
<1>1. /\ pc = "idle" /\ pc' = "line" /\ line' = <<>> /\ remaining' = MaxHeader /\ length' = <<>>
      /\ headerStarted' = FALSE /\ payload' = <<>>
      /\ UNCHANGED <<sent, script, wire, buffer, read, outcome>>
  BY DEF PayloadOf, source
<1>2. BytesInPlace' /\ Consumed' = Consumed
  BY <1>1 DEF FramesInvariant, BytesInPlace, Consumed
<1>3. FrameStart = Consumed + 1
  BY <1>1 DEF FrameStart
<1>4. FrameStart \in 1..Len(script) + 1 /\ MaxHeader \in Nat
  BY <1>1, StartIsInPlace, FramingAssumption
<1>5. Consumed \in Nat /\ script \in Seq(Bytes)
  BY DEF FramesInvariant, BytesInPlace, Consumed
<1>6. FrameStart' = FrameStart
  <2>1. FrameStart' = Consumed' + 1 - (MaxHeader - remaining')
    BY <1>1 DEF FrameStart
  <2> QED BY <1>1, <1>2, <1>3, <1>4, <1>5, <2>1
<1>7. LineStart' = FrameStart
  <2>1. LineStart' = Consumed' + 1 - Len(line')
    BY DEF LineStart
  <2>2. Len(line') = 0
    BY <1>1
  <2> QED BY <1>2, <1>3, <1>5, <2>1, <2>2
<1> DEFINE s == script
           h == FrameStart
<1>8. s \in Seq(Bytes) /\ h \in 1..Len(s) + 1
  BY <1>4, <1>5
<1>9. h \in LineStarts(s, h) /\ \A q \in LineStarts(s, h) : ~(q < h)
  <2> HIDE DEF s, h
  <2>1. LineStarts(s, h) \subseteq h..Len(s) + 1
    BY <1>8, LineStartsTyped
  <2>2. h \in LineStarts(s, h)
    BY DEF LineStarts
  <2> QED BY <1>8, <2>1, <2>2
<1>10. Lengths(s, h, h) = {}
  <2> HIDE DEF s, h
  <2> QED BY <1>9 DEF Lengths
<1>11. LineInPlace'
  <2>1. /\ script' = s /\ FrameStart' = h /\ LineStart' = h
    BY <1>1, <1>6, <1>7
  <2> HIDE DEF s, h
  <2>2. (\A q \in LineStarts(script, FrameStart) : q < LineStart => ~IsLast(script, FrameStart, q))'
    BY <1>9, <2>1
  <2>3. (LET ls == Lengths(script, FrameStart, LineStart)
         IN  length = IF ls = {} THEN <<>> ELSE <<Announced[script[Min(ls)]]>>)'
    BY <1>1, <1>10, <2>1
  <2>4. (LineStart \in LineStarts(script, FrameStart))'
    BY <1>9, <2>1
  <2>5. (1 <= FrameStart /\ FrameStart <= LineStart)' /\ (headerStarted <=> LineStart > FrameStart)'
        /\ remaining' \in 0..MaxHeader
    BY <1>1, <1>4, <1>8, <2>1
  <2>6. line' \in Seq(Bytes) /\ \A i \in 1..Len(line') : FALSE
    BY <1>1
  <2> QED BY <1>1, <2>2, <2>3, <2>4, <2>5, <2>6 DEF LineInPlace
<1> QED BY <1>1, <1>2, <1>6, <1>11, SameFrame DEF FramesInvariant

\* What a frame is made of, without the bytes that have yet to come.
LEMMA FrameStandsStill ==
  ASSUME FramesInvariant, pc \in {"line", "body"}, BytesInPlace', Consumed' = Consumed,
         UNCHANGED <<sent, script, pc, outcome, read, line, remaining, length, headerStarted, payload>>
  PROVE  FramesInvariant'
<1>1. FrameStart' = FrameStart
  BY DEF FrameStart
<1>2. LineStart' = LineStart
  BY DEF LineStart
<1>3. pc = "line" => LineInPlace'
  BY <1>1, <1>2 DEF FramesInvariant, LineInPlace
<1>4. pc = "body" => BodyInPlace'
  <2>1. Header(script, FrameStart)' = Header(script, FrameStart)
    BY <1>1
  <2> QED BY <1>1, <2>1 DEF FramesInvariant, BodyInPlace
<1> QED BY <1>1, <1>3, <1>4, SameFrame DEF FramesInvariant

LEMMA RefillKeepsFrames ==
  ASSUME FramesInvariant, Refill PROVE FramesInvariant'
<1>1. /\ buffer = <<>> /\ pc \in {"line", "body"}
      /\ UNCHANGED <<sent, script, line, remaining, length, headerStarted, payload, read>>
  BY DEF Refill, Starved
<1>2. PICK n \in 1..Lesser(ChunkSize, Len(wire)) :
        wire' = From(wire, n) /\ buffer' = SubSeq(wire, 1, n)
  BY DEF Refill
<1>3. /\ script \in Seq(Bytes) /\ wire \in Seq(Bytes) /\ Len(buffer) = 0
      /\ Len(wire) <= Len(script) /\ Len(script) \in Nat /\ Len(wire) \in Nat
      /\ \A i \in 1..Len(wire) : wire[i] = script[Consumed + Len(buffer) + i]
  BY <1>1 DEF FramesInvariant, BytesInPlace
<1>4. Consumed = Len(script) - Len(wire) /\ Consumed \in Nat
  BY <1>3 DEF Consumed
<1>5. \A i \in 1..Len(wire) : wire[i] = script[Consumed + i]
  BY <1>3, <1>4
<1>6. n \in 1..Len(wire)
  <2>1. ChunkSize \in Nat
    BY FramingAssumption
  <2> QED BY <1>2, <1>3, <2>1 DEF Lesser
<1>7. /\ wire' \in Seq(Bytes) /\ Len(wire') = Len(wire) - n
      /\ \A i \in 1..Len(wire') : wire'[i] = wire[n + i]
  BY <1>2, <1>3, <1>6 DEF From
<1>8. buffer' \in Seq(Bytes) /\ Len(buffer') = n /\ \A i \in 1..n : buffer'[i] = wire[i]
  BY <1>2, <1>3, <1>6
<1>9. Consumed' = Consumed
  <2>1. Consumed' = Len(script) - Len(wire') - Len(buffer')
    BY <1>1 DEF Consumed
  <2> QED BY <1>3, <1>4, <1>6, <1>7, <1>8, <2>1
<1>10. BytesInPlace'
  <2>1. \A i \in 1..Len(buffer') : buffer'[i] = script[Consumed + i]
    BY <1>5, <1>6, <1>8
  <2>2. ASSUME NEW i \in 1..Len(wire') PROVE wire'[i] = script[Consumed + Len(buffer') + i]
    <3> DEFINE j == n + i
    <3>1. j \in 1..Len(wire) /\ Consumed + j = Consumed + Len(buffer') + i
      BY <1>3, <1>4, <1>6, <1>7, <1>8
    <3>2. wire'[i] = wire[j]
      BY <1>7
    <3> HIDE DEF j
    <3> QED BY <1>5, <3>1, <3>2
  <2>3. Len(wire') + Len(buffer') <= Len(script)
    BY <1>3, <1>6, <1>7, <1>8
  <2> QED BY <1>1, <1>3, <1>7, <1>8, <1>9, <2>1, <2>2, <2>3 DEF BytesInPlace
<1>11. CASE PastDeadline
  <2>1. Return("UnfinishedByDeadline")
    BY <1>11 DEF Refill
  <2>2. pc # "ended"
    BY <1>1
  <2> QED BY <1>1, <1>10, <2>1, <2>2, ErrorKeepsFrames
<1>12. CASE ~PastDeadline
  <2>1. UNCHANGED <<pc, outcome>>
    BY <1>12 DEF Refill
  <2> QED BY <1>1, <1>9, <1>10, <2>1, FrameStandsStill
<1> QED BY <1>11, <1>12

LEMMA EndOfInputKeepsFrames ==
  ASSUME FramesInvariant, EndOfInput PROVE FramesInvariant'
<1>1. /\ pc \in {"line", "body"} /\ buffer = <<>> /\ wire = <<>>
      /\ UNCHANGED <<sent, script, wire, buffer, read>>
      /\ pc = "body" => Len(payload) < length[1] /\ Return("TruncatedFrame")
  BY DEF EndOfInput, Starved, source, history
<1>2. CASE pc = "line"
  BY <1>2, UnendedKeepsFrames
<1>3. CASE pc = "body"
  <2> DEFINE s == script
             p == FrameStart
             h == Header(s, p)
  <2>1. /\ h.error = "none" /\ h.length <= MaxPayload /\ length = <<h.length>>
        /\ h.next = Consumed + 1 - Len(payload) /\ payload \in Seq(Bytes)
    BY <1>3 DEF FramesInvariant, BodyInPlace
  <2>2. Consumed = Len(s) /\ Len(s) \in Nat /\ s \in Seq(Bytes)
    <3>1. Len(buffer) = 0 /\ Len(wire) = 0
      BY <1>1
    <3> QED BY <3>1 DEF Consumed, FramesInvariant, BytesInPlace
  <2>3. p \in 1..Len(s) + 1
    BY <1>3, StartIsInPlace
  <2> HIDE DEF s, p
  <2>4. h.length \in Nat
    BY <2>1, <2>2, <2>3, HeaderTyped
  <2>5. Len(payload) < h.length
    BY <1>1, <1>3, <2>1
  <2>6. h.next + h.length - 1 > Len(s)
    <3> HIDE DEF h
    <3> QED BY <2>1, <2>2, <2>4, <2>5
  <2>7. ~(h.length > MaxPayload)
    <3>1. MaxPayload \in Nat
      BY FramingAssumption
    <3> HIDE DEF h
    <3> QED BY <2>1, <2>4, <3>1
  <2>8. Meanings(s)[p] = MeaningAt(s, p, Meanings(s))
    BY <2>2, <2>3, MeaningsUnfold
  <2>9. MeaningAt(s, p, Meanings(s)) = [payloads |-> <<>>, error |-> "TruncatedFrame"]
    BY <2>1, <2>6, <2>7 DEF MeaningAt
  <2>10. Meanings(script)[FrameStart] = [payloads |-> <<>>, error |-> "TruncatedFrame"]
    BY <2>8, <2>9 DEF s, p
  <2>11. BytesInPlace' /\ pc # "ended" /\ Return("TruncatedFrame")
    BY <1>1, <1>3 DEF FramesInvariant, BytesInPlace, Consumed
  <2> QED BY <1>1, <2>10, <2>11, ErrorKeepsFrames
<1> QED BY <1>1, <1>2, <1>3

LEMMA FailureKeepsFrames ==
  ASSUME FramesInvariant, RefillFails PROVE FramesInvariant'
<1>1. pc # "ended" /\ Return("Read") /\ UNCHANGED <<sent, script, wire, buffer, read>>
  BY DEF RefillFails, Starved, source, history
<1>2. BytesInPlace'
  BY <1>1 DEF FramesInvariant, BytesInPlace, Consumed
<1> QED BY <1>1, <1>2, ErrorKeepsFrames

LEMMA ReadBodyKeepsFrames ==
  ASSUME FramesInvariant, ReadBody PROVE FramesInvariant'
<1> DEFINE n == Lesser(Len(buffer), length[1] - Len(payload))
           taken == SubSeq(buffer, 1, n)
           h == Header(script, FrameStart)
<1>1. /\ pc = "body" /\ Len(payload) < length[1] /\ buffer # <<>>
      /\ payload' = payload \o taken /\ buffer' = From(buffer, n)
      /\ UNCHANGED <<sent, script, wire, pc, remaining, length, outcome, read>>
  BY DEF ReadBody, history
<1>2. /\ h.error = "none" /\ h.length <= MaxPayload /\ length = <<h.length>>
      /\ h.next = Consumed + 1 - Len(payload) /\ payload \in Seq(Bytes)
      /\ \A i \in 1..Len(payload) : payload[i] = script[h.next + i - 1]
      /\ remaining \in 0..MaxHeader /\ 1 <= FrameStart
  BY <1>1 DEF FramesInvariant, BodyInPlace
<1>3. /\ script \in Seq(Bytes) /\ buffer \in Seq(Bytes) /\ Consumed \in Nat
      /\ \A i \in 1..Len(buffer) : buffer[i] = script[Consumed + i]
      /\ BytesInPlace
  BY DEF FramesInvariant, BytesInPlace, Consumed
<1>4. h.length \in Nat /\ MaxHeader \in Nat /\ FrameStart \in 1..Len(script) + 1
  BY <1>1, <1>2, <1>3, StartIsInPlace, HeaderTyped, FramingAssumption
<1> HIDE DEF h
<1>5. length[1] = h.length /\ Len(payload) \in Nat /\ Len(buffer) \in Nat /\ Len(buffer) > 0
  BY <1>1, <1>2, <1>3
<1>6. n \in 1..Len(buffer) /\ Len(payload) + n <= h.length
  BY <1>1, <1>4, <1>5 DEF Lesser
<1> HIDE DEF n
<1>7. BytesInPlace' /\ Consumed' = Consumed + n
  <2>1. n \in 0..Len(buffer)
    BY <1>6
  <2> QED BY <1>1, <1>3, <2>1, BufferTaken
<1>8. taken \in Seq(Bytes) /\ Len(taken) = n /\ \A i \in 1..n : taken[i] = script[Consumed + i]
  <2>1. 1 \in 1..Len(buffer) + 1 /\ n \in 1 - 1..Len(buffer) /\ n - 1 + 1 = n
    BY <1>5, <1>6
  <2>2. /\ SubSeq(buffer, 1, n) \in Seq(Bytes) /\ Len(SubSeq(buffer, 1, n)) = n - 1 + 1
        /\ \A i \in 1..n - 1 + 1 : SubSeq(buffer, 1, n)[i] = buffer[1 + i - 1]
    BY <1>3, <2>1, CutOut
  <2>3. \A i \in 1..n : 1 + i - 1 = i /\ i \in 1..Len(buffer)
    BY <1>6
  <2>4. taken \in Seq(Bytes) /\ Len(taken) = n /\ \A i \in 1..n : taken[i] = buffer[1 + i - 1]
    BY <2>1, <2>2
  <2> HIDE DEF taken
  <2> QED BY <1>3, <2>3, <2>4
<1> HIDE DEF taken
<1>9. /\ payload' \in Seq(Bytes) /\ Len(payload') = Len(payload) + n
      /\ \A i \in 1..Len(payload) : payload'[i] = payload[i]
      /\ \A i \in 1..n : payload'[Len(payload) + i] = taken[i]
  <2> DEFINE more == payload \o taken
  <2>1. more \in Seq(Bytes) /\ Len(more) = Len(payload) + Len(taken)
    BY <1>2, <1>8, ConcatProperties
  <2>2. /\ \A i \in 1..Len(payload) : more[i] = payload[i]
        /\ \A i \in 1..Len(taken) : more[Len(payload) + i] = taken[i]
    BY <1>2, <1>8
  <2>3. payload' = more
    BY <1>1
  <2> HIDE DEF more
  <2> QED BY <1>8, <2>1, <2>2, <2>3
<1>10. FrameStart' = FrameStart
  <2>1. FrameStart' = Consumed' + 1 - (MaxHeader - remaining') - Len(payload')
    BY <1>1 DEF FrameStart
  <2>2. FrameStart = Consumed + 1 - (MaxHeader - remaining) - Len(payload)
    BY <1>1 DEF FrameStart
  <2> QED BY <1>1, <1>2, <1>3, <1>4, <1>5, <1>6, <1>7, <1>9, <2>1, <2>2
<1>11. \A i \in 1..Len(payload') : payload'[i] = script[h.next + i - 1]
  <2> SUFFICES ASSUME NEW i \in 1..Len(payload') PROVE payload'[i] = script[h.next + i - 1]
    OBVIOUS
  <2>1. CASE i <= Len(payload)
    <3>1. i \in 1..Len(payload)
      BY <1>5, <1>6, <1>9, <2>1
    <3> QED BY <1>2, <1>9, <3>1
  <2>2. CASE i > Len(payload)
    <3> DEFINE j == i - Len(payload)
    <3>1. j \in 1..n /\ Len(payload) + j = i /\ Consumed + j = h.next + i - 1
      BY <1>2, <1>3, <1>5, <1>6, <1>9, <2>2
    <3> HIDE DEF j
    <3>2. payload'[Len(payload) + j] = taken[j] /\ taken[j] = script[Consumed + j]
      BY <1>8, <1>9, <3>1
    <3> QED BY <3>1, <3>2
  <2> QED BY <1>5, <1>6, <1>9, <2>1, <2>2
<1>12. BodyInPlace'
  <2>1. h' = h
    BY <1>1, <1>10 DEF h
  <2>2. h.next = Consumed' + 1 - Len(payload') /\ Len(payload') <= h.length
    BY <1>2, <1>3, <1>5, <1>6, <1>7, <1>9
  <2> QED BY <1>1, <1>2, <1>4, <1>9, <1>10, <1>11, <2>1, <2>2 DEF BodyInPlace, h
<1> QED BY <1>1, <1>7, <1>10, <1>12, SameFrame DEF FramesInvariant

LEMMA PayloadCompleteKeepsFrames ==
  ASSUME FramesInvariant, PayloadComplete PROVE FramesInvariant'
<1> DEFINE s == script
           p == FrameStart
           h == Header(s, p)
           m == Meanings(s)
           last == h.next + h.length - 1
<1>1. /\ pc = "body" /\ Len(payload) = length[1]
      /\ UNCHANGED <<sent, script, wire, buffer>>
  BY DEF PayloadComplete, source
<1>2. /\ h.error = "none" /\ h.length <= MaxPayload /\ length = <<h.length>>
      /\ h.next = Consumed + 1 - Len(payload) /\ payload \in Seq(Bytes)
      /\ \A i \in 1..Len(payload) : payload[i] = s[h.next + i - 1]
  BY <1>1 DEF FramesInvariant, BodyInPlace
<1>3. s \in Seq(Bytes) /\ Consumed \in Nat /\ Consumed <= Len(s)
  BY DEF FramesInvariant, BytesInPlace, Consumed
<1>4. p \in 1..Len(s) + 1
  BY <1>1, StartIsInPlace
<1>5. BytesInPlace' /\ Consumed' = Consumed
  BY <1>1 DEF FramesInvariant, BytesInPlace, Consumed
<1>6. /\ read \in Seq(Seq(Bytes)) /\ outcome = "none"
      /\ Meaning(s).payloads = read \o m[p].payloads /\ Meaning(s).error = m[p].error
  BY <1>1 DEF FramesInvariant, ReadInPlace
<1> HIDE DEF s, p
<1>7. h.length \in Nat /\ h.next \in p + 1..Len(s) + 1
  BY <1>2, <1>3, <1>4, HeaderTyped
<1>8. m[p] = MeaningAt(s, p, m)
  BY <1>3, <1>4, MeaningsUnfold
<1>9. Len(payload) = h.length /\ MaxPayload \in Nat
  <2>1. length[1] = h.length
    <3> HIDE DEF h
    <3> QED BY <1>2
  <2> QED BY <1>1, <2>1, FramingAssumption
<1> HIDE DEF h, m
<1>10. last = Consumed /\ ~(last > Len(s)) /\ ~(h.length > MaxPayload)
  <2> DEFINE next == h.next
             size == h.length
  <2>1. /\ size \in Nat /\ next = Consumed + 1 - Len(payload) /\ Len(payload) = size
        /\ size <= MaxPayload
    BY <1>2, <1>7, <1>9
  <2>2. last = next + size - 1
    OBVIOUS
  <2> HIDE DEF next, size, last
  <2>3. Consumed + 1 - size + size - 1 = Consumed
    BY <1>3, <2>1
  <2>4. last = Consumed
    BY <2>1, <2>2, <2>3
  <2>5. Len(s) \in Nat /\ ~(Consumed > Len(s)) /\ ~(size > MaxPayload)
    BY <1>3, <1>9, <2>1
  <2> QED BY <2>4, <2>5 DEF size
<1>11. SubSeq(s, h.next, last) = payload
  <2> DEFINE next == h.next
             cut == SubSeq(s, next, last)
  <2>1. next \in 1..Len(s) + 1 /\ last \in next - 1..Len(s) /\ last - next + 1 = Len(payload)
    <3>1. /\ next \in p + 1..Len(s) + 1 /\ next = Consumed + 1 - Len(payload)
          /\ last = Consumed /\ Len(payload) \in Nat
      BY <1>2, <1>7, <1>10
    <3> HIDE DEF next, last
    <3> QED BY <1>3, <1>4, <3>1
  <2>2. \A i \in 1..Len(payload) : payload[i] = s[next + i - 1]
    BY <1>2
  <2> HIDE DEF next, last
  <2>3. /\ cut \in Seq(Bytes) /\ Len(cut) = last - next + 1
        /\ \A i \in 1..last - next + 1 : cut[i] = s[next + i - 1]
    BY <1>3, <2>1, CutOut
  <2> HIDE DEF cut
  <2>4. cut = payload
    BY <1>2, <2>1, <2>2, <2>3, SeqEqual
  <2> QED BY <2>4 DEF cut, next
<1>12. CASE IsUtf8(payload)
  <2>1. pc' = "idle" /\ read' = Append(read, payload) /\ UNCHANGED outcome
    BY <1>12 DEF PayloadComplete
  <2> DEFINE rest == m[last + 1]
  <2>2. FrameStart' = last + 1
    <3>1. FrameStart' = Consumed' + 1
      BY <2>1 DEF FrameStart
    <3> QED BY <1>5, <1>10, <3>1
  <2>3. m[p] = [payloads |-> <<payload>> \o rest.payloads, error |-> rest.error]
    <3> HIDE DEF last, rest
    <3>1. SubSeq(s, h.next, h.next + h.length - 1) = payload
      BY <1>11 DEF last
    <3>2. ~(h.next + h.length - 1 > Len(s)) /\ rest = m[h.next + h.length - 1 + 1]
      BY <1>10 DEF last, rest
    <3> QED BY <1>2, <1>8, <1>10, <1>12, <3>1, <3>2 DEF MeaningAt, h
  <2>4. rest.payloads \in Seq(Seq(Bytes))
    <3>1. last + 1 \in 1..Len(s) + 1
      BY <1>3, <1>10
    <3> HIDE DEF last
    <3> QED BY <1>3, <3>1, MeaningsTyped DEF m
  <2> DEFINE a == rest.payloads
             one == <<payload>>
             payloads == Seq(Bytes)
  <2>5. a \in Seq(payloads) /\ one \in Seq(payloads) /\ read \in Seq(payloads)
    BY <1>2, <1>6, <2>4
  <2>6. Append(read, payload) = read \o one
    BY <1>6
  <2>7. m[p].payloads = one \o a /\ m[p].error = rest.error
    BY <2>3
  <2>8. Append(read, payload) \in Seq(payloads)
    BY <1>2, <1>6
  <2> HIDE DEF a, one, payloads
  <2>9. (read \o one) \o a = read \o (one \o a)
    BY <2>5
  <2>10. Meaning(s).payloads = read' \o a
    BY <1>6, <2>1, <2>6, <2>7, <2>9
  <2>11. (Meaning(script))' = Meaning(s) /\ (Meanings(script)[FrameStart])' = rest
    BY <1>1, <2>2 DEF m, s
  <2>12. ReadInPlace'
    <3>1. (Meaning(script).payloads = read \o Meanings(script)[FrameStart].payloads)'
      BY <2>10, <2>11 DEF a
    <3>2. (Meaning(script).error = Meanings(script)[FrameStart].error)'
      BY <1>6, <2>7, <2>11
    <3>3. read' \in Seq(Seq(Bytes)) /\ outcome' = "none" /\ pc' = "idle"
      BY <1>6, <2>1, <2>8 DEF payloads
    <3> QED BY <3>1, <3>2, <3>3 DEF ReadInPlace
  <2>13. \E tail \in Tails : sent' \in Seq(Texts) /\ script' = Wire(sent', tail)
    BY <1>1 DEF FramesInvariant
  <2> QED BY <1>5, <2>1, <2>12, <2>13 DEF FramesInvariant
<1>13. CASE ~IsUtf8(payload)
  <2>1. Return("NotUtf8") /\ UNCHANGED read
    BY <1>13 DEF PayloadComplete
  <2>2. m[p] = [payloads |-> <<>>, error |-> "NotUtf8"]
    BY <1>2, <1>8, <1>10, <1>11, <1>13 DEF MeaningAt, h
  <2>3. Meanings(script)[FrameStart] = [payloads |-> <<>>, error |-> "NotUtf8"]
    BY <2>2 DEF m, s, p
  <2>4. pc # "ended"
    BY <1>1
  <2> QED BY <1>1, <1>5, <2>1, <2>3, <2>4, ErrorKeepsFrames
<1> QED BY <1>12, <1>13

LEMMA FramesStandStill ==
  ASSUME FramesInvariant,
         UNCHANGED <<sent, script, wire, buffer, pc, line, remaining, length, headerStarted,
                     payload, read, outcome>>
  PROVE  FramesInvariant'
<1>1. BytesInPlace' /\ Consumed' = Consumed
  BY DEF FramesInvariant, BytesInPlace, Consumed
<1>2. CASE pc \in {"line", "body"}
  BY <1>1, <1>2, FrameStandsStill
<1>3. CASE pc = "idle"
  <2>1. FrameStart' = FrameStart
    BY <1>1, <1>3 DEF FrameStart
  <2> QED BY <1>1, <1>3, <2>1, SameFrame DEF FramesInvariant
<1>4. CASE pc = "ended"
  <2>1. ReadInPlace'
    <3>1. (Meaning(script))' = Meaning(script)
      OBVIOUS
    <3> QED BY <1>4, <3>1 DEF FramesInvariant, ReadInPlace
  <2> QED BY <1>1, <1>4, <2>1 DEF FramesInvariant
<1> QED BY <1>2, <1>3, <1>4 DEF FramesInvariant

LEMMA NextFrames == FramesInvariant /\ [Next]_vars => FramesInvariant'
<1> SUFFICES ASSUME FramesInvariant, [Next]_vars PROVE FramesInvariant'
  OBVIOUS
<1>1. CASE PayloadOf
  BY <1>1, PayloadOfKeepsFrames
<1>2. CASE DeadlinePasses
  BY <1>2, FramesStandStill DEF DeadlinePasses, source, frame, history
<1>3. CASE Refill
  BY <1>3, RefillKeepsFrames
<1>4. CASE EndOfInput
  BY <1>4, EndOfInputKeepsFrames
<1>5. CASE RefillFails
  BY <1>5, FailureKeepsFrames
<1>6. CASE ReadLine
  BY <1>6, ReadLineKeepsFrames
<1>7. CASE HeaderTooLong
  BY <1>7, LongHeaderKeepsFrames
<1>8. CASE ReadBody
  BY <1>8, ReadBodyKeepsFrames
<1>9. CASE PayloadComplete
  BY <1>9, PayloadCompleteKeepsFrames
<1>10. CASE UNCHANGED vars
  BY <1>10, FramesStandStill DEF vars, source, frame, history
<1> QED BY <1>1, <1>2, <1>3, <1>4, <1>5, <1>6, <1>7, <1>8, <1>9, <1>10 DEF Next

\* What is read is what the server framed, and an error tells what the wire is worth,
\* however the bytes arrive (framed_bytes_of, content_length_of, framed_payload_of).
THEOREM WholeWireIsRead == Spec => []ReadsWhatWasSent
<1>1. FramesInvariant => ReadsWhatWasSent
  <2> SUFFICES ASSUME FramesInvariant PROVE ReadsWhatWasSent
    OBVIOUS
  <2>1. PICK tail \in Tails : sent \in Seq(Texts) /\ script = Wire(sent, tail)
    BY DEF FramesInvariant
  <2>2. tail \in Seq(Bytes)
    BY FramingAssumption
  <2>3. IsPrefix([i \in 1..Len(sent) |-> BytesOf(sent[i])], Meaning(script).payloads)
    BY <2>1, <2>2, SentIsMeant
  <2>4. IsPrefix(read, Meaning(script).payloads)
    <3>1. CASE pc = "ended"
      BY <3>1 DEF FramesInvariant, ReadInPlace
    <3>2. CASE pc # "ended"
      <4> DEFINE rest == Meanings(script)[FrameStart].payloads
      <4>1. rest \in Seq(Seq(Bytes)) /\ read \in Seq(Seq(Bytes))
            /\ Meaning(script).payloads = read \o rest
        BY <3>2, RestIsTyped DEF FramesInvariant, ReadInPlace
      <4> HIDE DEF rest
      <4>2. IsPrefix(read, read \o rest)
        BY <4>1, PrefixOfJoined
      <4> QED BY <4>1, <4>2
    <3> QED BY <3>1, <3>2
  <2>5. outcome \notin {"none", "Read", "UnfinishedByDeadline"} =>
          read = Meaning(script).payloads /\ outcome = Meaning(script).error
    BY DEF FramesInvariant, ReadInPlace
  <2> QED BY <2>3, <2>4, <2>5 DEF ReadsWhatWasSent
<1> QED BY <1>1, InitFrames, NextFrames, PTL DEF Spec

==============================================================================
