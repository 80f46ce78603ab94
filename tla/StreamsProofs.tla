---------------------------- MODULE StreamsProofs ----------------------------
(***************************************************************************)
(* Streams implements a byte stream in each direction, for any sizes of    *)
(* the chunks, the pipes and the channels, any number of bytes, and every  *)
(* interleaving of the three threads, the limits and the server.  The      *)
(* invariant says of every byte where it is; it has a part for each        *)
(* direction, and each direction has a lemma for each action that moves    *)
(* its bytes.                                                              *)
(***************************************************************************)
EXTENDS Streams, SequenceTheorems, TLAPS

-----------------------------------------------------------------------------
(* Bytes that follow one another *)

LEMMA FollowsAppend ==
    ASSUME NEW s \in Seq(Nat), NEW n \in Nat, Follows(s, n)
    PROVE  Follows(Append(s, n + Len(s) + 1), n) /\ Append(s, n + Len(s) + 1) \in Seq(Nat)
           /\ Len(Append(s, n + Len(s) + 1)) = Len(s) + 1
BY DEF Follows

LEMMA FollowsTail ==
    ASSUME NEW s \in Seq(Nat), NEW n \in Nat, Follows(s, n), s # <<>>
    PROVE  /\ Head(s) = n + 1 /\ Tail(s) \in Seq(Nat) /\ Len(s) > 0 /\ Len(Tail(s)) = Len(s) - 1
           /\ Follows(Tail(s), n + 1)
<1> PICK l \in Nat : l = Len(s)
  OBVIOUS
<1>1. /\ l > 0 /\ Head(s) = s[1] /\ Len(Tail(s)) = l - 1
      /\ \A j \in 1..(l - 1) : Tail(s)[j] = s[j + 1]
  OBVIOUS
<1> QED BY <1>1 DEF Follows

LEMMA FollowsPart ==
    ASSUME NEW s \in Seq(Nat), NEW n \in Nat, Follows(s, n), NEW k \in 0..Len(s)
    PROVE  /\ SubSeq(s, 1, k) \in Seq(Nat) /\ Len(SubSeq(s, 1, k)) = k
           /\ Follows(SubSeq(s, 1, k), n)
           /\ From(s, k) \in Seq(Nat) /\ Len(From(s, k)) = Len(s) - k /\ Follows(From(s, k), n + k)
<1> PICK l \in Nat : l = Len(s)
  OBVIOUS
<1>1. k \in Nat /\ k <= l /\ \A i \in 1..l : s[i] \in Nat
  OBVIOUS
<1>2. /\ SubSeq(s, 1, k) \in Seq(Nat) /\ Len(SubSeq(s, 1, k)) = k
      /\ \A i \in 1..k : SubSeq(s, 1, k)[i] = s[i]
  BY <1>1
<1>3. /\ SubSeq(s, k + 1, l) \in Seq(Nat) /\ Len(SubSeq(s, k + 1, l)) = l - k
      /\ \A i \in 1..(l - k) : SubSeq(s, k + 1, l)[i] = s[k + i]
  BY <1>1
<1>4. Follows(SubSeq(s, 1, k), n)
  BY <1>1, <1>2 DEF Follows
<1>5. Follows(SubSeq(s, k + 1, l), n + k)
  BY <1>1, <1>3 DEF Follows
<1> QED BY <1>2, <1>3, <1>4, <1>5 DEF From

LEMMA PartTypes ==
    ASSUME NEW s \in Seq(Nat), NEW k \in 0..Len(s)
    PROVE  SubSeq(s, 1, k) \in Seq(Nat) /\ From(s, k) \in Seq(Nat)
           /\ Len(SubSeq(s, 1, k)) = k /\ Len(From(s, k)) = Len(s) - k
<1> PICK l \in Nat : l = Len(s)
  OBVIOUS
<1>1. k \in Nat /\ k <= l /\ \A i \in 1..l : s[i] \in Nat
  OBVIOUS
<1> QED BY <1>1 DEF From

LEMMA JoinTypes ==
    ASSUME NEW s \in Seq(Nat), NEW t \in Seq(Nat)
    PROVE  s \o t \in Seq(Nat) /\ Len(s \o t) = Len(s) + Len(t)
BY ConcatProperties

LEMMA FollowsJoin ==
    ASSUME NEW s \in Seq(Nat), NEW t \in Seq(Nat), Follows(s, 0), Follows(t, Len(s))
    PROVE  Follows(s \o t, 0) /\ s \o t \in Seq(Nat) /\ Len(s \o t) = Len(s) + Len(t)
BY DEF Follows

LEMMA FollowsLast ==
    ASSUME NEW s \in Seq(Nat), NEW n \in Nat, Follows(s, n), s # <<>>
    PROVE  s[Len(s)] = n + Len(s) /\ Len(s) > 0
BY DEF Follows

LEMMA LeastPart ==
    ASSUME NEW m \in Nat \ {0}, NEW s \in Seq(Nat), s # <<>>
    PROVE  Least(m, Len(s)) \in 1..Len(s)
BY DEF Least

LEMMA BytesFollow ==
    ASSUME NEW n \in Nat
    PROVE  Bytes(n) \in Seq(Nat) /\ Len(Bytes(n)) = n /\ Follows(Bytes(n), 0)
BY DEF Bytes, Follows

LEMMA FollowsEqual ==
    ASSUME NEW s \in Seq(Nat), NEW t \in Seq(Nat), Follows(s, 0), Follows(t, 0), Len(s) = Len(t)
    PROVE  s = t
<1>1. \A i \in 1..Len(s) : s[i] = t[i]
  BY DEF Follows
<1> QED BY <1>1, SeqEqual

\* Of two runs from the first byte on, the shorter is a prefix of the longer.
LEMMA FollowsPrefix ==
    ASSUME NEW s \in Seq(Nat), NEW t \in Seq(Nat), Follows(s, 0), Follows(t, 0), Len(s) <= Len(t)
    PROVE  SubSeq(t, 1, Len(s)) = s
<1>1. Len(s) \in 0..Len(t)
  OBVIOUS
<1>2. /\ SubSeq(t, 1, Len(s)) \in Seq(Nat) /\ Len(SubSeq(t, 1, Len(s))) = Len(s)
      /\ Follows(SubSeq(t, 1, Len(s)), 0)
  BY <1>1, FollowsPart
<1> QED BY <1>2, FollowsEqual

-----------------------------------------------------------------------------
(* Types *)

LEMMA Sizes ==
    /\ WriteChunk \in Nat \ {0} /\ ReadChunk \in Nat \ {0} /\ PendingChunks \in Nat \ {0}
    /\ PipeSize \in Nat \ {0} /\ MaxWrite \in Nat \ {0} /\ MaxOffered \in Nat /\ MaxSaid \in Nat
BY StreamsAssumption

\* A channel that holds one message is empty when it has been taken.
LEMMA TakenAlone ==
    ASSUME NEW S, NEW s \in Seq(S), Len(s) <= 1, s # <<>>
    PROVE  Tail(s) = <<>> /\ Len(<<>>) = 0 /\ <<>> \in Seq(S) /\ s = <<Head(s)>> /\ Len(s) = 1
           /\ s[1] = Head(s)
<1>6. Len(s) \in Nat \ {0}
  BY EmptySeq
<1>7. Len(s) = 1
  BY SMTT(30), <1>6
<1>1. Tail(s) \in Seq(S) /\ Len(Tail(s)) = 0 /\ Head(s) \in S
  BY <1>7, HeadTailProperties
<1>5. s[1] = Head(s)
  BY <1>7
<1>2. /\ <<>> \in Seq(S) /\ Len(<<>>) = 0 /\ <<Head(s)>> \in Seq(S) /\ Len(<<Head(s)>>) = 1
      /\ <<Head(s)>>[1] = Head(s)
  OBVIOUS
<1>3. Tail(s) = <<>>
  BY <1>1, <1>2, EmptySeq
<1>4. s = <<Head(s)>>
  BY <1>7, <1>5, <1>2, SeqEqual
<1> QED BY <1>7, <1>1, <1>2, <1>3, <1>4, <1>5

LEMMA SentAlone ==
    ASSUME NEW S, NEW e \in S
    PROVE  <<e>> \in Seq(S) /\ Len(<<e>>) = 1 /\ <<e>> # <<>> /\ Head(<<e>>) = e /\ <<e>>[1] = e
OBVIOUS

LEMMA InitTypes == Init => TypeOK
<1> SUFFICES ASSUME Init PROVE TypeOK
  OBVIOUS
<1>1. /\ ~exceeded /\ ~dropped /\ ~failed /\ running /\ ~holder
      /\ exceeded \in BOOLEAN /\ dropped \in BOOLEAN /\ failed \in BOOLEAN
      /\ running \in BOOLEAN /\ holder \in BOOLEAN
  BY DEF Init
<1>2. <<>> \in Seq(Nat) /\ <<>> \in Seq(Seq(Nat)) /\ <<>> \in Seq(BOOLEAN) /\ Len(<<>>) = 0
  OBVIOUS
<1>3. /\ written \in Seq(BOOLEAN) /\ Len(written) <= 1
      /\ chunks \in Seq(Seq(Nat)) /\ Len(chunks) <= 1
      /\ drained \in Seq(Seq(Nat)) /\ Len(drained) <= PendingChunks
  BY <1>2, Sizes DEF Init
<1>4. /\ rest \in Seq(Nat) /\ hand \in Seq(Nat) /\ held \in Seq(Nat) /\ pending \in Seq(Nat)
      /\ input \in Seq(Nat) /\ output \in Seq(Nat) /\ arrived \in Seq(Nat)
      /\ heard \in Seq(Nat) /\ drawn \in Seq(Nat) /\ taken \in Seq(Nat)
  BY <1>2 DEF Init
<1>5. /\ pc = "idle" /\ writer = "receiving" /\ reader = "reading" /\ over = "no"
      /\ offered \in Nat /\ confirmed \in Nat /\ said \in Nat
  BY DEF Init
<1> HIDE DEF Init
<1> QED BY <1>1, <1>3, <1>4, <1>5 DEF TypeOK

LEMMA NextTypes == TypeOK /\ [Next]_vars => TypeOK'
<1> SUFFICES ASSUME TypeOK, [Next]_vars PROVE TypeOK'
  OBVIOUS
<1> USE Sizes DEF client, writing, reading, pipes, server, inputHistory, outputHistory
<1>1. CASE Write
  <2>1. PICK n \in 1..MaxWrite : offered' = offered + n /\ rest' = [i \in 1..n |-> offered + i]
    BY <1>1 DEF Write
  <2>2. offered \in Nat /\ n \in Nat /\ n > 0
    BY DEF TypeOK
  <2>3. offered' \in Nat /\ rest' \in Seq(Nat) /\ rest' # <<>>
    BY <2>1, <2>2
  <2> QED BY ZenonT(60), <1>1, <2>3 DEF Write, TypeOK
<1>2. CASE Read
  BY <1>2 DEF Read, TypeOK
<1>3. CASE ReadPending
  <2>1. PICK n \in 1..Len(pending) :
          taken' = taken \o SubSeq(pending, 1, n) /\ pending' = From(pending, n)
    BY <1>3 DEF ReadPending
  <2>2. pending \in Seq(Nat) /\ taken \in Seq(Nat) /\ n \in 0..Len(pending)
    BY DEF TypeOK
  <2>3. taken' \in Seq(Nat) /\ pending' \in Seq(Nat)
    BY <2>1, <2>2, PartTypes
  <2> QED BY <1>3, <2>3 DEF ReadPending, TypeOK
<1>4. CASE Drop
  BY ZenonT(60), <1>4 DEF Drop, TypeOK
<1>5. CASE HandOver
  <2>1. chunks' \in Seq(Seq(Nat)) /\ Len(chunks') <= 1
    <3>1. rest \in Seq(Nat) /\ Least(WriteChunk, Len(rest)) \in 0..Len(rest)
      BY DEF TypeOK, Least
    <3>2. SubSeq(rest, 1, Least(WriteChunk, Len(rest))) \in Seq(Nat)
      BY <3>1, PartTypes
    <3> QED BY <1>5, <3>2 DEF HandOver
  <2> QED BY <1>5, <2>1 DEF HandOver, TypeOK
<1>6. CASE Refused
  BY <1>6 DEF Refused, TypeOK, WriteFails
<1>7. CASE Reported
  <2>1. /\ written' = <<>> /\ rest # <<>>
        /\ written' \in Seq(BOOLEAN) /\ Len(written') <= 1
    <3>1. written \in Seq(BOOLEAN) /\ Len(written) <= 1 /\ rest # <<>>
      BY <1>7 DEF Reported, TypeOK
    <3>2. written # <<>> /\ written' = Tail(written)
      BY <1>7 DEF Reported
    <3> QED BY <3>1, <3>2, TakenAlone
  <2>2. /\ failed' \in BOOLEAN /\ confirmed' \in Nat /\ rest' \in Seq(Nat)
        /\ pc' = "idle" \/ (pc' = "writing" /\ rest' # <<>>)
    <3>1. CASE Head(written)
      <4> DEFINE n == Least(WriteChunk, Len(rest))
      <4>1. rest \in Seq(Nat) /\ n \in 0..Len(rest)
        BY DEF TypeOK, Least
      <4>2. From(rest, n) \in Seq(Nat)
        BY <4>1, PartTypes
      <4>3. /\ confirmed' = rest[n] /\ rest' = From(rest, n) /\ UNCHANGED failed
            /\ pc' = "idle" \/ (pc' = "writing" /\ rest' # <<>>)
        BY <1>7, <3>1 DEF Reported
      <4>4. n > 0 /\ rest[n] \in Nat
        BY <2>1, <4>1 DEF Least
      <4> QED BY <4>1, <4>2, <4>3, <4>4 DEF TypeOK
    <3>2. CASE ~Head(written)
      <4>1. failed' /\ failed' \in BOOLEAN
        BY <1>7, <3>2 DEF Reported, WriteFails
      <4>2. pc' = "idle" /\ rest' = <<>> /\ UNCHANGED confirmed
        BY <1>7, <3>2 DEF Reported, WriteFails
      <4> QED BY <4>1, <4>2 DEF TypeOK
    <3> QED BY <3>1, <3>2
  <2> QED BY ZenonT(60), <1>7, <2>1, <2>2 DEF Reported, TypeOK
<1>8. CASE IntakeLimitPasses
  BY <1>8 DEF IntakeLimitPasses, TypeOK, WriteFails
<1>9. CASE Disconnected
  BY <1>9 DEF Disconnected, TypeOK, WriteFails
<1>10. CASE ReadChunkTaken
  <2>1. drained \in Seq(Seq(Nat)) /\ drained # <<>> /\ taken \in Seq(Nat)
    BY <1>10 DEF ReadChunkTaken, TypeOK
  <2>2. /\ Head(drained) \in Seq(Nat) /\ Tail(drained) \in Seq(Seq(Nat))
        /\ Len(drained) \in Nat /\ Len(Tail(drained)) = Len(drained) - 1
    BY <2>1
  <2>3. PICK n \in 1..Len(Head(drained)) :
          taken' = taken \o SubSeq(Head(drained), 1, n) /\ pending' = From(Head(drained), n)
    BY <1>10 DEF ReadChunkTaken
  <2>4. n \in 0..Len(Head(drained))
    BY <2>2
  <2>5. taken' \in Seq(Nat) /\ pending' \in Seq(Nat)
    BY SMTT(30), <2>1, <2>2, <2>3, <2>4, PartTypes
  <2>6. drained' \in Seq(Seq(Nat)) /\ Len(drained') <= PendingChunks
    BY <1>10, <2>2 DEF ReadChunkTaken, TypeOK
  <2> QED BY SMTT(30), <1>10, <2>5, <2>6 DEF ReadChunkTaken, ReadReturns, TypeOK
<1>11. CASE ReadBroken
  BY <1>11 DEF ReadBroken, TypeOK, ReadReturns
<1>12. CASE SilenceLimitPasses
  BY <1>12 DEF SilenceLimitPasses, TypeOK, ReadReturns
<1>13. CASE ReadEnd
  BY <1>13 DEF ReadEnd, TypeOK, ReadReturns
<1>14. CASE WriterReceives
  BY <1>14 DEF WriterReceives, TypeOK
<1>15. CASE WriterPuts
  <2>1. hand \in Seq(Nat) /\ hand # <<>> /\ input \in Seq(Nat) /\ arrived \in Seq(Nat)
    BY <1>15 DEF WriterPuts, TypeOK
  <2>2. Head(hand) \in Nat /\ Tail(hand) \in Seq(Nat)
    BY <2>1
  <2>3. hand' \in Seq(Nat) /\ input' \in Seq(Nat) /\ arrived' \in Seq(Nat)
    BY <1>15, <2>1, <2>2 DEF WriterPuts
  <2>4. writer' \in {"reporting", "writing"}
    BY <1>15 DEF WriterPuts
  <2> QED BY <1>15, <2>3, <2>4 DEF WriterPuts, TypeOK
<1>16. CASE WriterBreaks
  BY <1>16 DEF WriterBreaks, TypeOK
<1>17. CASE WriterReports
  BY <1>17 DEF WriterReports, TypeOK
<1>18. CASE WriterLeaves
  BY <1>18 DEF WriterLeaves, TypeOK
<1>19. CASE ReaderReads
  <2>1. PICK n \in 1..Least(ReadChunk, Len(output)) :
          /\ held' = SubSeq(output, 1, n) /\ drawn' = drawn \o held'
          /\ output' = From(output, n)
    BY <1>19 DEF ReaderReads
  <2>2. output \in Seq(Nat) /\ drawn \in Seq(Nat) /\ n \in 0..Len(output)
    BY DEF TypeOK, Least
  <2>3. held' \in Seq(Nat) /\ output' \in Seq(Nat)
    BY <2>1, <2>2, PartTypes
  <2>4. drawn' \in Seq(Nat)
    <3>1. drawn' = drawn \o held'
      BY <2>1
    <3> QED BY <2>2, <2>3, <3>1, JoinTypes
  <2>5. /\ reader' = "sending"
        /\ UNCHANGED <<client, writing, drained, input, server, inputHistory, said, taken, over>>
    BY <1>19 DEF ReaderReads
  <2> QED BY <2>3, <2>4, <2>5 DEF TypeOK
<1>20. CASE ReaderBreaks
  BY <1>20 DEF ReaderBreaks, TypeOK, Broken
<1>21. CASE ReaderEnds
  BY <1>21 DEF ReaderEnds, TypeOK
<1>22. CASE ReaderSends
  BY <1>22 DEF ReaderSends, TypeOK
<1>23. CASE ReaderLeaves
  BY <1>23 DEF ReaderLeaves, TypeOK
<1>24. CASE ServerReads
  <2>1. input \in Seq(Nat) /\ heard \in Seq(Nat) /\ input # <<>>
    BY <1>24 DEF ServerReads, TypeOK
  <2>2. Head(input) \in Nat /\ Tail(input) \in Seq(Nat)
    BY <2>1
  <2>3. heard' \in Seq(Nat) /\ input' \in Seq(Nat)
    BY <1>24, <2>1, <2>2 DEF ServerReads
  <2> QED BY <1>24, <2>3 DEF ServerReads, TypeOK
<1>25. CASE ServerPrints
  BY <1>25 DEF ServerPrints, TypeOK
<1>26. CASE ServerForks
  BY <1>26 DEF ServerForks, TypeOK
<1>27. CASE ServerExits
  <2>1. ~running' /\ running' \in BOOLEAN
    BY <1>27 DEF ServerExits
  <2> QED BY <1>27, <2>1 DEF ServerExits, TypeOK
<1>28. CASE HolderExits
  <2>1. ~holder' /\ holder' \in BOOLEAN
    BY <1>28 DEF HolderExits
  <2> QED BY <1>28, <2>1 DEF HolderExits, TypeOK
<1>29. CASE UNCHANGED vars
  BY <1>29 DEF vars, TypeOK
<1> QED
  BY <1>1, <1>2, <1>3, <1>4, <1>5, <1>6, <1>7, <1>8, <1>9, <1>10, <1>11, <1>12, <1>13, <1>14, <1>15,
     <1>16, <1>17, <1>18, <1>19, <1>20, <1>21, <1>22, <1>23, <1>24, <1>25, <1>26, <1>27, <1>28,
     <1>29
  DEF Next, ClientSteps, WriterSteps, ReaderSteps, World

-----------------------------------------------------------------------------
(* Writing *)

\* What the lemmas on writing start from, and what they show.
InputStep == TypeOK /\ TypeOK' /\ InputInStep /\ WritesInStep /\ (dropped => pc = "idle")

InputKept == InputInStep' /\ WritesInStep'

LEMMA Lengths == \A S : \A s \in Seq(S) : Len(s) \in Nat
BY LenProperties

LEMMA InputTypes ==
    ASSUME InputStep
    PROVE  /\ rest \in Seq(Nat) /\ hand \in Seq(Nat) /\ input \in Seq(Nat) /\ arrived \in Seq(Nat)
           /\ heard \in Seq(Nat) /\ chunks \in Seq(Seq(Nat)) /\ Len(chunks) <= 1
           /\ offered \in Nat /\ confirmed \in Nat
           /\ Len(rest) \in Nat /\ Len(hand) \in Nat /\ Len(input) \in Nat
           /\ Len(arrived) \in Nat /\ Len(heard) \in Nat
<1>1. /\ rest \in Seq(Nat) /\ hand \in Seq(Nat) /\ input \in Seq(Nat) /\ arrived \in Seq(Nat)
      /\ heard \in Seq(Nat) /\ chunks \in Seq(Seq(Nat)) /\ Len(chunks) <= 1
      /\ offered \in Nat /\ confirmed \in Nat
  BY DEF InputStep, TypeOK
<1> QED BY <1>1, Lengths

\* What waits in the channel to the writing thread.
LEMMA Waiting ==
    ASSUME InputStep, chunks # <<>>
    PROVE  /\ chunks[1] = Head(chunks) /\ Tail(chunks) = <<>> /\ chunks[1] \in Seq(Nat)
           /\ Len(chunks[1]) \in Nat /\ chunks = <<chunks[1]>>
<1>1. chunks \in Seq(Seq(Nat)) /\ Len(chunks) <= 1
  BY InputTypes
<1>2. Head(chunks) \in Seq(Nat)
  BY <1>1, HeadTailProperties
<1> QED BY <1>1, <1>2, TakenAlone, Lengths

LEMMA WritingAlone ==
    /\ InputStep
    /\ UNCHANGED <<rest, exceeded, chunks, written, writer, hand, input, inputHistory>>
    /\ dropped => dropped'
    /\ pc' = pc \/ (pc \in {"idle", "reading"} /\ pc' \in {"idle", "reading"})
    => InputKept
<1> SUFFICES ASSUME /\ InputStep
                    /\ UNCHANGED <<rest, exceeded, chunks, written, writer, hand, input,
                                   inputHistory>>
                    /\ dropped => dropped'
                    /\ pc' = pc \/ (pc \in {"idle", "reading"} /\ pc' \in {"idle", "reading"})
             PROVE  InputKept
  OBVIOUS
<1>1. InputInStep'
  BY DEF InputStep, InputInStep, inputHistory, Follows
<1>2. pc = "waiting" => (Underway => Underway')
  BY DEF Underway, Portion, inputHistory
<1>3. WritesInStep'
  BY <1>2 DEF InputStep, WritesInStep, CallInStep, inputHistory, Follows
<1> QED BY <1>1, <1>3 DEF InputKept

LEMMA WriteStep == InputStep /\ Write => InputKept
<1> SUFFICES ASSUME InputStep, Write PROVE InputKept
  OBVIOUS
<1>0. UNCHANGED <<exceeded, dropped, writing, pipes, arrived, confirmed, failed, heard>>
  BY DEF Write, client
<1> USE <1>0 DEF writing, pipes
<1>1. PICK n \in 1..MaxWrite : offered' = offered + n /\ rest' = [i \in 1..n |-> offered + i]
  BY DEF Write
<1>2. offered \in Nat /\ n \in Nat /\ n > 0 /\ confirmed \in Nat /\ Len(arrived) \in Nat
      /\ Len(hand) \in Nat
  BY Sizes, InputTypes
<1>3. Len(rest') = n /\ Follows(rest', offered) /\ rest' # <<>> /\ rest' \in Seq(Nat)
  BY <1>1, <1>2 DEF Follows
<1>4. InputInStep'
  <2>1. chunks # <<>> => Len(chunks[1]) \in Nat
    BY Waiting
  <2> QED BY <1>1, <1>2, <2>1 DEF InputStep, InputInStep, Follows
<1>5. WritesInStep'
  <2>1. pc = "idle" /\ pc' = "writing"
    BY DEF Write
  <2>2. CASE failed
    BY <2>1, <2>2 DEF InputStep, WritesInStep
  <2>3. CASE ~failed
    <3>1. CallInStep /\ confirmed = offered
      BY <2>1, <2>3 DEF InputStep, WritesInStep, CallInStep
    <3>2. CallInStep'
      BY <2>1, <3>1, <1>1, <1>2, <1>3 DEF CallInStep, Follows
    <3> QED BY <2>1, <2>3, <3>2 DEF InputStep, WritesInStep
  <2> QED BY <2>2, <2>3
<1> QED BY <1>4, <1>5 DEF InputKept

LEMMA HandOverStep == InputStep /\ HandOver => InputKept
<1> SUFFICES ASSUME InputStep, HandOver PROVE InputKept
  OBVIOUS
<1>0. /\ UNCHANGED <<rest, exceeded, dropped, written, writer, hand, pipes, inputHistory>>
      /\ pc = "writing" /\ pc' = "waiting" /\ ~exceeded /\ writer # "gone" /\ chunks = <<>>
      /\ chunks' = <<SubSeq(rest, 1, Portion)>>
  BY DEF HandOver, Portion
<1>1. rest \in Seq(Nat) /\ rest # <<>> /\ Portion \in 1..Len(rest)
  BY <1>0, Sizes, LeastPart DEF InputStep, TypeOK, Portion
<1>2. /\ Portion \in 0..Len(rest) /\ Portion > 0 /\ Portion \in Nat /\ Len(rest) \in Nat
      /\ Portion <= Len(rest)
  BY <1>1
<1>3. SubSeq(rest, 1, Portion) \in Seq(Nat) /\ Len(SubSeq(rest, 1, Portion)) = Portion
  BY <1>1, <1>2, PartTypes
<1>4. chunks' # <<>> /\ chunks'[1] = SubSeq(rest, 1, Portion) /\ chunks'[1] # <<>>
  BY <1>0, <1>2, <1>3, SentAlone
<1>5. CASE failed
  <2>1. writer = "leaving" /\ written = <<>>
    BY <1>0, <1>5 DEF InputStep, WritesInStep
  <2>2. InputInStep'
    BY <1>0, <2>1 DEF InputStep, InputInStep, pipes, inputHistory, Follows
  <2>3. WritesInStep'
    BY <1>0, <1>5, <2>1 DEF WritesInStep, inputHistory
  <2> QED BY <2>2, <2>3 DEF InputKept
<1>6. CASE ~failed
  <2>1. /\ written = <<>> /\ Len(arrived) = confirmed /\ Follows(rest, confirmed)
        /\ confirmed + Len(rest) = offered /\ writer = "receiving"
    BY <1>0, <1>6 DEF InputStep, WritesInStep, CallInStep
  <2>2. confirmed \in Nat /\ offered \in Nat
    BY DEF InputStep, TypeOK
  <2>3. Follows(SubSeq(rest, 1, Portion), confirmed)
    BY <1>1, <1>2, <2>1, <2>2, FollowsPart
  <2>4. InputInStep'
    <3>1. Follows(chunks'[1], Len(arrived)) /\ Len(arrived) + Len(chunks'[1]) <= offered
      BY <1>2, <1>3, <1>4, <2>1, <2>2, <2>3
    <3> QED BY <1>0, <1>4, <2>1, <3>1 DEF InputStep, InputInStep, pipes, inputHistory, Follows
  <2>5. Underway'
    BY <1>0, <2>1 DEF Underway, Portion, inputHistory
  <2>6. CallInStep'
    BY <1>0, <1>1, <2>1, <2>5 DEF CallInStep, inputHistory, Follows
  <2>7. WritesInStep'
    BY <1>0, <1>6, <2>6 DEF WritesInStep, inputHistory
  <2> QED BY <2>4, <2>7 DEF InputKept
<1> QED BY <1>5, <1>6

LEMMA FailStep ==
    InputStep /\ (Refused \/ IntakeLimitPasses \/ Disconnected) => InputKept
<1> SUFFICES ASSUME InputStep, Refused \/ IntakeLimitPasses \/ Disconnected PROVE InputKept
  OBVIOUS
<1>1. /\ UNCHANGED <<dropped, writing, pipes, offered, arrived, confirmed, heard>>
      /\ pc' = "idle" /\ failed' /\ (exceeded => exceeded')
  BY DEF Refused, IntakeLimitPasses, Disconnected, WriteFails
<1>2. InputInStep'
  BY <1>1 DEF InputStep, InputInStep, Follows, writing, pipes
<1>3. exceeded' \/ (writer \in {"leaving", "gone"} /\ written = <<>>)
  <2>1. CASE Refused
    BY <2>1 DEF Refused, InputStep, WritesInStep, CallInStep
  <2>2. CASE IntakeLimitPasses
    BY <2>2 DEF IntakeLimitPasses
  <2>3. CASE Disconnected
    BY <2>3 DEF Disconnected
  <2> QED BY <2>1, <2>2, <2>3
<1>4. WritesInStep'
  BY <1>1, <1>3 DEF WritesInStep, writing
<1> QED BY <1>2, <1>4 DEF InputKept

LEMMA ReportedStep == InputStep /\ Reported => InputKept
<1> SUFFICES ASSUME InputStep, Reported PROVE InputKept
  OBVIOUS
<1>1. /\ UNCHANGED <<exceeded, dropped, chunks, writer, hand, pipes, offered, arrived, heard>>
      /\ pc = "waiting" /\ written # <<>> /\ written' = Tail(written)
  BY DEF Reported
<1>2. ~exceeded /\ ~failed
  BY <1>1 DEF InputStep, WritesInStep
<1>3. /\ CallInStep /\ Underway /\ rest # <<>> /\ Follows(rest, confirmed)
      /\ confirmed + Len(rest) = offered
  BY <1>1, <1>2 DEF InputStep, WritesInStep, CallInStep
<1>4. written' = <<>>
  <2>1. written \in Seq(BOOLEAN) /\ Len(written) <= 1
    BY DEF InputStep, TypeOK
  <2> QED BY <1>1, <2>1, TakenAlone
<1>5. CASE Head(written)
  <2>1. /\ chunks = <<>> /\ writer = "receiving" /\ Len(arrived) = confirmed + Portion
    BY <1>1, <1>3, <1>5 DEF Underway
  <2>2. rest \in Seq(Nat) /\ Portion \in 1..Len(rest) /\ Len(rest) \in Nat
    BY <1>3, InputTypes, Sizes, LeastPart DEF Portion
  <2>3. Portion \in 0..Len(rest) /\ Portion \in Nat
    BY <2>2
  <2>4. /\ From(rest, Portion) \in Seq(Nat) /\ Len(From(rest, Portion)) = Len(rest) - Portion
        /\ Follows(From(rest, Portion), confirmed + Portion)
    BY <1>3, <2>2, <2>3, InputTypes, FollowsPart
  <2>5. rest[Portion] = confirmed + Portion
    BY <1>3, <2>2 DEF Follows
  <2>6. /\ rest' = From(rest, Portion) /\ confirmed' = rest[Portion] /\ UNCHANGED failed
        /\ pc' = IF rest' = <<>> THEN "idle" ELSE "writing"
    BY <1>5 DEF Reported, Portion
  <2>7. /\ confirmed' + Len(rest') = offered' /\ Follows(rest', confirmed')
        /\ confirmed' = Len(arrived)
    <3>1. confirmed' = confirmed + Portion /\ Len(rest') = Len(rest) - Portion
          /\ Follows(rest', confirmed')
      BY <2>4, <2>5, <2>6
    <3>2. confirmed' + Len(rest') = confirmed + Len(rest)
      BY <2>2, <2>3, <3>1, InputTypes
    <3> QED BY <1>1, <1>3, <2>1, <3>1, <3>2
  <2>8. rest' = <<>> => confirmed' = offered'
    <3>1. rest' = <<>> => Len(rest') = 0
      BY EmptySeq
    <3>2. confirmed' \in Nat /\ offered' \in Nat
      BY DEF InputStep, TypeOK
    <3> QED BY <2>7, <3>1, <3>2
  <2>9. InputInStep'
    BY <1>1, <2>1, <2>7, InputTypes DEF InputStep, InputInStep, Follows, pipes
  <2>10. CallInStep'
    BY <1>1, <1>4, <2>1, <2>6, <2>7, <2>8 DEF CallInStep
  <2>11. WritesInStep'
    BY <1>1, <1>2, <2>6, <2>10 DEF WritesInStep
  <2> QED BY <2>9, <2>11 DEF InputKept
<1>6. CASE ~Head(written)
  <2>1. writer \in {"leaving", "gone"}
    BY <1>1, <1>3, <1>6 DEF Underway
  <2>2. pc' = "idle" /\ failed' /\ UNCHANGED confirmed
    BY <1>6 DEF Reported, WriteFails
  <2>3. InputInStep'
    BY <1>1, <2>2 DEF InputStep, InputInStep, Follows, pipes
  <2>4. WritesInStep'
    BY <1>1, <1>2, <1>4, <2>1, <2>2 DEF WritesInStep
  <2> QED BY <2>3, <2>4 DEF InputKept
<1> QED BY <1>5, <1>6

LEMMA WriterReceivesStep == InputStep /\ WriterReceives => InputKept
<1> SUFFICES ASSUME InputStep, WriterReceives PROVE InputKept
  OBVIOUS
<1>1. /\ UNCHANGED <<client, written, pipes, inputHistory>>
      /\ writer = "receiving" /\ chunks # <<>> /\ hand' = Head(chunks) /\ chunks' = Tail(chunks)
      /\ writer' = "writing"
  BY DEF WriterReceives
<1>2. chunks' = <<>> /\ hand' = chunks[1]
  BY <1>1, Waiting
<1>3. InputInStep'
  BY <1>1, <1>2 DEF InputStep, InputInStep, Follows, pipes, inputHistory
<1>4. ~failed => CallInStep'
  <2> SUFFICES ASSUME ~failed PROVE CallInStep'
    OBVIOUS
  <2>1. CallInStep /\ pc = "waiting" /\ Underway
    BY <1>1 DEF InputStep, WritesInStep, CallInStep
  <2>2. chunks = <<SubSeq(rest, 1, Portion)>> /\ written = <<>> /\ Len(arrived) = confirmed
    BY <1>1, <2>1 DEF Underway
  <2>3. Len(hand') = Portion
    <3>1. rest \in Seq(Nat) /\ rest # <<>> /\ Portion \in 1..Len(rest) /\ Len(rest) \in Nat
      BY <2>1, InputTypes, Sizes, LeastPart DEF CallInStep, Portion
    <3>2. Portion \in 0..Len(rest)
      BY <3>1
    <3>3. SubSeq(rest, 1, Portion) \in Seq(Nat) /\ Len(SubSeq(rest, 1, Portion)) = Portion
      BY <3>1, <3>2, PartTypes
    <3> QED BY <1>2, <2>2, <3>3, SentAlone
  <2>4. Underway'
    BY <1>1, <1>2, <2>2, <2>3 DEF Underway, Portion, client, inputHistory
  <2> QED BY <1>1, <2>1, <2>4 DEF CallInStep, client, inputHistory, Follows
<1>5. WritesInStep'
  BY <1>1, <1>4 DEF InputStep, WritesInStep, client, inputHistory
<1> QED BY <1>3, <1>5 DEF InputKept

LEMMA WriterPutsStep == InputStep /\ WriterPuts => InputKept
<1> SUFFICES ASSUME InputStep, WriterPuts PROVE InputKept
  OBVIOUS
<1>1. /\ UNCHANGED <<client, chunks, written, offered, confirmed, failed, heard>>
      /\ writer = "writing" /\ hand # <<>>
      /\ input' = Append(input, Head(hand)) /\ arrived' = Append(arrived, Head(hand))
      /\ hand' = Tail(hand)
      /\ writer' = IF hand' = <<>> THEN "reporting" ELSE "writing"
  BY DEF WriterPuts
<1>2. /\ Follows(hand, Len(arrived)) /\ Follows(arrived, 0) /\ Follows(input, Len(heard))
      /\ Len(heard) + Len(input) = Len(arrived) /\ chunks = <<>>
      /\ confirmed <= Len(arrived) /\ Len(arrived) + Len(hand) <= offered /\ Follows(heard, 0)
  BY <1>1 DEF InputStep, InputInStep
<1>3. /\ Head(hand) = Len(arrived) + 1 /\ Len(hand') = Len(hand) - 1
      /\ Follows(hand', Len(arrived) + 1)
  BY <1>1, <1>2, InputTypes, FollowsTail
<1>4. Follows(arrived', 0) /\ Len(arrived') = Len(arrived) + 1
  <2>1. Head(hand) = 0 + Len(arrived) + 1
    BY <1>3, InputTypes
  <2> QED BY <1>1, <1>2, <2>1, InputTypes, FollowsAppend
<1>5. Follows(input', Len(heard)) /\ Len(input') = Len(input) + 1
  <2>1. Head(hand) = Len(heard) + Len(input) + 1
    BY <1>2, <1>3
  <2> QED BY <1>1, <1>2, <2>1, InputTypes, FollowsAppend
<1>6. InputInStep'
  <2>1. UNCHANGED <<heard, confirmed, offered, chunks>>
    BY <1>1
  <2>2. /\ Follows(heard', 0) /\ Follows(input', Len(heard')) /\ Follows(arrived', 0)
        /\ Follows(hand', Len(arrived'))
    BY <1>2, <1>3, <1>4, <1>5, <2>1
  <2>3. /\ Len(heard') + Len(input') = Len(arrived') /\ confirmed' <= Len(arrived')
        /\ Len(arrived') + Len(hand') <= offered'
    BY <1>2, <1>3, <1>4, <1>5, <2>1, InputTypes
  <2>4. writer' = (IF hand' = <<>> THEN "reporting" ELSE "writing") /\ chunks' = <<>>
    BY <1>1, <1>2
  <2> QED BY <2>2, <2>3, <2>4 DEF InputInStep
<1>7. ~failed => CallInStep'
  <2> SUFFICES ASSUME ~failed PROVE CallInStep'
    OBVIOUS
  <2>1. CallInStep /\ pc = "waiting" /\ Underway
    BY <1>1 DEF InputStep, WritesInStep, CallInStep
  <2>2. written = <<>> /\ Len(arrived) + Len(hand) = confirmed + Portion
    BY <1>1, <2>1 DEF Underway
  <2>3. Len(arrived') + Len(hand') = confirmed + Portion
    BY <1>3, <1>4, <2>2, InputTypes
  <2>4. writer' \in {"writing", "reporting"}
    BY <1>1
  <2>5. UNCHANGED <<rest, pc, chunks, written, confirmed, offered>>
    BY <1>1 DEF client
  <2>6. Underway'
    BY <1>2, <2>2, <2>3, <2>4, <2>5 DEF Underway, Portion
  <2> QED BY <2>1, <2>5, <2>6 DEF CallInStep, Follows
<1>8. WritesInStep'
  BY <1>1, <1>7 DEF InputStep, WritesInStep, client
<1> QED BY <1>6, <1>8 DEF InputKept

LEMMA WriterBreaksStep == InputStep /\ WriterBreaks => InputKept
<1> SUFFICES ASSUME InputStep, WriterBreaks PROVE InputKept
  OBVIOUS
<1>1. /\ UNCHANGED <<client, chunks, written, hand, pipes, inputHistory>>
      /\ writer = "writing" /\ writer' = "reporting"
  BY DEF WriterBreaks
<1>2. InputInStep'
  BY <1>1 DEF InputStep, InputInStep, Follows, pipes, inputHistory
<1>3. ~failed => CallInStep'
  <2> SUFFICES ASSUME ~failed PROVE CallInStep'
    OBVIOUS
  <2>1. CallInStep /\ pc = "waiting" /\ Underway
    BY <1>1 DEF InputStep, WritesInStep, CallInStep
  <2>2. Underway'
    BY <1>1, <2>1 DEF Underway, Portion, client, inputHistory
  <2> QED BY <1>1, <2>1, <2>2 DEF CallInStep, Follows, client, inputHistory
<1>4. WritesInStep'
  BY <1>1, <1>3 DEF InputStep, WritesInStep, client, inputHistory
<1> QED BY <1>2, <1>4 DEF InputKept

LEMMA WriterReportsStep == InputStep /\ WriterReports => InputKept
<1> SUFFICES ASSUME InputStep, WriterReports PROVE InputKept
  OBVIOUS
<1>1. /\ UNCHANGED <<client, chunks, pipes, inputHistory>>
      /\ writer = "reporting" /\ written = <<>> /\ written' = <<hand = <<>>>> /\ hand' = <<>>
      /\ writer' = IF hand = <<>> THEN "receiving" ELSE "leaving"
  BY DEF WriterReports
<1>2. written' # <<>> /\ (Head(written') <=> hand = <<>>)
  <2>1. (hand = <<>>) \in BOOLEAN
    OBVIOUS
  <2> QED BY <1>1, <2>1, SentAlone
<1>3. chunks = <<>> /\ chunks' = <<>>
  BY <1>1 DEF InputStep, InputInStep
<1>4. InputInStep'
  <2>1. Len(hand') = 0 /\ Follows(hand', Len(arrived'))
    BY <1>1, EmptySeq DEF Follows
  <2> QED BY <1>1, <1>3, <2>1, InputTypes DEF InputStep, InputInStep, Follows, pipes, inputHistory
<1>5. ~failed => CallInStep'
  <2> SUFFICES ASSUME ~failed PROVE CallInStep'
    OBVIOUS
  <2>1. CallInStep /\ pc = "waiting" /\ Underway
    BY <1>1 DEF InputStep, WritesInStep, CallInStep
  <2>2. Len(arrived) + Len(hand) = confirmed + Portion
    BY <1>1, <2>1 DEF Underway
  <2>3. UNCHANGED <<rest, pc, confirmed, offered, arrived>>
    BY <1>1 DEF client, inputHistory
  <2>4. Underway'
    <3>1. CASE hand = <<>>
      <4>1. Len(hand) = 0
        BY <3>1, EmptySeq
      <4>2. Len(arrived) = confirmed + Portion
        BY <2>2, <4>1, InputTypes
      <4> QED BY <1>1, <1>2, <1>3, <2>3, <3>1, <4>2 DEF Underway, Portion
    <3>2. CASE hand # <<>>
      BY <1>1, <1>2, <1>3, <3>2 DEF Underway
    <3> QED BY <3>1, <3>2
  <2> QED BY <2>1, <2>3, <2>4 DEF CallInStep, Follows
<1>6. WritesInStep'
  <2>1. CASE ~failed
    BY <1>1, <1>5, <2>1 DEF InputStep, WritesInStep, client, inputHistory
  <2>2. CASE failed
    BY <1>1, <2>2 DEF InputStep, WritesInStep, client, inputHistory
  <2> QED BY <2>1, <2>2
<1> QED BY <1>4, <1>6 DEF InputKept

LEMMA WriterLeavesStep == InputStep /\ WriterLeaves => InputKept
<1> SUFFICES ASSUME InputStep, WriterLeaves PROVE InputKept
  OBVIOUS
<1>1. /\ UNCHANGED <<client, written, pipes, inputHistory>>
      /\ writer' = "gone" /\ chunks' = <<>> /\ hand' = <<>>
      /\ \/ writer = "reporting" /\ dropped
         \/ writer = "receiving" /\ dropped /\ chunks = <<>>
         \/ writer = "leaving"
  BY DEF WriterLeaves
<1>2. InputInStep'
  <2>1. Len(hand') = 0 /\ Follows(hand', Len(arrived'))
    BY <1>1, EmptySeq DEF Follows
  <2> QED BY <1>1, <2>1, InputTypes DEF InputStep, InputInStep, Follows, pipes, inputHistory
<1>3. ~failed => CallInStep'
  <2> SUFFICES ASSUME ~failed PROVE CallInStep'
    OBVIOUS
  <2>1. CallInStep
    BY DEF InputStep, WritesInStep
  <2>2. CASE writer = "leaving"
    <3>1. pc = "waiting" /\ Underway
      BY <2>1, <2>2 DEF CallInStep
    <3>2. Underway'
      BY <1>1, <2>2, <3>1 DEF Underway
    <3> QED BY <1>1, <2>1, <3>1, <3>2 DEF CallInStep, Follows, client, inputHistory
  <2>3. CASE dropped
    <3>1. pc = "idle"
      BY <2>3 DEF InputStep
    <3> QED BY <1>1, <2>1, <2>3, <3>1 DEF CallInStep, Follows, client, inputHistory
  <2> QED BY <1>1, <2>2, <2>3
<1>4. WritesInStep'
  <2>1. CASE ~failed
    BY <1>1, <1>3, <2>1 DEF InputStep, WritesInStep, client, inputHistory
  <2>2. CASE failed
    BY <1>1, <2>2 DEF InputStep, WritesInStep, client, inputHistory
  <2> QED BY <2>1, <2>2
<1> QED BY <1>2, <1>4 DEF InputKept

LEMMA ServerReadsStep == InputStep /\ ServerReads => InputKept
<1> SUFFICES ASSUME InputStep, ServerReads PROVE InputKept
  OBVIOUS
<1>1. /\ UNCHANGED <<client, writing, offered, arrived, confirmed, failed>>
      /\ input # <<>> /\ heard' = Append(heard, Head(input)) /\ input' = Tail(input)
  BY DEF ServerReads
<1>2. Follows(input, Len(heard)) /\ Follows(heard, 0) /\ Len(heard) + Len(input) = Len(arrived)
  BY DEF InputStep, InputInStep
<1>3. /\ Head(input) = Len(heard) + 1 /\ Len(input') = Len(input) - 1
      /\ Follows(input', Len(heard) + 1)
  BY <1>1, <1>2, InputTypes, FollowsTail
<1>4. Follows(heard', 0) /\ Len(heard') = Len(heard) + 1
  <2>1. Head(input) = 0 + Len(heard) + 1
    BY <1>3, InputTypes
  <2> QED BY <1>1, <1>2, <2>1, InputTypes, FollowsAppend
<1>5. InputInStep'
  <2>1. Len(heard') + Len(input') = Len(arrived')
    BY <1>1, <1>2, <1>3, <1>4, InputTypes
  <2> QED BY <1>1, <1>3, <1>4, <2>1 DEF InputStep, InputInStep, Follows, writing
<1>6. pc = "waiting" => (Underway => Underway')
  BY <1>1 DEF Underway, Portion, client, writing
<1>7. WritesInStep'
  BY <1>1, <1>6 DEF InputStep, WritesInStep, CallInStep, Follows, client, writing
<1> QED BY <1>5, <1>7 DEF InputKept

LEMMA InputSteps == InputStep /\ [Next]_vars => InputKept
<1> SUFFICES ASSUME InputStep, [Next]_vars PROVE InputKept
  OBVIOUS
<1>1. CASE Read \/ ReadPending \/ Drop \/ ReadChunkTaken \/ ReadBroken \/ SilenceLimitPasses
           \/ ReadEnd
  <2>1. /\ UNCHANGED <<rest, exceeded, chunks, written, writer, hand, input, inputHistory>>
        /\ pc' = pc \/ (pc \in {"idle", "reading"} /\ pc' \in {"idle", "reading"})
        /\ dropped => dropped'
    BY <1>1 DEF Read, ReadPending, Drop, ReadChunkTaken, ReadBroken, SilenceLimitPasses, ReadEnd,
       ReadReturns, writing, pipes
  <2> QED BY <2>1, WritingAlone
<1>2. CASE ReaderSteps \/ ReaderBreaks
  <2>1. /\ UNCHANGED <<client, writing, input, inputHistory>>
    BY <1>2 DEF ReaderSteps, ReaderReads, ReaderEnds, ReaderSends, ReaderLeaves, ReaderBreaks, pipes
  <2> QED BY <2>1, WritingAlone DEF client, writing
<1>3. CASE ServerPrints \/ ServerForks \/ ServerExits \/ HolderExits \/ UNCHANGED vars
  <2>1. /\ UNCHANGED <<client, writing, input, inputHistory>>
    BY <1>3 DEF ServerPrints, ServerForks, ServerExits, HolderExits, pipes, vars
  <2> QED BY <2>1, WritingAlone DEF client, writing
<1> QED
  BY <1>1, <1>2, <1>3, WriteStep, HandOverStep, FailStep, ReportedStep, WriterReceivesStep,
     WriterPutsStep, WriterBreaksStep, WriterReportsStep, WriterLeavesStep, ServerReadsStep
  DEF Next, ClientSteps, WriterSteps, World

-----------------------------------------------------------------------------
(* Reading *)

\* What the lemmas on reading start from.
OutputStep == TypeOK /\ TypeOK' /\ OutputInStep

LEMMA OutputTypes ==
    ASSUME TypeOK
    PROVE  /\ held \in Seq(Nat) /\ pending \in Seq(Nat) /\ output \in Seq(Nat)
           /\ drawn \in Seq(Nat) /\ taken \in Seq(Nat) /\ drained \in Seq(Seq(Nat)) /\ said \in Nat
           /\ Len(held) \in Nat /\ Len(pending) \in Nat /\ Len(output) \in Nat
           /\ Len(drawn) \in Nat /\ Len(taken) \in Nat /\ Len(drained) \in Nat
           /\ \A n \in 1..Len(drained) : drained[n] \in Seq(Nat) /\ Len(drained[n]) \in Nat
           /\ DOMAIN drained = 1..Len(drained)
<1>1. /\ held \in Seq(Nat) /\ pending \in Seq(Nat) /\ output \in Seq(Nat)
      /\ drawn \in Seq(Nat) /\ taken \in Seq(Nat) /\ drained \in Seq(Seq(Nat)) /\ said \in Nat
  BY DEF TypeOK
<1>2. \A n \in 1..Len(drained) : drained[n] \in Seq(Nat)
  BY <1>1
<1>3. DOMAIN drained = 1..Len(drained)
  BY <1>1
<1> QED BY <1>1, <1>2, <1>3, Lengths

\* Where the chunks of the channel begin is a number of a byte.
LEMMA BeforeIsANumber ==
    ASSUME TypeOK, NEW n \in 1..(Len(drained) + 1)
    PROVE  DrainedBefore(n) \in Nat
<1>1. CASE n = 1
  BY <1>1, OutputTypes DEF DrainedBefore
<1>2. CASE n # 1
  <2>1. n - 1 \in 1..Len(drained)
    BY <1>2, OutputTypes
  <2>2. drained[n - 1] \in Seq(Nat) /\ Len(drained[n - 1]) \in Nat
    BY <2>1, OutputTypes
  <2>3. drained[n - 1] # Broken => Len(drained[n - 1]) \in 1..Len(drained[n - 1])
    BY <2>2, EmptySeq DEF Broken
  <2>4. drained[n - 1] # Broken => drained[n - 1][Len(drained[n - 1])] \in Nat
    BY <2>2, <2>3
  <2> QED BY <1>2, <2>4 DEF DrainedBefore
<1> QED BY <1>1, <1>2

\* A chunk begins where the one before it ends.
LEMMA NextBefore ==
    ASSUME TypeOK, NEW n \in 1..Len(drained), drained[n] # Broken,
           Follows(drained[n], DrainedBefore(n))
    PROVE  DrainedBefore(n + 1) = DrainedBefore(n) + Len(drained[n])
<1>1. n \in Nat /\ n + 1 # 1 /\ (n + 1) - 1 = n /\ n \in 1..(Len(drained) + 1)
  BY OutputTypes
<1>2. drained[n] \in Seq(Nat) /\ DrainedBefore(n) \in Nat
  BY <1>1, OutputTypes, BeforeIsANumber
<1>3. drained[n][Len(drained[n])] = DrainedBefore(n) + Len(drained[n])
  BY <1>2, FollowsLast DEF Broken
<1>4. DrainedBefore(n + 1) = drained[n][Len(drained[n])]
  BY <1>1 DEF DrainedBefore
<1> QED BY <1>3, <1>4

LEMMA ReadingAlone ==
    /\ OutputStep
    /\ UNCHANGED <<pending, dropped, drained, reader, held, output, outputHistory>>
    /\ dropped => pc' = "idle"
    /\ pc' = "reading" => pending = <<>>
    /\ Open' => Open
    => OutputInStep'
<1> SUFFICES ASSUME /\ OutputStep
                    /\ UNCHANGED <<pending, dropped, drained, reader, held, output, outputHistory>>
                    /\ dropped => pc' = "idle"
                    /\ pc' = "reading" => pending = <<>>
                    /\ Open' => Open
             PROVE  OutputInStep'
  OBVIOUS
<1>1. UNCHANGED HasBroken
  BY DEF HasBroken
<1>2. DrainedInStep => DrainedInStep'
  BY <1>1 DEF DrainedInStep, DrainedBefore, Follows, outputHistory
<1> QED BY <1>1, <1>2 DEF OutputStep, OutputInStep, Follows, outputHistory

LEMMA ReadPendingStep == OutputStep /\ ReadPending => OutputInStep'
<1> SUFFICES ASSUME OutputStep, ReadPending PROVE OutputInStep'
  OBVIOUS
<1>1. PICK n \in 1..Len(pending) :
        taken' = taken \o SubSeq(pending, 1, n) /\ pending' = From(pending, n)
  BY DEF ReadPending
<1>2. /\ UNCHANGED <<pc, dropped, reading, pipes, server, said, drawn, over>>
      /\ pc = "idle" /\ pending # <<>>
  BY DEF ReadPending
<1> USE DEF OutputStep
<1>3. n \in 0..Len(pending) /\ n \in Nat
  BY OutputTypes
<1>4. /\ Follows(SubSeq(pending, 1, n), Len(taken)) /\ Follows(From(pending, n), Len(taken) + n)
      /\ SubSeq(pending, 1, n) \in Seq(Nat) /\ Len(SubSeq(pending, 1, n)) = n
      /\ Len(From(pending, n)) = Len(pending) - n
  BY <1>3, OutputTypes, FollowsPart DEF OutputInStep
<1>5. Follows(taken', 0) /\ Len(taken') = Len(taken) + n
  <2>1. Follows(taken, 0)
    BY DEF OutputInStep
  <2> QED BY ZenonT(60), <1>1, <1>4, <2>1, OutputTypes, FollowsJoin
<1>6. Follows(pending', Len(taken')) /\ Len(taken') + Len(pending') = Len(taken) + Len(pending)
  BY <1>1, <1>3, <1>4, <1>5, OutputTypes
<1>7. UNCHANGED HasBroken /\ \A k \in 1..(Len(drained) + 1) : DrainedBefore(k)' = DrainedBefore(k)
  BY <1>2, <1>6 DEF HasBroken, DrainedBefore, reading
<1>8. DrainedInStep => DrainedInStep'
  <2> SUFFICES ASSUME DrainedInStep PROVE DrainedInStep'
    OBVIOUS
  <2>1. UNCHANGED <<drained, reader, held, drawn, over>>
    BY <1>2 DEF reading
  <2>2. \A k \in DOMAIN drained : k \in 1..(Len(drained) + 1)
    BY OutputTypes
  <2>3. (Len(drained) + 1) \in 1..(Len(drained) + 1)
    BY OutputTypes
  <2>4. HasBroken => Len(drained) \in 1..(Len(drained) + 1)
    BY OutputTypes, EmptySeq DEF HasBroken
  <2> QED BY <1>7, <2>1, <2>2, <2>3, <2>4 DEF DrainedInStep, Follows
<1> QED BY <1>2, <1>5, <1>6, <1>7, <1>8 DEF OutputInStep, Open, Follows, reading, pipes, server

LEMMA ReadChunkTakenStep == OutputStep /\ ReadChunkTaken => OutputInStep'
<1> SUFFICES ASSUME OutputStep, ReadChunkTaken PROVE OutputInStep'
  OBVIOUS
<1>1. /\ pc = "reading" /\ pc' = "idle" /\ drained # <<>> /\ Head(drained) # Broken
      /\ drained' = Tail(drained)
      /\ UNCHANGED <<dropped, reader, held, pipes, server, said, drawn, over>>
  BY DEF ReadChunkTaken, ReadReturns
<1> DEFINE c == Head(drained)
<1>2. PICK n \in 1..Len(c) : taken' = taken \o SubSeq(c, 1, n) /\ pending' = From(c, n)
  BY DEF ReadChunkTaken
<1> USE DEF OutputStep
<1>3. ~dropped /\ pending = <<>> /\ over = "no" /\ DrainedInStep /\ Follows(taken, 0)
      /\ Len(taken) + Len(pending) <= Len(drawn)
  BY <1>1 DEF OutputInStep, TypeOK
<1>4. /\ c = drained[1] /\ c \in Seq(Nat) /\ Len(c) \in Nat /\ Len(drained) \in Nat \ {0}
      /\ 1 \in DOMAIN drained /\ Len(pending) = 0 /\ 1 \in 1..Len(drained)
  <2>1. drained \in Seq(Seq(Nat)) /\ Len(drained) \in Nat \ {0}
    BY <1>1, OutputTypes, EmptySeq
  <2>2. c \in Seq(Nat) /\ c = drained[1] /\ 1 \in DOMAIN drained
    BY <1>1, <2>1
  <2> QED BY <1>3, <2>1, <2>2, Lengths, EmptySeq
<1>5. Follows(c, Len(taken)) /\ DrainedBefore(1) = Len(taken)
  <2>1. DrainedBefore(1) = Len(taken)
    BY <1>4, OutputTypes DEF DrainedBefore
  <2> QED BY <1>1, <1>3, <1>4, <2>1 DEF DrainedInStep
<1>6. DrainedBefore(2) = Len(taken) + Len(c)
  <2>1. drained[1] # Broken /\ Follows(drained[1], DrainedBefore(1)) /\ 1 + 1 = 2
    BY <1>1, <1>4, <1>5
  <2>2. DrainedBefore(1 + 1) = DrainedBefore(1) + Len(drained[1])
    BY <1>4, <2>1, NextBefore
  <2> QED BY <1>4, <1>5, <2>1, <2>2
<1>7. /\ Follows(SubSeq(c, 1, n), Len(taken)) /\ Follows(From(c, n), Len(taken) + n)
      /\ SubSeq(c, 1, n) \in Seq(Nat) /\ Len(SubSeq(c, 1, n)) = n
      /\ Len(From(c, n)) = Len(c) - n /\ n \in Nat
  <2>1. n \in 0..Len(c) /\ n \in Nat
    BY <1>4
  <2>2. Len(taken) \in Nat /\ c \in Seq(Nat) /\ Follows(c, Len(taken))
    BY <1>4, <1>5, OutputTypes
  <2> HIDE DEF c
  <2> QED BY <2>1, <2>2, FollowsPart
<1>8. Follows(taken', 0) /\ Len(taken') = Len(taken) + n
  <2>1. taken \in Seq(Nat) /\ taken' = taken \o SubSeq(c, 1, n)
    BY <1>2, OutputTypes
  <2> HIDE DEF c
  <2> QED BY <1>3, <1>7, <2>1, FollowsJoin
<1>9. Follows(pending', Len(taken')) /\ Len(taken') + Len(pending') = Len(taken) + Len(c)
  <2>1. Len(taken) \in Nat /\ Len(c) \in Nat /\ pending' = From(c, n)
    BY <1>2, <1>4, OutputTypes
  <2> HIDE DEF c
  <2> QED BY <1>7, <1>8, <2>1
<1>10. /\ Len(drained') = Len(drained) - 1 /\ Len(drained') \in Nat
       /\ DOMAIN drained' = 1..Len(drained') /\ DOMAIN drained = 1..Len(drained)
       /\ \A k \in 1..Len(drained') : drained'[k] = drained[k + 1]
  BY <1>1, <1>4, OutputTypes, HeadTailProperties
<1>11. \A k \in 1..(Len(drained') + 1) : DrainedBefore(k)' = DrainedBefore(k + 1)
  <2> SUFFICES ASSUME NEW k \in 1..(Len(drained') + 1)
               PROVE  DrainedBefore(k)' = DrainedBefore(k + 1)
    OBVIOUS
  <2>1. CASE k = 1
    BY <1>6, <1>9, <2>1 DEF DrainedBefore
  <2>2. CASE k # 1
    <3>1. k \in Nat /\ k + 1 # 1 /\ (k + 1) - 1 = k /\ k - 1 \in 1..Len(drained') /\ (k - 1) + 1 = k
      BY <1>10, <2>2
    <3>2. drained'[k - 1] = drained[k]
      BY <1>10, <3>1
    <3>3. DrainedBefore(k)' =
            IF drained'[k - 1] = Broken THEN 0 ELSE drained'[k - 1][Len(drained'[k - 1])]
      BY <2>2 DEF DrainedBefore, Broken
    <3>4. DrainedBefore(k + 1) = IF drained[k] = Broken THEN 0 ELSE drained[k][Len(drained[k])]
      BY <3>1 DEF DrainedBefore
    <3> QED BY <3>2, <3>3, <3>4
  <2> QED BY <2>1, <2>2
<1>12. HasBroken' <=> HasBroken
  <2>1. CASE drained' = <<>>
    <3>1. Len(drained) = 1
      BY <1>10, <1>4, <2>1, EmptySeq
    <3> QED BY <1>1, <1>4, <2>1, <3>1 DEF HasBroken
  <2>2. CASE drained' # <<>>
    <3>1. Len(drained') \in 1..Len(drained') /\ Len(drained') + 1 = Len(drained)
      BY <1>10, <1>4, <2>2, OutputTypes, EmptySeq DEF TypeOK
    <3>2. drained'[Len(drained')] = drained[Len(drained)]
      BY <1>10, <3>1
    <3> QED BY <1>1, <2>2, <3>2 DEF HasBroken, Broken
  <2> QED BY <2>1, <2>2
<1>13. DrainedInStep'
  <2>1. ASSUME NEW k \in DOMAIN drained'
        PROVE  IF drained'[k] = Broken THEN k = Len(drained') /\ reader' = "gone"
               ELSE Follows(drained'[k], DrainedBefore(k)')
    <3>1. k + 1 \in DOMAIN drained /\ drained'[k] = drained[k + 1] /\ k \in Nat
          /\ DrainedBefore(k)' = DrainedBefore(k + 1)
      BY <1>10, <1>11, <1>4
    <3>2. IF drained[k + 1] = Broken THEN k + 1 = Len(drained) /\ reader = "gone"
          ELSE Follows(drained[k + 1], DrainedBefore(k + 1))
      BY <1>3, <3>1 DEF DrainedInStep
    <3> QED BY <1>1, <1>10, <3>1, <3>2, <1>4
  <2>2. IF HasBroken' THEN DrainedBefore(Len(drained))' = Len(drawn')
        ELSE DrainedBefore(Len(drained) + 1)' + Len(held') = Len(drawn')
    <3>1. HasBroken' => drained' # <<>>
      BY DEF HasBroken
    <3>2. Len(drained') + 1 = Len(drained) /\ Len(drained') + 1 \in 1..(Len(drained') + 1)
          /\ (Len(drained') + 1) + 1 = Len(drained) + 1
      BY <1>10, <1>4
    <3>3. CASE HasBroken
      <4>1. Len(drained') \in 1..(Len(drained') + 1)
        <5>1. drained' # <<>> /\ drained' \in Seq(Seq(Nat))
          BY <1>12, <3>1, <3>3 DEF TypeOK
        <5>2. Len(drained') \in Nat \ {0}
          BY <5>1, EmptySeq
        <5> QED BY <5>2
      <4>2. DrainedBefore(Len(drained))' = DrainedBefore(Len(drained))
        BY <1>11, <3>2, <4>1
      <4> QED BY <1>1, <1>3, <1>12, <3>3, <4>2 DEF DrainedInStep
    <3>4. CASE ~HasBroken
      <4>1. DrainedBefore(Len(drained) + 1)' = DrainedBefore(Len(drained) + 1)
        BY <1>11, <3>2
      <4> QED BY <1>1, <1>3, <1>12, <3>4, <4>1 DEF DrainedInStep
    <3> QED BY <3>3, <3>4
  <2>3. ASSUME NEW k \in 1..(Len(drained') + 1) PROVE DrainedBefore(k)' <= Len(drawn')
    <3>1. k + 1 \in 1..(Len(drained) + 1)
      BY <1>10, <1>4
    <3> QED BY <1>1, <1>3, <1>11, <3>1 DEF DrainedInStep
  <2>4. over' = "no"
    BY <1>1, <1>3
  <2> QED BY <2>1, <2>2, <2>3, <2>4 DEF DrainedInStep, Broken
<1>14. Len(taken') + Len(pending') <= Len(drawn')
  <2>1. 2 \in 1..(Len(drained) + 1)
    BY <1>4
  <2> QED BY <1>1, <1>3, <1>6, <1>9, <2>1 DEF DrainedInStep
<1>15. /\ Follows(drawn', 0) /\ Follows(output', Len(drawn')) /\ Len(drawn') + Len(output') = said'
       /\ reader' # "sending" => held' = <<>>
       /\ Follows(held', Len(drawn') - Len(held'))
       /\ ~dropped' /\ pc' = "idle" /\ over' = "no"
  BY <1>1, <1>3 DEF OutputInStep, pipes
<1>16. reader' = "gone" /\ ~HasBroken' => output' = <<>> /\ ~Open'
  BY <1>1, <1>3, <1>12 DEF OutputInStep, Open, pipes, server
<1> QED BY <1>8, <1>9, <1>13, <1>14, <1>15, <1>16 DEF OutputInStep

LEMMA ReadBrokenStep == OutputStep /\ ReadBroken => OutputInStep'
<1> SUFFICES ASSUME OutputStep, ReadBroken PROVE OutputInStep'
  OBVIOUS
<1>1. /\ pc = "reading" /\ pc' = "idle" /\ drained # <<>> /\ Head(drained) = Broken
      /\ drained' = Tail(drained) /\ over' = IF over = "no" THEN "failed" ELSE over
      /\ UNCHANGED <<dropped, reader, held, pipes, server, pending, said, drawn, taken>>
  BY DEF ReadBroken, ReadReturns
<1> USE DEF OutputStep
<1>2. ~dropped /\ pending = <<>> /\ over = "no" /\ DrainedInStep
  BY <1>1 DEF OutputInStep, TypeOK
<1>3. /\ Len(drained) \in Nat \ {0} /\ Head(drained) = drained[1] /\ 1 \in DOMAIN drained
      /\ drained \in Seq(Seq(Nat)) /\ Len(pending) = 0
  <2>1. drained \in Seq(Seq(Nat)) /\ Len(drained) \in Nat \ {0} /\ Len(pending) = 0
    BY <1>1, <1>2, OutputTypes, EmptySeq
  <2> QED BY <1>1, <2>1
<1>4. Len(drained) = 1 /\ reader = "gone"
  BY <1>1, <1>2, <1>3 DEF DrainedInStep
<1>5. HasBroken /\ drained' = <<>> /\ Len(drained') = 0
  <2>1. drained[Len(drained)] = Broken
    BY <1>1, <1>3, <1>4
  <2>2. Tail(drained) = <<>> /\ Len(<<>>) = 0
    <3>1. Len(drained) <= 1
      BY <1>4
    <3>2. Tail(drained) = <<>>
      BY <1>1, <1>3, <3>1, TakenAlone
    <3> QED BY <3>2, EmptySeq
  <2> QED BY <1>1, <2>1, <2>2 DEF HasBroken
<1>6. DrainedBefore(1) = Len(taken) + Len(pending) /\ Len(taken) + Len(pending) = Len(drawn)
  BY <1>2, <1>4, <1>5 DEF DrainedInStep, DrainedBefore
<1>7. held' = <<>> /\ Len(held') = 0
  BY <1>1, <1>4, EmptySeq DEF OutputInStep
<1>8. DrainedInStep'
  <2>1. /\ DrainedBefore(1)' = Len(drawn') /\ Len(drained') + 1 = 1
        /\ ~HasBroken' /\ DOMAIN drained' = {}
    BY <1>1, <1>5, <1>6 DEF DrainedBefore, HasBroken
  <2>2. DrainedBefore(1)' + Len(held') = Len(drawn') /\ Len(drawn') <= Len(drawn')
    BY <1>1, <1>7, <2>1, OutputTypes
  <2>3. \A n \in 1..1 : n = 1
    OBVIOUS
  <2> QED BY <2>1, <2>2, <2>3 DEF DrainedInStep, Broken
<1> QED BY <1>1, <1>2, <1>4, <1>5, <1>7, <1>8 DEF OutputInStep, Follows, pipes

LEMMA ReadEndStep == OutputStep /\ ReadEnd => OutputInStep'
<1> SUFFICES ASSUME OutputStep, ReadEnd PROVE OutputInStep'
  OBVIOUS
<1>1. /\ pc = "reading" /\ pc' = "idle" /\ drained = <<>> /\ reader = "gone"
      /\ over' = IF over = "no" THEN "ended" ELSE over
      /\ UNCHANGED <<dropped, pending, reading, pipes, server, said, drawn, taken>>
  BY DEF ReadEnd, ReadReturns
<1> USE DEF OutputStep
<1>2. ~dropped /\ pending = <<>> /\ ~HasBroken /\ DrainedInStep
  BY <1>1 DEF OutputInStep, HasBroken
<1>3. ~HasBroken' /\ \A n : DrainedBefore(n)' = DrainedBefore(n)
  BY <1>1, <1>2 DEF HasBroken, DrainedBefore, reading
<1>4. DrainedInStep'
  BY <1>1, <1>2, <1>3 DEF DrainedInStep, Follows, reading
<1>5. over = "no" \/ over = "ended" => output = <<>> /\ ~Open
  BY <1>1, <1>2 DEF OutputInStep
<1>6. output' = output /\ (Open' <=> Open)
  BY <1>1 DEF pipes, server, Open
<1>7. over' = "ended" => output' = <<>> /\ ~Open'
  BY <1>1, <1>5, <1>6
<1>8. over' # "no"
  BY <1>1
<1> QED BY <1>1, <1>2, <1>4, <1>7, <1>8 DEF OutputInStep, Follows, pipes, reading

LEMMA ReaderReadsStep == OutputStep /\ ReaderReads => OutputInStep'
<1> SUFFICES ASSUME OutputStep, ReaderReads PROVE OutputInStep'
  OBVIOUS
<1>1. PICK n \in 1..Least(ReadChunk, Len(output)) :
        /\ held' = SubSeq(output, 1, n) /\ drawn' = drawn \o held'
        /\ output' = From(output, n)
  BY DEF ReaderReads
<1>2. /\ UNCHANGED <<client, drained, server, said, taken, over>>
      /\ reader = "reading" /\ reader' = "sending" /\ output # <<>>
  BY DEF ReaderReads
<1> USE DEF OutputStep
<1>3. n \in 0..Len(output) /\ n \in Nat
  BY OutputTypes, Sizes DEF Least
<1>4. /\ held = <<>> /\ Len(held) = 0 /\ over = "no"
      /\ Follows(drawn, 0) /\ Follows(output, Len(drawn))
      /\ Len(drawn) + Len(output) = said /\ (dropped \/ DrainedInStep)
      /\ Len(taken) + Len(pending) <= Len(drawn)
  BY <1>2, EmptySeq DEF OutputInStep, TypeOK
<1>5. /\ Follows(held', Len(drawn)) /\ Len(held') = n /\ held' \in Seq(Nat)
      /\ Follows(output', Len(drawn) + n) /\ Len(output') = Len(output) - n
  BY <1>1, <1>3, <1>4, OutputTypes, FollowsPart
<1>6. Follows(drawn', 0) /\ Len(drawn') = Len(drawn) + n
  <2>1. drawn' = drawn \o held' /\ drawn \in Seq(Nat)
    BY <1>1, OutputTypes
  <2> QED BY <1>4, <1>5, <2>1, FollowsJoin
<1>7. /\ Follows(output', Len(drawn')) /\ Len(drawn') + Len(output') = said'
      /\ Len(drawn') - Len(held') = Len(drawn) /\ Len(drawn) <= Len(drawn')
      /\ Len(taken') + Len(pending') <= Len(drawn')
  BY SMTT(30), <1>2, <1>3, <1>4, <1>5, <1>6, OutputTypes DEF client
<1>8. DrainedInStep => DrainedInStep'
  <2> SUFFICES ASSUME DrainedInStep PROVE DrainedInStep'
    OBVIOUS
  <2>1. /\ UNCHANGED <<drained, taken, pending, over>>
        /\ \A k : DrainedBefore(k)' = DrainedBefore(k)
        /\ HasBroken' = HasBroken
    BY <1>2 DEF client, DrainedBefore, HasBroken
  <2>2. ~HasBroken
    <3>1. HasBroken => Len(drained) \in DOMAIN drained
      BY OutputTypes, EmptySeq DEF HasBroken
    <3> QED BY <1>2, <3>1 DEF DrainedInStep, HasBroken
  <2>3. \A k \in DOMAIN drained : drained[k] # Broken
    BY <1>2 DEF DrainedInStep
  <2>4. Len(drained) + 1 \in 1..(Len(drained) + 1)
    BY OutputTypes
  <2>5. DrainedBefore(Len(drained) + 1) = Len(drawn)
    BY <1>4, <2>2, <2>4, BeforeIsANumber DEF DrainedInStep
  <2>6. DrainedBefore(Len(drained) + 1)' + Len(held') = Len(drawn')
    BY <1>5, <1>6, <2>1, <2>5, OutputTypes
  <2>7. \A k \in 1..(Len(drained) + 1) : DrainedBefore(k) <= Len(drawn')
    <3> SUFFICES ASSUME NEW k \in 1..(Len(drained) + 1) PROVE DrainedBefore(k) <= Len(drawn')
      OBVIOUS
    <3>1. DrainedBefore(k) \in Nat /\ Len(drawn) \in Nat
      BY BeforeIsANumber, OutputTypes
    <3>2. DrainedBefore(k) <= Len(drawn)
      BY DEF DrainedInStep
    <3> QED BY <1>3, <1>6, <3>1, <3>2
  <2>8. \A k \in DOMAIN drained : Follows(drained[k], DrainedBefore(k))
    BY <2>3 DEF DrainedInStep
  <2> QED BY <2>1, <2>2, <2>3, <2>6, <2>7, <2>8 DEF DrainedInStep, Broken
<1>9. UNCHANGED <<pc, pending, taken, over, dropped>>
  BY <1>2 DEF client
<1>10. /\ Follows(taken', 0) /\ Follows(pending', Len(taken'))
       /\ dropped' => pc' = "idle"
       /\ pc' = "reading" => pending' = <<>>
  BY <1>9 DEF OutputInStep, Follows
<1>11. ~dropped' => Follows(held', Len(drawn') - Len(held')) /\ DrainedInStep'
  BY <1>4, <1>5, <1>7, <1>8, <1>9
<1> QED BY <1>2, <1>4, <1>6, <1>7, <1>9, <1>10, <1>11 DEF OutputInStep

LEMMA ReaderBreaksStep == OutputStep /\ ReaderBreaks => OutputInStep'
<1> SUFFICES ASSUME OutputStep, ReaderBreaks PROVE OutputInStep'
  OBVIOUS
<1>1. /\ UNCHANGED <<client, drained, pipes, server, outputHistory>>
      /\ reader = "reading" /\ reader' = "sending" /\ held' = <<>>
  BY DEF ReaderBreaks, Broken
<1> USE DEF OutputStep
<1>2. held = <<>> /\ over = "no" /\ UNCHANGED held
  BY <1>1 DEF OutputInStep
<1>3. /\ UNCHANGED HasBroken /\ \A k : DrainedBefore(k)' = DrainedBefore(k)
  BY <1>1 DEF client, DrainedBefore, HasBroken, outputHistory
<1>4. DrainedInStep => DrainedInStep'
  BY <1>1, <1>2, <1>3 DEF DrainedInStep, Follows, outputHistory
<1> QED
  BY <1>1, <1>2, <1>3, <1>4
  DEF OutputInStep, Follows, Open, client, pipes, server, outputHistory

LEMMA ReaderEndsStep == OutputStep /\ ReaderEnds => OutputInStep'
<1> SUFFICES ASSUME OutputStep, ReaderEnds PROVE OutputInStep'
  OBVIOUS
<1>1. /\ UNCHANGED <<client, drained, held, pipes, server, outputHistory>>
      /\ reader = "reading" /\ reader' = "gone" /\ output = <<>> /\ ~Open
  BY DEF ReaderEnds
<1> USE DEF OutputStep
<1>2. held = <<>> /\ over = "no" /\ UNCHANGED held
  BY <1>1 DEF OutputInStep
<1>3. /\ UNCHANGED HasBroken /\ \A k : DrainedBefore(k)' = DrainedBefore(k)
  BY <1>1 DEF client, DrainedBefore, HasBroken, outputHistory
<1>4. DrainedInStep => DrainedInStep'
  BY <1>1, <1>2, <1>3 DEF DrainedInStep, Follows, outputHistory
<1>5. output' = <<>> /\ ~Open'
  BY <1>1 DEF pipes, server, Open
<1> QED BY <1>1, <1>2, <1>4, <1>5 DEF OutputInStep, Follows, client, pipes, outputHistory

LEMMA ReaderSendsStep == OutputStep /\ ReaderSends => OutputInStep'
<1> SUFFICES ASSUME OutputStep, ReaderSends PROVE OutputInStep'
  OBVIOUS
<1>1. /\ UNCHANGED <<client, pipes, server, outputHistory>>
      /\ reader = "sending" /\ ~dropped
      /\ drained' = Append(drained, held) /\ held' = <<>>
      /\ reader' = IF held = Broken THEN "gone" ELSE "reading"
  BY DEF ReaderSends
<1> USE DEF OutputStep
<1>2. /\ over = "no" /\ DrainedInStep /\ Follows(held, Len(drawn) - Len(held))
  BY <1>1 DEF OutputInStep
<1>3. UNCHANGED <<pc, pending, taken, over, dropped, drawn, said, output>> /\ (Open' <=> Open)
  BY <1>1 DEF client, pipes, server, outputHistory, Open
<1>4. ~HasBroken /\ \A k \in 1..Len(drained) : drained[k] # Broken
  <2>1. HasBroken => Len(drained) \in DOMAIN drained
    BY OutputTypes, EmptySeq DEF HasBroken
  <2> QED BY <1>1, <1>2, <2>1, OutputTypes DEF DrainedInStep, HasBroken
<1> PICK l \in Nat : l = Len(drained)
  BY OutputTypes
<1>5. /\ Len(drained') = l + 1 /\ l \in Nat /\ drained'[l + 1] = held
      /\ \A k \in 1..l : drained'[k] = drained[k]
      /\ DOMAIN drained' = 1..(l + 1) /\ drained' # <<>> /\ Len(held') = 0
      /\ DOMAIN drained = 1..l
  <2>1. drained \in Seq(Seq(Nat)) /\ held \in Seq(Nat) /\ l \in Nat /\ DOMAIN drained = 1..l
    BY OutputTypes
  <2>2. /\ Len(drained') = l + 1 /\ drained'[l + 1] = held /\ drained' \in Seq(Seq(Nat))
        /\ \A k \in 1..l : drained'[k] = drained[k]
    BY <1>1, <2>1, AppendProperties
  <2>3. DOMAIN drained' = 1..(l + 1)
    BY <2>2
  <2>4. drained' # <<>>
    BY <2>2, EmptySeq
  <2>5. Len(held') = 0
    BY <1>1, EmptySeq
  <2> QED BY <2>1, <2>2, <2>3, <2>4, <2>5
<1>6. \A k \in 1..(l + 1) : DrainedBefore(k)' = DrainedBefore(k)
  <2> SUFFICES ASSUME NEW k \in 1..(l + 1) PROVE DrainedBefore(k)' = DrainedBefore(k)
    OBVIOUS
  <2>1. CASE k = 1
    BY <1>3, <2>1 DEF DrainedBefore
  <2>2. CASE k # 1
    <3>1. k - 1 \in 1..l
      BY <1>5, <2>2
    <3>2. drained'[k - 1] = drained[k - 1]
      BY <1>5, <3>1
    <3> QED BY <2>2, <3>2 DEF DrainedBefore, Broken
  <2> QED BY <2>1, <2>2
<1>7. /\ DrainedBefore(l + 1) + Len(held) = Len(drawn) /\ DrainedBefore(l + 1) \in Nat
      /\ Len(drawn) - Len(held) = DrainedBefore(l + 1)
  <2>1. DrainedBefore(l + 1) + Len(held) = Len(drawn)
    BY <1>2, <1>4 DEF DrainedInStep
  <2>2. DrainedBefore(l + 1) \in Nat
    BY BeforeIsANumber
  <2>3. Len(held) \in Nat
    BY OutputTypes
  <2> QED BY <2>1, <2>2, <2>3
<1>8. HasBroken' <=> held = Broken
  BY <1>5 DEF HasBroken, Broken
<1>9. \A k \in DOMAIN drained' :
        IF drained'[k] = Broken THEN k = Len(drained') /\ reader' = "gone"
        ELSE Follows(drained'[k], DrainedBefore(k)')
  <2> SUFFICES ASSUME NEW k \in DOMAIN drained'
               PROVE  IF drained'[k] = Broken THEN k = Len(drained') /\ reader' = "gone"
                      ELSE Follows(drained'[k], DrainedBefore(k)')
    OBVIOUS
  <2>1. DrainedBefore(k)' = DrainedBefore(k)
    BY <1>5, <1>6
  <2>2. CASE k \in 1..l
    <3>1. drained'[k] = drained[k] /\ drained[k] # Broken
      BY <1>4, <1>5, <2>2
    <3>2. Follows(drained[k], DrainedBefore(k))
      BY <1>2, <1>5, <2>2, <3>1 DEF DrainedInStep
    <3> QED BY <2>1, <3>1, <3>2
  <2>3. CASE k = l + 1
    <3>1. Len(drawn) - Len(held) = DrainedBefore(k)
      BY <1>7, <2>3
    <3> QED BY <1>1, <1>2, <1>5, <2>1, <2>3, <3>1
  <2> QED BY <1>5, <2>2, <2>3
<1>15. DrainedBefore(l + 2)' = IF held = Broken THEN 0 ELSE held[Len(held)]
  <2>1. DrainedBefore(l + 2)' =
          IF l + 2 = 1 THEN Len(taken') + Len(pending')
          ELSE IF drained'[(l + 2) - 1] = Broken THEN 0
          ELSE drained'[(l + 2) - 1][Len(drained'[(l + 2) - 1])]
    BY DEF DrainedBefore, Broken
  <2>2. (l + 2) - 1 = l + 1 /\ l + 2 # 1
    OBVIOUS
  <2> QED BY <1>5, <2>1, <2>2
<1>10. held # Broken => DrainedBefore(l + 2)' = Len(drawn)
  <2> SUFFICES ASSUME held # Broken PROVE DrainedBefore(l + 2)' = Len(drawn)
    OBVIOUS
  <2>2. DrainedBefore(l + 2)' = held[Len(held)]
    BY <1>15
  <2>3. held \in Seq(Nat) /\ held # <<>> /\ Len(drawn) - Len(held) = DrainedBefore(l + 1)
    BY <1>7, OutputTypes DEF Broken
  <2>4. Follows(held, DrainedBefore(l + 1))
    BY <1>2, <2>3
  <2>5. held[Len(held)] = DrainedBefore(l + 1) + Len(held)
    BY <1>7, <2>3, <2>4, FollowsLast
  <2> QED BY <1>7, <2>2, <2>5
<1>11. DrainedInStep'
  <2>1. IF HasBroken' THEN DrainedBefore(Len(drained))' = Len(drawn')
        ELSE DrainedBefore(Len(drained) + 1)' + Len(held') = Len(drawn')
    <3>1. CASE held = Broken
      <4>1. DrainedBefore(l + 1)' = DrainedBefore(l + 1)
        BY <1>6
      <4>2. Len(held) = 0
        BY <3>1, EmptySeq DEF Broken
      <4>3. DrainedBefore(l + 1)' = Len(drawn')
        BY <1>3, <1>7, <4>1, <4>2
      <4> QED BY <1>5, <1>8, <3>1, <4>3
    <3>2. CASE held # Broken
      <4>1. Len(drained') + 1 = l + 2
        BY <1>5
      <4>2. Len(drawn) \in Nat /\ DrainedBefore(l + 2)' = Len(drawn)
        BY <1>10, <3>2, OutputTypes
      <4>3. DrainedBefore(Len(drained) + 1)' = Len(drawn)
        BY <4>1, <4>2
      <4> QED BY <1>3, <1>5, <1>8, <3>2, <4>2, <4>3
    <3> QED BY <3>1, <3>2
  <2>2. ASSUME NEW k \in 1..(Len(drained') + 1) PROVE DrainedBefore(k)' <= Len(drawn')
    <3>1. CASE k \in 1..(l + 1)
      BY <1>2, <1>3, <1>6, <3>1 DEF DrainedInStep
    <3>2. CASE k = l + 2
      <4>1. CASE held = Broken
        <5>2. DrainedBefore(l + 2)' = 0
          BY <1>15, <4>1
        <5>3. Len(drawn) \in Nat
          BY OutputTypes
        <5> QED BY <1>3, <3>2, <5>2, <5>3
      <4>2. CASE held # Broken
        <5>1. Len(drawn) \in Nat
          BY OutputTypes
        <5> QED BY <1>3, <1>10, <3>2, <4>2, <5>1
      <4> QED BY <4>1, <4>2
    <3> QED BY <1>5, <3>1, <3>2
  <2>3. over' = "no"
    BY <1>2, <1>3
  <2> QED BY <1>9, <2>1, <2>2, <2>3 DEF DrainedInStep, Broken
<1>12. Follows(held', Len(drawn') - Len(held'))
  BY <1>5 DEF Follows
<1>13. ~(reader' = "gone" /\ ~HasBroken') /\ over' = "no"
  BY <1>1, <1>2, <1>3, <1>8
<1>14. /\ Follows(taken', 0) /\ Follows(pending', Len(taken')) /\ Follows(drawn', 0)
       /\ Follows(output', Len(drawn')) /\ Len(drawn') + Len(output') = said'
       /\ Len(taken') + Len(pending') <= Len(drawn')
       /\ dropped' => pc' = "idle"
       /\ pc' = "reading" => pending' = <<>>
  BY <1>3 DEF OutputInStep, Follows
<1> QED BY <1>1, <1>11, <1>12, <1>13, <1>14 DEF OutputInStep

LEMMA ReaderLeavesStep == OutputStep /\ ReaderLeaves => OutputInStep'
<1> SUFFICES ASSUME OutputStep, ReaderLeaves PROVE OutputInStep'
  OBVIOUS
<1>1. /\ UNCHANGED <<client, drained, pipes, server, outputHistory>>
      /\ reader = "sending" /\ dropped /\ reader' = "gone" /\ held' = <<>>
  BY DEF ReaderLeaves
<1>2. dropped' /\ over' = over /\ over = "no"
  BY <1>1 DEF OutputStep, OutputInStep, client, outputHistory
<1> QED BY <1>1, <1>2 DEF OutputStep, OutputInStep, Follows, client, pipes, outputHistory

LEMMA ServerPrintsStep == OutputStep /\ ServerPrints => OutputInStep'
<1> SUFFICES ASSUME OutputStep, ServerPrints PROVE OutputInStep'
  OBVIOUS
<1>1. /\ UNCHANGED <<client, reading, server, drawn, taken, over>>
      /\ Open /\ output' = Append(output, said + 1) /\ said' = said + 1
  BY DEF ServerPrints
<1> USE DEF OutputStep
<1>2. ~((reader = "gone" /\ ~dropped /\ over = "no" /\ ~HasBroken) \/ over = "ended")
  BY <1>1 DEF OutputInStep
<1>3. Follows(output, Len(drawn)) /\ Len(drawn) + Len(output) = said
  BY DEF OutputInStep
<1>4. Follows(output', Len(drawn)) /\ Len(output') = Len(output) + 1
  <2>1. said + 1 = Len(drawn) + Len(output) + 1
    BY <1>3
  <2> QED BY <1>1, <1>3, <2>1, OutputTypes, FollowsAppend
<1>5. Len(drawn') + Len(output') = said'
  BY <1>1, <1>3, <1>4, OutputTypes
<1>6. UNCHANGED HasBroken
  BY <1>1 DEF HasBroken, reading
<1>7. DrainedInStep => DrainedInStep'
  BY <1>1, <1>6 DEF DrainedInStep, DrainedBefore, Follows, client, reading
<1> QED BY <1>1, <1>2, <1>4, <1>5, <1>6, <1>7 DEF OutputInStep, Follows, client, reading

LEMMA DropStep == OutputStep /\ Drop => OutputInStep'
<1> SUFFICES ASSUME OutputStep, Drop PROVE OutputInStep'
  OBVIOUS
<1>1. /\ UNCHANGED <<pc, pending, reading, pipes, holder, outputHistory>>
      /\ pc = "idle" /\ dropped' /\ ~running'
  BY DEF Drop
<1>2. Open' => Open
  BY <1>1 DEF Open
<1> QED BY <1>1, <1>2 DEF OutputStep, OutputInStep, Follows, reading, pipes, outputHistory

LEMMA OutputSteps == OutputStep /\ [Next]_vars => OutputInStep'
<1> SUFFICES ASSUME OutputStep, [Next]_vars PROVE OutputInStep'
  OBVIOUS
<1>1. CASE Write \/ Read \/ HandOver \/ Refused \/ Reported \/ IntakeLimitPasses \/ Disconnected
           \/ SilenceLimitPasses
  <2>1. /\ UNCHANGED <<pending, dropped, reading, output, server, outputHistory>>
    BY <1>1 DEF Write, Read, HandOver, Refused, Reported, IntakeLimitPasses, Disconnected,
       SilenceLimitPasses, ReadReturns, pipes
  <2>2. ~dropped
    BY <1>1 DEF OutputStep, OutputInStep, Write, Read, HandOver, Refused, Reported,
       IntakeLimitPasses, Disconnected, SilenceLimitPasses, ReadReturns
  <2>3. pc' = "reading" => pending = <<>>
    BY <1>1 DEF Write, Read, HandOver, Refused, Reported, IntakeLimitPasses, Disconnected,
       SilenceLimitPasses, ReadReturns, WriteFails
  <2>4. Open' => Open
    BY <2>1 DEF Open, server
  <2> QED BY <2>1, <2>2, <2>3, <2>4, ReadingAlone DEF reading
<1>2. CASE WriterSteps \/ ServerReads \/ UNCHANGED vars
  <2>1. /\ UNCHANGED <<client, reading, output, server, outputHistory>>
    BY <1>2 DEF WriterSteps, WriterReceives, WriterPuts, WriterBreaks, WriterReports, WriterLeaves,
       ServerReads, pipes, vars
  <2>2. (dropped => pc' = "idle") /\ (pc' = "reading" => pending = <<>>) /\ (Open' => Open)
    BY <2>1 DEF OutputStep, OutputInStep, client, server, Open
  <2> QED BY <2>1, <2>2, ReadingAlone DEF client, reading
<1>3. CASE ServerForks \/ ServerExits \/ HolderExits
  <2>1. /\ UNCHANGED <<client, reading, output, outputHistory>> /\ (Open' => Open)
    BY <1>3 DEF ServerForks, ServerExits, HolderExits, pipes, Open
  <2>2. (dropped => pc' = "idle") /\ (pc' = "reading" => pending = <<>>)
    BY <2>1 DEF OutputStep, OutputInStep, client
  <2> QED BY <2>1, <2>2, ReadingAlone DEF client, reading
<1> QED
  BY <1>1, <1>2, <1>3, ReadPendingStep, ReadChunkTakenStep, ReadBrokenStep, ReadEndStep,
     ReaderReadsStep, ReaderBreaksStep, ReaderEndsStep, ReaderSendsStep, ReaderLeavesStep,
     ServerPrintsStep, DropStep
  DEF Next, ClientSteps, ReaderSteps, World

-----------------------------------------------------------------------------
(* The invariant *)

LEMMA InitStreamInvariant == Init => StreamInvariant
<1> SUFFICES ASSUME Init PROVE StreamInvariant
  OBVIOUS
<1>1. TypeOK
  BY InitTypes
<1>2. \A n : Follows(<<>>, n)
  BY EmptySeq DEF Follows
<1>3. Len(<<>>) = 0
  BY EmptySeq
<1>4. InputInStep
  BY <1>2, <1>3 DEF Init, InputInStep
<1>5. WritesInStep
  BY <1>3 DEF Init, WritesInStep, CallInStep
<1>6. ~HasBroken /\ DrainedBefore(1) = 0
  BY <1>3 DEF Init, HasBroken, DrainedBefore
<1>7. DrainedInStep
  <2>1. DOMAIN <<>> = {} /\ 1..(0 + 1) = {1} /\ 0 + 1 = 1 /\ 0 + 0 = 0 /\ 0 <= 0
    OBVIOUS
  <2> QED BY <1>3, <1>6, <2>1 DEF Init, DrainedInStep
<1>8. OutputInStep
  <2>1. pending = <<>> /\ taken = <<>> /\ drawn = <<>> /\ output = <<>> /\ held = <<>> /\ said = 0
        /\ pc = "idle" /\ over = "no" /\ reader = "reading"
    BY DEF Init
  <2>2. 0 + 0 = 0 /\ 0 <= 0 /\ 0 - 0 = 0
    OBVIOUS
  <2> QED BY <1>2, <1>3, <1>7, <2>1, <2>2 DEF OutputInStep
<1> QED BY <1>1, <1>4, <1>5, <1>8 DEF StreamInvariant

LEMMA NextStreamInvariant == StreamInvariant /\ [Next]_vars => StreamInvariant'
<1> SUFFICES ASSUME StreamInvariant, [Next]_vars PROVE StreamInvariant'
  OBVIOUS
<1>1. TypeOK /\ TypeOK'
  BY NextTypes DEF StreamInvariant
<1>2. InputStep
  BY <1>1 DEF InputStep, StreamInvariant, OutputInStep
<1>3. InputInStep' /\ WritesInStep'
  BY <1>2, InputSteps DEF InputKept
<1>4. OutputInStep'
  BY <1>1, OutputSteps DEF OutputStep, StreamInvariant
<1> QED BY <1>1, <1>3, <1>4 DEF StreamInvariant

\* Every byte that has been produced and not yet received is where it belongs:
\* in a pipe, a channel or the hands of a thread of child_input.rs or
\* child_output.rs, in its order, whatever limits have passed and whoever has gone.
THEOREM StreamInvariantHolds == Spec => []StreamInvariant
BY InitStreamInvariant, NextStreamInvariant, PTL DEF Spec

\* The limits of the channels hold: one chunk to the writing thread, one report
\* back, PENDING_CHUNKS from the reading thread.
THEOREM TypeCorrect == Spec => []TypeOK
BY StreamInvariantHolds, PTL DEF StreamInvariant

-----------------------------------------------------------------------------
(* The streams *)

\* The bytes of a direction at one point of it and at a later one.
LEMMA FollowsIsPrefix ==
    ASSUME NEW s \in Seq(Nat), NEW t \in Seq(Nat), Follows(s, 0), Follows(t, 0), Len(s) <= Len(t)
    PROVE  In!Prefix(s, t) /\ Out!Prefix(s, t)
BY FollowsPrefix DEF In!Prefix, Out!Prefix

LEMMA InputBegins == Init => In!Init
<1> SUFFICES ASSUME Init PROVE In!Init
  OBVIOUS
<1>1. Bytes(offered) = <<>>
  BY BytesFollow, EmptySeq DEF Init
<1> QED BY <1>1 DEF Init, In!Init

LEMMA OutputBegins == Init => Out!Init
<1> SUFFICES ASSUME Init PROVE Out!Init
  OBVIOUS
<1>1. Bytes(said) = <<>>
  BY BytesFollow, EmptySeq DEF Init
<1> QED BY <1>1 DEF Init, Out!Init

\* A step of the program is a step of the stream of the input, or none of it.
LEMMA InputContinues ==
    StreamInvariant /\ StreamInvariant' /\ [Next]_vars => [In!Next]_(In!stream)
<1> SUFFICES ASSUME StreamInvariant, StreamInvariant', [Next]_vars PROVE [In!Next]_(In!stream)
  OBVIOUS
<1>1. InputStep /\ InputInStep /\ InputInStep'
  BY DEF StreamInvariant, InputStep, OutputInStep
<1>2. /\ offered \in Nat /\ offered' \in Nat /\ arrived \in Seq(Nat) /\ arrived' \in Seq(Nat)
      /\ heard \in Seq(Nat) /\ heard' \in Seq(Nat) /\ confirmed \in Nat
      /\ Len(arrived) \in Nat /\ Len(arrived') \in Nat /\ Len(heard) \in Nat /\ Len(heard') \in Nat
      /\ Len(hand) \in Nat /\ Len(hand') \in Nat /\ Len(input) \in Nat /\ Len(input') \in Nat
      /\ hand \in Seq(Nat)
  BY Lengths DEF StreamInvariant, TypeOK
<1>3. /\ Bytes(offered) \in Seq(Nat) /\ Len(Bytes(offered)) = offered /\ Follows(Bytes(offered), 0)
      /\ Bytes(offered') \in Seq(Nat) /\ Len(Bytes(offered')) = offered'
      /\ Follows(Bytes(offered'), 0)
  BY <1>2, BytesFollow
<1>4. /\ Follows(arrived, 0) /\ Follows(arrived', 0) /\ Follows(heard, 0) /\ Follows(heard', 0)
      /\ Len(arrived') <= offered' /\ Len(heard') <= Len(arrived')
      /\ confirmed' <= Len(arrived')
  BY SMTT(30), <1>1, <1>2 DEF InputInStep
<1>5. CASE Write
  <2>1. UNCHANGED <<arrived, confirmed, failed, heard>>
    BY <1>5 DEF Write
  <2>2. offered < offered'
    BY <1>2, <1>5 DEF Write
  <2>3. In!Prefix(Bytes(offered), Bytes(offered')) /\ Bytes(offered') # Bytes(offered)
    BY <1>2, <1>3, <2>2, FollowsIsPrefix
  <2> QED BY <2>1, <2>3 DEF In!Next, In!Offer
<1>6. CASE WriterPuts
  <2>1. UNCHANGED <<offered, confirmed, failed, heard>>
    BY <1>6 DEF WriterPuts
  <2>2. Len(arrived') = Len(arrived) + 1
    <3>1. hand # <<>> /\ arrived' = Append(arrived, Head(hand))
      BY <1>6 DEF WriterPuts
    <3>2. Head(hand) \in Nat
      BY <1>2, <3>1, HeadTailProperties
    <3> QED BY <1>2, <3>1, <3>2, AppendProperties
  <2>3. In!Prefix(arrived, arrived') /\ arrived' # arrived
    BY <1>2, <1>4, <2>2, FollowsIsPrefix
  <2>4. In!Prefix(arrived', Bytes(offered))
    BY <1>2, <1>3, <1>4, <2>1, FollowsIsPrefix
  <2> QED BY <2>1, <2>3, <2>4 DEF In!Next, In!Arrive
<1>7. CASE Refused \/ IntakeLimitPasses \/ Disconnected
  <2>1. UNCHANGED <<offered, arrived, confirmed, heard>> /\ failed' = TRUE
    BY <1>7 DEF Refused, IntakeLimitPasses, Disconnected, WriteFails
  <2>2. CASE failed
    <3>1. failed = TRUE
      BY <2>2 DEF StreamInvariant, TypeOK
    <3> QED BY <2>1, <3>1 DEF In!stream
  <2>3. CASE ~failed
    BY <2>1, <2>3 DEF In!Next, In!Break
  <2> QED BY <2>2, <2>3
<1>8. CASE Reported
  <2>1. UNCHANGED <<offered, arrived, heard>> /\ pc = "waiting" /\ written # <<>>
    BY <1>8 DEF Reported
  <2>2. ~failed /\ rest # <<>> /\ Follows(rest, confirmed)
    BY <2>1 DEF StreamInvariant, WritesInStep, CallInStep
  <2>3. CASE Head(written)
    <3>1. confirmed' = rest[Portion] /\ UNCHANGED failed
      BY <1>8, <2>3 DEF Reported, Portion
    <3>2. Portion \in 1..Len(rest) /\ Len(rest) \in Nat
      BY <1>1, <2>2, InputTypes, Sizes, LeastPart DEF Portion
    <3>3. confirmed' = confirmed + Portion
      BY <2>2, <3>1, <3>2 DEF Follows
    <3>4. confirmed' > confirmed /\ confirmed' <= Len(arrived)
      BY <1>2, <1>4, <2>1, <3>2, <3>3
    <3> QED BY <2>1, <2>2, <3>1, <3>4 DEF In!Next, In!Confirm
  <2>4. CASE ~Head(written)
    <3>1. failed' = TRUE /\ UNCHANGED confirmed
      BY <1>8, <2>4 DEF Reported, WriteFails
    <3> QED BY <2>1, <2>2, <3>1 DEF In!Next, In!Break
  <2> QED BY <2>3, <2>4
<1>9. CASE ServerReads
  <2>1. UNCHANGED <<offered, arrived, confirmed, failed>>
    BY <1>9 DEF ServerReads
  <2>2. Len(heard') = Len(heard) + 1
    <3>1. input # <<>> /\ heard' = Append(heard, Head(input)) /\ input \in Seq(Nat)
      BY <1>1, <1>9, InputTypes DEF ServerReads
    <3>2. Head(input) \in Nat
      BY <3>1, HeadTailProperties
    <3> QED BY <1>2, <3>1, <3>2, AppendProperties
  <2>3. In!Prefix(heard, heard') /\ heard' # heard
    BY <1>2, <1>4, <2>2, FollowsIsPrefix
  <2>4. In!Prefix(heard', arrived)
    BY <1>2, <1>4, <2>1, FollowsIsPrefix
  <2> QED BY <2>1, <2>3, <2>4 DEF In!Next, In!Take
<1>10. CASE Read \/ ReadPending \/ Drop \/ HandOver \/ ReadChunkTaken \/ ReadBroken
            \/ SilenceLimitPasses \/ ReadEnd
  <2>1. UNCHANGED inputHistory
    BY <1>10 DEF Read, ReadPending, Drop, HandOver, ReadChunkTaken, ReadBroken, SilenceLimitPasses,
       ReadEnd
  <2> QED BY <2>1 DEF inputHistory, In!stream
<1>11. CASE WriterReceives \/ WriterBreaks \/ WriterReports \/ WriterLeaves \/ ReaderSteps
            \/ ReaderBreaks \/ UNCHANGED vars
  <2>1. UNCHANGED inputHistory
    BY <1>11 DEF WriterReceives, WriterBreaks, WriterReports, WriterLeaves, ReaderSteps,
       ReaderReads, ReaderEnds, ReaderSends, ReaderLeaves, ReaderBreaks, vars
  <2> QED BY <2>1 DEF inputHistory, In!stream
<1>12. CASE ServerPrints \/ ServerForks \/ ServerExits \/ HolderExits
  <2>1. UNCHANGED inputHistory
    BY <1>12 DEF ServerPrints, ServerForks, ServerExits, HolderExits
  <2> QED BY <2>1 DEF inputHistory, In!stream
<1> QED
  BY <1>5, <1>6, <1>7, <1>8, <1>9, <1>10, <1>11, <1>12 DEF Next, ClientSteps, WriterSteps, World

\* When the client is told of the end it has got all that was read.
LEMMA ToldAfterAll ==
    TypeOK /\ OutputInStep /\ ~dropped /\ over # "no" => Len(taken) = Len(drawn)
<1> SUFFICES ASSUME TypeOK, OutputInStep, ~dropped, over # "no" PROVE Len(taken) = Len(drawn)
  OBVIOUS
<1>1. pending = <<>> /\ drained = <<>> /\ held = <<>> /\ DrainedInStep
  BY DEF OutputInStep
<1>2. Len(<<>>) = 0
  BY EmptySeq
<1>3. ~HasBroken /\ DrainedBefore(1) = Len(taken) + 0 /\ Len(drained) + 1 = 1
  BY <1>1, <1>2 DEF HasBroken, DrainedBefore
<1> QED BY <1>1, <1>2, <1>3, OutputTypes DEF DrainedInStep

\* A step of the program is a step of the stream of the output, or none of it.
LEMMA OutputContinues ==
    StreamInvariant /\ StreamInvariant' /\ [Next]_vars => [Out!Next]_(Out!stream)
<1> SUFFICES ASSUME StreamInvariant, StreamInvariant', [Next]_vars PROVE [Out!Next]_(Out!stream)
  OBVIOUS
<1>1. OutputStep /\ OutputInStep /\ OutputInStep'
  BY DEF StreamInvariant, OutputStep
<1>2. /\ said \in Nat /\ said' \in Nat /\ drawn \in Seq(Nat) /\ drawn' \in Seq(Nat)
      /\ taken \in Seq(Nat) /\ taken' \in Seq(Nat) /\ pending \in Seq(Nat)
      /\ Len(drawn) \in Nat /\ Len(drawn') \in Nat /\ Len(taken) \in Nat /\ Len(taken') \in Nat
      /\ Len(pending) \in Nat /\ Len(pending') \in Nat /\ Len(output') \in Nat
  BY Lengths DEF StreamInvariant, TypeOK
<1>3. /\ Bytes(said) \in Seq(Nat) /\ Len(Bytes(said)) = said /\ Follows(Bytes(said), 0)
      /\ Bytes(said') \in Seq(Nat) /\ Len(Bytes(said')) = said' /\ Follows(Bytes(said'), 0)
  BY <1>2, BytesFollow
<1>4. /\ Follows(drawn, 0) /\ Follows(drawn', 0) /\ Follows(taken, 0) /\ Follows(taken', 0)
      /\ Len(drawn') <= said' /\ Len(taken') <= Len(drawn')
  <2>1. /\ Follows(drawn, 0) /\ Follows(drawn', 0) /\ Follows(taken, 0) /\ Follows(taken', 0)
        /\ Len(drawn') + Len(output') = said' /\ Len(taken') + Len(pending') <= Len(drawn')
    BY <1>1 DEF OutputInStep
  <2> QED BY <1>2, <2>1
<1>5. CASE ServerPrints
  <2>1. UNCHANGED <<drawn, taken, over>> /\ said' = said + 1 /\ Open
    BY <1>5 DEF ServerPrints
  <2>2. over # "ended"
    BY <1>1, <2>1 DEF OutputInStep
  <2>3. Out!Prefix(Bytes(said), Bytes(said')) /\ Bytes(said') # Bytes(said)
    BY <1>2, <1>3, <2>1, FollowsIsPrefix
  <2> QED BY <2>1, <2>2, <2>3 DEF Out!Next, Out!Offer
<1>6. CASE ReaderReads
  <2>1. UNCHANGED <<said, taken, over>>
    BY <1>6 DEF ReaderReads
  <2>2. Len(drawn') > Len(drawn)
    <3>1. PICK n \in 1..Least(ReadChunk, Len(output)) :
            held' = SubSeq(output, 1, n) /\ drawn' = drawn \o held'
      BY <1>6 DEF ReaderReads
    <3>2. n \in 0..Len(output) /\ output \in Seq(Nat) /\ n \in Nat /\ n > 0
      BY <1>1, OutputTypes, Sizes DEF Least, OutputStep
    <3>3. held' \in Seq(Nat) /\ Len(held') = n
      BY <3>1, <3>2, PartTypes
    <3>4. Len(drawn') = Len(drawn) + n
      BY <1>2, <3>1, <3>3, JoinTypes
    <3> QED BY <1>2, <3>2, <3>4
  <2>3. Out!Prefix(drawn, drawn') /\ drawn' # drawn
    BY <1>2, <1>4, <2>2, FollowsIsPrefix
  <2>4. Out!Prefix(drawn', Bytes(said))
    BY <1>2, <1>3, <1>4, <2>1, FollowsIsPrefix
  <2> QED BY <2>1, <2>3, <2>4 DEF Out!Next, Out!Arrive
<1>7. ASSUME UNCHANGED <<said, drawn, over>>, over = "no", Len(taken') > Len(taken)
      PROVE  Out!Next
  <2>1. Out!Prefix(taken, taken') /\ taken' # taken
    BY <1>2, <1>4, <1>7, FollowsIsPrefix
  <2>2. Out!Prefix(taken', drawn)
    BY <1>2, <1>4, <1>7, FollowsIsPrefix
  <2> QED BY <1>7, <2>1, <2>2 DEF Out!Next, Out!Take
<1>8. CASE ReadPending
  <2>1. PICK n \in 1..Len(pending) : taken' = taken \o SubSeq(pending, 1, n)
    BY <1>8 DEF ReadPending
  <2>2. n \in 0..Len(pending) /\ n \in Nat /\ n > 0
    BY <1>2
  <2>3. SubSeq(pending, 1, n) \in Seq(Nat) /\ Len(SubSeq(pending, 1, n)) = n
    BY <1>2, <2>2, PartTypes
  <2>4. Len(taken') = Len(taken) + n
    BY <1>2, <2>1, <2>3, JoinTypes
  <2>5. Len(taken') > Len(taken)
    BY <1>2, <2>2, <2>4
  <2>6. UNCHANGED <<said, drawn, over>> /\ over = "no"
    BY <1>1, <1>8 DEF ReadPending, OutputInStep
  <2> QED BY <1>7, <2>5, <2>6
<1>9. CASE ReadChunkTaken
  <2>1. PICK n \in 1..Len(Head(drained)) : taken' = taken \o SubSeq(Head(drained), 1, n)
    BY <1>9 DEF ReadChunkTaken
  <2>2. Head(drained) \in Seq(Nat)
    <3>1. drained \in Seq(Seq(Nat)) /\ drained # <<>>
      BY <1>1, <1>9, OutputTypes DEF ReadChunkTaken, OutputStep
    <3> QED BY <3>1, HeadTailProperties
  <2>3. n \in 0..Len(Head(drained)) /\ n \in Nat /\ n > 0
    BY <2>2, Lengths
  <2>4. SubSeq(Head(drained), 1, n) \in Seq(Nat) /\ Len(SubSeq(Head(drained), 1, n)) = n
    BY <2>2, <2>3, PartTypes
  <2>5. Len(taken') = Len(taken) + n
    BY <1>2, <2>1, <2>4, JoinTypes
  <2>6. Len(taken') > Len(taken)
    BY <1>2, <2>3, <2>5
  <2>7. UNCHANGED <<said, drawn, over>> /\ over = "no"
    BY <1>1, <1>9 DEF ReadChunkTaken, OutputInStep
  <2> QED BY <1>7, <2>6, <2>7
<1>10. ASSUME ~dropped', over' # "no", UNCHANGED <<taken, drawn>> PROVE taken = drawn
  <2>1. Len(taken') = Len(drawn')
    <3>1. (TypeOK /\ OutputInStep /\ ~dropped /\ over # "no" => Len(taken) = Len(drawn))'
      BY ToldAfterAll, PTL
    <3>2. TypeOK' /\ OutputInStep'
      BY <1>1 DEF OutputStep
    <3> QED BY <1>10, <3>1, <3>2
  <2> QED BY <1>2, <1>4, <1>10, <2>1, FollowsEqual
<1>11. CASE ReadBroken
  <2>1. /\ UNCHANGED <<said, drawn, taken, dropped>> /\ pc = "reading" /\ drained # <<>>
        /\ over' = IF over = "no" THEN "failed" ELSE over
    BY <1>11 DEF ReadBroken, ReadReturns
  <2>2. over = "no" /\ ~dropped
    BY <1>1, <2>1 DEF OutputInStep
  <2>3. taken = drawn
    BY <1>10, <2>1, <2>2
  <2> QED BY <2>1, <2>2, <2>3 DEF Out!Next, Out!Fail
<1>12. CASE ReadEnd
  <2>1. /\ UNCHANGED <<said, drawn, taken, dropped>> /\ pc = "reading"
        /\ over' = IF over = "no" THEN "ended" ELSE over
    BY <1>12 DEF ReadEnd, ReadReturns
  <2>2. CASE over = "no"
    <3>1. ~dropped /\ over' = "ended"
      BY <1>1, <2>1, <2>2 DEF OutputInStep
    <3>2. taken = drawn
      BY <1>10, <2>1, <3>1
    <3>3. Len(drawn') + Len(output') = said' /\ output' = <<>>
      BY <1>1, <3>1 DEF OutputInStep
    <3>4. Len(drawn) = said
      <4>1. Len(output') = 0
        BY <3>3, EmptySeq
      <4> QED BY <1>2, <2>1, <3>3, <4>1
    <3>5. taken = Bytes(said)
      BY <1>2, <1>3, <1>4, <3>2, <3>4, FollowsEqual
    <3> QED BY <2>1, <2>2, <3>1, <3>5 DEF Out!Next, Out!End
  <2>3. CASE over # "no"
    BY <2>1, <2>3 DEF Out!stream
  <2> QED BY <2>2, <2>3
<1>13. CASE Write \/ Read \/ Drop \/ HandOver \/ Refused \/ Reported \/ IntakeLimitPasses
            \/ Disconnected \/ SilenceLimitPasses
  <2>1. UNCHANGED outputHistory
    BY <1>13 DEF Write, Read, Drop, HandOver, Refused, Reported, IntakeLimitPasses, Disconnected,
       SilenceLimitPasses
  <2> QED BY <2>1 DEF outputHistory, Out!stream
<1>14. CASE WriterSteps \/ ReaderEnds \/ ReaderSends \/ ReaderLeaves \/ ReaderBreaks
            \/ UNCHANGED vars
  <2>1. UNCHANGED outputHistory
    BY <1>14 DEF WriterSteps, WriterReceives, WriterPuts, WriterBreaks, WriterReports, WriterLeaves,
       ReaderEnds, ReaderSends, ReaderLeaves, ReaderBreaks, vars
  <2> QED BY <2>1 DEF outputHistory, Out!stream
<1>15. CASE ServerReads \/ ServerForks \/ ServerExits \/ HolderExits
  <2>1. UNCHANGED outputHistory
    BY <1>15 DEF ServerReads, ServerForks, ServerExits, HolderExits
  <2> QED BY <2>1 DEF outputHistory, Out!stream
<1> QED
  BY <1>5, <1>6, <1>8, <1>9, <1>11, <1>12, <1>13, <1>14, <1>15
  DEF Next, ClientSteps, ReaderSteps, World

\* The two threads, the three channels and the two pipes are a plain stream of
\* bytes in each direction: the docs of IntakeLimitedWriter and of
\* SilenceLimitedReader.
THEOREM ThreadsImplementStreams == Spec => BothAreStreams
<1>1. Spec => In!Spec
  BY InputBegins, InputContinues, StreamInvariantHolds, PTL DEF Spec, In!Spec
<1>2. Spec => Out!Spec
  BY OutputBegins, OutputContinues, StreamInvariantHolds, PTL DEF Spec, Out!Spec
<1> QED BY <1>1, <1>2 DEF BothAreStreams
=============================================================================
