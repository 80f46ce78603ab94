---------------------------- MODULE CommandProofs ----------------------------
(* Of module Commands, for every source, server and configuration: what     *)
(* compare reports as its error is what failed first, what it asks a server *)
(* about is in the text that the server was shown, the order in which       *)
(* dryguard.toml declares the domains does not matter, and the report tells *)
(* in either format all that the verdict depends on.                        *)
(*                                                                          *)
(* AskingInvariant and ShownInvariant (module Comparison) say how far the   *)
(* answers, the failure noted first and the files that were shown have come *)
(* at each stage; both are preserved because every step moves the stage on  *)
(* by one turn of Course. DomainsInStep (module Commands) says that no pair *)
(* whose files have two domains gets as far as the server. The report needs *)
(* no invariant: it is a function of what was measured (module Reports).    *)
EXTENDS Commands, WellFoundedInduction, FiniteSetTheorems, TLAPS

-----------------------------------------------------------------------------
(* The turns of a session: all different, none of them the report.          *)
LEMMA CourseIsLinear ==
  /\ DOMAIN Course = 1..11
  /\ \A i, j \in 1..11 : Course[i] = Course[j] => i = j
  /\ \A i \in 1..11 : Course[i] # Turn("report")
<1>1. DOMAIN Course = 1..11
  BY DEF Course
<1>2. \A i, j \in 1..11 : Course[i] = Course[j] => i = j
  BY DEF Course, Turn
<1>3. \A i \in 1..11 : Course[i] # Turn("report")
  BY DEF Course, Turn
<1> QED BY <1>1, <1>2, <1>3

LEMMA FollowingIsNext == \A i \in 1..10 : Following(Course[i]) = Course[i + 1]
<1> SUFFICES ASSUME NEW i \in 1..10 PROVE Following(Course[i]) = Course[i + 1]
  OBVIOUS
<1> DEFINE place == CHOOSE j \in DOMAIN Course : Course[j] = Course[i]
<1>1. i \in DOMAIN Course
  BY CourseIsLinear
<1>2. place \in DOMAIN Course /\ Course[place] = Course[i]
  BY <1>1
<1>3. place = i
  BY <1>2, CourseIsLinear
<1>4. Following(Course[i]) = Course[1 + place]
  BY DEF Following
<1> HIDE DEF place
<1> QED BY <1>3, <1>4

QuestionNames == {"types", "membership", "callers", "callees"}

LEMMA QuestionsNamed == ToSet(Questions) = QuestionNames
  BY DEF ToSet, Questions, QuestionNames

(* Each question about each side has its turn.                              *)
LEMMA TurnsOfQuestions ==
  /\ \A q \in QuestionNames, s \in Sides : \E i \in Asking : Course[i] = <<q, s>>
  /\ \A i \in Asking : /\ Course[i] = <<Course[i][1], Course[i][2]>>
                       /\ Course[i][1] \in QuestionNames /\ Course[i][2] \in Sides
<1>1. /\ Course[3] = <<"types", "a">> /\ Course[4] = <<"types", "b">>
      /\ Course[5] = <<"membership", "a">> /\ Course[6] = <<"membership", "b">>
      /\ Course[7] = <<"callers", "a">> /\ Course[8] = <<"callers", "b">>
      /\ Course[9] = <<"callees", "a">> /\ Course[10] = <<"callees", "b">>
  BY DEF Course
<1>2. Asking = {3, 4, 5, 6, 7, 8, 9, 10}
  BY DEF Asking
<1>3. ASSUME NEW q \in QuestionNames, NEW s \in Sides PROVE \E i \in Asking : Course[i] = <<q, s>>
  BY <1>1, <1>2 DEF QuestionNames, Sides
<1>4. ASSUME NEW i \in Asking
      PROVE  /\ Course[i] = <<Course[i][1], Course[i][2]>>
             /\ Course[i][1] \in QuestionNames /\ Course[i][2] \in Sides
  BY <1>1, <1>2 DEF QuestionNames, Sides
<1> QED BY <1>3, <1>4
-----------------------------------------------------------------------------
(* The invariant about the answers: what a step that asks nothing leaves.   *)
LEMMA NothingAsked ==
  ASSUME UNCHANGED <<asked, failedFirst>>, AskingInvariant
  PROVE  /\ IsAsked(asked)' /\ (\A s \in Sides : asked.membership[s].kind \in MembershipKinds)'
         /\ FirstOfTheFailures'
         /\ \A i \in Asking : AnswerAt(i)' = AnswerAt(i)
<1>1. IsAsked(asked)' /\ (\A s \in Sides : asked.membership[s].kind \in MembershipKinds)'
  BY DEF AskingInvariant, IsAsked
<1>2. FirstOfTheFailures'
  BY DEF AskingInvariant, FirstOfTheFailures, FailureAt, AnswerAt
<1>3. \A i \in Asking : AnswerAt(i)' = AnswerAt(i)
  BY DEF AnswerAt
<1> QED BY <1>1, <1>2, <1>3

LEMMA AskedFacts ==
  ASSUME IsAsked(asked)
  PROVE  /\ DOMAIN asked = QuestionNames
         /\ \A q \in QuestionNames : DOMAIN asked[q] = Sides
  BY QuestionsNamed DEF IsAsked

(* Nothing was asked for before the first question.                         *)
LEMMA NothingAskedEarly ==
  ASSUME AskingInvariant, \A i \in Asking : stage \notin Beyond(i)
  PROVE  asked = Unasked /\ failedFirst = NoError
<1>1. \A i \in Asking : AnswerAt(i) = [kind |-> "Unasked"]
  BY DEF AskingInvariant, NothingIsAnticipated
<1>2. \A q \in QuestionNames, s \in Sides : asked[q][s] = [kind |-> "Unasked"]
  <2> SUFFICES ASSUME NEW q \in QuestionNames, NEW s \in Sides
               PROVE  asked[q][s] = [kind |-> "Unasked"]
    OBVIOUS
  <2>1. PICK i \in Asking : Course[i] = <<q, s>>
    BY TurnsOfQuestions
  <2> QED BY <1>1, <2>1 DEF AnswerAt
<1>3. asked = Unasked
  <2>1. asked = [q \in QuestionNames |-> [s \in Sides |-> asked[q][s]]]
    BY QuestionsNamed DEF AskingInvariant, IsAsked
  <2>2. \A q \in QuestionNames : [s \in Sides |-> asked[q][s]] = [s \in Sides |-> [kind |-> "Unasked"]]
    BY <1>2
  <2> QED BY <2>1, <2>2, QuestionsNamed DEF Unasked
<1>4. \A i \in Asking : ~FailureAt(i)
  BY <1>1 DEF FailureAt, IsFailure
<1>5. failedFirst = NoError
  BY <1>4 DEF AskingInvariant, FirstOfTheFailures
<1> QED BY <1>3, <1>5

(* A step before the questions keeps the invariant if it leads to another   *)
(* stage before them, or to the end with a setup that failed.               *)
LEMMA EarlyStep ==
  ASSUME AskingInvariant, UNCHANGED <<asked, failedFirst>>,
         \A i \in Asking : stage \notin Beyond(i),
         \/ setup' = "none" /\ \A i \in Asking : stage' \notin Beyond(i)
         \/ setup' # "none" /\ stage' \in {Turn("shutdown"), Turn("report")}
  PROVE  AskingInvariant'
<1>1. asked = Unasked /\ failedFirst = NoError
  BY NothingAskedEarly
<1>2. /\ IsAsked(asked)' /\ (\A s \in Sides : asked.membership[s].kind \in MembershipKinds)'
      /\ FirstOfTheFailures'
  BY NothingAsked
<1>3. NothingIsAnticipated'
  <2>1. \A i \in Asking : AnswerAt(i)' = AnswerAt(i)
    BY NothingAsked
  <2> QED BY <2>1 DEF AskingInvariant, NothingIsAnticipated
<1>4. CallersStandForMembership'
  BY DEF CallersStandForMembership, Asking
<1>5. SetupComesLast'
  BY <1>1 DEF SetupComesLast
<1> QED BY <1>2, <1>3, <1>4, <1>5 DEF AskingInvariant
-----------------------------------------------------------------------------
(* An answer is put down at its turn.                                       *)
LEMMA NoteTakesItsTurn ==
  ASSUME AskingInvariant, NEW i \in Asking, NEW answer, stage = Course[i],
         Note(Course[i][1], Course[i][2], answer)
  PROVE  /\ stage' = Course[i + 1] /\ setup' = "none" /\ setup = "none"
         /\ AnswerAt(i)' = answer
         /\ \A j \in Asking \ {i} : AnswerAt(j)' = AnswerAt(j)
         /\ IsAsked(asked)'
         /\ \A q \in QuestionNames, s \in Sides :
              asked'[q][s] = IF Course[i] = <<q, s>> THEN answer ELSE asked[q][s]
<1> DEFINE q == Course[i][1]
           s == Course[i][2]
<1>1. q \in QuestionNames /\ s \in Sides
  BY TurnsOfQuestions
<1>2. stage' = Course[i + 1]
  BY FollowingIsNext DEF Note, Asking
<1>3. stage \notin {Turn("shutdown"), Turn("report")}
  BY <1>1 DEF Turn, QuestionNames
<1>4. setup' = "none" /\ setup = "none"
  BY <1>3 DEF AskingInvariant, SetupComesLast, Note
<1>5. DOMAIN asked = QuestionNames /\ \A r \in QuestionNames : DOMAIN asked[r] = Sides
  BY AskedFacts DEF AskingInvariant
<1>6. asked' = [asked EXCEPT ![q][s] = answer]
  BY DEF Note
<1> HIDE DEF q, s
<1>7. \A r \in QuestionNames, t \in Sides :
        asked'[r][t] = IF r = q /\ t = s THEN answer ELSE asked[r][t]
  BY <1>1, <1>5, <1>6
<1>8. IsAsked(asked)'
  <2>1. asked' = [r \in QuestionNames |-> [t \in Sides |-> asked'[r][t]]]
    <3>1. asked = [r \in QuestionNames |-> [t \in Sides |-> asked[r][t]]]
      BY QuestionsNamed DEF AskingInvariant, IsAsked
    <3>2. asked' = [r \in QuestionNames |-> IF r = q THEN [asked[r] EXCEPT ![s] = answer] ELSE asked[r]]
      BY <1>1, <1>5, <1>6, <3>1
    <3>3. \A r \in QuestionNames : asked'[r] = [t \in Sides |-> asked'[r][t]]
      BY <1>1, <3>1, <3>2
    <3> QED BY <3>2, <3>3
  <2> QED BY <2>1, QuestionsNamed DEF IsAsked
<1>9. \A r \in QuestionNames, t \in Sides : (Course[i] = <<r, t>>) <=> (r = q /\ t = s)
  BY TurnsOfQuestions DEF q, s
<1>10. AnswerAt(i)' = answer
  BY <1>1, <1>7 DEF AnswerAt, q, s
<1>11. \A j \in Asking \ {i} : AnswerAt(j)' = AnswerAt(j)
  <2> SUFFICES ASSUME NEW j \in Asking \ {i} PROVE AnswerAt(j)' = AnswerAt(j)
    OBVIOUS
  <2>1. Course[j] # Course[i]
    BY CourseIsLinear DEF Asking
  <2>2. /\ Course[j][1] \in QuestionNames /\ Course[j][2] \in Sides
        /\ Course[j] = <<Course[j][1], Course[j][2]>>
    BY TurnsOfQuestions
  <2>3. ~(Course[j][1] = q /\ Course[j][2] = s)
    BY <1>9, <2>1, <2>2
  <2>4. asked'[Course[j][1]][Course[j][2]] = asked[Course[j][1]][Course[j][2]]
    BY <1>7, <2>2, <2>3
  <2> QED BY <2>4 DEF AnswerAt
<1> QED BY <1>2, <1>4, <1>7, <1>8, <1>9, <1>10, <1>11

(* What is still to come is what lies ahead of the turn.                    *)
LEMMA StillToCome ==
  ASSUME AskingInvariant, NEW i \in Asking, stage = Course[i]
  PROVE  \A j \in Asking : j >= i => AnswerAt(j) = [kind |-> "Unasked"] /\ ~FailureAt(j)
<1> SUFFICES ASSUME NEW j \in Asking, j >= i
             PROVE  AnswerAt(j) = [kind |-> "Unasked"] /\ ~FailureAt(j)
  OBVIOUS
<1>1. stage \notin Beyond(j)
  BY CourseIsLinear DEF Beyond, Asking
<1>2. AnswerAt(j) = [kind |-> "Unasked"]
  BY <1>1 DEF AskingInvariant, NothingIsAnticipated
<1> QED BY <1>2 DEF FailureAt, IsFailure

LEMMA NoteAnticipatesNothing ==
  ASSUME AskingInvariant, NEW i \in Asking, NEW answer, stage = Course[i],
         Note(Course[i][1], Course[i][2], answer)
  PROVE  NothingIsAnticipated'
<1> SUFFICES ASSUME NEW j \in Asking, stage' \notin Beyond(j)
             PROVE  AnswerAt(j)' = [kind |-> "Unasked"]
  BY DEF NothingIsAnticipated, Beyond
<1>1. stage' = Course[i + 1] /\ \A k \in Asking \ {i} : AnswerAt(k)' = AnswerAt(k)
  BY NoteTakesItsTurn
<1>2. ~(i + 1 \in (j + 1)..11)
  BY <1>1 DEF Beyond
<1>3. j > i
  BY <1>2 DEF Asking
<1>4. AnswerAt(j) = [kind |-> "Unasked"]
  BY <1>3, StillToCome DEF Asking
<1> QED BY <1>1, <1>3, <1>4 DEF Asking

LEMMA NoteKeepsTheFirst ==
  ASSUME AskingInvariant, NEW i \in Asking, NEW answer, stage = Course[i],
         Note(Course[i][1], Course[i][2], answer)
  PROVE  FirstOfTheFailures'
<1>1. AnswerAt(i)' = answer /\ \A k \in Asking \ {i} : AnswerAt(k)' = AnswerAt(k)
  BY NoteTakesItsTurn
<1>2. \A k \in Asking \ {i} : FailureAt(k)' <=> FailureAt(k)
  BY <1>1 DEF FailureAt, IsFailure
<1>3. FailureAt(i)' <=> IsFailure(Course[i][1], answer)
  BY <1>1 DEF FailureAt, IsFailure
<1>4. \A j \in Asking : j >= i => ~FailureAt(j)
  BY StillToCome
<1>5. Course[i] = <<Course[i][1], Course[i][2]>>
  BY TurnsOfQuestions
<1>6. \A k \in Asking : Course[k] # NoError
  BY TurnsOfQuestions DEF NoError, QuestionNames
<1>7. failedFirst' = IF failedFirst = NoError /\ IsFailure(Course[i][1], answer)
                     THEN Course[i] ELSE failedFirst
  BY <1>5 DEF Note
<1>8. CASE failedFirst = NoError
  <2>1. \A k \in Asking : ~FailureAt(k)
    BY <1>6, <1>8 DEF AskingInvariant, FirstOfTheFailures
  <2>2. CASE IsFailure(Course[i][1], answer)
    <3>1. failedFirst' = Course[i] /\ FailureAt(i)'
      BY <1>3, <1>7, <1>8, <2>2
    <3>2. \A k \in 3..(i - 1) : ~FailureAt(k)'
      BY <1>2, <2>1 DEF Asking
    <3> QED BY <3>1, <3>2 DEF FirstOfTheFailures
  <2>3. CASE ~IsFailure(Course[i][1], answer)
    <3>1. failedFirst' = NoError
      BY <1>7, <1>8, <2>3
    <3>2. \A k \in Asking : ~FailureAt(k)'
      BY <1>2, <1>3, <2>1, <2>3
    <3> QED BY <3>1, <3>2 DEF FirstOfTheFailures
  <2> QED BY <2>2, <2>3
<1>9. CASE failedFirst # NoError
  <2>1. PICK k \in Asking : /\ failedFirst = Course[k] /\ FailureAt(k)
                            /\ \A j \in 3..(k - 1) : ~FailureAt(j)
    BY <1>9 DEF AskingInvariant, FirstOfTheFailures
  <2>2. k < i
    BY <1>4, <2>1 DEF Asking
  <2>3. FailureAt(k)' /\ \A j \in 3..(k - 1) : ~FailureAt(j)'
    BY <1>2, <2>1, <2>2 DEF Asking
  <2>4. failedFirst' = Course[k]
    BY <1>7, <1>9, <2>1
  <2> QED BY <2>3, <2>4 DEF FirstOfTheFailures
<1> QED BY <1>8, <1>9

(* Of what is kept of the callers, only their own turn makes something new. *)
LEMMA NoteKeepsMemberships ==
  ASSUME AskingInvariant, NEW i \in Asking, NEW answer, stage = Course[i],
         Note(Course[i][1], Course[i][2], answer),
         Course[i][1] = "membership" => answer.kind \in MembershipKinds,
         Course[i][1] = "callers" =>
           LET membership == asked.membership[Course[i][2]]
           IN  IF membership.kind = "Askable" THEN answer.kind # "Unreachable"
               ELSE answer = membership
  PROVE  AskingInvariant'
<1>1. /\ stage' = Course[i + 1] /\ setup' = "none" /\ setup = "none"
      /\ IsAsked(asked)'
      /\ \A q \in QuestionNames, s \in Sides :
           asked'[q][s] = IF Course[i] = <<q, s>> THEN answer ELSE asked[q][s]
  BY NoteTakesItsTurn
<1>2. NothingIsAnticipated' /\ FirstOfTheFailures'
  BY NoteAnticipatesNothing, NoteKeepsTheFirst
<1>3. (\A s \in Sides : asked.membership[s].kind \in MembershipKinds)'
  <2> SUFFICES ASSUME NEW s \in Sides PROVE asked'["membership"][s].kind \in MembershipKinds
    OBVIOUS
  <2>1. asked["membership"][s].kind \in MembershipKinds
    BY DEF AskingInvariant
  <2>2. asked'["membership"][s] = IF Course[i] = <<"membership", s>> THEN answer
                                  ELSE asked["membership"][s]
    BY <1>1 DEF QuestionNames
  <2> QED BY <2>1, <2>2
<1>4. SetupComesLast'
  BY <1>1 DEF SetupComesLast
<1>5. CallersStandForMembership'
  <2> SUFFICES ASSUME NEW s \in Sides, stage' \in Beyond(IF s = "a" THEN 7 ELSE 8)
               PROVE  IF asked'["membership"][s].kind = "Askable"
                      THEN asked'["callers"][s].kind # "Unreachable"
                      ELSE /\ asked'["callers"][s] = asked'["membership"][s]
                           /\ asked'["membership"][s].kind # "Failed"
    BY DEF CallersStandForMembership, Beyond
  <2> DEFINE k == IF s = "a" THEN 7 ELSE 8
  <2>1. k \in {7, 8} /\ Course[k] = <<"callers", s>>
    BY DEF Course, Sides
  <2>2. i >= k
    <3>1. stage' # Turn("report")
      BY <1>1, CourseIsLinear DEF Asking
    <3>2. PICK j \in (k + 1)..11 : stage' = Course[j]
      BY <3>1 DEF Beyond
    <3> HIDE DEF k
    <3>3. j \in 1..11 /\ i + 1 \in 1..11
      BY <2>1, <3>2 DEF Asking
    <3>4. j = i + 1
      BY <1>1, <3>2, <3>3, CourseIsLinear
    <3> QED BY <2>1, <3>2, <3>4 DEF Asking
  <2>3. Course[i] # <<"membership", s>>
    <3>1. \A j \in {7, 8, 9, 10} : Course[j][1] # "membership"
      BY DEF Course
    <3>2. i \in {7, 8, 9, 10}
      BY <2>1, <2>2 DEF Asking
    <3> QED BY <3>1, <3>2
  <2>4. asked'["membership"][s] = asked["membership"][s]
    BY <1>1, <2>3 DEF QuestionNames
  <2>5. asked["membership"][s].kind \in MembershipKinds
    BY DEF AskingInvariant
  <2>6. CASE i = k
    <3>1. Course[i] = <<"callers", s>> /\ Course[i][1] = "callers" /\ Course[i][2] = s
      BY <2>1, <2>6
    <3>2. asked'["callers"][s] = answer
      BY <1>1, <3>1 DEF QuestionNames
    <3> QED BY <2>4, <2>5, <3>1, <3>2 DEF MembershipKinds
  <2>7. CASE i # k
    <3>1. Course[i] # <<"callers", s>>
      BY <2>1, <2>7, CourseIsLinear DEF Asking
    <3>2. asked'["callers"][s] = asked["callers"][s]
      BY <1>1, <3>1 DEF QuestionNames
    <3>3. stage \in Beyond(k)
      <4>1. i \in (k + 1)..11
        BY <2>1, <2>2, <2>7 DEF Asking
      <4> QED BY <4>1 DEF Beyond
    <3>4. IF asked["membership"][s].kind = "Askable" THEN asked["callers"][s].kind # "Unreachable"
          ELSE /\ asked["callers"][s] = asked["membership"][s]
               /\ asked["membership"][s].kind # "Failed"
      BY <1>1, <3>3 DEF AskingInvariant, CallersStandForMembership
    <3> QED BY <2>4, <3>2, <3>4
  <2> QED BY <2>6, <2>7
<1> QED BY <1>1, <1>2, <1>3, <1>4, <1>5 DEF AskingInvariant
(* What is known of a membership, asked for or not.                         *)
LEMMA MembershipIsOfAKind ==
  /\ \A peer, chunk : KnownMembership(peer, chunk) \subseteq MembershipKinds
  /\ \A exchange : Membership[MembershipReply(exchange).kind] \in MembershipKinds
<1>1. ASSUME NEW peer, NEW chunk PROVE KnownMembership(peer, chunk) \subseteq MembershipKinds
  BY DEF KnownMembership, MembershipKinds
<1>2. ASSUME NEW exchange PROVE MembershipReply(exchange).kind \in DOMAIN Membership
  BY DEF MembershipReply, MembershipOf, Membership, Without, Because, Failed
<1>3. \A kind \in DOMAIN Membership : Membership[kind] \in MembershipKinds
  BY DEF Membership, MembershipKinds
<1> QED BY <1>1, <1>2, <1>3

LEMMA SaidIsReachable == \A reply : Said(reply).kind # "Unreachable"
  BY DEF Said, Failed

(* The turns by their names.                                                *)
LEMMA TurnOf ==
  ASSUME NEW q \in QuestionNames, NEW s \in Sides, stage = <<q, s>>
  PROVE  \E i \in Asking : stage = Course[i] /\ Course[i] = <<q, s>>
                           /\ Course[i][1] = q /\ Course[i][2] = s
  BY TurnsOfQuestions

LEMMA AskTypesKeepsAsking ==
  ASSUME AskingInvariant, NEW peer, NEW s \in Sides, AskTypes(peer, s)
  PROVE  AskingInvariant'
<1>1. PICK i \in Asking : stage = Course[i] /\ Course[i] = <<"types", s>>
                          /\ Course[i][1] = "types" /\ Course[i][2] = s
  BY TurnOf DEF AskTypes, QuestionNames
<1>2. PICK answer : Note("types", s, answer)
  BY DEF AskTypes
<1> QED BY <1>1, <1>2, NoteKeepsMemberships

LEMMA AskMembershipKeepsAsking ==
  ASSUME AskingInvariant, NEW peer, NEW s \in Sides, AskMembership(peer, s)
  PROVE  AskingInvariant'
<1>1. PICK i \in Asking : stage = Course[i] /\ Course[i] = <<"membership", s>>
                          /\ Course[i][1] = "membership" /\ Course[i][2] = s
  BY TurnOf DEF AskMembership, QuestionNames
<1>2. PICK answer : Note("membership", s, answer) /\ answer.kind \in MembershipKinds
  <2>1. CASE \E m \in KnownMembership(peer, pair[s]) : Note("membership", s, [kind |-> m])
    BY <2>1, MembershipIsOfAKind
  <2>2. CASE \E exchange \in peer.members :
               Note("membership", s, [kind |-> Membership[MembershipReply(exchange).kind]])
    BY <2>2, MembershipIsOfAKind
  <2> QED BY <2>1, <2>2 DEF AskMembership
<1> QED BY <1>1, <1>2, NoteKeepsMemberships

LEMMA AskCallersKeepsAsking ==
  ASSUME AskingInvariant, NEW peer, NEW s \in Sides, AskCallers(peer, s)
  PROVE  AskingInvariant'
<1>1. PICK i \in Asking : stage = Course[i] /\ Course[i] = <<"callers", s>>
                          /\ Course[i][1] = "callers" /\ Course[i][2] = s
  BY TurnOf DEF AskCallers, QuestionNames
<1>2. PICK answer : /\ Note("callers", s, answer)
                    /\ IF asked.membership[s].kind = "Askable" THEN answer.kind # "Unreachable"
                       ELSE answer = asked.membership[s]
  BY SaidIsReachable DEF AskCallers
<1> QED BY <1>1, <1>2, NoteKeepsMemberships

LEMMA AskCalleesKeepsAsking ==
  ASSUME AskingInvariant, NEW peer, NEW s \in Sides, AskCallees(peer, s)
  PROVE  AskingInvariant'
<1>1. PICK i \in Asking : stage = Course[i] /\ Course[i] = <<"callees", s>>
                          /\ Course[i][1] = "callees" /\ Course[i][2] = s
  BY TurnOf DEF AskCallees, QuestionNames
<1>2. PICK answer : Note("callees", s, answer)
  BY DEF AskCallees
<1> QED BY <1>1, <1>2, NoteKeepsMemberships

-----------------------------------------------------------------------------
(* The steps before the questions and after them.                           *)
LEMMA StagesOfTheCourse ==
  /\ <<"open", "a">> = Course[1] /\ <<"open", "b">> = Course[2]
  /\ <<"types", "a">> = Course[3] /\ Turn("shutdown") = Course[11]
  /\ \A i \in Asking : Course[3] \notin Beyond(i)
<1>1. /\ <<"open", "a">> = Course[1] /\ <<"open", "b">> = Course[2]
      /\ <<"types", "a">> = Course[3] /\ Turn("shutdown") = Course[11]
  BY DEF Course, Turn
<1>2. \A i \in Asking : Course[3] \notin Beyond(i)
  BY CourseIsLinear DEF Beyond, Asking
<1> QED BY <1>1, <1>2

BeforeTheQuestions ==
  \/ stage \in {<<"locate", "a">>, <<"locate", "b">>, Turn("measure"), Turn("prepare")}
  \/ stage[1] = "refused" \/ stage \in {Course[1], Course[2]}

LEMMA BeforeIsNotBeyond ==
  /\ BeforeTheQuestions => \A i \in Asking : stage \notin Beyond(i)
  /\ BeforeTheQuestions' => \A i \in Asking : stage' \notin Beyond(i)
<1>1. ASSUME NEW turn,
             \/ turn \in {<<"locate", "a">>, <<"locate", "b">>, Turn("measure"), Turn("prepare")}
             \/ turn[1] = "refused" \/ turn \in {Course[1], Course[2]},
             NEW i \in Asking
      PROVE  turn \notin Beyond(i)
  <2>1. \A j \in 4..11 : Course[j][1] \in {"types", "membership", "callers", "callees", "shutdown"}
    BY DEF Course, Turn
  <2>2. \A j \in 4..11 : turn # Course[j]
    <3>1. CASE turn \in {Course[1], Course[2]}
      BY <3>1, CourseIsLinear
    <3>2. CASE turn \notin {Course[1], Course[2]}
      BY <1>1, <2>1, <3>2 DEF Turn
    <3> QED BY <3>1, <3>2
  <2>3. turn # Turn("report")
    BY <1>1 DEF Turn, Course
  <2> QED BY <2>2, <2>3 DEF Beyond, Asking
<1> QED BY <1>1 DEF BeforeTheQuestions

LEMMA SetupStillClean ==
  ASSUME AskingInvariant, BeforeTheQuestions PROVE setup = "none"
<1>1. 10 \in Asking /\ Turn("shutdown") \in Beyond(10) /\ Turn("report") \in Beyond(10)
  BY StagesOfTheCourse DEF Asking, Beyond
<1> QED BY <1>1, BeforeIsNotBeyond DEF AskingInvariant, SetupComesLast

LEMMA EarlyStepsLead ==
  ASSUME AskingInvariant, NEW peer, NEW s \in Sides,
         \/ RefuseSettings \/ Locate(s) \/ Measure(peer) \/ Prepare(peer) \/ Open(peer, s)
  PROVE  /\ UNCHANGED <<asked, failedFirst>> /\ \A i \in Asking : stage \notin Beyond(i)
         /\ \/ setup' = "none" /\ \A i \in Asking : stage' \notin Beyond(i)
            \/ setup' # "none" /\ stage' \in {Turn("shutdown"), Turn("report")}
<1>1. BeforeTheQuestions
  BY StagesOfTheCourse DEF BeforeTheQuestions, RefuseSettings, Locate, Measure, Prepare, Open, Sides
<1>2. UNCHANGED <<asked, failedFirst>>
  BY DEF RefuseSettings, Locate, Measure, Prepare, Open, questions
<1>3. setup = "none"
  BY <1>1, SetupStillClean
<1>4. \/ setup' = "none" /\ BeforeTheQuestions'
      \/ setup' = "none" /\ stage' = Course[3]
      \/ setup' # "none" /\ stage' \in {Turn("shutdown"), Turn("report")}
  <2>1. CASE RefuseSettings
    BY <1>3, <2>1 DEF RefuseSettings, Refused, Refusal, BeforeTheQuestions
  <2>2. CASE Locate(s)
    BY <1>3, <2>2 DEF Locate, Read, Refused, Refusal, BeforeTheQuestions
  <2>3. CASE Measure(peer)
    BY <1>3, <2>3 DEF Measure, Refused, Refusal, BeforeTheQuestions
  <2>4. CASE Prepare(peer)
    BY <1>3, <2>4, StagesOfTheCourse DEF Prepare, SetupFails, BeforeTheQuestions
  <2>5. CASE Open(peer, s)
    <3>1. CASE setup' # "none"
      BY <1>3, <2>5, <3>1 DEF Open
    <3>2. CASE setup' = "none"
      <4>1. stage' = Following(stage)
        BY <1>3, <2>5, <3>2 DEF Open
      <4>2. stage \in {Course[1], Course[2]}
        BY <2>5, StagesOfTheCourse DEF Open, Sides
      <4> QED BY <3>2, <4>1, <4>2, FollowingIsNext DEF BeforeTheQuestions
    <3> QED BY <3>1, <3>2
  <2> QED BY <2>1, <2>2, <2>3, <2>4, <2>5
<1>5. \A i \in Asking : stage \notin Beyond(i)
  BY <1>1, BeforeIsNotBeyond
<1>6. \/ setup' = "none" /\ \A i \in Asking : stage' \notin Beyond(i)
      \/ setup' # "none" /\ stage' \in {Turn("shutdown"), Turn("report")}
  BY <1>4, BeforeIsNotBeyond, StagesOfTheCourse
<1> QED BY <1>2, <1>5, <1>6

LEMMA EarlyStepsKeepAsking ==
  ASSUME AskingInvariant, NEW peer, NEW s \in Sides,
         \/ RefuseSettings \/ Locate(s) \/ Measure(peer) \/ Prepare(peer) \/ Open(peer, s)
  PROVE  AskingInvariant'
BY EarlyStepsLead, EarlyStep

LEMMA LateStepsKeepAsking ==
  ASSUME AskingInvariant, NEW peer, ShutDown(peer) \/ Report
  PROVE  AskingInvariant'
<1>1. stage \in {Turn("shutdown"), Turn("report")} /\ stage' = Turn("report")
  BY DEF ShutDown, Report
<1>2. UNCHANGED <<asked, failedFirst>> /\ setup' \in {setup, "LspUnusable"}
  BY DEF ShutDown, Report, questions
<1>3. /\ IsAsked(asked)' /\ (\A s \in Sides : asked.membership[s].kind \in MembershipKinds)'
      /\ FirstOfTheFailures'
  BY <1>2, NothingAsked
<1>4. NothingIsAnticipated'
  BY <1>1 DEF NothingIsAnticipated, Beyond
<1>5. \A i \in Asking : stage \in Beyond(i)
  BY <1>1, StagesOfTheCourse DEF Beyond, Asking
<1>6. CallersStandForMembership'
  BY <1>2, <1>5 DEF AskingInvariant, CallersStandForMembership, Asking
<1>7. SetupComesLast'
  BY <1>1, <1>2 DEF AskingInvariant, SetupComesLast, SetupFailures
<1> QED BY <1>3, <1>4, <1>6, <1>7 DEF AskingInvariant

LEMMA UntouchedKeepsAsking ==
  ASSUME AskingInvariant, UNCHANGED compareVars PROVE AskingInvariant'
<1> USE DEF compareVars, questions
<1>1. /\ IsAsked(asked)' /\ (\A s \in Sides : asked.membership[s].kind \in MembershipKinds)'
      /\ FirstOfTheFailures' /\ \A i \in Asking : AnswerAt(i)' = AnswerAt(i)
  BY NothingAsked
<1> QED BY <1>1 DEF AskingInvariant, NothingIsAnticipated, Beyond, CallersStandForMembership,
                    SetupComesLast

LEMMA AskingStarts == Init => AskingInvariant
<1> SUFFICES ASSUME Init PROVE AskingInvariant
  OBVIOUS
<1>1. stage = <<"locate", "a">> /\ asked = Unasked /\ setup = "none" /\ failedFirst = NoError
  BY DEF Init, CompareInit
<1>2. \A q \in QuestionNames, s \in Sides : asked[q][s] = [kind |-> "Unasked"]
  BY <1>1, QuestionsNamed DEF Unasked
<1>3. \A i \in Asking : AnswerAt(i) = [kind |-> "Unasked"]
  BY <1>2, TurnsOfQuestions DEF AnswerAt
<1>4. IsAsked(asked)
  BY <1>1 DEF IsAsked, Unasked
<1>5. \A s \in Sides : asked.membership[s].kind \in MembershipKinds
  BY <1>2 DEF MembershipKinds, QuestionNames
<1>6. NothingIsAnticipated
  BY <1>3 DEF NothingIsAnticipated
<1>7. FirstOfTheFailures
  BY <1>1, <1>3 DEF FirstOfTheFailures, FailureAt, IsFailure
<1>8. CallersStandForMembership
  BY <1>2 DEF CallersStandForMembership, QuestionNames
<1>9. SetupComesLast
  BY <1>1 DEF SetupComesLast
<1> QED BY <1>4, <1>5, <1>6, <1>7, <1>8, <1>9 DEF AskingInvariant

(* At every stage of every run, the answers, the failure noted first and    *)
(* the failure of the setup are what the order of the questions makes them. *)
THEOREM AskingInvariantHolds == Spec => []AskingInvariant
<1>1. AskingInvariant /\ [Next]_vars => AskingInvariant'
  <2> SUFFICES ASSUME AskingInvariant, [Next]_vars PROVE AskingInvariant'
    OBVIOUS
  <2>1. CASE UNCHANGED compareVars
    BY <2>1, UntouchedKeepsAsking
  <2>2. CASE CompareWith(Server)
    <3>1. CASE \E s \in Sides : AskTypes(Server, s)
      BY <3>1, AskTypesKeepsAsking
    <3>2. CASE \E s \in Sides : AskMembership(Server, s)
      BY <3>2, AskMembershipKeepsAsking
    <3>3. CASE \E s \in Sides : AskCallers(Server, s)
      BY <3>3, AskCallersKeepsAsking
    <3>4. CASE \E s \in Sides : AskCallees(Server, s)
      BY <3>4, AskCalleesKeepsAsking
    <3>5. CASE \/ RefuseSettings \/ Measure(Server) \/ Prepare(Server)
               \/ \E s \in Sides : Locate(s) \/ Open(Server, s)
      BY <3>5, EarlyStepsKeepAsking DEF Sides
    <3>6. CASE ShutDown(Server) \/ Report
      BY <3>6, LateStepsKeepAsking
    <3> QED BY <2>2, <3>1, <3>2, <3>3, <3>4, <3>5, <3>6 DEF CompareWith
  <2> QED BY <2>1, <2>2 DEF Next, CompareNext, vars
<1> QED BY <1>1, AskingStarts, PTL DEF Spec
-----------------------------------------------------------------------------
(* From the invariant to the error that is reported.                        *)
LEMMA MinIsTheLeast ==
  ASSUME NEW S \in SUBSET Nat, NEW m \in S, \A x \in S : m <= x
  PROVE  Min(S) = m
<1>1. Min(S) \in S /\ \A x \in S : Min(S) <= x
  BY DEF Min
<1>2. Min(S) \in Nat /\ m \in Nat /\ Min(S) <= m /\ m <= Min(S)
  BY <1>1
<1> QED BY <1>2

(* The turns whose answers are looked at, in the order in which they are.   *)
LookedAtTurn == <<3, 4, 7, 8, 9, 10>>

LEMMA LookedAtInTurn ==
  /\ DOMAIN LookedAt = 1..6
  /\ \A k \in 1..6 : LookedAtTurn[k] \in Asking /\ LookedAt[k] = Course[LookedAtTurn[k]]
  /\ \A k \in {3, 4} : LookedAt[k][1] = "callers" /\ LookedAt[k][2] \in Sides
  /\ \A k \in {1, 2, 5, 6} : LookedAt[k][1] \notin {"callers", "membership"}
  /\ LookedAt[3] = <<"callers", "a">> /\ LookedAt[4] = <<"callers", "b">>
  /\ Course[5] = <<"membership", "a">> /\ Course[6] = <<"membership", "b">>
<1>1. DOMAIN LookedAt = 1..6
  BY DEF LookedAt
<1>2. \A k \in 1..6 : LookedAtTurn[k] \in Asking /\ LookedAt[k] = Course[LookedAtTurn[k]]
  BY DEF LookedAt, LookedAtTurn, Course, Asking
<1>3. \A k \in {3, 4} : LookedAt[k][1] = "callers" /\ LookedAt[k][2] \in Sides
  BY DEF LookedAt, Sides
<1>4. \A k \in {1, 2, 5, 6} : LookedAt[k][1] \notin {"callers", "membership"}
  BY DEF LookedAt
<1>5. /\ LookedAt[3] = <<"callers", "a">> /\ LookedAt[4] = <<"callers", "b">>
      /\ Course[5] = <<"membership", "a">> /\ Course[6] = <<"membership", "b">>
  BY DEF LookedAt, Course
<1> QED BY <1>1, <1>2, <1>3, <1>4, <1>5

Errors == {k \in DOMAIN LookedAt : \/ asked[LookedAt[k][1]][LookedAt[k][2]].kind = "Failed"
                                   \/ Culprit(LookedAt[k]) # LookedAt[k]}

LEMMA ErrorIsTheFirst ==
  /\ Errors = {} => ErrorOfOutcomes = NoError
  /\ \A m \in Errors : (\A k \in Errors : m <= k) => ErrorOfOutcomes = Culprit(LookedAt[m])
<1>1. ErrorOfOutcomes = IF Errors = {} THEN NoError ELSE Culprit(LookedAt[Min(Errors)])
  BY DEF ErrorOfOutcomes, Errors
<1>2. Errors \subseteq Nat
  BY LookedAtInTurn DEF Errors
<1>3. ASSUME NEW m \in Errors, \A k \in Errors : m <= k PROVE Min(Errors) = m
  BY <1>2, <1>3, MinIsTheLeast
<1> QED BY <1>1, <1>3

(* At the end of a session that was set up, each answer is an error exactly *)
(* if its turn failed, or the membership did that the callers stand for.    *)
LEMMA ErrorsAreFailures ==
  ASSUME AskingInvariant, stage = Turn("report"), setup = "none"
  PROVE  /\ \A k \in {1, 2, 5, 6} :
              /\ k \in Errors <=> FailureAt(LookedAtTurn[k])
              /\ Culprit(LookedAt[k]) = LookedAt[k]
         /\ 3 \in Errors <=> FailureAt(7) \/ FailureAt(5)
         /\ 4 \in Errors <=> FailureAt(8) \/ FailureAt(6)
         /\ Culprit(LookedAt[3]) = IF FailureAt(5) THEN Course[5] ELSE Course[7]
         /\ Culprit(LookedAt[4]) = IF FailureAt(6) THEN Course[6] ELSE Course[8]
<1>1. ASSUME NEW k \in {1, 2, 5, 6}
      PROVE  /\ k \in Errors <=> FailureAt(LookedAtTurn[k])
             /\ Culprit(LookedAt[k]) = LookedAt[k]
  <2>1. Culprit(LookedAt[k]) = LookedAt[k]
    BY LookedAtInTurn DEF Culprit
  <2>2. k \in Errors <=> asked[LookedAt[k][1]][LookedAt[k][2]].kind = "Failed"
    BY <2>1, LookedAtInTurn DEF Errors
  <2>3. AnswerAt(LookedAtTurn[k]) = asked[LookedAt[k][1]][LookedAt[k][2]]
    BY LookedAtInTurn DEF AnswerAt
  <2>4. Course[LookedAtTurn[k]][1] # "membership"
    BY LookedAtInTurn
  <2> QED BY <2>1, <2>2, <2>3, <2>4 DEF FailureAt, IsFailure
<1>2. ASSUME NEW s \in Sides
      PROVE  LET callers == asked["callers"][s]
                 membership == asked["membership"][s]
             IN  /\ Culprit(<<"callers", s>>) = IF membership.kind = "Unreachable"
                                                THEN <<"membership", s>> ELSE <<"callers", s>>
                 /\ callers.kind = "Unreachable" <=> membership.kind = "Unreachable"
                 /\ membership.kind = "Unreachable" => callers.kind # "Failed"
  <2>1. stage \in Beyond(IF s = "a" THEN 7 ELSE 8)
    BY DEF Beyond
  <2>2. IF asked["membership"][s].kind = "Askable" THEN asked["callers"][s].kind # "Unreachable"
        ELSE /\ asked["callers"][s] = asked["membership"][s]
             /\ asked["membership"][s].kind # "Failed"
    BY <2>1 DEF AskingInvariant, CallersStandForMembership
  <2>3. asked["callers"][s].kind = "Unreachable" <=> asked["membership"][s].kind = "Unreachable"
    BY <2>2
  <2> QED BY <2>2, <2>3 DEF Culprit
<1>3. /\ FailureAt(5) <=> asked["membership"]["a"].kind = "Unreachable"
      /\ FailureAt(6) <=> asked["membership"]["b"].kind = "Unreachable"
  BY LookedAtInTurn DEF FailureAt, IsFailure, AnswerAt
<1>4. Course[7] = <<"callers", "a">> /\ Course[8] = <<"callers", "b">>
  BY DEF Course
<1>5. /\ FailureAt(7) <=> asked["callers"]["a"].kind = "Failed"
      /\ FailureAt(8) <=> asked["callers"]["b"].kind = "Failed"
  BY <1>4 DEF FailureAt, IsFailure, AnswerAt
<1>6. "a" \in Sides /\ "b" \in Sides
  BY DEF Sides
<1>7. \A s \in Sides : <<"membership", s>> # <<"callers", s>>
  OBVIOUS
<1>8. /\ 3 \in Errors <=> FailureAt(7) \/ FailureAt(5)
      /\ 4 \in Errors <=> FailureAt(8) \/ FailureAt(6)
  <2>1. ASSUME NEW k \in {3, 4}, NEW s \in Sides, LookedAt[k] = <<"callers", s>>
        PROVE  k \in Errors <=> \/ asked["callers"][s].kind = "Failed"
                               \/ asked["membership"][s].kind = "Unreachable"
    <3>1. k \in Errors <=> \/ asked["callers"][s].kind = "Failed"
                          \/ Culprit(<<"callers", s>>) # <<"callers", s>>
      BY <2>1, LookedAtInTurn DEF Errors
    <3> QED BY <1>2, <1>7, <3>1
  <2> QED BY <1>3, <1>5, <1>6, <2>1, LookedAtInTurn
<1>9. /\ Culprit(LookedAt[3]) = IF FailureAt(5) THEN Course[5] ELSE Course[7]
      /\ Culprit(LookedAt[4]) = IF FailureAt(6) THEN Course[6] ELSE Course[8]
  BY <1>2, <1>3, <1>4, <1>6, LookedAtInTurn
<1> QED BY <1>1, <1>8, <1>9

LEMMA FirstFailureIsTheError ==
  ASSUME AskingInvariant, stage = Turn("report"), setup = "none"
  PROVE  \/ ErrorOfOutcomes = failedFirst
         \/ failedFirst = <<"membership", "b">> /\ ErrorOfOutcomes = <<"callers", "a">>
<1> DEFINE F(i) == FailureAt(i)
<1>1. /\ 1 \in Errors <=> F(3)
      /\ 2 \in Errors <=> F(4)
      /\ 5 \in Errors <=> F(9)
      /\ 6 \in Errors <=> F(10)
      /\ 3 \in Errors <=> F(7) \/ F(5)
      /\ 4 \in Errors <=> F(8) \/ F(6)
  BY ErrorsAreFailures DEF LookedAtTurn
<1>2. /\ Culprit(LookedAt[1]) = Course[3]    /\ Culprit(LookedAt[2]) = Course[4]
      /\ Culprit(LookedAt[5]) = Course[9]    /\ Culprit(LookedAt[6]) = Course[10]
      /\ Culprit(LookedAt[3]) = IF F(5) THEN Course[5] ELSE Course[7]
      /\ Culprit(LookedAt[4]) = IF F(6) THEN Course[6] ELSE Course[8]
  BY ErrorsAreFailures, LookedAtInTurn DEF LookedAtTurn
<1>3. Errors \subseteq {1, 2, 3, 4, 5, 6}
  BY LookedAtInTurn DEF Errors
<1>4. Asking = {3, 4, 5, 6, 7, 8, 9, 10}
  BY DEF Asking
<1> HIDE DEF F
<1>5. CASE failedFirst = NoError /\ \A i \in Asking : ~FailureAt(i)
  <2>1. \A i \in Asking : ~F(i)
    BY <1>5 DEF F
  <2>2. Errors = {}
    BY <1>1, <1>3, <1>4, <2>1
  <2> QED BY <1>5, <2>2, ErrorIsTheFirst
<1>6. ASSUME NEW i \in Asking, failedFirst = Course[i], FailureAt(i),
             \A j \in 3..(i - 1) : ~FailureAt(j)
      PROVE  \/ ErrorOfOutcomes = failedFirst
             \/ failedFirst = <<"membership", "b">> /\ ErrorOfOutcomes = <<"callers", "a">>
  <2>1. F(i) /\ \A j \in 3..(i - 1) : ~F(j)
    BY <1>6 DEF F
  <2>2. ASSUME NEW m \in Errors, \A k \in {1, 2, 3, 4, 5, 6} : k < m => k \notin Errors
        PROVE  ErrorOfOutcomes = Culprit(LookedAt[m])
    <3>1. \A k \in Errors : m <= k
      BY <1>3, <2>2
    <3> QED BY <3>1, ErrorIsTheFirst
  <2>3. CASE i = 3
    BY <1>1, <1>2, <1>6, <2>1, <2>2, <2>3
  <2>4. CASE i = 4
    <3>1. ~F(3) /\ F(4)
      BY <2>1, <2>4
    <3> QED BY <1>1, <1>2, <1>6, <2>2, <2>4, <3>1
  <2>5. CASE i = 5
    <3>1. ~F(3) /\ ~F(4) /\ F(5)
      BY <2>1, <2>5
    <3> QED BY <1>1, <1>2, <1>6, <2>2, <2>5, <3>1
  <2>6. CASE i = 6
    <3>1. ~F(3) /\ ~F(4) /\ ~F(5) /\ F(6)
      BY <2>1, <2>6
    <3>2. CASE F(7)
      <4>1. ErrorOfOutcomes = Course[7]
        BY <1>1, <1>2, <2>2, <3>1, <3>2
      <4>2. Course[7] = <<"callers", "a">> /\ Course[6] = <<"membership", "b">>
        BY DEF Course
      <4> QED BY <1>6, <2>6, <4>1, <4>2
    <3>3. CASE ~F(7)
      BY <1>1, <1>2, <1>6, <2>2, <2>6, <3>1, <3>3
    <3> QED BY <3>2, <3>3
  <2>7. CASE i = 7
    <3>1. ~F(3) /\ ~F(4) /\ ~F(5) /\ F(7)
      BY <2>1, <2>7
    <3> QED BY <1>1, <1>2, <1>6, <2>2, <2>7, <3>1
  <2>8. CASE i = 8
    <3>1. ~F(3) /\ ~F(4) /\ ~F(5) /\ ~F(6) /\ ~F(7) /\ F(8)
      BY <2>1, <2>8
    <3> QED BY <1>1, <1>2, <1>6, <2>2, <2>8, <3>1
  <2>9. CASE i = 9
    <3>1. ~F(3) /\ ~F(4) /\ ~F(5) /\ ~F(6) /\ ~F(7) /\ ~F(8) /\ F(9)
      BY <2>1, <2>9
    <3> QED BY <1>1, <1>2, <1>6, <2>2, <2>9, <3>1
  <2>10. CASE i = 10
    <3>1. ~F(3) /\ ~F(4) /\ ~F(5) /\ ~F(6) /\ ~F(7) /\ ~F(8) /\ ~F(9) /\ F(10)
      BY <2>1, <2>10
    <3> QED BY <1>1, <1>2, <1>6, <2>2, <2>10, <3>1
  <2> QED BY <1>4, <2>3, <2>4, <2>5, <2>6, <2>7, <2>8, <2>9, <2>10
<1> QED BY <1>5, <1>6 DEF AskingInvariant, FirstOfTheFailures

(* What compare reports as its error is what failed first, whatever failed  *)
(* after it and whatever was answered, unless the setup or the end of the   *)
(* session failed; only the membership of b may be told as the callers of a *)
(* (asked_semantics_of_outcomes).                                           *)
THEOREM FirstFailureIsReported == Spec => []FirstFailureUnlessMembership
<1>1. AskingInvariant => FirstFailureUnlessMembership
  <2> SUFFICES ASSUME AskingInvariant, stage = Turn("report"), setup \notin SetupFailures
               PROVE  \/ SemanticsError = failedFirst
                      \/ failedFirst = <<"membership", "b">> /\ SemanticsError = <<"callers", "a">>
    BY DEF FirstFailureUnlessMembership
  <2>1. CASE setup = "none"
    <3>1. SemanticsError = ErrorOfOutcomes
      BY <2>1 DEF SemanticsError, SetupFailures
    <3> QED BY <2>1, <3>1, FirstFailureIsTheError
  <2>2. CASE setup # "none"
    <3>1. SemanticsError = NoError
      BY <2>2 DEF SemanticsError
    <3> QED BY <2>2, <3>1 DEF AskingInvariant, SetupComesLast
  <2> QED BY <2>1, <2>2
<1> QED BY <1>1, AskingInvariantHolds, PTL
-----------------------------------------------------------------------------
(* The least and the greatest of some numbers.                              *)
IsSmaller(x, y) == x < y

LEMMA LeastIsThere ==
  ASSUME NEW S \in SUBSET Nat, S # {}
  PROVE  Min(S) \in S /\ \A x \in S : Min(S) <= x
<1>1. IsWellFoundedOn(OpToRel(IsSmaller, Nat), Nat)
  BY NatLessThanWellFounded DEF OpToRel, IsSmaller
<1>2. PICK m \in S : \A y \in S : <<y, m>> \notin OpToRel(IsSmaller, Nat)
  BY <1>1, WFMin
<1>3. \A y \in S : m <= y
  <2> SUFFICES ASSUME NEW y \in S PROVE m <= y
    OBVIOUS
  <2>1. ~IsSmaller(y, m)
    BY <1>2 DEF OpToRel
  <2>2. m \in Nat /\ y \in Nat
    OBVIOUS
  <2> QED BY <2>1, <2>2 DEF IsSmaller
<1> QED BY <1>3 DEF Min

LEMMA GreatestIsThere ==
  ASSUME NEW S \in SUBSET Nat, S # {}, NEW bound \in Nat, \A x \in S : x <= bound
  PROVE  Max(S) \in S /\ \A x \in S : x <= Max(S)
<1> DEFINE short == {bound - x : x \in S}
<1>1. short \in SUBSET Nat /\ short # {}
  <2>1. \A x \in S : bound - x \in Nat
    OBVIOUS
  <2> QED BY <2>1
<1>2. Min(short) \in short /\ \A d \in short : Min(short) <= d
  BY <1>1, LeastIsThere
<1>3. PICK m \in S : Min(short) = bound - m
  BY <1>2
<1>4. \A x \in S : m >= x
  <2> SUFFICES ASSUME NEW x \in S PROVE m >= x
    OBVIOUS
  <2>1. bound - m <= bound - x
    BY <1>2, <1>3
  <2>2. m \in Nat /\ x \in Nat
    OBVIOUS
  <2> QED BY <2>1, <2>2
<1> QED BY <1>4 DEF Max

-----------------------------------------------------------------------------
(* The function around a line is one of those of the file.                  *)
LEMMA EnclosingIsAFunction ==
  ASSUME NEW file, NEW line, Nodes(file.tree) \subseteq Nat, IsFiniteSet(Nodes(file.tree)),
         FindEnclosing(file, line).kind = "Chunk"
  PROVE  FindEnclosing(file, line).node \in ChunkNodes(file)
<1> DEFINE around == {n \in ChunkNodes(file) : Covers(file.tree[n], line)}
           size(n) == Cardinality(Within(file.tree, n))
           shortest == {n \in around : \A m \in around : size(n) <= size(m)}
           sizes == {size(n) : n \in around}
<1>1. around # {} /\ FindEnclosing(file, line).node = Min(shortest)
  BY DEF FindEnclosing
<1>2. around \subseteq Nat /\ around \subseteq ChunkNodes(file)
  BY DEF ChunkNodes
<1>3. \A n : size(n) \in Nat
  <2> SUFFICES ASSUME NEW n PROVE size(n) \in Nat
    OBVIOUS
  <2>1. Within(file.tree, n) \in SUBSET Nodes(file.tree)
    BY DEF Within
  <2>2. IsFiniteSet(Within(file.tree, n))
    BY <2>1, FS_Subset
  <2> QED BY <2>2, FS_CardinalityType
<1> HIDE DEF size
<1>4. sizes \in SUBSET Nat /\ sizes # {}
  BY <1>1, <1>3
<1> HIDE DEF around
<1>5. Min(sizes) \in sizes /\ \A k \in sizes : Min(sizes) <= k
  BY <1>4, LeastIsThere
<1>6. shortest # {} /\ shortest \in SUBSET Nat /\ shortest \subseteq around
  <2>1. PICK n \in around : Min(sizes) = size(n)
    BY <1>5
  <2>2. n \in shortest
    BY <1>5, <2>1
  <2> QED BY <1>2, <2>2
<1>7. Min(shortest) \in shortest
  BY <1>6, LeastIsThere
<1> QED BY <1>1, <1>2, <1>6, <1>7

LEMMA CutIsOfItsFile ==
  ASSUME NEW place, place.path \in DOMAIN Sources,
         NEW v \in DOMAIN Sources[place.path].versions,
         CutFailure(Sources[place.path].versions[v], place.line) = "none"
  PROVE  LET chunk == CutAt(place, Sources[place.path].versions[v].file, v)
         IN  chunk.address = AddressOf(Sources[place.path]) /\ chunk.version = v
<1> DEFINE source == Sources[place.path]
           file == source.versions[v].file
           n == FindEnclosing(file, place.line).node
<1>1. Nodes(file.tree) \subseteq Nat /\ IsFiniteSet(Nodes(file.tree))
  BY SourcesAssumption
<1>2. FindEnclosing(file, place.line).kind = "Chunk"
  BY DEF CutFailure
<1>3. n \in ChunkNodes(file)
  BY <1>1, <1>2, EnclosingIsAFunction
<1>4. Cuts[place.path][v] = [m \in ChunkNodes(file) |-> ChunkAt(source, v, m)]
  BY DEF Cuts, CutsOf
<1>5. CutAt(place, file, v) = ChunkAt(source, v, n)
  BY <1>3, <1>4 DEF CutAt
<1> QED BY <1>5 DEF ChunkAt

LEMMA ReadingIsAVersion ==
  ASSUME NEW s \in Sides, request[s].path \in DOMAIN Sources, PairIsCut, stage = <<"locate", s>>,
         NEW v \in Readings(s, Sources[request[s].path])
  PROVE  /\ v \in DOMAIN Sources[request[s].path].versions
         /\ s = "b" /\ ReadOnce => v = pair.a.version
<1>1. CASE s = "a"
  BY <1>1 DEF Readings
<1>2. CASE s = "b" /\ ReadOnce
  <2>1. Located("a")
    BY <1>2 DEF Located
  <2>2. pair.a.version \in DOMAIN Sources[request.a.path].versions
    BY <2>1 DEF PairIsCut
  <2> QED BY <1>2, <2>2 DEF Readings, ReadOnce
<1>3. CASE s = "b" /\ ~ReadOnce
  BY <1>3 DEF Readings
<1> QED BY <1>1, <1>2, <1>3 DEF Sides

-----------------------------------------------------------------------------
(* Every file lies below the root that encloses them all.                   *)
LEMMA PrefixOfPrefix ==
  ASSUME NEW d \in Seq(STRING), NEW path \in Seq(STRING), NEW n \in 0..Len(path),
         d = SubSeq(path, 1, n), NEW r \in Seq(STRING), IsPrefix(r, d)
  PROVE  IsPrefix(r, path)
<1>1. Len(d) = n /\ \A i \in 1..n : d[i] = path[i]
  OBVIOUS
<1>2. Len(r) <= n /\ \A i \in 1..Len(r) : r[i] = d[i]
  BY <1>1 DEF IsPrefix
<1> QED BY <1>1, <1>2 DEF IsPrefix
LEMMA CoveredIsAPrefix ==
  ASSUME NEW path \in Seq(STRING) \ {<<>>}, NEW marked
  PROVE  /\ \E n \in 0..Len(path) : Front(path) = SubSeq(path, 1, n)
         /\ \A d \in MarkedDirectory(path, marked) : \E n \in 0..Len(path) : d = SubSeq(path, 1, n)
<1>1. Len(path) \in Nat /\ Len(path) > 0
  OBVIOUS
<1>2. \E n \in 0..Len(path) : Front(path) = SubSeq(path, 1, n)
  BY <1>1 DEF Front
<1>3. ASSUME NEW d \in MarkedDirectory(path, marked)
      PROVE  \E n \in 0..Len(path) : d = SubSeq(path, 1, n)
  <2> DEFINE above == {n \in 0..(Len(path) - 1) : SubSeq(path, 1, n) \in marked}
  <2>1. above # {} /\ d = SubSeq(path, 1, Max(above))
    BY DEF MarkedDirectory
  <2>2. above \in SUBSET Nat /\ \A n \in above : n <= Len(path)
    BY <1>1
  <2>3. Max(above) \in above
    BY <1>1, <2>1, <2>2, GreatestIsThere
  <2>4. Max(above) \in 0..Len(path)
    BY <1>1, <2>3
  <2> QED BY <2>1, <2>4
<1> QED BY <1>2, <1>3

LEMMA CommonAncestorIsAPrefix ==
  ASSUME NEW directories \in SUBSET Seq(STRING), directories # {}
  PROVE  /\ CommonAncestor(directories) \in Seq(STRING)
         /\ \A d \in directories : IsPrefix(CommonAncestor(directories), d)
<1> DEFINE one == CHOOSE d \in directories : TRUE
           shared == {n \in 0..Len(one) : \A d \in directories : IsPrefix(SubSeq(one, 1, n), d)}
<1>1. one \in directories /\ one \in Seq(STRING)
  OBVIOUS
<1>2. CommonAncestor(directories) = SubSeq(one, 1, Max(shared))
  BY DEF CommonAncestor
<1> HIDE DEF one
<1>3. 0 \in shared
  <2>1. ASSUME NEW d \in directories PROVE IsPrefix(SubSeq(one, 1, 0), d)
    <3>1. SubSeq(one, 1, 0) = <<>> /\ SubSeq(d, 1, 0) = <<>> /\ Len(d) \in Nat
      BY <1>1
    <3> QED BY <3>1 DEF IsPrefix
  <2> QED BY <1>1, <2>1
<1>4. shared \in SUBSET Nat /\ \A n \in shared : n <= Len(one)
  BY <1>1
<1>5. Max(shared) \in shared
  <2>1. shared # {} /\ Len(one) \in Nat
    BY <1>1, <1>3
  <2> HIDE DEF shared
  <2> QED BY <1>4, <2>1, GreatestIsThere
<1>6. SubSeq(one, 1, Max(shared)) \in Seq(STRING)
  <2>1. \A n \in shared : SubSeq(one, 1, n) \in Seq(STRING)
    BY <1>1
  <2> QED BY <1>5, <2>1
<1>7. \A n \in shared : \A d \in directories : IsPrefix(SubSeq(one, 1, n), d)
  OBVIOUS
<1> HIDE DEF shared
<1> QED BY <1>2, <1>5, <1>6, <1>7

LEMMA RootIsAbove ==
  ASSUME NEW addresses \in SUBSET (Seq(STRING) \ {<<>>}), NEW path \in addresses, NEW markers
  PROVE  IsPrefix(ProjectRoot(addresses, markers, MarkedDirectories).root, path)
<1> DEFINE under == {p \in addresses : MarkedDirectory(p, MarkedDirectories) # {}}
           covered(p) == IF markers /\ p \in under
                         THEN CHOOSE d \in MarkedDirectory(p, MarkedDirectories) : TRUE
                         ELSE Front(p)
           directories == {covered(p) : p \in addresses}
           root == CommonAncestor(directories)
<1>1. ProjectRoot(addresses, markers, MarkedDirectories).root = root
  BY DEF ProjectRoot
<1>2. \A p \in addresses : \E n \in 0..Len(p) : covered(p) = SubSeq(p, 1, n)
  <2> SUFFICES ASSUME NEW p \in addresses PROVE \E n \in 0..Len(p) : covered(p) = SubSeq(p, 1, n)
    OBVIOUS
  <2>1. CASE markers /\ p \in under
    <3>1. covered(p) \in MarkedDirectory(p, MarkedDirectories)
      BY <2>1
    <3> QED BY <3>1, CoveredIsAPrefix
  <2>2. CASE ~(markers /\ p \in under)
    BY <2>2, CoveredIsAPrefix
  <2> QED BY <2>1, <2>2
<1> HIDE DEF covered
<1>3. \A p \in addresses : covered(p) \in Seq(STRING)
  <2> SUFFICES ASSUME NEW p \in addresses PROVE covered(p) \in Seq(STRING)
    OBVIOUS
  <2>1. PICK n \in 0..Len(p) : covered(p) = SubSeq(p, 1, n)
    BY <1>2
  <2> QED BY <2>1
<1>4. directories \in SUBSET Seq(STRING) /\ directories # {} /\ covered(path) \in directories
  BY <1>3
<1>5. root \in Seq(STRING) /\ IsPrefix(root, covered(path))
  BY <1>4, CommonAncestorIsAPrefix
<1>6. PICK n \in 0..Len(path) : covered(path) = SubSeq(path, 1, n)
  BY <1>2
<1>7. path \in Seq(STRING) /\ covered(path) \in Seq(STRING)
  BY <1>3
<1> HIDE DEF root
<1>8. IsPrefix(root, path)
  BY <1>5, <1>6, <1>7, PrefixOfPrefix
<1> QED BY <1>1, <1>8
-----------------------------------------------------------------------------
(* What was cut and what was shown, step by step.                           *)
LEMMA TurnsByName ==
  /\ \A i \in 1..11 : Course[i][1] \in {"open", "types", "membership", "callers", "callees",
                                        "shutdown"}
  /\ \A i \in Asking : i + 1 \in Asking \cup {11}
  /\ Course[2] \notin {Course[i] : i \in Asking} /\ Course[11] \notin {Course[i] : i \in Asking}
<1>1. \A i \in 1..11 : Course[i][1] \in {"open", "types", "membership", "callers", "callees",
                                         "shutdown"}
  BY DEF Course, Turn
<1>2. \A i \in Asking : i + 1 \in Asking \cup {11}
  BY DEF Asking
<1>3. Course[2] \notin {Course[i] : i \in Asking} /\ Course[11] \notin {Course[i] : i \in Asking}
  BY CourseIsLinear DEF Asking
<1> QED BY <1>1, <1>2, <1>3

LEMMA BothAreShown ==
  /\ BothShownTo[pair["a"].address] = pair["a"].version
  /\ pair["b"].address # pair["a"].address => BothShownTo[pair["b"].address] = pair["b"].version
<1>1. DOMAIN <<>> = {}
  OBVIOUS
<1>2. FirstShownTo = [address \in {pair["a"].address} |-> pair["a"].version]
  BY <1>1 DEF FirstShownTo, ShownTo
<1>3. BothShownTo = [address \in {pair["a"].address} \cup {pair["b"].address} |->
                       IF address \in {pair["a"].address} THEN FirstShownTo[address]
                       ELSE pair["b"].version]
  BY <1>2 DEF BothShownTo, ShownTo
<1> QED BY <1>2, <1>3

LEMMA PairStays ==
  ASSUME PairIsCut, UNCHANGED <<request, pair>>,
         \A s \in Sides : Located(s)' => Located(s)
  PROVE  PairIsCut'
<1>1. "a" \in Sides /\ "b" \in Sides
  BY DEF Sides
<1> QED BY <1>1 DEF PairIsCut, ReadOnce

LEMMA LocateKeepsShown ==
  ASSUME AskingInvariant, ShownInvariant, NEW s \in Sides, Locate(s)
  PROVE  ShownInvariant'
<1> DEFINE source == Sources[request[s].path]
<1>1. /\ stage = <<"locate", s>> /\ UNCHANGED <<request, server, asked, shown>>
      /\ request[s].path \in DOMAIN Sources
  BY DEF Locate, questions, ShownInvariant, PairIsCut
<1>2. BeforeTheQuestions
  BY <1>1 DEF BeforeTheQuestions, Sides
<1>3. asked = Unasked
  BY <1>2, BeforeIsNotBeyond, NothingAskedEarly
<1>4. shown = <<>>
  BY <1>1 DEF ShownInvariant, ShownInStep, Sides
<1>5. PICK v \in Readings(s, source) :
        LET version == source.versions[v]
            failure == CutFailure(version, request[s].line)
            foreign == s = "b" /\ ~ReadOnce /\ ~SameLanguage(pair.a.grammar, version.grammar)
        IN  IF failure # "none" THEN Refused(failure) /\ UNCHANGED pair
            ELSE /\ pair' = [pair EXCEPT ![s] = CutAt(request[s], version.file, v)]
                 /\ IF foreign THEN Refused("DifferentLanguages")
                    ELSE stage' = (IF s = "a" THEN <<"locate", "b">> ELSE Turn("measure")) /\ UNCHANGED exit
  BY DEF Locate, Read
<1>6. v \in DOMAIN source.versions /\ (s = "b" /\ ReadOnce => v = pair.a.version)
  BY <1>1, ReadingIsAVersion DEF ShownInvariant
<1>7. pair = [t \in Sides |-> pair[t]]
  BY DEF ShownInvariant, PairIsCut
<1>8. pair' = [t \in Sides |-> pair'[t]]
  BY <1>5, <1>7
<1>9. CASE stage'[1] = "refused"
  <2>1. PairIsCut'
    BY <1>1, <1>8, <1>9 DEF ShownInvariant, PairIsCut, Located
  <2>2. ShownInStep'
    BY <1>1, <1>3, <1>9, TurnsByName, StagesOfTheCourse DEF ShownInStep, Turn, Asking
  <2> QED BY <2>1, <2>2 DEF ShownInvariant
<1>10. CASE stage'[1] # "refused"
  <2>1. /\ CutFailure(source.versions[v], request[s].line) = "none"
        /\ pair' = [pair EXCEPT ![s] = CutAt(request[s], source.versions[v].file, v)]
        /\ stage' = IF s = "a" THEN <<"locate", "b">> ELSE Turn("measure")
    BY <1>5, <1>10 DEF Refused, Refusal
  <2> DEFINE chunk == CutAt(request[s], source.versions[v].file, v)
  <2>2. chunk.address = AddressOf(source) /\ chunk.version = v
    BY <1>1, <1>6, <2>1, CutIsOfItsFile
  <2> HIDE DEF chunk
  <2>3. pair' = [pair EXCEPT ![s] = chunk]
    BY <2>1 DEF chunk
  <2>4. pair'[s] = chunk /\ \A t \in Sides \ {s} : pair'[t] = pair[t]
    BY <1>7, <2>3
  <2>5. CASE s = "a"
    <3>1. stage' = <<"locate", "b">> /\ ~Located("b")'
      BY <2>1, <2>5 DEF Located
    <3>2. PairIsCut'
      BY <1>1, <1>6, <1>8, <2>2, <2>4, <2>5, <3>1 DEF ShownInvariant, PairIsCut, Sides
    <3>3. ShownInStep'
      BY <1>1, <1>3, <1>4, <3>1, TurnsByName DEF ShownInStep, Asking
    <3> QED BY <3>2, <3>3 DEF ShownInvariant
  <2>6. CASE s = "b"
    <3>1. stage' = Turn("measure") /\ Located("a")
      BY <1>1, <2>1, <2>6 DEF Located
    <3>2. pair'["a"] = pair["a"] /\ "a" \in Sides
      BY <2>4, <2>6 DEF Sides
    <3>3. /\ pair["a"].address = AddressOf(Sources[request["a"].path])
          /\ pair["a"].version \in DOMAIN Sources[request["a"].path].versions
      BY <3>1, <3>2 DEF ShownInvariant, PairIsCut
    <3>4. PairIsCut'
      BY <1>1, <1>6, <1>8, <2>2, <2>4, <2>6, <3>2, <3>3
         DEF ShownInvariant, PairIsCut, Sides, ReadOnce
    <3>5. ShownInStep'
      BY <1>1, <1>3, <1>4, <3>1, TurnsByName DEF ShownInStep, Asking, Turn
    <3> QED BY <3>4, <3>5 DEF ShownInvariant
  <2> QED BY <2>5, <2>6 DEF Sides
<1> QED BY <1>9, <1>10

(* Refusals, and the steps up to the first document.                        *)
LEMMA EarlyStepsKeepShown ==
  ASSUME AskingInvariant, ShownInvariant, NEW peer,
         RefuseSettings \/ Measure(peer) \/ Prepare(peer)
  PROVE  ShownInvariant'
<1>1. /\ stage \in {<<"locate", "a">>, Turn("measure"), Turn("prepare")}
      /\ UNCHANGED <<request, pair, asked, shown>>
  BY DEF RefuseSettings, Measure, Prepare, questions
<1>2. asked = Unasked
  BY <1>1, BeforeIsNotBeyond, NothingAskedEarly DEF BeforeTheQuestions
<1>3. shown = <<>>
  BY <1>1 DEF ShownInvariant, ShownInStep
<1>4. \/ stage'[1] = "refused"
      \/ stage # <<"locate", "a">> /\ stage' \in {Turn("report"), Turn("prepare"), <<"open", "a">>}
  BY DEF RefuseSettings, Measure, Prepare, Refused, Refusal, SetupFails, Turn
<1>5. \A s \in Sides : Located(s)' => Located(s)
  BY <1>1, <1>4 DEF Located, Turn
<1>6. PairIsCut'
  BY <1>1, <1>5, PairStays DEF ShownInvariant
<1>7. stage' # <<"open", "b">> /\ stage' \notin {Course[i] : i \in Asking}
  <2>1. CASE stage'[1] \in {"refused", "report", "prepare"}
    BY <2>1, TurnsByName DEF Asking
  <2>2. CASE stage' = <<"open", "a">>
    BY <2>2, StagesOfTheCourse, CourseIsLinear DEF Asking
  <2> QED BY <1>4, <2>1, <2>2 DEF Turn
<1>8. ShownInStep'
  BY <1>1, <1>2, <1>3, <1>7 DEF ShownInStep
<1> QED BY <1>6, <1>8 DEF ShownInvariant

LEMMA OpenKeepsShown ==
  ASSUME AskingInvariant, ShownInvariant, NEW peer, NEW s \in Sides, Open(peer, s)
  PROVE  ShownInvariant'
<1>1. /\ stage = <<"open", s>> /\ stage \in {Course[1], Course[2]}
      /\ UNCHANGED <<request, pair, asked>>
  BY StagesOfTheCourse DEF Open, Sides
<1>2. asked = Unasked
  BY <1>1, BeforeIsNotBeyond, NothingAskedEarly DEF BeforeTheQuestions
<1>3. \/ stage' = Turn("shutdown")
      \/ /\ stage' = IF s = "a" THEN Course[2] ELSE Course[3]
         /\ shown' = ShownTo(shown, pair[s])
  <2>1. stage = IF s = "a" THEN Course[1] ELSE Course[2]
    BY <1>1, StagesOfTheCourse DEF Sides
  <2>2. Following(Course[1]) = Course[2] /\ Following(Course[2]) = Course[3]
    BY FollowingIsNext
  <2>3. CASE s = "a"
    BY <2>1, <2>2, <2>3 DEF Open
  <2>4. CASE s = "b"
    BY <2>1, <2>2, <2>4 DEF Open
  <2> QED BY <2>3, <2>4 DEF Sides
<1>4. \A t \in Sides : Located(t)
  BY <1>1 DEF Located
<1>5. PairIsCut'
  BY <1>1, <1>4, PairStays DEF ShownInvariant
<1>6. CASE stage' = Turn("shutdown")
  <2>1. stage' = Course[11]
    BY <1>6, StagesOfTheCourse
  <2>2. stage' \notin {Course[i] : i \in Asking}
    BY <2>1, TurnsByName
  <2>3. ShownInStep'
    BY <1>1, <1>2, <1>6, <2>2 DEF ShownInStep, Turn
  <2> QED BY <1>5, <2>3 DEF ShownInvariant
<1>7. CASE stage' # Turn("shutdown") /\ s = "a"
  <2>1. shown = <<>>
    BY <1>1, <1>7 DEF ShownInvariant, ShownInStep
  <2>2. stage' = <<"open", "b">> /\ shown' = FirstShownTo
    BY <1>3, <1>7, <2>1, StagesOfTheCourse DEF FirstShownTo
  <2>3. stage' \notin {Course[i] : i \in Asking}
    BY <2>2, TurnsByName, StagesOfTheCourse
  <2>4. ShownInStep'
    BY <1>1, <1>2, <2>2, <2>3 DEF ShownInStep, FirstShownTo, Turn
  <2> QED BY <1>5, <2>4 DEF ShownInvariant
<1>8. CASE stage' # Turn("shutdown") /\ s = "b"
  <2>1. shown = FirstShownTo
    BY <1>1, <1>8 DEF ShownInvariant, ShownInStep
  <2>2. stage' = <<"types", "a">> /\ shown' = BothShownTo
    BY <1>3, <1>8, <2>1, StagesOfTheCourse DEF BothShownTo
  <2>3. ShownInStep'
    BY <1>1, <1>2, <2>2 DEF ShownInStep, FirstShownTo, BothShownTo, Turn
  <2> QED BY <1>5, <2>3 DEF ShownInvariant
<1> QED BY <1>6, <1>7, <1>8 DEF Sides

LEMMA AskingKeepsShown ==
  ASSUME AskingInvariant, ShownInvariant, NEW peer, NEW s \in Sides,
         AskTypes(peer, s) \/ AskMembership(peer, s) \/ AskCallers(peer, s) \/ AskCallees(peer, s)
  PROVE  ShownInvariant'
<1>1. PICK q \in QuestionNames : stage = <<q, s>> /\ \E answer : Note(q, s, answer)
  BY DEF AskTypes, AskMembership, AskCallers, AskCallees, QuestionNames
<1>2. PICK i \in Asking : stage = Course[i]
  BY <1>1, TurnsOfQuestions
<1>3. stage' = Course[i + 1] /\ UNCHANGED <<request, pair, shown>>
  BY <1>1, <1>2, FollowingIsNext DEF Note, Asking
<1>4. shown = BothShownTo
  BY <1>2 DEF ShownInvariant, ShownInStep
<1>5. \A t \in Sides : Located(t)
  BY <1>1 DEF Located, QuestionNames
<1>6. PairIsCut'
  BY <1>3, <1>5, PairStays DEF ShownInvariant
<1>7. /\ stage'[1] \in {"open", "types", "membership", "callers", "callees", "shutdown"}
      /\ stage' # Course[1] /\ stage' # Course[2]
  BY <1>3, TurnsByName, CourseIsLinear DEF Asking
<1>8. ShownInStep'
  BY <1>3, <1>4, <1>7, StagesOfTheCourse DEF ShownInStep, FirstShownTo, BothShownTo, Turn
<1> QED BY <1>6, <1>8 DEF ShownInvariant

LEMMA LateStepsKeepShown ==
  ASSUME ShownInvariant, NEW peer, ShutDown(peer) \/ Report
  PROVE  ShownInvariant'
<1>1. /\ stage \in {Turn("shutdown"), Turn("report")} /\ stage' = Turn("report")
      /\ UNCHANGED <<request, pair, asked, shown>>
  BY DEF ShutDown, Report, questions
<1>2. \A t \in Sides : Located(t)
  BY <1>1 DEF Located, Turn
<1>3. PairIsCut'
  BY <1>1, <1>2, PairStays DEF ShownInvariant
<1>4. stage' \notin {Course[i] : i \in Asking}
  BY <1>1, CourseIsLinear DEF Asking
<1>5. ShownInStep'
  BY <1>1, <1>4 DEF ShownInvariant, ShownInStep, FirstShownTo, BothShownTo, Turn
<1> QED BY <1>3, <1>5 DEF ShownInvariant

LEMMA UntouchedKeepsShown ==
  ASSUME ShownInvariant, UNCHANGED compareVars PROVE ShownInvariant'
<1>1. UNCHANGED <<request, pair, stage, asked, shown>>
  BY DEF compareVars, questions
<1>2. PairIsCut'
  BY <1>1, PairStays DEF ShownInvariant, Located
<1>3. ShownInStep'
  BY <1>1 DEF ShownInvariant, ShownInStep, FirstShownTo, BothShownTo
<1> QED BY <1>2, <1>3 DEF ShownInvariant

LEMMA ShownStarts == Init => ShownInvariant
<1> SUFFICES ASSUME Init PROVE ShownInvariant
  OBVIOUS
<1>1. /\ stage = <<"locate", "a">> /\ asked = Unasked /\ shown = <<>>
      /\ pair = [s \in Sides |-> NoChunk]
  BY DEF Init, CompareInit
<1>2. \A s \in Sides : request[s].path \in DOMAIN Sources
  BY ScenariosAssumption DEF Init, Sides
<1>3. \A s \in Sides : ~Located(s)
  BY <1>1 DEF Located
<1>4. PairIsCut
  BY <1>1, <1>2, <1>3 DEF PairIsCut, Sides
<1>5. ShownInStep
  BY <1>1, TurnsByName DEF ShownInStep, Asking
<1> QED BY <1>4, <1>5 DEF ShownInvariant

(* At every stage of every run, each function was cut from its file as it   *)
(* was read, and the server was shown what the stage says.                  *)
THEOREM ShownInvariantHolds == Spec => []ShownInvariant
<1>1. ShownInvariant /\ AskingInvariant /\ [Next]_vars => ShownInvariant'
  <2> SUFFICES ASSUME ShownInvariant, AskingInvariant, [Next]_vars PROVE ShownInvariant'
    OBVIOUS
  <2>1. CASE UNCHANGED compareVars
    BY <2>1, UntouchedKeepsShown
  <2>2. CASE CompareWith(Server)
    <3>1. CASE \E s \in Sides : Locate(s)
      BY <3>1, LocateKeepsShown
    <3>2. CASE \E s \in Sides : Open(Server, s)
      BY <3>2, OpenKeepsShown
    <3>3. CASE \E s \in Sides : \/ AskTypes(Server, s) \/ AskMembership(Server, s)
                                \/ AskCallers(Server, s) \/ AskCallees(Server, s)
      BY <3>3, AskingKeepsShown
    <3>4. CASE RefuseSettings \/ Measure(Server) \/ Prepare(Server)
      BY <3>4, EarlyStepsKeepShown
    <3>5. CASE ShutDown(Server) \/ Report
      BY <3>5, LateStepsKeepShown
    <3> QED BY <2>2, <3>1, <3>2, <3>3, <3>4, <3>5 DEF CompareWith
  <2> QED BY <2>1, <2>2 DEF Next, CompareNext, vars
<1> QED BY <1>1, ShownStarts, AskingInvariantHolds, PTL DEF Spec

(* Whoever saves the files meanwhile: what the server is asked about is in  *)
(* the text that it was shown, but for one file under two spellings, and    *)
(* below the root that it was told (chunk_pair_of, open_document,           *)
(* enclosing_project).                                                      *)
THEOREM AskedIsShown == Spec => []PositionsFitWhatIsShown
<1>1. ShownInvariant => PositionsFitWhatIsShown
  <2> SUFFICES ASSUME ShownInvariant, \A s \in Sides : asked.types[s].kind # "Unasked"
               PROVE  /\ \/ request.a.path # request.b.path /\ pair.a.address = pair.b.address
                         \/ \A s \in Sides : shown[pair[s].address] = pair[s].version
                      /\ \A s \in Sides :
                           IsPrefix(Project(Servers[server].markers).root, pair[s].address)
    BY DEF PositionsFitWhatIsShown
  <2>1. asked # Unasked
    <3>1. Unasked["types"]["a"].kind = "Unasked"
      BY QuestionsNamed DEF Unasked, QuestionNames, Sides
    <3> QED BY <3>1 DEF Sides
  <2>2. /\ shown = BothShownTo
        /\ stage[1] # "refused" /\ stage # <<"locate", "a">> /\ stage # <<"locate", "b">>
    BY <2>1 DEF ShownInvariant, ShownInStep
  <2>3. \A s \in Sides : Located(s)
    BY <2>2 DEF Located
  <2>4. \A s \in Sides : pair[s].address = AddressOf(Sources[request[s].path])
                         /\ request[s].path \in DOMAIN Sources
    BY <2>3 DEF ShownInvariant, PairIsCut
  <2>5. ReadOnce => pair["b"].version = pair["a"].version
    BY <2>3 DEF ShownInvariant, PairIsCut, Sides
  <2>6. /\ shown[pair["a"].address] = pair["a"].version
        /\ pair["b"].address # pair["a"].address => shown[pair["b"].address] = pair["b"].version
    BY <2>2, BothAreShown
  <2>7. \/ request.a.path # request.b.path /\ pair.a.address = pair.b.address
        \/ \A s \in Sides : shown[pair[s].address] = pair[s].version
    BY <2>5, <2>6 DEF Sides, ReadOnce
  <2>8. \A s \in Sides : pair[s].address \in Seq(STRING) \ {<<>>}
    BY <2>4, SourcesAssumption
  <2>9. ASSUME NEW s \in Sides
        PROVE  IsPrefix(Project(Servers[server].markers).root, pair[s].address)
    <3> DEFINE addresses == {pair[t].address : t \in Sides}
    <3>1. addresses \in SUBSET (Seq(STRING) \ {<<>>}) /\ pair[s].address \in addresses
      BY <2>8
    <3> QED BY <3>1, RootIsAbove DEF Project
  <2> QED BY <2>7, <2>9
<1> QED BY <1>1, ShownInvariantHolds, PTL
-----------------------------------------------------------------------------
(* The order of the declarations.                                           *)
Clear(domain) == domain.kind # "Ambiguous"
SameIfClear(d, e) == d = e \/ (~Clear(d) /\ ~Clear(e))

(* A declared domain is given by the names of the declarations that match.  *)
LEMMA DomainsByName ==
  ASSUME NEW list, NEW matched \in SUBSET Nat, NEW list2, NEW matched2 \in SUBSET Nat,
         {list[i].name : i \in matched} = {list2[i].name : i \in matched2}
  PROVE  SameIfClear(DomainAmong(matched, list), DomainAmong(matched2, list2))
<1>1. CASE matched = {}
  <2>1. matched2 = {}
    BY <1>1
  <2> QED BY <1>1, <2>1 DEF DomainAmong, SameIfClear
<1>2. CASE matched # {}
  <2>1. matched2 # {}
    BY <1>2
  <2> DEFINE first == list[Min(matched)].name
             first2 == list2[Min(matched2)].name
             others == {i \in matched : list[i].name # first}
             others2 == {i \in matched2 : list2[i].name # first2}
  <2>2. Min(matched) \in matched /\ Min(matched2) \in matched2
    BY <1>2, <2>1, LeastIsThere
  <2>3. others = {} <=> others2 = {}
    BY <2>2
  <2>4. others = {} => first = first2
    BY <2>2
  <2>5. CASE others = {}
    <3>1. DomainAmong(matched, list) = [kind |-> "Declared", names |-> <<first>>]
      BY <1>2, <2>5 DEF DomainAmong
    <3>2. DomainAmong(matched2, list2) = [kind |-> "Declared", names |-> <<first2>>]
      BY <2>1, <2>3, <2>5 DEF DomainAmong
    <3> QED BY <2>4, <2>5, <3>1, <3>2 DEF SameIfClear
  <2>6. CASE others # {}
    <3>1. DomainAmong(matched, list)
            = [kind |-> "Ambiguous", names |-> <<first, list[Min(others)].name>>]
      BY <1>2, <2>6 DEF DomainAmong
    <3>2. DomainAmong(matched2, list2)
            = [kind |-> "Ambiguous", names |-> <<first2, list2[Min(others2)].name>>]
      BY <2>1, <2>3, <2>6 DEF DomainAmong
    <3> HIDE DEF others, others2, first, first2
    <3>3. DomainAmong(matched, list).kind = "Ambiguous"
      BY <3>1
    <3>4. DomainAmong(matched2, list2).kind = "Ambiguous"
      BY <3>2
    <3> QED BY <3>3, <3>4 DEF SameIfClear, Clear
  <2> QED BY <2>5, <2>6
<1> QED BY <1>1, <1>2

(* Two lists of declarations of which one is the other in another order.    *)
SameDeclared(d, e) ==
  /\ d.root = e.root
  /\ DOMAIN d.list \subseteq Nat /\ DOMAIN e.list = DOMAIN d.list
  /\ \E p \in [DOMAIN d.list -> DOMAIN d.list] :
       /\ \A i \in DOMAIN d.list : e.list[i] = d.list[p[i]]
       /\ \A j \in DOMAIN d.list : \E i \in DOMAIN d.list : p[i] = j

LEMMA DeclaredAlike ==
  ASSUME NEW d, NEW e, SameDeclared(d, e), NEW path
  PROVE  SameIfClear(DeclaredDomainOf(path, d), DeclaredDomainOf(path, e))
<1> PICK p \in [DOMAIN d.list -> DOMAIN d.list] :
      /\ \A i \in DOMAIN d.list : e.list[i] = d.list[p[i]]
      /\ \A j \in DOMAIN d.list : \E i \in DOMAIN d.list : p[i] = j
  BY DEF SameDeclared
<1> DEFINE place == FromRoot(path, d.root)
           names == {d.list[i].name : i \in Matching(path, d)}
           names2 == {e.list[i].name : i \in Matching(path, e)}
<1>1. d.root = e.root /\ DOMAIN e.list = DOMAIN d.list /\ DOMAIN d.list \subseteq Nat
  BY DEF SameDeclared
<1>2. /\ Matching(path, d) \subseteq DOMAIN d.list /\ Matching(path, e) \subseteq DOMAIN d.list
      /\ \A i \in DOMAIN d.list : i \in Matching(path, e) <=> p[i] \in Matching(path, d)
  BY <1>1 DEF Matching
<1>3. names = names2
  <2>1. ASSUME NEW n \in names PROVE n \in names2
    <3>1. PICK j \in Matching(path, d) : n = d.list[j].name
      OBVIOUS
    <3>2. PICK i \in DOMAIN d.list : p[i] = j
      BY <1>2
    <3> QED BY <1>2, <3>1, <3>2
  <2>2. ASSUME NEW n \in names2 PROVE n \in names
    <3>1. PICK i \in Matching(path, e) : n = e.list[i].name
      OBVIOUS
    <3> QED BY <1>2, <3>1
  <2> QED BY <2>1, <2>2
<1> QED BY <1>1, <1>2, <1>3, DomainsByName DEF DeclaredDomainOf

LEMMA ReorderedIsSame ==
  ASSUME NEW d, NEW r, NEW l, d = [root |-> r, list |-> l], DOMAIN l \subseteq Nat, NEW e \in Reordered(d)
  PROVE  SameDeclared(d, e)
<1>1. PICK p \in Bijection(DOMAIN l, DOMAIN l) :
        e = [d EXCEPT !.list = [i \in DOMAIN l |-> l[p[i]]]]
  BY DEF Reordered
<1>2. /\ p \in [DOMAIN l -> DOMAIN l]
      /\ \A j \in DOMAIN l : \E i \in DOMAIN l : p[i] = j
  BY DEF Bijection, Surjection, Injection
<1>3. e.root = d.root /\ e.list = [i \in DOMAIN l |-> l[p[i]]]
  BY <1>1
<1> QED BY <1>2, <1>3 DEF SameDeclared

(* What is counted of the domains does not depend on the order.             *)
LEMMA DomainAlike ==
  ASSUME NEW d, NEW e, SameDeclared(d, e), NEW path
  PROVE  SameIfClear(DomainOf(path, d), DomainOf(path, e))
<1>1. SameIfClear(DeclaredDomainOf(path, d), DeclaredDomainOf(path, e))
  BY DeclaredAlike
<1>2. CASE DeclaredDomainOf(path, d) = DeclaredDomainOf(path, e)
  BY <1>2 DEF DomainOf, SameIfClear
<1>3. CASE ~Clear(DeclaredDomainOf(path, d)) /\ ~Clear(DeclaredDomainOf(path, e))
  BY <1>3 DEF DomainOf, DirectoryUnless, SameIfClear, Clear
<1> QED BY <1>1, <1>2, <1>3 DEF SameIfClear

LEMMA CountsAlike ==
  ASSUME NEW d, NEW e, SameDeclared(d, e), NEW names, NEW none
  PROVE  CountedOutcome(names, d, none) = CountedOutcome(names, e, none)
<1> DEFINE domains(f) == [i \in DOMAIN names |-> DomainOf(names[i], f)]
<1>1. \A i \in DOMAIN names : SameIfClear(domains(d)[i], domains(e)[i])
  BY DomainAlike
<1>2. CASE \E i \in DOMAIN names : ~Clear(domains(d)[i])
  <2> DEFINE ambiguous(f) == {i \in DOMAIN names : domains(f)[i].kind = "Ambiguous"}
  <2>1. \A i \in DOMAIN names : domains(d)[i].kind = "Ambiguous" <=> domains(e)[i].kind = "Ambiguous"
    BY <1>1 DEF SameIfClear, Clear
  <2> HIDE DEF domains
  <2>2. ambiguous(d) = ambiguous(e) /\ ambiguous(d) # {}
    BY <1>2, <2>1 DEF Clear
  <2>3. \A f : ambiguous(f) # {} => OutcomeIn(names, domains(f), none)
                 = Because("AmbiguousDomain", <<names[Min(ambiguous(f))]>>)
    BY DEF OutcomeIn
  <2> HIDE DEF ambiguous
  <2>4. OutcomeIn(names, domains(d), none) = OutcomeIn(names, domains(e), none)
    BY <2>2, <2>3
  <2> QED BY <2>4 DEF CountedOutcome, domains
<1>3. CASE \A i \in DOMAIN names : Clear(domains(d)[i])
  <2>1. \A i \in DOMAIN names : DomainOf(names[i], d) = DomainOf(names[i], e)
    BY <1>1, <1>3 DEF SameIfClear
  <2>2. domains(d) = domains(e)
    BY <2>1
  <2> QED BY <2>2 DEF CountedOutcome
<1> QED BY <1>2, <1>3

LEMMA CallersAlike ==
  ASSUME NEW d, NEW e, SameDeclared(d, e), NEW answer
  PROVE  CallersOutcome(answer, d) = CallersOutcome(answer, e)
BY CountsAlike DEF CallersOutcome

LEMMA CalleesAlike ==
  ASSUME NEW d, NEW e, SameDeclared(d, e), NEW answer
  PROVE  CalleesOutcome(answer, d) = CalleesOutcome(answer, e)
BY CountsAlike DEF CalleesOutcome

LEMMA SemanticsAlike ==
  ASSUME NEW d, NEW e, SameDeclared(d, e), NEW replies, NEW failure
  PROVE  Semantics(replies, failure, d) = Semantics(replies, failure, e)
<1>1. CallerDomains(replies.callers, d) = CallerDomains(replies.callers, e)
  BY CallersAlike DEF CallerDomains
<1>2. CalleeDomains(replies.callees, d) = CalleeDomains(replies.callees, e)
  BY CalleesAlike DEF CalleeDomains
<1> QED BY <1>1, <1>2 DEF Semantics

LEMMA MeasurementsAlike ==
  ASSUME NEW d, NEW e, SameDeclared(d, e), ~AmbiguousFile(d), NEW replies, NEW failure
  PROVE  Measurements(pair, replies, failure, d) = Measurements(pair, replies, failure, e)
<1>1. \A s \in Sides : DeclaredDomainOf(pair[s].path, d) = DeclaredDomainOf(pair[s].path, e)
  BY DeclaredAlike DEF AmbiguousFile, SameIfClear, Clear
<1>2. [s \in Sides |-> DeclaredDomainOf(pair[s].path, d)]
        = [s \in Sides |-> DeclaredDomainOf(pair[s].path, e)]
  BY <1>1
<1>3. ModuleSeparation(pair, d) = ModuleSeparation(pair, e)
  BY <1>2 DEF ModuleSeparation
<1> QED BY <1>3, SemanticsAlike DEF Measurements

LEMMA AmbiguityAlike ==
  ASSUME NEW d, NEW e, SameDeclared(d, e)
  PROVE  AmbiguousFile(d) <=> AmbiguousFile(e)
BY DeclaredAlike DEF AmbiguousFile, SameIfClear, Clear

LEMMA ClarityAlike ==
  ASSUME NEW d, NEW e, SameDeclared(d, e)
  PROVE  DomainsAreClear(d) <=> DomainsAreClear(e)
BY DomainAlike DEF DomainsAreClear, IsAmbiguous, SameIfClear, Clear

-----------------------------------------------------------------------------
LEMMA DomainsStart == Init => DomainsInStep
<1> SUFFICES ASSUME Init PROVE DomainsInStep
  OBVIOUS
<1>1. /\ \E s \in Scenarios : toml = s.toml
      /\ settings = Unread /\ stage = <<"locate", "a">>
  BY DEF Init, CompareInit
<1>2. DOMAIN <<>> \subseteq Nat
  OBVIOUS
<1> QED BY <1>1, <1>2 DEF DomainsInStep, Unread, Refusal

LEMMA ConfigureKeepsDomains ==
  ASSUME DomainsInStep, Configure, UNCHANGED compareVars PROVE DomainsInStep'
<1>1. /\ UNCHANGED <<toml, stage, pair>> /\ settings.read = "unread" /\ stage = <<"locate", "a">>
  BY DEF Configure, compareVars, DomainsInStep
<1> DEFINE text == ConfigurationOfText(toml.lines)
<1>2. DOMAIN text.list \subseteq Nat
  BY ScenariosAssumption DEF DomainsInStep
<1>3. /\ settings' = [read |-> settings'.read, thresholds |-> settings'.thresholds,
                      declarations |-> [root |-> Root, list |-> settings'.declarations.list]]
      /\ DOMAIN settings'.declarations.list \subseteq Nat
  <2> HIDE DEF text
  <2>1. /\ settings = [read |-> settings.read, thresholds |-> settings.thresholds,
                       declarations |-> [root |-> Root, list |-> settings.declarations.list]]
        /\ DOMAIN settings.declarations.list \subseteq Nat
    BY DEF DomainsInStep
  <2>2. \/ \E read : settings' = [settings EXCEPT !.read = read]
        \/ \E thresholds : \E list \in {text.list, settings.declarations.list} :
             settings' = [read |-> "ready", thresholds |-> thresholds,
                          declarations |-> [root |-> Root, list |-> list]]
    <3>1. settings.declarations = [root |-> Root, list |-> settings.declarations.list]
      BY <2>1
    <3>2. CASE toml.kind = "Unreadable"
      BY <3>2 DEF Configure
    <3>3. CASE toml.kind = "Absent"
      <4>1. settings' = [read |-> "ready", thresholds |-> ConfiguredThresholds(Defaults),
                         declarations |-> settings.declarations]
        BY <3>3 DEF Configure
      <4> QED BY <3>1, <4>1
    <3>4. CASE toml.kind = "Text" /\ text.failure # "none"
      BY <3>4 DEF Configure, text
    <3>5. CASE /\ toml.kind \notin {"Unreadable", "Absent"}
               /\ ~(toml.kind = "Text" /\ text.failure # "none")
      <4>1. settings' = [read |-> "ready",
                         thresholds |-> ConfiguredThresholds(AppliedTo(Defaults, text.thresholds)),
                         declarations |-> [root |-> Root, list |-> text.list]]
        BY <3>5 DEF Configure, text
      <4> QED BY <4>1
    <3> QED BY <3>2, <3>3, <3>4, <3>5
  <2>3. ASSUME NEW read, settings' = [settings EXCEPT !.read = read]
        PROVE  settings'.declarations = [root |-> Root, list |-> settings.declarations.list]
               /\ settings' = [read |-> read, thresholds |-> settings.thresholds,
                              declarations |-> settings'.declarations]
    BY <2>1, <2>3
  <2>4. ASSUME NEW thresholds, NEW list \in {text.list, settings.declarations.list},
               settings' = [read |-> "ready", thresholds |-> thresholds,
                            declarations |-> [root |-> Root, list |-> list]]
        PROVE  settings'.declarations = [root |-> Root, list |-> list]
               /\ settings' = [read |-> "ready", thresholds |-> thresholds,
                              declarations |-> settings'.declarations]
    BY <2>4
  <2>5. ASSUME NEW list \in {text.list, settings.declarations.list}
        PROVE  DOMAIN list \subseteq Nat
    BY <1>2, <2>1
  <2>6. CASE \E read : settings' = [settings EXCEPT !.read = read]
    BY <2>1, <2>3, <2>6
  <2>7. CASE \E thresholds : \E list \in {text.list, settings.declarations.list} :
               settings' = [read |-> "ready", thresholds |-> thresholds,
                            declarations |-> [root |-> Root, list |-> list]]
    BY <2>4, <2>5, <2>7
  <2> QED BY <2>2, <2>6, <2>7
<1> QED BY <1>1, <1>3 DEF DomainsInStep, Refusal

(* What a step of compare has to say of the stages to keep it.              *)
LEMMA CompareKeepsDomains ==
  ASSUME DomainsInStep, UNCHANGED configVars, stage # <<"locate", "a">> \/ settings.read # "unread",
         stage' = Refusal("AmbiguousDomain") => AmbiguousFile(settings.declarations)',
         stage'[1] \notin {"locate", "measure", "refused"} => ~AmbiguousFile(settings.declarations)'
  PROVE  DomainsInStep'
BY DEF DomainsInStep, configVars

LEMMA LocateKeepsDomains ==
  ASSUME DomainsInStep, UNCHANGED configVars, RefuseSettings \/ \E s \in Sides : Locate(s)
  PROVE  DomainsInStep'
<1>1. settings.read # "unread"
  BY DEF RefuseSettings, Locate
<1>2. \/ stage' = <<"locate", "b">> \/ stage' = Turn("measure")
      \/ \E failure \in {"ConfigurationFailed", "UnreadableExtension", "SourceUnreadable",
                         "SourceUnparsable", "ChunkingFailed", "DifferentLanguages"} :
           stage' = Refusal(failure)
  <2>1. CASE RefuseSettings
    BY <2>1 DEF RefuseSettings, Refused
  <2>2. CASE \E s \in Sides : Locate(s)
    <3>1. PICK s \in Sides : Read(s, Sources[request[s].path])
      BY <2>2 DEF Locate
    <3>2. PICK v \in Readings(s, Sources[request[s].path]) :
            LET version == Sources[request[s].path].versions[v]
                failure == CutFailure(version, request[s].line)
            IN  \/ failure # "none" /\ Refused(failure)
                \/ Refused("DifferentLanguages")
                \/ stage' = <<"locate", "b">> \/ stage' = Turn("measure")
      BY <3>1 DEF Read
    <3>3. \A version, line : CutFailure(version, line)
            \in {"none", "UnreadableExtension", "SourceUnreadable", "SourceUnparsable", "ChunkingFailed"}
      BY DEF CutFailure
    <3> QED BY <3>2, <3>3 DEF Refused
  <2> QED BY <2>1, <2>2
<1> QED BY <1>1, <1>2, CompareKeepsDomains DEF Refusal, Turn

LEMMA MeasureKeepsDomains ==
  ASSUME DomainsInStep, UNCHANGED configVars, NEW peer, Measure(peer) PROVE DomainsInStep'
<1>1. UNCHANGED <<pair, settings>> /\ stage = Turn("measure")
  BY DEF Measure, configVars
<1>2. stage # <<"locate", "a">>
  BY <1>1 DEF Turn
<1>3. AmbiguousFile(settings.declarations)' <=> AmbiguousFile(settings.declarations)
  BY <1>1 DEF AmbiguousFile
<1>4. \/ stage' = Refusal("LanguageNotAccepted")
      \/ stage' = Refusal("AmbiguousDomain") /\ AmbiguousFile(settings.declarations)
      \/ stage' \in {Turn("report"), Turn("prepare")} /\ ~AmbiguousFile(settings.declarations)
  BY DEF Measure, Refused
<1> QED BY <1>2, <1>3, <1>4, CompareKeepsDomains DEF Refusal, Turn

(* After that no step looks at the domains or the pair.                     *)
LEMMA SessionKeepsDomains ==
  ASSUME DomainsInStep, UNCHANGED configVars, NEW peer, NEW s \in Sides,
         \/ Prepare(peer) \/ Open(peer, s) \/ AskTypes(peer, s) \/ AskMembership(peer, s)
         \/ AskCallers(peer, s) \/ AskCallees(peer, s) \/ ShutDown(peer) \/ Report
  PROVE  DomainsInStep'
<1>1. UNCHANGED <<pair, settings>>
  BY DEF configVars, Prepare, Open, AskTypes, AskMembership, AskCallers, AskCallees, ShutDown, Report, Note
<1>2. \A i \in 1..11 : Course[i][1] \notin {"locate", "measure", "refused"}
  BY DEF Course, Turn
<1>3. /\ \A q \in QuestionNames : \E i \in 1..10 : <<q, s>> = Course[i]
      /\ \E i \in 1..10 : <<"open", s>> = Course[i]
  BY TurnsOfQuestions, StagesOfTheCourse DEF Asking, Sides
<1>4. \/ /\ stage \in {Turn("prepare"), Turn("shutdown"), Turn("report")} \cup {Course[i] : i \in 1..10}
         /\ stage' \in {Turn("shutdown"), Turn("report"), stage, <<"open", "a">>}
      \/ \E i \in 1..10 : stage = Course[i] /\ stage' = Following(stage)
  <2>1. CASE Prepare(peer) \/ ShutDown(peer) \/ Report
    BY <2>1 DEF Prepare, SetupFails, ShutDown, Report
  <2>2. CASE Open(peer, s)
    BY <1>3, <2>2 DEF Open
  <2>3. CASE AskTypes(peer, s) \/ AskMembership(peer, s) \/ AskCallers(peer, s) \/ AskCallees(peer, s)
    BY <1>3, <2>3 DEF AskTypes, AskMembership, AskCallers, AskCallees, Note, QuestionNames
  <2> QED BY <2>1, <2>2, <2>3
<1>5. stage[1] \notin {"locate", "measure", "refused"} /\ stage'[1] \notin {"locate", "measure", "refused"}
  <2>1. \A i \in 1..10 : Following(Course[i])[1] \notin {"locate", "measure", "refused"}
    BY <1>2, FollowingIsNext
  <2>2. \A what \in {"prepare", "shutdown", "report"} :
           Turn(what)[1] \notin {"locate", "measure", "refused"}
    BY DEF Turn
  <2>3. <<"open", "a">>[1] = "open"
    OBVIOUS
  <2> QED BY <1>2, <1>4, <2>1, <2>2, <2>3
<1>6. AmbiguousFile(settings.declarations)' <=> AmbiguousFile(settings.declarations)
  BY <1>1 DEF AmbiguousFile
<1> QED BY <1>5, <1>6, CompareKeepsDomains DEF DomainsInStep, Refusal

(* At every stage: what was declared is a list, and no pair gets past the   *)
(* look at the domains of its files unless they are clear.                  *)
THEOREM DomainsInStepHolds == Spec => []DomainsInStep
<1>1. DomainsInStep /\ [Next]_vars => DomainsInStep'
  <2> SUFFICES ASSUME DomainsInStep, [Next]_vars PROVE DomainsInStep'
    OBVIOUS
  <2>1. CASE UNCHANGED configVars /\ UNCHANGED compareVars
    BY <2>1 DEF DomainsInStep, AmbiguousFile, configVars, compareVars
  <2>2. CASE Configure /\ UNCHANGED compareVars
    BY <2>2, ConfigureKeepsDomains
  <2>3. CASE CompareNext
    <3>1. UNCHANGED configVars /\ CompareWith(Server)
      BY <2>3 DEF CompareNext
    <3>2. CASE RefuseSettings \/ \E s \in Sides : Locate(s)
      BY <3>1, <3>2, LocateKeepsDomains
    <3>3. CASE Measure(Server)
      BY <3>1, <3>3, MeasureKeepsDomains
    <3>4. CASE \E s \in Sides : \/ Prepare(Server) \/ Open(Server, s) \/ AskTypes(Server, s)
                                \/ AskMembership(Server, s) \/ AskCallers(Server, s)
                                \/ AskCallees(Server, s) \/ ShutDown(Server) \/ Report
      BY <3>1, <3>4, SessionKeepsDomains
    <3>5. "a" \in Sides
      BY DEF Sides
    <3> QED BY <3>1, <3>2, <3>3, <3>4, <3>5 DEF CompareWith
  <2>4. CASE CheckNext /\ UNCHANGED compareVars
    BY <2>1, <2>4 DEF CheckNext
  <2> QED BY <2>1, <2>2, <2>3, <2>4 DEF Next, vars
<1> QED BY <1>1, DomainsStart, PTL DEF Spec

(* Whatever the declarations, files and answers of the server: written in   *)
(* another order, the declarations of dryguard.toml lead to the same end of *)
(* compare with the same signals, and stop check for the same files         *)
(* (declared_domain_of, of_path, outcome_of).                               *)
THEOREM DeclarationsHaveNoOrder == Spec => []OrderOfDeclarationsIsMoot
<1>1. DomainsInStep => OrderOfDeclarationsIsMoot
  <2> SUFFICES ASSUME DomainsInStep, NEW declarations \in Reordered(settings.declarations)
               PROVE  /\ ComparesAlike(declarations)
                      /\ DomainsAreClear(declarations) <=> DomainsAreClear(settings.declarations)
    BY DEF OrderOfDeclarationsIsMoot
  <2>1. /\ settings.declarations = [root |-> Root, list |-> settings.declarations.list]
        /\ DOMAIN settings.declarations.list \subseteq Nat
    BY DEF DomainsInStep
  <2>2. SameDeclared(settings.declarations, declarations)
    BY <2>1, ReorderedIsSame
  <2>3. AmbiguousFile(settings.declarations) <=> AmbiguousFile(declarations)
    BY <2>2, AmbiguityAlike
  <2>4. stage = Refusal("AmbiguousDomain") => AmbiguousFile(settings.declarations)
    BY DEF DomainsInStep
  <2>5. stage = Turn("report") => /\ ~AmbiguousFile(settings.declarations)
                                  /\ stage # Refusal("AmbiguousDomain")
    BY DEF DomainsInStep, Turn, Refusal
  <2>6. stage = Turn("report") =>
          Measurements(pair, asked, setup, settings.declarations)
            = Measurements(pair, asked, setup, declarations)
    BY <2>2, <2>5, MeasurementsAlike
  <2>7. ComparesAlike(declarations)
    BY <2>3, <2>4, <2>5, <2>6 DEF ComparesAlike, MeasuredPair
  <2> QED BY <2>2, <2>7, ClarityAlike
<1> QED BY <1>1, DomainsInStepHolds, PTL

-----------------------------------------------------------------------------
(* The report. A signal has one line or none, in either format.             *)
LEMMA OneLine ==
  ASSUME NEW status, NEW reason, NEW held
  PROVE  /\ SignalJson({status}, reason, held) = Says(status, reason, held)
         /\ SignalJson({}, reason, held) = {}
BY DEF SignalJson, Says

LEMMA StructureAgrees ==
  ASSUME NEW reason
  PROVE  LET statuses == OverlapStatus(reason.signal)
         IN  StructureText(reason) = SignalJson(statuses, reason, MeasuredHeld(statuses, reason.held))
<1>1. CASE reason.signal = "Measured"
  BY <1>1, OneLine DEF OverlapStatus, Valued, MeasuredHeld, StructureText
<1>2. CASE reason.signal # "Measured"
  BY <1>2, OneLine DEF OverlapStatus, Valued, MeasuredHeld, StructureText
<1> QED BY <1>1, <1>2

LEMMA LeavesAgree ==
  ASSUME NEW reason, reason.signal \in LeafKinds, NEW explanation
  PROVE  LeavesText(reason, explanation)
           = SignalJson(LeavesStatus(reason.signal, explanation), reason, Unheld)
<1>1. CASE reason.signal \in {"NoDivergence", "Diverged"}
  BY <1>1, OneLine DEF LeavesText, LeavesStatus, Valued
<1>2. CASE reason.signal = "NoTokens"
  BY <1>2, OneLine DEF LeavesText, LeavesStatus, Valued
<1>3. CASE reason.signal = "Unaligned"
  BY <1>3, OneLine DEF LeavesText, LeavesStatus, Valued, NoStatus, SaysNothing
<1> QED BY <1>1, <1>2, <1>3 DEF LeafKinds

LEMMA ImportsAgree ==
  ASSUME NEW reason, NEW explanation \in Explanations
  PROVE  ImportsText(reason, explanation)
           = OverlapJson(OverlapStatus(reason.signal), reason, explanation)
<1>1. CASE reason.signal = "Measured"
  BY <1>1, OneLine DEF ImportsText, OverlapStatus, Valued, OverlapJson, ExplainedHeld,
                       MeasuredHeld, AppliedText, Explanations
<1>2. CASE reason.signal # "Measured"
  BY <1>2, OneLine DEF ImportsText, OverlapStatus, Valued, OverlapJson, ExplainedHeld,
                       MeasuredHeld
<1> QED BY <1>1, <1>2

LEMMA DistanceAgrees ==
  ASSUME NEW reason, NEW explanation \in Explanations
  PROVE  DistanceText(reason, explanation)
           = SignalJson(Valued("measured"), reason, ExplainedSteps(reason, explanation))
BY OneLine DEF DistanceText, Valued, ExplainedSteps, AppliedText, Explanations

LEMMA UnavailableAgrees ==
  ASSUME NEW reason, reason.signal \in Unavailables, NEW explanation \in Explanations
  PROVE  /\ UnavailableText(reason, explanation)
              = SignalJson(UnavailableStatus(reason.signal, explanation), reason, Unheld)
         /\ UnavailableStatus(reason.signal, explanation) # {"measured"}
<1>1. CASE reason.signal = "NotAsked" /\ explanation = "AskedSignals"
  BY <1>1, OneLine DEF UnavailableText, UnavailableStatus, NoStatus, SaysNothing
<1>2. CASE reason.signal = "NotAsked" /\ explanation = "AllSignals"
  BY <1>2, OneLine DEF UnavailableText, UnavailableStatus, Valued
<1>3. CASE reason.signal = "NotACandidate"
  BY <1>3, OneLine DEF UnavailableText, UnavailableStatus, Valued
<1>4. CASE reason.signal \notin {"NotAsked", "NotACandidate"}
  BY <1>4, OneLine DEF UnavailableText, UnavailableStatus, Valued
<1> QED BY <1>1, <1>2, <1>3, <1>4 DEF Explanations

LEMMA TypesAgree ==
  ASSUME NEW reason, NEW explanation \in Explanations
  PROVE  TypesText(reason, explanation)
           = SignalJson(TypesStatus(reason.signal, explanation), reason, Unheld)
<1>1. CASE reason.signal \in Unavailables
  <2>1. reason.signal \notin {"unifiable", "notUnifiable"}
    BY <1>1 DEF Unavailables
  <2> QED BY <1>1, <2>1, UnavailableAgrees DEF TypesText, TypesStatus
<1>2. CASE reason.signal \in {"unifiable", "notUnifiable"}
  <2>1. reason.signal \notin Unavailables
    BY <1>2 DEF Unavailables
  <2> QED BY <1>2, <2>1, OneLine DEF TypesText, TypesStatus, Valued
<1>3. CASE reason.signal \notin Unavailables \cup {"unifiable", "notUnifiable"}
  BY <1>3, OneLine DEF TypesText, TypesStatus, Valued
<1> QED BY <1>1, <1>2, <1>3

LEMMA DomainsAgree ==
  ASSUME NEW reason, NEW explanation \in Explanations
  PROVE  DomainsText(reason, explanation)
           = OverlapJson(DomainsStatus(reason.signal, explanation), reason, explanation)
<1>1. CASE reason.signal \in Unavailables
  <2>1. reason.signal # "Measured"
    BY <1>1 DEF Unavailables
  <2>2. DomainsText(reason, explanation) = UnavailableText(reason, explanation)
    BY <1>1, <2>1 DEF DomainsText
  <2>3. DomainsStatus(reason.signal, explanation) = UnavailableStatus(reason.signal, explanation)
    BY <1>1 DEF DomainsStatus
  <2> QED BY <1>1, <2>2, <2>3, UnavailableAgrees DEF OverlapJson, ExplainedHeld, MeasuredHeld, Valued
<1>2. CASE reason.signal = "Measured"
  <2>1. reason.signal \notin Unavailables
    BY <1>2 DEF Unavailables
  <2>2. DomainsStatus(reason.signal, explanation) = {"measured"}
    BY <1>2, <2>1 DEF DomainsStatus, OverlapStatus, Valued
  <2>3. AppliedText(reason, explanation) = ExplainedHeld({"measured"}, reason.held, explanation)
    BY DEF AppliedText, ExplainedHeld, MeasuredHeld, Valued, Explanations
  <2>4. DomainsText(reason, explanation)
          = Says("measured", reason, AppliedText(reason, explanation))
    BY <1>2, <2>1 DEF DomainsText
  <2> QED BY <2>2, <2>3, <2>4, OneLine DEF OverlapJson
<1>3. CASE reason.signal \notin Unavailables \cup {"Measured"}
  <2>1. DomainsStatus(reason.signal, explanation) = {"unmeasurable"}
    BY <1>3 DEF DomainsStatus, OverlapStatus, Valued
  <2> QED BY <1>3, <2>1, OneLine DEF DomainsText, OverlapJson, ExplainedHeld, MeasuredHeld, Valued
<1> QED BY <1>1, <1>2, <1>3

LEMMA PairsAgree ==
  ASSUME NEW reasons, reasons.leaves.signal \in LeafKinds
  PROVE  FormatsAgree(reasons)
<1> SUFFICES ASSUME NEW explanation \in Explanations
             PROVE  PairText(reasons, explanation) = PairJson(reasons, explanation)
  BY DEF FormatsAgree
<1>1. StructureText(reasons.structure)
        = SignalJson(OverlapStatus(reasons.structure.signal), reasons.structure,
                     MeasuredHeld(OverlapStatus(reasons.structure.signal), reasons.structure.held))
  BY StructureAgrees
<1>2. LeavesText(reasons.leaves, explanation)
        = SignalJson(LeavesStatus(reasons.leaves.signal, explanation), reasons.leaves, Unheld)
  BY LeavesAgree
<1>3. ImportsText(reasons.imports, explanation)
        = OverlapJson(OverlapStatus(reasons.imports.signal), reasons.imports, explanation)
  BY ImportsAgree
<1>4. DistanceText(reasons.distance, explanation)
        = SignalJson(Valued("measured"), reasons.distance,
                     ExplainedSteps(reasons.distance, explanation))
  BY DistanceAgrees
<1>5. TypesText(reasons.types, explanation)
        = SignalJson(TypesStatus(reasons.types.signal, explanation), reasons.types, Unheld)
  BY TypesAgree
<1>6. \A reason : DomainsText(reason, explanation)
        = OverlapJson(DomainsStatus(reason.signal, explanation), reason, explanation)
  BY DomainsAgree
<1> QED BY <1>1, <1>2, <1>3, <1>4, <1>5, <1>6 DEF PairText, PairJson

(* What --explain adds to the line of one signal.                           *)
OnlyAdds(brief, full) ==
  /\ \A line \in brief : \E more \in full : WithoutHeld(more) = WithoutHeld(line)
  /\ \A line \in full : brief = {} => line.status = "notAsked"

LEMMA HeldAside ==
  ASSUME NEW status, NEW reason, NEW less, NEW more
  PROVE  OnlyAdds(Says(status, reason, less), Says(status, reason, more))
<1> DEFINE line(held) == [status |-> status, signal |-> reason.signal, value |-> reason.value,
                          lean |-> reason.lean, held |-> held]
<1>1. \A held : WithoutHeld(line(held)) = line(Unheld)
  BY DEF WithoutHeld
<1>2. \A held : Says(status, reason, held) = {line(held)}
  BY DEF Says
<1> HIDE DEF line
<1> QED BY <1>1, <1>2 DEF OnlyAdds

LEMMA HiddenUnasked ==
  ASSUME NEW reason PROVE OnlyAdds({}, Says("notAsked", reason, Unheld))
BY DEF OnlyAdds, Says

LEMMA UnavailableAdds ==
  ASSUME NEW reason
  PROVE  OnlyAdds(UnavailableText(reason, "AskedSignals"), UnavailableText(reason, "AllSignals"))
BY HeldAside, HiddenUnasked DEF UnavailableText, SaysNothing

LEMMA LinesAdd ==
  ASSUME NEW reason
  PROVE  /\ OnlyAdds(StructureText(reason), StructureText(reason))
         /\ OnlyAdds(LeavesText(reason, "AskedSignals"), LeavesText(reason, "AllSignals"))
         /\ OnlyAdds(ImportsText(reason, "AskedSignals"), ImportsText(reason, "AllSignals"))
         /\ OnlyAdds(DistanceText(reason, "AskedSignals"), DistanceText(reason, "AllSignals"))
         /\ OnlyAdds(TypesText(reason, "AskedSignals"), TypesText(reason, "AllSignals"))
         /\ OnlyAdds(DomainsText(reason, "AskedSignals"), DomainsText(reason, "AllSignals"))
<1>1. OnlyAdds(StructureText(reason), StructureText(reason))
  BY HeldAside DEF StructureText
<1>2. OnlyAdds(LeavesText(reason, "AskedSignals"), LeavesText(reason, "AllSignals"))
  BY HeldAside, HiddenUnasked DEF LeavesText, SaysNothing
<1>3. OnlyAdds(ImportsText(reason, "AskedSignals"), ImportsText(reason, "AllSignals"))
  BY HeldAside DEF ImportsText
<1>4. OnlyAdds(DistanceText(reason, "AskedSignals"), DistanceText(reason, "AllSignals"))
  BY HeldAside DEF DistanceText
<1>5. OnlyAdds(TypesText(reason, "AskedSignals"), TypesText(reason, "AllSignals"))
  BY HeldAside, UnavailableAdds DEF TypesText
<1>6. OnlyAdds(DomainsText(reason, "AskedSignals"), DomainsText(reason, "AllSignals"))
  BY HeldAside, UnavailableAdds DEF DomainsText
<1> QED BY <1>1, <1>2, <1>3, <1>4, <1>5, <1>6

LEMMA PairAdds == ASSUME NEW reasons PROVE ExplainOnlyAdds(reasons)
<1> DEFINE brief == PairText(reasons, "AskedSignals")
           full == PairText(reasons, "AllSignals")
<1>1. \A s \in Signals : OnlyAdds(brief[s], full[s])
  BY LinesAdd DEF PairText, Signals
<1> QED BY <1>1 DEF ExplainOnlyAdds, OnlyAdds

-----------------------------------------------------------------------------
(* The lean of a signal, as its line tells it.                              *)
SaysAtMost(lines, reason) ==
  lines = {} \/ \E status, held : lines = Says(status, reason, held)

LEMMA LinesSay ==
  ASSUME NEW reason, NEW explanation
  PROVE  /\ \E status, held : StructureText(reason) = Says(status, reason, held)
         /\ SaysAtMost(LeavesText(reason, explanation), reason)
         /\ \E status, held : ImportsText(reason, explanation) = Says(status, reason, held)
         /\ \E status, held : DistanceText(reason, explanation) = Says(status, reason, held)
         /\ SaysAtMost(TypesText(reason, explanation), reason)
         /\ SaysAtMost(DomainsText(reason, explanation), reason)
<1>1. SaysAtMost(UnavailableText(reason, explanation), reason)
  BY DEF SaysAtMost, UnavailableText, SaysNothing
<1>2. \E status, held : StructureText(reason) = Says(status, reason, held)
  BY DEF StructureText
<1>3. SaysAtMost(LeavesText(reason, explanation), reason)
  BY DEF SaysAtMost, LeavesText, SaysNothing
<1>4. \E status, held : ImportsText(reason, explanation) = Says(status, reason, held)
  BY DEF ImportsText
<1>5. \E status, held : DistanceText(reason, explanation) = Says(status, reason, held)
  BY DEF DistanceText
<1>6. SaysAtMost(TypesText(reason, explanation), reason)
  BY <1>1 DEF SaysAtMost, TypesText
<1>7. SaysAtMost(DomainsText(reason, explanation), reason)
  BY <1>1 DEF SaysAtMost, DomainsText
<1> QED BY <1>2, <1>3, <1>4, <1>5, <1>6, <1>7

LEMMA LeanIsTold ==
  ASSUME NEW reason, NEW lines, SaysAtMost(lines, reason), lines = {} => reason.lean = "neither"
  PROVE  LeanToldOf(lines) = reason.lean
<1>1. CASE lines = {}
  BY <1>1 DEF LeanToldOf
<1>2. CASE lines # {}
  <2>1. PICK status, held : lines = Says(status, reason, held)
    BY <1>2 DEF SaysAtMost
  <2>2. (CHOOSE line \in lines : TRUE) \in lines
    BY <1>2
  <2>3. \A line \in lines : line.lean = reason.lean
    BY <2>1 DEF Says
  <2> QED BY <1>2, <2>2, <2>3 DEF LeanToldOf
<1> QED BY <1>1, <1>2

(* What is not shown does not lean.                                         *)
LEMMA HiddenIsNeither ==
  ASSUME NEW m, NEW thresholds, m.leaves \in LeafKinds, NEW explanation
  PROVE  LET reasons == ReasonsOf(m, thresholds)
         IN  /\ LeavesText(reasons.leaves, explanation) = {} => reasons.leaves.lean = "neither"
             /\ TypesText(reasons.types, explanation) = {} => reasons.types.lean = "neither"
             /\ DomainsText(reasons.callers, explanation) = {} => reasons.callers.lean = "neither"
             /\ DomainsText(reasons.callees, explanation) = {} => reasons.callees.lean = "neither"
<1> DEFINE reasons == ReasonsOf(m, thresholds)
           judged == Judged(m, thresholds)
<1>1. \A status, reason, held : Says(status, reason, held) # {}
  BY DEF Says
<1>2. /\ reasons.leaves.signal = m.leaves
      /\ reasons.leaves.lean = Judge!LeafLean(judged.leaves)
      /\ reasons.types.signal = ToldOf(m.types.kind)
      /\ reasons.types.lean = Judge!TypeLean(judged.types)
      /\ reasons.callers.signal = ToldOf(m.callers.kind)
      /\ reasons.callers.lean = Judge!OverlapLean(judged.callers, 1)
      /\ reasons.callees.signal = ToldOf(m.callees.kind)
      /\ reasons.callees.lean = Judge!OverlapLean(judged.callees, 1)
  BY DEF ReasonsOf, Reason, Judge!LeansOf, Crossed
<1>3. /\ judged.leaves = IF m.leaves \in DOMAIN LeafSignal THEN LeafSignal[m.leaves] ELSE Absent
      /\ judged.types = IF m.types.kind \in {"unifiable", "notUnifiable"} THEN m.types.kind ELSE Absent
      /\ judged.callers = LevelOf(m.callers, thresholds.callers)
      /\ judged.callees = LevelOf(m.callees, SharedCalleeDomainsThreshold)
  BY DEF Judged
<1> HIDE DEF reasons, judged
<1>4. LeavesText(reasons.leaves, explanation) = {} => reasons.leaves.lean = "neither"
  <2>1. CASE m.leaves \in {"NoDivergence", "Diverged", "NoTokens"}
    BY <1>1, <1>2, <2>1 DEF LeavesText
  <2>2. CASE m.leaves = "Unaligned"
    <3>1. judged.leaves = Absent
      BY <1>3, <2>2 DEF LeafSignal
    <3> QED BY <1>2, <3>1, AbsentAssumption DEF Judge!LeafLean
  <2> QED BY <2>1, <2>2 DEF LeafKinds
<1>5. \A reason : UnavailableText(reason, explanation) = {} => reason.signal = "NotAsked"
  BY <1>1 DEF UnavailableText
<1>6. \A kind : ToldOf(kind) = "NotAsked" => kind = "NotAsked"
  BY DEF ToldOf
<1>7. TypesText(reasons.types, explanation) = {} => reasons.types.lean = "neither"
  <2> SUFFICES ASSUME TypesText(reasons.types, explanation) = {}
               PROVE  reasons.types.lean = "neither"
    OBVIOUS
  <2>1. reasons.types.signal = "NotAsked"
    BY <1>1, <1>5 DEF TypesText
  <2>2. m.types.kind = "NotAsked"
    BY <1>2, <1>6, <2>1
  <2>3. judged.types = Absent
    BY <1>3, <2>2
  <2> QED BY <1>2, <2>3, AbsentAssumption DEF Judge!TypeLean
<1>8. \A reason : DomainsText(reason, explanation) = {} => reason.signal = "NotAsked"
  BY <1>1, <1>5 DEF DomainsText
<1>9. \A signal, threshold : signal.kind = "NotAsked" =>
        Judge!OverlapLean(LevelOf(signal, threshold), 1) = "neither"
  BY DEF LevelOf, Judge!OverlapLean
<1>10. DomainsText(reasons.callers, explanation) = {} => reasons.callers.lean = "neither"
  BY <1>2, <1>3, <1>6, <1>8, <1>9
<1>11. DomainsText(reasons.callees, explanation) = {} => reasons.callees.lean = "neither"
  BY <1>2, <1>3, <1>6, <1>8, <1>9
<1> QED BY <1>4, <1>7, <1>10, <1>11 DEF reasons

(* Nothing that the verdict depends on is left out of the report.           *)
LEMMA VerdictIsTold ==
  ASSUME NEW m, NEW thresholds, m.leaves \in LeafKinds, NEW explanation
  PROVE  ToldVerdict(PairText(ReasonsOf(m, thresholds), explanation)) = VerdictOf(m, thresholds)
<1> DEFINE reasons == ReasonsOf(m, thresholds)
           told == PairText(reasons, explanation)
           judged == Judged(m, thresholds)
           leans == Judge!LeansOf(judged, Crossed)
           similar == Judge!IsStructurallySimilar(judged.structure, Crossed.structure)
<1>1. /\ reasons.structure.lean = IF similar THEN "extract" ELSE "neither"
      /\ reasons.leaves.lean = leans.leaves /\ reasons.imports.lean = leans.imports
      /\ reasons.distance.lean = leans.distance /\ reasons.types.lean = leans.types
      /\ reasons.callers.lean = leans.callers /\ reasons.callees.lean = leans.callees
  BY DEF ReasonsOf, Reason
<1>2. leans = [s \in {"leaves", "imports", "distance", "types", "callers", "callees"} |-> leans[s]]
  BY DEF Judge!LeansOf
<1>3. VerdictOf(m, thresholds) = Judge!VerdictOf(similar, leans)
  BY DEF VerdictOf, Judge!ClassificationOf
<1>4. /\ told.structure = StructureText(reasons.structure)
      /\ told.leaves = LeavesText(reasons.leaves, explanation)
      /\ told.imports = ImportsText(reasons.imports, explanation)
      /\ told.distance = DistanceText(reasons.distance, explanation)
      /\ told.types = TypesText(reasons.types, explanation)
      /\ told.callers = DomainsText(reasons.callers, explanation)
      /\ told.callees = DomainsText(reasons.callees, explanation)
  BY DEF PairText
<1>5. /\ told.leaves = {} => reasons.leaves.lean = "neither"
      /\ told.types = {} => reasons.types.lean = "neither"
      /\ told.callers = {} => reasons.callers.lean = "neither"
      /\ told.callees = {} => reasons.callees.lean = "neither"
  BY <1>4, HiddenIsNeither
<1> HIDE DEF reasons, told, judged, leans, similar
<1>6. \A status, reason, held : Says(status, reason, held) # {}
  BY DEF Says
<1>7. /\ LeanToldOf(told.structure) = reasons.structure.lean
      /\ LeanToldOf(told.imports) = reasons.imports.lean
      /\ LeanToldOf(told.distance) = reasons.distance.lean
  <2>1. \A reason, lines : (\E status, held : lines = Says(status, reason, held))
                             => LeanToldOf(lines) = reason.lean
    BY <1>6, LeanIsTold DEF SaysAtMost
  <2> QED BY <1>4, <2>1, LinesSay
<1>8. LeanToldOf(told.leaves) = reasons.leaves.lean
  BY <1>4, <1>5, LinesSay, LeanIsTold
<1>9. LeanToldOf(told.types) = reasons.types.lean
  BY <1>4, <1>5, LinesSay, LeanIsTold
<1>10. LeanToldOf(told.callers) = reasons.callers.lean
  BY <1>4, <1>5, LinesSay, LeanIsTold
<1>11. LeanToldOf(told.callees) = reasons.callees.lean
  BY <1>4, <1>5, LinesSay, LeanIsTold
<1>12. [s \in Signals \ {"structure"} |-> LeanToldOf(told[s])] = leans
  <2>1. Signals \ {"structure"} = {"leaves", "imports", "distance", "types", "callers", "callees"}
    BY DEF Signals
  <2>2. \A s \in Signals \ {"structure"} : LeanToldOf(told[s]) = leans[s]
    BY <1>1, <1>7, <1>8, <1>9, <1>10, <1>11, <2>1
  <2> QED BY <1>2, <2>1, <2>2
<1>13. LeanToldOf(told.structure) = "extract" <=> similar
  BY <1>1, <1>7
<1>14. (LeanToldOf(told.structure) = "extract") = similar
  BY <1>13 DEF similar, Judge!IsStructurallySimilar
<1> QED BY <1>3, <1>12, <1>14 DEF ToldVerdict, told, reasons

-----------------------------------------------------------------------------
(* What a threshold says of a value is how the signal leans.                *)
Follows(reason, held) ==
  \A h \in held : reason.lean = "extract" <=>
    IF reason.signal = "Directories" THEN reason.value < h ELSE AtLeast(reason.value, h)

LEMMA SaysBears ==
  ASSUME NEW status, NEW reason, NEW held, status = "measured" => Follows(reason, held)
  PROVE  \A line \in Says(status, reason, held) : Bears(line)
BY DEF Says, Bears, Follows

LEMMA UnheldFollows == ASSUME NEW reason PROVE Follows(reason, Unheld)
BY DEF Follows, Unheld

LEMMA LinesBear ==
  ASSUME NEW reason, NEW explanation
  PROVE  /\ (reason.signal = "Measured" => Follows(reason, reason.held)) =>
              /\ \A line \in StructureText(reason) : Bears(line)
              /\ \A line \in ImportsText(reason, explanation) : Bears(line)
              /\ \A line \in DomainsText(reason, explanation) : Bears(line)
         /\ (reason.signal = "Directories" => Follows(reason, reason.held)) =>
              \A line \in DistanceText(reason, explanation) : Bears(line)
         /\ \A line \in LeavesText(reason, explanation) : Bears(line)
         /\ \A line \in TypesText(reason, explanation) : Bears(line)
<1> DEFINE bear(lines) == \A line \in lines : Bears(line)
<1>1. \A status : bear(Says(status, reason, Unheld))
  BY SaysBears, UnheldFollows
<1>2. Follows(reason, reason.held) =>
        /\ bear(Says("measured", reason, reason.held))
        /\ bear(Says("measured", reason, AppliedText(reason, explanation)))
  BY SaysBears, UnheldFollows DEF AppliedText
<1>3. bear(SaysNothing)
  BY DEF SaysNothing
<1> HIDE DEF bear
<1>4. bear(UnavailableText(reason, explanation))
  BY <1>1, <1>3 DEF UnavailableText
<1>5. (reason.signal = "Measured" => Follows(reason, reason.held)) =>
        bear(StructureText(reason)) /\ bear(ImportsText(reason, explanation))
  BY <1>1, <1>2 DEF StructureText, ImportsText
<1>6. (reason.signal = "Measured" => Follows(reason, reason.held)) =>
        bear(DomainsText(reason, explanation))
  BY <1>1, <1>2, <1>4 DEF DomainsText
<1>7. (reason.signal = "Directories" => Follows(reason, reason.held)) =>
        bear(DistanceText(reason, explanation))
  BY <1>1, <1>2 DEF DistanceText
<1>8. bear(LeavesText(reason, explanation))
  BY <1>1, <1>3 DEF LeavesText
<1>9. bear(TypesText(reason, explanation))
  BY <1>1, <1>4 DEF TypesText
<1> QED BY <1>5, <1>6, <1>7, <1>8, <1>9 DEF bear

(* A measured overlap, held against its threshold.                          *)
LEMMA HeldLeans ==
  ASSUME NEW overlap, NEW threshold
  PROVE  /\ Held(overlap, threshold) # Absent
         /\ Judge!OverlapLean(Held(overlap, threshold), 1) = "extract" <=> AtLeast(overlap, threshold)
         /\ Judge!IsStructurallySimilar(Held(overlap, threshold), 1) <=> AtLeast(overlap, threshold)
<1>1. CASE AtLeast(overlap, threshold)
  BY <1>1, AbsentAssumption DEF Held, Judge!OverlapLean, Judge!IsStructurallySimilar
<1>2. CASE ~AtLeast(overlap, threshold)
  BY <1>2, AbsentAssumption DEF Held, Judge!OverlapLean, Judge!IsStructurallySimilar
<1> QED BY <1>1, <1>2

LEMMA ReasonsFollow ==
  ASSUME NEW m, NEW thresholds
  PROVE  LET reasons == ReasonsOf(m, thresholds)
         IN  /\ \A s \in {"structure", "imports", "callers", "callees"} :
                  reasons[s].signal = "Measured" => Follows(reasons[s], reasons[s].held)
             /\ reasons.distance.signal = "Directories" =>
                  Follows(reasons.distance, reasons.distance.held)
<1> DEFINE reasons == ReasonsOf(m, thresholds)
           judged == Judged(m, thresholds)
           similar == Judge!IsStructurallySimilar(judged.structure, 1)
           steps == m.separation.declared = {}
<1> USE DEF Follows
<1>1. /\ reasons.structure = Reason(IF m.structure = Absent THEN "NoTokens" ELSE "Measured",
                                    m.structure, IF similar THEN "extract" ELSE "neither",
                                    {thresholds.structure})
      /\ reasons.imports = Reason(m.imports.kind, ValueOf(m.imports),
                                  Judge!OverlapLean(judged.imports, 1), {thresholds.imports})
      /\ reasons.callers = Reason(ToldOf(m.callers.kind), ValueOf(m.callers),
                                  Judge!OverlapLean(judged.callers, 1), {thresholds.callers})
      /\ reasons.callees = Reason(ToldOf(m.callees.kind), ValueOf(m.callees),
                                  Judge!OverlapLean(judged.callees, 1),
                                  {SharedCalleeDomainsThreshold})
      /\ reasons.distance = Reason(IF steps THEN "Directories" ELSE "Declared",
                                   IF steps THEN m.separation.steps ELSE m.separation.declared,
                                   Judge!DistanceLean(judged.separation),
                                   {Judge!SeparateDirectorySteps})
  BY DEF ReasonsOf, Judge!LeansOf, Crossed
<1>2. /\ judged.structure = Level(m.structure, thresholds.structure)
      /\ judged.imports = LevelOf(m.imports, thresholds.imports)
      /\ judged.callers = LevelOf(m.callers, thresholds.callers)
      /\ judged.callees = LevelOf(m.callees, SharedCalleeDomainsThreshold)
      /\ judged.separation = m.separation
  BY DEF Judged
<1>3. \A kind, value, lean, held :
        Reason(kind, value, lean, held) = [signal |-> kind, value |-> value, lean |-> lean,
                                           held |-> held]
  BY DEF Reason
<1> HIDE DEF reasons, judged
<1>4. reasons.structure.signal = "Measured" => Follows(reasons.structure, reasons.structure.held)
  BY <1>1, <1>2, <1>3, HeldLeans DEF Level
<1>5. \A reason, signal, threshold :
        /\ signal.kind = "Measured"
        /\ reason = Reason("Measured", signal.overlap,
                           Judge!OverlapLean(LevelOf(signal, threshold), 1), {threshold})
        => Follows(reason, reason.held)
  BY <1>3, HeldLeans DEF LevelOf
<1>6. \A kind : ToldOf(kind) = "Measured" => kind = "Measured"
  BY DEF ToldOf
<1>7. reasons.distance.signal = "Directories" => Follows(reasons.distance, reasons.distance.held)
  BY <1>1, <1>2, <1>3 DEF Judge!DistanceLean
<1>8. reasons.imports.signal = "Measured" => Follows(reasons.imports, reasons.imports.held)
  <2> SUFFICES ASSUME reasons.imports.signal = "Measured"
               PROVE  Follows(reasons.imports, reasons.imports.held)
    OBVIOUS
  <2>1. m.imports.kind = "Measured"
    BY <1>1, <1>3, <1>6
  <2>2. reasons.imports = Reason("Measured", m.imports.overlap,
                                Judge!OverlapLean(LevelOf(m.imports, thresholds.imports), 1),
                                {thresholds.imports})
    BY <1>1, <1>2, <1>3 DEF ValueOf
  <2> QED BY <1>5, <2>1, <2>2
<1>9. reasons.callers.signal = "Measured" => Follows(reasons.callers, reasons.callers.held)
  <2> SUFFICES ASSUME reasons.callers.signal = "Measured"
               PROVE  Follows(reasons.callers, reasons.callers.held)
    OBVIOUS
  <2>1. m.callers.kind = "Measured"
    BY <1>1, <1>3, <1>6
  <2>2. ValueOf(m.callers) = m.callers.overlap /\ ToldOf(m.callers.kind) = "Measured"
    BY <1>1, <1>3, <2>1 DEF ValueOf
  <2>3. reasons.callers = Reason("Measured", m.callers.overlap,
                                Judge!OverlapLean(LevelOf(m.callers, thresholds.callers), 1),
                                {thresholds.callers})
    BY <1>1, <1>2, <2>2
  <2> QED BY <1>5, <2>1, <2>3
<1>10. reasons.callees.signal = "Measured" => Follows(reasons.callees, reasons.callees.held)
  <2> SUFFICES ASSUME reasons.callees.signal = "Measured"
               PROVE  Follows(reasons.callees, reasons.callees.held)
    OBVIOUS
  <2>1. m.callees.kind = "Measured"
    BY <1>1, <1>3, <1>6
  <2>2. ValueOf(m.callees) = m.callees.overlap /\ ToldOf(m.callees.kind) = "Measured"
    BY <1>1, <1>3, <2>1 DEF ValueOf
  <2>3. reasons.callees = Reason("Measured", m.callees.overlap,
                                Judge!OverlapLean(LevelOf(m.callees, SharedCalleeDomainsThreshold), 1),
                                {SharedCalleeDomainsThreshold})
    BY <1>1, <1>2, <2>2
  <2> QED BY <1>5, <2>1, <2>3
<1> QED BY <1>4, <1>7, <1>8, <1>9, <1>10 DEF reasons

(* Whatever is measured of a pair and whatever the thresholds.              *)
LEMMA MeasuresAreShown ==
  ASSUME NEW m, NEW thresholds, m.leaves \in LeafKinds
  PROVE  ShowsWhy(m, thresholds)
<1> DEFINE reasons == ReasonsOf(m, thresholds)
<1>1. reasons.leaves.signal = m.leaves
  BY DEF ReasonsOf, Reason
<1>2. FormatsAgree(reasons) /\ ExplainOnlyAdds(reasons)
  BY <1>1, PairsAgree, PairAdds
<1>3. ASSUME NEW explanation \in Explanations, NEW s \in Signals
      PROVE  \A line \in PairText(reasons, explanation)[s] : Bears(line)
  <2>1. /\ \A k \in {"structure", "imports", "callers", "callees"} :
              reasons[k].signal = "Measured" => Follows(reasons[k], reasons[k].held)
        /\ reasons.distance.signal = "Directories" =>
             Follows(reasons.distance, reasons.distance.held)
    BY ReasonsFollow
  <2> HIDE DEF reasons
  <2>2. CASE s = "structure"
    BY <2>1, <2>2, LinesBear DEF PairText
  <2>3. CASE s = "leaves"
    BY <2>3, LinesBear DEF PairText
  <2>4. CASE s = "imports"
    BY <2>1, <2>4, LinesBear DEF PairText
  <2>5. CASE s = "distance"
    BY <2>1, <2>5, LinesBear DEF PairText
  <2>6. CASE s = "types"
    BY <2>6, LinesBear DEF PairText
  <2>7. CASE s = "callers"
    BY <2>1, <2>7, LinesBear DEF PairText
  <2>8. CASE s = "callees"
    BY <2>1, <2>8, LinesBear DEF PairText
  <2> QED BY <2>2, <2>3, <2>4, <2>5, <2>6, <2>7, <2>8 DEF Signals
<1>4. \A explanation \in Explanations :
        ToldVerdict(PairText(reasons, explanation)) = VerdictOf(m, thresholds)
  BY VerdictIsTold
<1> QED BY <1>2, <1>3, <1>4 DEF ShowsWhy

LEMMA LeavesAreOfAKind == ASSUME NEW p PROVE LeafDivergence(p) \in LeafKinds
BY DEF LeafDivergence, ComparedWith, LeafKinds

(* Whatever the sources, the servers, the declarations and the thresholds:  *)
(* when compare reports, text and JSON tell the same of every signal, both  *)
(* with and without --explain; what is told determines the verdict, and a   *)
(* lean follows from the value and the threshold next to it (text_of,       *)
(* json_of, reasons_of).                                                    *)
THEOREM ReportTellsWhy ==
  Spec => [](stage = Turn("report") => ShowsWhy(MeasuredPair, settings.thresholds))
<1>1. stage = Turn("report") => ShowsWhy(MeasuredPair, settings.thresholds)
  BY LeavesAreOfAKind, MeasuresAreShown DEF MeasuredPair, Measurements
<1> QED BY <1>1, PTL
=============================================================================
