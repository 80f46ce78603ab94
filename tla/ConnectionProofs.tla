-------------------------- MODULE ConnectionProofs --------------------------
(***************************************************************************)
(* What holds of Connection for every set of documents and tokens, every   *)
(* number of attempts and every bound.                                     *)
(***************************************************************************)
EXTENDS Connection, FiniteSetTheorems, TLAPS

-----------------------------------------------------------------------------
(* Switches read from a queue *)

\* Appending a message does not change what was to be read before it ...
LEMMA OnAtAppend ==
    ASSUME NEW S, NEW q \in Seq(S), NEW m \in S, NEW up, NEW down, NEW x, NEW on,
           NEW i \in 1..(Len(q) + 1)
    PROVE  OnAt(Append(q, m), up, down, x, on, i) <=> OnAt(q, up, down, x, on, i)
BY DEF OnAt

\* ... and after it the switch is what the message says, or what it was.
LEMMA OnAtLast ==
    ASSUME NEW S, NEW q \in Seq(S), NEW m \in S, NEW up, NEW down, up # down,
           NEW x, NEW on
    PROVE  OnAt(Append(q, m), up, down, x, on, Len(q) + 2)
             <=> (m = up \/ (OnAt(q, up, down, x, on, Len(q) + 1) /\ m # down))
BY DEF OnAt

\* Reading the head takes its effect into the set and shifts the rest.
LEMMA OnAtTail ==
    ASSUME NEW S, NEW q \in Seq(S), q # <<>>, NEW up, NEW down, up # down,
           NEW x, NEW on, NEW i \in 1..Len(q), NEW on1,
           x \in on1 <=> (Head(q) = up \/ (x \in on /\ Head(q) # down))
    PROVE  OnAt(Tail(q), up, down, x, on1, i) <=> OnAt(q, up, down, x, on, i + 1)
<1>1. /\ Head(q) = q[1]
      /\ \A j \in 1..(i - 1) : Tail(q)[j] = q[j + 1]
  OBVIOUS
<1>2. ASSUME OnAt(Tail(q), up, down, x, on1, i) PROVE OnAt(q, up, down, x, on, i + 1)
  <2>1. ASSUME NEW j \in 1..(i - 1), Tail(q)[j] = up,
               \A k \in (j + 1)..(i - 1) : Tail(q)[k] # down
        PROVE  OnAt(q, up, down, x, on, i + 1)
    <3>1. j + 1 \in 1..i /\ q[j + 1] = up
      BY <1>1, <2>1
    <3>2. ASSUME NEW k \in (j + 2)..i PROVE q[k] # down
      <4>1. k - 1 \in (j + 1)..(i - 1) /\ k - 1 \in 1..(i - 1) /\ (k - 1) + 1 = k
        OBVIOUS
      <4> QED BY <4>1, <1>1, <2>1
    <3> QED BY <3>1, <3>2 DEF OnAt
  <2>2. ASSUME x \in on1, \A k \in 1..(i - 1) : Tail(q)[k] # down
        PROVE  OnAt(q, up, down, x, on, i + 1)
    <3>1. ASSUME NEW k \in 2..i PROVE q[k] # down
      <4>1. k - 1 \in 1..(i - 1) /\ (k - 1) + 1 = k
        OBVIOUS
      <4> QED BY <4>1, <1>1, <2>2
    <3>2. CASE q[1] = up
      BY <3>1, <3>2 DEF OnAt
    <3>3. CASE x \in on /\ q[1] # down
      BY <3>1, <3>3 DEF OnAt
    <3> QED BY <3>2, <3>3, <2>2, <1>1
  <2> QED BY <1>2, <2>1, <2>2 DEF OnAt
<1>3. ASSUME OnAt(q, up, down, x, on, i + 1) PROVE OnAt(Tail(q), up, down, x, on1, i)
  <2>1. ASSUME NEW j \in 1..i, q[j] = up, \A k \in (j + 1)..i : q[k] # down
        PROVE  OnAt(Tail(q), up, down, x, on1, i)
    <3>1. ASSUME NEW k \in j..(i - 1) PROVE Tail(q)[k] # down
      BY <1>1, <2>1, k + 1 \in (j + 1)..i, k \in 1..(i - 1)
    <3>2. CASE j = 1
      BY <1>1, <2>1, <3>1, <3>2 DEF OnAt
    <3>3. CASE j # 1
      <4>1. j - 1 \in 1..(i - 1) /\ (j - 1) + 1 = j
        BY <3>3
      <4>2. Tail(q)[j - 1] = up
        BY <4>1, <1>1, <2>1
      <4> QED BY <4>1, <4>2, <3>1 DEF OnAt
    <3> QED BY <3>2, <3>3
  <2>2. ASSUME x \in on, \A k \in 1..i : q[k] # down
        PROVE  OnAt(Tail(q), up, down, x, on1, i)
    <3>1. ASSUME NEW k \in 1..(i - 1) PROVE Tail(q)[k] # down
      BY <1>1, <2>2, k + 1 \in 1..i
    <3> QED BY <3>1, <2>2, <1>1 DEF OnAt
  <2> QED BY <1>3, <2>1, <2>2 DEF OnAt
<1> QED BY <1>2, <1>3

-----------------------------------------------------------------------------
(* Types *)

LEMMA InitTypeOK == Init => TypeOK
<1> SUFFICES ASSUME Init PROVE TypeOK
  OBVIOUS
<1>1. call \in CallKinds /\ outcome \in Outcomes /\ pc = "idle"
  BY DEF Init, CallKinds, Outcomes
<1>2. toServer \in Seq(ClientMessages) /\ toClient \in Seq(ServerMessages)
  BY DEF Init
<1>3. used \subseteq Answers /\ computed \subseteq Answers
  BY DEF Init
<1>4. work \in [Tokens -> {"none", "prepared", "running"}]
  BY DEF Init
<1>5. /\ nextId \in Nat \ {0} /\ noticed \in Nat /\ attemptsLeft \in Nat
      /\ noticedBefore \in Nat /\ generation \in Nat /\ announced \in Nat
      /\ noticedAtForget \in Nat
  BY DEF Init
<1>7. late \in BOOLEAN /\ inputOpen \in BOOLEAN /\ outputOpen \in BOOLEAN
      /\ serverAwaits \in BOOLEAN
  BY DEF Init
<1>6. /\ openDocuments \subseteq Documents /\ serverOpen \subseteq Documents
      /\ prepared \subseteq Tokens /\ running \subseteq Tokens /\ forgotten \subseteq Tokens
  BY DEF Init
<1> QED BY <1>1, <1>2, <1>3, <1>4, <1>5, <1>6, <1>7 DEF TypeOK

\* A write, made or failed, leaves a queue of messages.
LEMMA SendsTypeOK ==
    ASSUME TypeOK, NEW m \in ClientMessages, Sends(m) \/ CannotSend
    PROVE  toServer' \in Seq(ClientMessages)
<1>1. CASE Sends(m)
  BY <1>1 DEF TypeOK, Sends
<1>2. CASE CannotSend
  BY <1>2 DEF TypeOK, CannotSend
<1> QED BY <1>1, <1>2

\* The variables of a call are well typed however it ends.
LEMMA FinishTypeOK ==
    ASSUME TypeOK, NEW o \in Outcomes, NEW p \in SUBSET Tokens, noticed' \in Nat, Finish(o, p)
    PROVE  /\ prepared' \subseteq Tokens /\ pc' = "idle" /\ outcome' \in Outcomes
           /\ attemptsLeft' \in Nat /\ noticedBefore' \in Nat /\ late' \in BOOLEAN
           /\ forgotten' \subseteq Tokens /\ noticedAtForget' \in Nat
BY DEF TypeOK, Finish

LEMMA AfterMessageTypeOK ==
    ASSUME TypeOK, NEW p \in SUBSET Tokens, NEW r, noticed' \in Nat, AfterMessage(p, r)
    PROVE  /\ prepared' \subseteq Tokens /\ pc' \in {pc, "idle"} /\ outcome' \in Outcomes
           /\ attemptsLeft' \in Nat /\ noticedBefore' \in Nat /\ late' \in BOOLEAN
           /\ forgotten' \subseteq Tokens /\ noticedAtForget' \in Nat /\ used' \subseteq Answers
<1>1. "abandoned" \in Outcomes
  BY DEF Outcomes
<1>2. CASE Fail("abandoned", p)
  BY <1>1, <1>2, FinishTypeOK DEF Fail
<1>3. CASE Continue(p)
  BY <1>3 DEF Continue, frame, history, TypeOK
<1> QED BY <1>2, <1>3 DEF AfterMessage

\* Taking the head of the server's queue leaves a queue, and a message in hand.
LEMMA HeadOfQueue ==
    ASSUME TypeOK, toClient # <<>>
    PROVE  /\ Tail(toClient) \in Seq(ServerMessages)
           /\ Head(toClient) \in ServerMessages
           /\ Head(toClient) = toClient[1] /\ Len(toClient) \in Nat /\ Len(toClient) > 0
           /\ Len(Tail(toClient)) = Len(toClient) - 1
           /\ \A j \in 1..(Len(toClient) - 1) : Tail(toClient)[j] = toClient[j + 1]
BY DEF TypeOK

\* The calls of an idle client keep the types.
LEMMA CallsTypeOK == TypeOK /\ ClientCalls => TypeOK'
<1> SUFFICES ASSUME TypeOK, ClientCalls PROVE TypeOK'
  OBVIOUS
<1> USE DEF TypeOK, serverVars, history, frame, Outcomes, Callable
<1>1. ASSUME NEW d \in Documents, OpenDocument(d) PROVE TypeOK'
  <2>1. DidOpen(d) \in ClientMessages
    BY DEF DidOpen, ClientMessages
  <2>2. toServer' \in Seq(ClientMessages)
    BY <1>1, <2>1, SendsTypeOK DEF OpenDocument
  <2> QED BY <1>1, <2>2 DEF OpenDocument
<1>2. ASSUME NEW d \in Documents, CloseDocument(d) PROVE TypeOK'
  <2>1. DidClose(d) \in ClientMessages
    BY DEF DidClose, ClientMessages
  <2>2. toServer' \in Seq(ClientMessages)
    BY <1>2, <2>1, SendsTypeOK DEF CloseDocument
  <2> QED BY <1>2, <2>2 DEF CloseDocument
<1>3. ASSUME NEW d \in Documents, AskOnce(d) PROVE TypeOK'
  <2>1. Ask(nextId, call') \in ClientMessages
    BY <1>3 DEF AskOnce, Ask, ClientMessages, TypeOK
  <2>2. call' \in CallKinds /\ call' # NoCall
    BY <1>3 DEF AskOnce, CallKinds, NoCall, AllQueries
  <2>3. nextId' \in Nat \ {0}
    BY <1>3 DEF AskOnce
  <2>4. toServer' \in Seq(ClientMessages)
    BY <1>3, <2>1, SendsTypeOK DEF AskOnce
  <2> QED BY <1>3, <2>2, <2>3, <2>4 DEF AskOnce
<1>4. ASSUME NEW d \in Documents, NEW q \in Queries, AskUnopened(q, d) PROVE TypeOK'
  <2>1. call' \in CallKinds /\ call' # NoCall
    BY <1>4, ConnectionAssumption DEF AskUnopened, CallKinds, NoCall, AllQueries
  <2> QED BY <1>4, <2>1 DEF AskUnopened
<1>5. ASSUME NEW d \in Documents, NEW q \in Queries, AskSettled(q, d) PROVE TypeOK'
  <2>1. call' \in CallKinds /\ call' # NoCall
    BY <1>5, ConnectionAssumption DEF AskSettled, CallKinds, NoCall, AllQueries
  <2> QED BY <1>5, <2>1, ConnectionAssumption DEF AskSettled
<1> QED BY <1>1, <1>2, <1>3, <1>4, <1>5 DEF ClientCalls

\* Sending the first request of an attempt, or failing to.
LEMMA StartAttemptTypeOK == TypeOK /\ StartAttempt => TypeOK'
<1> SUFFICES ASSUME TypeOK, StartAttempt PROVE TypeOK'
  OBVIOUS
<1>1. Ask(nextId, call) \in ClientMessages
  BY DEF StartAttempt, TypeOK, CallKinds, Ask, ClientMessages
<1>2. toServer' \in Seq(ClientMessages)
  BY <1>1, SendsTypeOK DEF StartAttempt
<1>3. nextId' \in Nat \ {0} /\ noticed' \in Nat
  BY DEF StartAttempt, TypeOK
<1>4. CASE Fail("failed", prepared)
  <2>1. "failed" \in Outcomes /\ prepared \in SUBSET Tokens
    BY DEF Outcomes, TypeOK
  <2> QED BY <1>2, <1>3, <1>4, <2>1, FinishTypeOK DEF StartAttempt, Fail, TypeOK, serverVars
<1>5. CASE pc' = "awaiting" /\ noticedBefore' = noticed /\ late' = FALSE
           /\ UNCHANGED <<prepared, outcome, attemptsLeft, used, history>>
  BY <1>2, <1>3, <1>5 DEF StartAttempt, TypeOK, serverVars, history
<1> QED BY <1>4, <1>5 DEF StartAttempt

\* What the reading actions have in common.
LEMMA ReadTypeOK ==
    ASSUME TypeOK, ReadKeeps, pc # "idle", toClient' \in Seq(ServerMessages),
           toServer' \in Seq(ClientMessages), nextId' \in Nat \ {0}, running' \subseteq Tokens,
           noticed' \in Nat, prepared' \subseteq Tokens,
           pc' \in {"idle", "settling", "awaiting"}, outcome' \in Outcomes,
           attemptsLeft' \in Nat, noticedBefore' \in Nat, late' \in BOOLEAN,
           used' \subseteq Answers, forgotten' \subseteq Tokens, noticedAtForget' \in Nat
    PROVE  TypeOK'
BY DEF TypeOK, ReadKeeps, serverVars

\* The head of the queue, taken by a reading action.
LEMMA ReadsTypeOK ==
    ASSUME TypeOK, NEW m, Reads(m)
    PROVE  /\ toClient # <<>> /\ m = Head(toClient) /\ m \in ServerMessages /\ pc # "idle"
           /\ toClient' = Tail(toClient) /\ toClient' \in Seq(ServerMessages)
BY HeadOfQueue DEF Reads, Reading

\* Messages that are not a response.
LEMMA ReadMessageTypeOK ==
    ASSUME TypeOK, NEW m, Reads(m), ReadKeeps, UNCHANGED nextId,
           NEW p \in SUBSET Tokens, NEW r, running' \subseteq Tokens, noticed' \in Nat,
           toServer' \in Seq(ClientMessages), AfterMessage(p, r)
    PROVE  TypeOK'
<1>1. pc' \in {"idle", "settling", "awaiting"}
  BY AfterMessageTypeOK DEF TypeOK
<1> QED BY <1>1, ReadsTypeOK, AfterMessageTypeOK, ReadTypeOK DEF TypeOK

\* A call that ends while it reads.
LEMMA ReadFailTypeOK ==
    ASSUME TypeOK, pc # "idle", ReadKeeps, NEW o \in Outcomes, Fail(o, prepared),
           toClient' \in Seq(ServerMessages), toServer' \in Seq(ClientMessages),
           nextId' \in Nat \ {0}, UNCHANGED <<running, noticed>>
    PROVE  TypeOK'
<1>1. prepared \in SUBSET Tokens /\ noticed' \in Nat /\ running' \subseteq Tokens
  BY DEF TypeOK
<1>2. used' \subseteq Answers
  BY DEF Fail
<1> QED BY <1>1, <1>2, FinishTypeOK, ReadTypeOK DEF Fail

LEMMA ResponseTypeOK ==
    ASSUME TypeOK, NEW m, ReadsResponse(m)
    PROVE  m \in Answers
BY ReadsTypeOK DEF ReadsResponse, ServerMessages, Answers

LEMMA ReadsKeepTypeOK == TypeOK /\ ClientReads => TypeOK'
<1> SUFFICES ASSUME TypeOK, ClientReads PROVE TypeOK'
  OBVIOUS
<1>0. "failed" \in Outcomes /\ "abandoned" \in Outcomes /\ "stillWorking" \in Outcomes
      /\ "answered" \in Outcomes
  BY DEF Outcomes
<1>1. ASSUME NEW t \in Tokens, ReadCreate(t) PROVE TypeOK'
  <2>1. ReplyTo("create") \in ClientMessages
    BY DEF ReplyTo, ClientMessages
  <2>2. toServer' \in Seq(ClientMessages)
    BY <1>1, <2>1, SendsTypeOK DEF ReadCreate
  <2>3. CASE noticed' = noticed + 1 /\ AfterMessage(prepared \cup {t}, running)
    <3>1. prepared \cup {t} \in SUBSET Tokens /\ noticed' \in Nat /\ running' \subseteq Tokens
      BY <1>1, <2>3 DEF TypeOK, ReadCreate
    <3> QED BY <1>1, <2>2, <2>3, <3>1, ReadMessageTypeOK DEF ReadCreate
  <2>4. CASE CannotSend /\ pc' = "idle"
    <3>1. /\ prepared' \subseteq Tokens /\ forgotten' \subseteq Tokens
          /\ noticed' \in Nat /\ noticedAtForget' \in Nat
      BY <1>1, <2>4 DEF TypeOK, ReadCreate, CannotSend, Sends
    <3>2. /\ outcome' = "failed" /\ used' = {} /\ attemptsLeft' = 0 /\ noticedBefore' = 0
          /\ late' = FALSE /\ nextId' = nextId /\ running' = running /\ ReadKeeps
      BY <1>1, <2>4 DEF ReadCreate, CannotSend, Sends
    <3>3. toClient' \in Seq(ServerMessages) /\ pc # "idle"
      BY <1>1, ReadsTypeOK DEF ReadCreate
    <3>4. nextId' \in Nat \ {0} /\ running' \subseteq Tokens
      BY <3>2 DEF TypeOK
    <3> QED BY <1>0, <2>2, <2>4, <3>1, <3>2, <3>3, <3>4, ReadTypeOK
  <2> QED BY <1>1, <2>3, <2>4 DEF ReadCreate
<1>2. ASSUME NEW t \in Tokens, ReadBegin(t) PROVE TypeOK'
  <2>1. /\ prepared \ {t} \in SUBSET Tokens /\ noticed' \in Nat /\ running' \subseteq Tokens
        /\ toServer' \in Seq(ClientMessages)
    BY <1>2 DEF TypeOK, ReadBegin
  <2> QED BY <1>2, <2>1, ReadMessageTypeOK DEF ReadBegin
<1>3. ASSUME NEW t \in Tokens, ReadEnd(t) PROVE TypeOK'
  <2>1. /\ prepared \ {t} \in SUBSET Tokens /\ noticed' \in Nat /\ running' \subseteq Tokens
        /\ toServer' \in Seq(ClientMessages)
    BY <1>3 DEF TypeOK, ReadEnd
  <2> QED BY <1>3, <2>1, ReadMessageTypeOK DEF ReadEnd
<1>4. CASE ReadNotification
  <2>1. /\ prepared \in SUBSET Tokens /\ noticed' \in Nat /\ running' \subseteq Tokens
        /\ toServer' \in Seq(ClientMessages)
    BY <1>4 DEF TypeOK, ReadNotification
  <2> QED BY <1>4, <2>1, ReadMessageTypeOK DEF ReadNotification
<1>5. CASE ReadRequest
  <2>1. ReplyTo("request") \in ClientMessages
    BY DEF ReplyTo, ClientMessages
  <2>2. toServer' \in Seq(ClientMessages)
    BY <1>5, <2>1, SendsTypeOK DEF ReadRequest
  <2>3. /\ prepared \in SUBSET Tokens /\ noticed' \in Nat /\ running' \subseteq Tokens
        /\ nextId' \in Nat \ {0} /\ pc # "idle" /\ toClient' \in Seq(ServerMessages)
    BY <1>5, ReadsTypeOK DEF TypeOK, ReadRequest
  <2>4. CASE AfterMessage(prepared, running)
    BY <1>5, <2>2, <2>3, <2>4, ReadMessageTypeOK DEF ReadRequest
  <2>5. CASE Fail("failed", prepared)
    BY <1>0, <1>5, <2>2, <2>3, <2>5, ReadFailTypeOK DEF ReadRequest
  <2> QED BY <1>5, <2>4, <2>5 DEF ReadRequest
<1>6. CASE ReadMalformed
  <2>1. /\ pc # "idle" /\ toClient' \in Seq(ServerMessages) /\ toServer' \in Seq(ClientMessages)
        /\ nextId' \in Nat \ {0}
    BY <1>6, ReadsTypeOK DEF TypeOK, ReadMalformed
  <2> QED BY <1>0, <1>6, <2>1, ReadFailTypeOK DEF ReadMalformed
<1>7. CASE ReadFails
  <2>1. /\ pc # "idle" /\ toClient' \in Seq(ServerMessages) /\ toServer' \in Seq(ClientMessages)
        /\ nextId' \in Nat \ {0}
    BY <1>7 DEF TypeOK, ReadFails, Reading
  <2> QED BY <1>0, <1>7, <2>1, ReadFailTypeOK DEF ReadFails
<1>8. ASSUME NEW m, ReadFailure(m) PROVE TypeOK'
  <2>1. /\ pc # "idle" /\ toClient' \in Seq(ServerMessages) /\ toServer' \in Seq(ClientMessages)
        /\ nextId' \in Nat \ {0}
    BY <1>8, ReadsTypeOK DEF TypeOK, ReadFailure, ReadsResponse
  <2> QED BY <1>0, <1>8, <2>1, ReadFailTypeOK DEF ReadFailure
<1>9. ASSUME NEW m, ReadStart(m) PROVE TypeOK'
  <2>1. pc # "idle" /\ toClient' \in Seq(ServerMessages) /\ m \in Answers
    BY <1>9, ReadsTypeOK, ResponseTypeOK DEF ReadStart, ReadsResponse
  <2>2. Ask(nextId, call) \in ClientMessages
    BY <2>1 DEF TypeOK, CallKinds, Ask, ClientMessages
  <2>3. toServer' \in Seq(ClientMessages)
    BY <1>9, <2>2, SendsTypeOK DEF ReadStart
  <2>4. nextId' \in Nat \ {0} /\ noticed' \in Nat /\ running' \subseteq Tokens
    BY <1>9 DEF TypeOK, ReadStart
  <2>5. CASE Fail("failed", prepared)
    BY <1>0, <1>9, <2>1, <2>3, <2>4, <2>5, ReadFailTypeOK DEF ReadStart
  <2>6. CASE /\ used' = {m} /\ late' = FALSE
             /\ UNCHANGED <<prepared, pc, outcome, attemptsLeft, noticedBefore, history>>
    BY <1>9, <2>1, <2>3, <2>4, <2>6, ReadTypeOK DEF ReadStart, TypeOK, history
  <2> QED BY <1>9, <2>5, <2>6 DEF ReadStart
<1>10. ASSUME NEW m, ReadAnswer(m) PROVE TypeOK'
  <2>1. pc # "idle" /\ toClient' \in Seq(ServerMessages) /\ m \in Answers
    BY <1>10, ReadsTypeOK, ResponseTypeOK DEF ReadAnswer, ReadsResponse
  <2>2. /\ nextId' \in Nat \ {0} /\ noticed' \in Nat /\ running' \subseteq Tokens
        /\ toServer' \in Seq(ClientMessages) /\ prepared \in SUBSET Tokens
        /\ used' \subseteq Answers
    BY <1>10, <2>1 DEF TypeOK, ReadAnswer
  <2> QED BY <1>0, <1>10, <2>1, <2>2, FinishTypeOK, ReadTypeOK DEF ReadAnswer
<1>11. ASSUME NEW m, ReadUnsettled(m) PROVE TypeOK'
  <2>1. pc # "idle" /\ toClient' \in Seq(ServerMessages)
    BY <1>11, ReadsTypeOK DEF ReadUnsettled, ReadsResponse
  <2>2. /\ nextId' \in Nat \ {0} /\ noticed' \in Nat /\ running' \subseteq Tokens
        /\ toServer' \in Seq(ClientMessages)
    BY <1>11, <2>1 DEF TypeOK, ReadUnsettled
  <2>3. CASE Fail("stillWorking", prepared)
    BY <1>0, <1>11, <2>1, <2>2, <2>3, ReadFailTypeOK DEF ReadUnsettled
  <2>4. CASE attemptsLeft > 1 /\ ~Fail("stillWorking", prepared)
    <3>1. /\ attemptsLeft' \in Nat /\ used' = {} /\ pc' = "settling" /\ late' = FALSE
          /\ UNCHANGED <<prepared, outcome, noticedBefore, history>>
      BY <1>11, <2>4 DEF TypeOK, ReadUnsettled, Discard
    <3> QED BY <1>11, <2>1, <2>2, <3>1, ReadTypeOK DEF ReadUnsettled, TypeOK, history
  <2> QED BY <1>11, <2>3, <2>4 DEF ReadUnsettled, Discard
<1> QED BY <1>1, <1>2, <1>3, <1>4, <1>5, <1>6, <1>7, <1>8, <1>9, <1>10, <1>11 DEF ClientReads

\* Saying one more message.
LEMMA SaysTypeOK ==
    ASSUME TypeOK, NEW m \in ServerMessages, Says(m)
    PROVE  toClient' = Append(toClient, m) /\ toClient' \in Seq(ServerMessages)
BY DEF TypeOK, Says

LEMMA ComputedAnswerType ==
    ASSUME TypeOK, NEW id \in Nat, NEW r \in AllResults
    PROVE  ComputedAnswer(id, r) \in Answers
<1> DEFINE l == RunningTokens # {}
           p == PreparedTokens # {}
<1>1. l \in BOOLEAN /\ p \in BOOLEAN
  OBVIOUS
<1>2. generation \in Nat
  BY DEF TypeOK
<1> HIDE DEF l, p
<1>3. [type |-> "response", id |-> id, result |-> r, loading |-> l, pending |-> p,
       generation |-> generation] \in Answers
  BY <1>1, <1>2 DEF Answers
<1> QED BY <1>3 DEF ComputedAnswer, l, p

LEMMA ServerTypeOK == TypeOK /\ Server => TypeOK'
<1> SUFFICES ASSUME TypeOK, Server PROVE TypeOK'
  OBVIOUS
<1> USE DEF TypeOK, clientVars, serverVars, history
<1>1. CASE ServerReadsNotification
  <2>1. Head(toServer) \in ClientMessages /\ toServer' \in Seq(ClientMessages)
    BY <1>1 DEF ServerReadsNotification
  <2>2. serverOpen' \subseteq Documents /\ serverAwaits' \in BOOLEAN
    BY <1>1, <2>1 DEF ServerReadsNotification, ClientMessages
  <2> QED BY <1>1, <2>1, <2>2 DEF ServerReadsNotification
<1>2. CASE ServerComputes
  <2>1. Head(toServer) \in ClientMessages /\ toServer' \in Seq(ClientMessages)
    BY <1>2 DEF ServerComputes
  <2>2. Head(toServer).id \in Nat
    BY <1>2, <2>1 DEF ServerComputes, ClientMessages
  <2>3. computed' \subseteq Answers
    <3>1. PICK r \in Results : computed' = computed \cup {ComputedAnswer(Head(toServer).id, r)}
      BY <1>2 DEF ServerComputes
    <3>2. r \in AllResults
      BY ConnectionAssumption
    <3> QED BY <2>2, <3>1, <3>2, ComputedAnswerType
  <2> QED BY <1>2, <2>1, <2>3 DEF ServerComputes
<1>3. CASE ServerResponds
  <2>1. PICK m \in computed : Says(m) /\ computed' = computed \ {m}
    BY <1>3 DEF ServerResponds
  <2>2. toClient' \in Seq(ServerMessages)
    BY <2>1, SaysTypeOK DEF ServerMessages
  <2> QED BY <1>3, <2>1, <2>2 DEF ServerResponds
<1>4. CASE ServerSays
  <2>1. {Notification, Malformed, Request} \subseteq ServerMessages
    BY DEF Notification, Malformed, Request, ServerMessages
  <2>2. toClient' \in Seq(ServerMessages)
    BY <1>4, <2>1, SaysTypeOK DEF ServerSays
  <2>3. CASE serverAwaits' = TRUE
    BY <1>4, <2>2, <2>3 DEF ServerSays
  <2>4. CASE UNCHANGED serverAwaits
    BY <1>4, <2>2, <2>4 DEF ServerSays
  <2> QED BY <1>4, <2>3, <2>4 DEF ServerSays
<1>5. CASE ServerCloses
  BY <1>5 DEF ServerCloses
<1>6. ASSUME NEW t \in Tokens, ServerPrepares(t) PROVE TypeOK'
  <2>1. Create(t) \in ServerMessages
    BY DEF Create, ServerMessages
  <2>2. toClient' \in Seq(ServerMessages)
    BY <1>6, <2>1, SaysTypeOK DEF ServerPrepares
  <2> QED BY <1>6, <2>2 DEF ServerPrepares
<1>7. ASSUME NEW t \in Tokens, ServerDrops(t) PROVE TypeOK'
  BY <1>7 DEF ServerDrops
<1>8. ASSUME NEW t \in Tokens, ServerBegins(t) PROVE TypeOK'
  <2>1. Begin(t) \in ServerMessages
    BY DEF Begin, ServerMessages
  <2>2. toClient' \in Seq(ServerMessages)
    BY <1>8, <2>1, SaysTypeOK DEF ServerBegins
  <2> QED BY <1>8, <2>2 DEF ServerBegins
<1>9. ASSUME NEW t \in Tokens, ServerEnds(t) PROVE TypeOK'
  <2>1. End(t) \in ServerMessages
    BY DEF End, ServerMessages
  <2>2. toClient' \in Seq(ServerMessages)
    BY <1>9, <2>1, SaysTypeOK DEF ServerEnds
  <2> QED BY <1>9, <2>2 DEF ServerEnds
<1> QED BY <1>1, <1>2, <1>3, <1>4, <1>5, <1>6, <1>7, <1>8, <1>9 DEF Server

LEMMA NextTypeOK == TypeOK /\ [Next]_vars => TypeOK'
<1> SUFFICES ASSUME TypeOK, [Next]_vars PROVE TypeOK'
  OBVIOUS
<1>1. CASE LimitPasses
  BY <1>1 DEF LimitPasses, TypeOK, serverVars, history
<1>2. CASE UNCHANGED vars
  BY <1>2 DEF vars, clientVars, serverVars, history, TypeOK
<1> QED BY <1>1, <1>2, CallsTypeOK, StartAttemptTypeOK, ReadsKeepTypeOK, ServerTypeOK DEF Next

\* Every variable keeps its type: nothing the server sends, in whatever order,
\* leaves the client's Connection in a state its code has no case for.
THEOREM TypeCorrect == Spec => []TypeOK
BY InitTypeOK, NextTypeOK, PTL DEF Spec

-----------------------------------------------------------------------------
(* The server's work, as the client hears of it *)

LEMMA MessagesDiffer ==
    /\ \A t, u : Begin(t) # End(u) /\ Begin(t) # Create(u) /\ End(t) # Create(u)
    /\ \A t, u : (Begin(t) = Begin(u) \/ End(t) = End(u) \/ Create(t) = Create(u)) => t = u
    /\ \A t : \A m \in {Notification, Request, Malformed} : m \notin {Begin(t), End(t), Create(t)}
    /\ \A t, m : m.type = "response" => m \notin {Begin(t), End(t), Create(t)}
BY DEF Begin, End, Create, Notification, Request, Malformed

\* What taking message m does to the tokens the client knows.
Takes(m) ==
    \A t \in Tokens :
      /\ t \in running' <=> (m = Begin(t) \/ (t \in running /\ m # End(t)))
      /\ t \in prepared' => (t \in prepared /\ m \notin {Begin(t), End(t)}) \/ m = Create(t)
      /\ (t \in prepared \/ m = Create(t))
           => t \in prepared' \/ t \in forgotten' \/ m \in {Begin(t), End(t)}

\* What the end of a call, or its going on, does to them.
LEMMA AfterMessageEffect ==
    ASSUME NEW p, NEW r, AfterMessage(p, r)
    PROVE  prepared' \subseteq p /\ p \subseteq prepared' \cup forgotten' /\ forgotten \subseteq forgotten'
BY DEF AfterMessage, Fail, Finish, Continue, history

LEMMA FailEffect ==
    ASSUME NEW o, Finish(o, prepared)
    PROVE  /\ prepared' \subseteq prepared /\ prepared \subseteq prepared' \cup forgotten'
           /\ forgotten \subseteq forgotten'
BY DEF Finish

ReadEffect ==
    /\ UNCHANGED serverVars /\ forgotten \subseteq forgotten' /\ pc # "idle"
    /\ \/ /\ UNCHANGED <<toClient, running>> /\ pc' = "idle"
          /\ prepared' \subseteq prepared /\ prepared \subseteq prepared' \cup forgotten'
       \/ toClient # <<>> /\ toClient' = Tail(toClient) /\ Takes(Head(toClient))

LEMMA ClientReadsEffect == TypeOK /\ ClientReads => ReadEffect
<1> SUFFICES ASSUME TypeOK, ClientReads PROVE ReadEffect
  OBVIOUS
<1> USE MessagesDiffer DEF ReadEffect, ReadKeeps, Reads, Reading
<1>1. ASSUME NEW t \in Tokens, ReadCreate(t) PROVE ReadEffect
  <2>1. /\ UNCHANGED serverVars /\ pc # "idle" /\ toClient # <<>> /\ toClient' = Tail(toClient)
        /\ Head(toClient) = Create(t) /\ running' = running
    BY <1>1 DEF ReadCreate
  <2>2. CASE AfterMessage(prepared \cup {t}, running)
    <3>1. prepared' \subseteq prepared \cup {t} /\ prepared \cup {t} \subseteq prepared' \cup forgotten'
          /\ forgotten \subseteq forgotten'
      BY <2>2, AfterMessageEffect
    <3>2. Takes(Create(t))
      BY <2>1, <3>1 DEF Takes
    <3> QED BY <2>1, <3>1, <3>2
  <2>3. CASE /\ prepared' = IF Settled THEN {} ELSE prepared
             /\ forgotten' = forgotten \cup {t} \cup IF Settled THEN prepared ELSE {}
    <3>1. prepared' \subseteq prepared /\ prepared \cup {t} \subseteq prepared' \cup forgotten'
          /\ forgotten \subseteq forgotten'
      BY <2>3
    <3>2. Takes(Create(t))
      BY <2>1, <3>1 DEF Takes
    <3> QED BY <2>1, <3>1, <3>2
  <2> QED BY <1>1, <2>2, <2>3 DEF ReadCreate
<1>2. ASSUME NEW t \in Tokens, ReadBegin(t) PROVE ReadEffect
  <2>1. /\ UNCHANGED serverVars /\ pc # "idle" /\ toClient # <<>> /\ toClient' = Tail(toClient)
        /\ Head(toClient) = Begin(t) /\ running' = running \cup {t}
    BY <1>2 DEF ReadBegin
  <2>2. /\ prepared' \subseteq prepared \ {t} /\ prepared \ {t} \subseteq prepared' \cup forgotten'
        /\ forgotten \subseteq forgotten'
    BY <1>2, AfterMessageEffect DEF ReadBegin
  <2>3. Takes(Begin(t))
    BY <2>1, <2>2 DEF Takes
  <2> QED BY <2>1, <2>2, <2>3
<1>3. ASSUME NEW t \in Tokens, ReadEnd(t) PROVE ReadEffect
  <2>1. /\ UNCHANGED serverVars /\ pc # "idle" /\ toClient # <<>> /\ toClient' = Tail(toClient)
        /\ Head(toClient) = End(t) /\ running' = running \ {t}
    BY <1>3 DEF ReadEnd
  <2>2. /\ prepared' \subseteq prepared \ {t} /\ prepared \ {t} \subseteq prepared' \cup forgotten'
        /\ forgotten \subseteq forgotten'
    BY <1>3, AfterMessageEffect DEF ReadEnd
  <2>3. Takes(End(t))
    BY <2>1, <2>2 DEF Takes
  <2> QED BY <2>1, <2>2, <2>3
<1>4. ASSUME NEW m, Reads(m), \A t : m \notin {Begin(t), End(t), Create(t)}, ReadKeeps,
             UNCHANGED running, prepared' \subseteq prepared,
             prepared \subseteq prepared' \cup forgotten', forgotten \subseteq forgotten'
      PROVE  ReadEffect
  <2>1. Takes(m)
    BY <1>4 DEF Takes
  <2> QED BY <1>4, <2>1
<1>5. CASE ReadNotification
  BY <1>4, <1>5, AfterMessageEffect DEF ReadNotification
<1>6. CASE ReadRequest
  BY <1>4, <1>6, AfterMessageEffect, FailEffect DEF ReadRequest, Fail
<1>7. CASE ReadMalformed
  BY <1>4, <1>7, FailEffect DEF ReadMalformed, Fail
<1>8. CASE ReadFails
  BY <1>8, FailEffect DEF ReadFails, Fail, Finish
<1>9. ASSUME NEW m, ReadFailure(m) PROVE ReadEffect
  BY <1>4, <1>9, FailEffect DEF ReadFailure, ReadsResponse, Fail
<1>10. ASSUME NEW m, ReadStart(m) PROVE ReadEffect
  BY <1>4, <1>10, FailEffect DEF ReadStart, ReadsResponse, Fail, history
<1>11. ASSUME NEW m, ReadAnswer(m) PROVE ReadEffect
  BY <1>4, <1>11, FailEffect DEF ReadAnswer, ReadsResponse
<1>12. ASSUME NEW m, ReadUnsettled(m) PROVE ReadEffect
  BY <1>4, <1>12, FailEffect DEF ReadUnsettled, ReadsResponse, Discard, Fail, history
<1> QED BY <1>1, <1>2, <1>3, <1>5, <1>6, <1>7, <1>8, <1>9, <1>10, <1>11, <1>12 DEF ClientReads

\* Reading the head keeps the client in step with what is still to come.
LEMMA TakeKeepsStep ==
    ASSUME TypeOK, WorkInStep, prepared \cap running = {}, UNCHANGED work,
           toClient # <<>>, toClient' = Tail(toClient), Takes(Head(toClient)), TypeOK'
    PROVE  WorkInStep' /\ prepared' \cap running' = {}
<1> DEFINE q == toClient
<1> PICK n \in Nat : n = Len(toClient)
  BY DEF TypeOK
<1>0. /\ q \in Seq(ServerMessages) /\ n \in Nat /\ n > 0 /\ Len(Tail(q)) = n - 1 /\ Head(q) = q[1]
      /\ \A j \in 1..(n - 1) : Tail(q)[j] = q[j + 1]
      /\ DOMAIN q = 1..n /\ DOMAIN Tail(q) = 1..(n - 1)
      /\ n = Len(q)
  BY HeadOfQueue DEF TypeOK
<1>1. ASSUME NEW t \in Tokens, NEW i \in 1..n
      PROVE  RunningAt(t, i)' <=> RunningAt(t, i + 1)
  <2>1. (t \in running') <=> (Head(q) = Begin(t) \/ ((t \in running) /\ Head(q) # End(t)))
    BY DEF Takes
  <2>2. Begin(t) # End(t)
    BY MessagesDiffer
  <2>3. OnAt(Tail(q), Begin(t), End(t), t, running', i)
          <=> OnAt(q, Begin(t), End(t), t, running, i + 1)
    BY <1>0, <2>1, <2>2, OnAtTail
  <2> QED BY <2>3 DEF RunningAt
<1>2. ASSUME NEW t \in Tokens
      PROVE  (work[t] = "running" <=> RunningAt(t, Len(toClient) + 1))'
  <2>1. RunningAt(t, n)' <=> RunningAt(t, n + 1)
    BY <1>0, <1>1
  <2>2. Len(toClient') + 1 = n
    BY <1>0
  <2> QED BY <2>1, <2>2 DEF WorkInStep, RunningAt
<1>3. ASSUME NEW t \in Tokens, NEW i \in DOMAIN Tail(q)
      PROVE  /\ Tail(q)[i] = End(t) => RunningAt(t, i)'
             /\ Tail(q)[i] = Create(t) => ~RunningAt(t, i)'
  <2>1. i \in 1..n /\ i + 1 \in DOMAIN q /\ Tail(q)[i] = q[i + 1]
    BY <1>0
  <2> QED BY <2>1, <1>1 DEF WorkInStep
<1>4. ASSUME NEW t \in Tokens, t \in prepared', t \in running' PROVE FALSE
  <2>1. RunningAt(t, 1) <=> t \in running
    BY DEF RunningAt, OnAt
  <2>2. q[1] = Create(t) => t \notin running
    BY <1>0, <2>1 DEF WorkInStep
  <2> QED BY <1>0, <1>4, <2>2, MessagesDiffer DEF Takes
<1>5. prepared' \subseteq Tokens
  BY DEF TypeOK
<1> QED BY <1>2, <1>3, <1>4, <1>5 DEF WorkInStep

\* What the server says of its work keeps it in step, too.
LEMMA SayKeepsStep ==
    ASSUME TypeOK, WorkInStep, UNCHANGED running,
           NEW m \in ServerMessages, toClient' = Append(toClient, m),
           \A t \in Tokens :
             /\ m = Begin(t) => work'[t] = "running"
             /\ m = End(t) => work[t] = "running" /\ work'[t] # "running"
             /\ m = Create(t) => work[t] # "running"
             /\ m \notin {Begin(t), End(t)} => (work'[t] = "running" <=> work[t] = "running")
    PROVE  WorkInStep'
<1> DEFINE q == toClient
<1> PICK n \in Nat : n = Len(toClient)
  BY DEF TypeOK
<1>0. /\ q \in Seq(ServerMessages) /\ n \in Nat /\ Len(Append(q, m)) = n + 1
      /\ \A j \in 1..n : Append(q, m)[j] = q[j]
      /\ Append(q, m)[n + 1] = m
      /\ DOMAIN q = 1..n /\ DOMAIN Append(q, m) = 1..(n + 1)
      /\ n = Len(q)
  BY DEF TypeOK
<1>1. ASSUME NEW t \in Tokens, NEW i \in 1..(n + 1)
      PROVE  RunningAt(t, i)' <=> RunningAt(t, i)
  <2>1. OnAt(Append(q, m), Begin(t), End(t), t, running, i)
          <=> OnAt(q, Begin(t), End(t), t, running, i)
    BY <1>0, OnAtAppend
  <2> QED BY <2>1 DEF RunningAt
<1>2. ASSUME NEW t \in Tokens
      PROVE  RunningAt(t, n + 2)' <=> (m = Begin(t) \/ (RunningAt(t, n + 1) /\ m # End(t)))
  <2>1. OnAt(Append(q, m), Begin(t), End(t), t, running, n + 2)
          <=> (m = Begin(t) \/ (OnAt(q, Begin(t), End(t), t, running, n + 1) /\ m # End(t)))
    BY <1>0, OnAtLast, MessagesDiffer
  <2> QED BY <2>1 DEF RunningAt
<1>3. ASSUME NEW t \in Tokens
      PROVE  (work[t] = "running" <=> RunningAt(t, Len(toClient) + 1))'
  <2>1. Len(toClient') + 1 = n + 2
    BY <1>0
  <2>2. work'[t] = "running" <=> (m = Begin(t) \/ (work[t] = "running" /\ m # End(t)))
    OBVIOUS
  <2> QED BY <2>1, <2>2, <1>2 DEF WorkInStep, RunningAt
<1>4. ASSUME NEW t \in Tokens, NEW i \in DOMAIN Append(q, m)
      PROVE  /\ Append(q, m)[i] = End(t) => RunningAt(t, i)'
             /\ Append(q, m)[i] = Create(t) => ~RunningAt(t, i)'
  <2>1. CASE i \in 1..n
    BY <1>0, <1>1, <2>1 DEF WorkInStep
  <2>2. CASE i = n + 1
    <3>1. RunningAt(t, n + 1)' <=> work[t] = "running"
      BY <1>0, <1>1 DEF WorkInStep
    <3> QED BY <1>0, <2>2, <3>1
  <2> QED BY <1>0, <2>1, <2>2
<1> QED BY <1>3, <1>4 DEF WorkInStep

\* Nothing read, nothing said, no work begun or ended.
LEMMA SilenceKeepsStep ==
    ASSUME WorkInStep, UNCHANGED <<toClient, running>>,
           \A t \in Tokens : work'[t] = "running" <=> work[t] = "running"
    PROVE  WorkInStep'
<1>1. ASSUME NEW t \in Tokens, NEW i PROVE RunningAt(t, i)' <=> RunningAt(t, i)
  BY DEF RunningAt
<1> QED BY <1>1 DEF WorkInStep

\* The kinds of a server step: what it says, and what that is about.
LEMMA ServerKeepsStep ==
    ASSUME TypeOK, WorkInStep, Server
    PROVE  WorkInStep' /\ UNCHANGED <<prepared, running>>
<1> USE DEF serverVars, clientVars
<1>1. ASSUME NEW m \in ServerMessages, Says(m), UNCHANGED <<work, running>>,
             \A t : m \notin {Begin(t), End(t), Create(t)}
      PROVE  WorkInStep'
  BY <1>1, SayKeepsStep, SaysTypeOK
<1>2. CASE ServerReadsNotification \/ ServerComputes \/ ServerCloses
  BY <1>2, SilenceKeepsStep DEF ServerReadsNotification, ServerComputes, ServerCloses
<1>3. CASE ServerResponds
  <2>1. PICK m \in computed : Says(m) /\ computed' = computed \ {m}
    BY <1>3 DEF ServerResponds
  <2>2. m \in ServerMessages /\ m.type = "response"
    BY DEF TypeOK, ServerMessages, Answers
  <2> QED BY <1>1, <1>3, <2>1, <2>2, MessagesDiffer DEF ServerResponds
<1>4. CASE ServerSays
  <2>1. {Notification, Malformed, Request} \subseteq ServerMessages
    BY DEF Notification, Malformed, Request, ServerMessages
  <2> QED BY <1>1, <1>4, <2>1, MessagesDiffer DEF ServerSays
<1>5. ASSUME NEW t \in Tokens, ServerPrepares(t)
      PROVE  WorkInStep' /\ UNCHANGED <<prepared, running>>
  <2>1. Create(t) \in ServerMessages
    BY DEF Create, ServerMessages
  <2> QED BY <1>5, <2>1, SayKeepsStep, SaysTypeOK, MessagesDiffer DEF ServerPrepares, TypeOK
<1>6. ASSUME NEW t \in Tokens, ServerDrops(t)
      PROVE  WorkInStep' /\ UNCHANGED <<prepared, running>>
  BY <1>6, SilenceKeepsStep DEF ServerDrops, TypeOK
<1>7. ASSUME NEW t \in Tokens, ServerBegins(t)
      PROVE  WorkInStep' /\ UNCHANGED <<prepared, running>>
  <2>1. Begin(t) \in ServerMessages
    BY DEF Begin, ServerMessages
  <2> QED BY <1>7, <2>1, SayKeepsStep, SaysTypeOK, MessagesDiffer DEF ServerBegins, TypeOK
<1>8. ASSUME NEW t \in Tokens, ServerEnds(t)
      PROVE  WorkInStep' /\ UNCHANGED <<prepared, running>>
  <2>1. End(t) \in ServerMessages
    BY DEF End, ServerMessages
  <2> QED BY <1>8, <2>1, SayKeepsStep, SaysTypeOK, MessagesDiffer DEF ServerEnds, TypeOK
<1>9. Server => UNCHANGED <<prepared, running>>
  BY DEF Server, ServerReadsNotification, ServerComputes, ServerResponds, ServerSays, ServerCloses,
         ServerPrepares, ServerDrops, ServerBegins, ServerEnds
<1> QED BY <1>2, <1>3, <1>4, <1>5, <1>6, <1>7, <1>8, <1>9 DEF Server

LEMMA NextKeepsStep ==
    ASSUME TypeOK, TypeOK', WorkInStep, prepared \cap running = {}, [Next]_vars
    PROVE  WorkInStep' /\ prepared' \cap running' = {}
<1>1. CASE Server
  BY <1>1, ServerKeepsStep
<1>2. CASE ClientReads
  <2>1. ReadEffect
    BY <1>2, ClientReadsEffect
  <2>2. CASE UNCHANGED <<toClient, running>> /\ prepared' \subseteq prepared
    BY <2>1, <2>2, SilenceKeepsStep DEF ReadEffect, serverVars
  <2>3. CASE toClient # <<>> /\ toClient' = Tail(toClient) /\ Takes(Head(toClient))
    BY <2>1, <2>3, TakeKeepsStep DEF ReadEffect, serverVars
  <2> QED BY <2>1, <2>2, <2>3 DEF ReadEffect
<1>3. CASE ClientCalls \/ StartAttempt \/ LimitPasses \/ UNCHANGED vars
  <2>1. UNCHANGED <<toClient, running, work>> /\ prepared' \subseteq prepared
    BY <1>3 DEF ClientCalls, StartAttempt, LimitPasses, vars, clientVars, serverVars, OpenDocument,
                CloseDocument, AskOnce, AskUnopened, AskSettled, Fail, Finish
  <2> QED BY <2>1, SilenceKeepsStep
<1> QED BY <1>1, <1>2, <1>3 DEF Next

-----------------------------------------------------------------------------
(* Prepared tokens *)

LEMMA NextKeepsAnnounced ==
    ASSUME TypeOK, TypeOK', PreparedAnnounced, [Next]_vars
    PROVE  PreparedAnnounced'
<1> SUFFICES ASSUME NEW t \in Tokens, (work[t] = "prepared")' PROVE Known(t)'
  BY DEF PreparedAnnounced
<1> PICK n \in Nat : n = Len(toClient)
  BY DEF TypeOK
<1>0. toClient \in Seq(ServerMessages) /\ DOMAIN toClient = 1..n
  BY DEF TypeOK
<1>1. ASSUME UNCHANGED <<toClient, work>>, prepared \subseteq prepared' \cup forgotten',
             forgotten \subseteq forgotten'
      PROVE  Known(t)'
  BY <1>1 DEF PreparedAnnounced, Known
<1>2. CASE ClientReads
  <2>1. ReadEffect /\ work[t] = "prepared" /\ Known(t)
    BY <1>2, ClientReadsEffect DEF ReadEffect, serverVars, PreparedAnnounced
  <2>2. CASE UNCHANGED toClient /\ prepared \subseteq prepared' \cup forgotten'
    BY <1>1, <2>1, <2>2 DEF ReadEffect, serverVars
  <2>3. CASE toClient # <<>> /\ toClient' = Tail(toClient) /\ Takes(Head(toClient))
    <3>1. /\ Head(toClient) = toClient[1] /\ 1 \in DOMAIN toClient
          /\ DOMAIN toClient' = 1..(n - 1)
          /\ \A j \in 1..(n - 1) : toClient'[j] = toClient[j + 1] /\ j + 1 \in DOMAIN toClient
      BY <1>0, <2>3
    <3>2. CASE t \in forgotten
      BY <2>1, <3>2 DEF ReadEffect, Known
    <3>3. CASE t \in prepared /\ \A i \in DOMAIN toClient : toClient[i] \notin {Begin(t), End(t)}
      BY <2>3, <3>1, <3>3 DEF Takes, Known
    <3>4. ASSUME NEW i \in DOMAIN toClient, toClient[i] = Create(t),
                 \A k \in DOMAIN toClient : k > i => toClient[k] \notin {Begin(t), End(t)}
          PROVE  Known(t)'
      <4>1. CASE i = 1
        <5>1. \A k \in DOMAIN toClient' : toClient'[k] \notin {Begin(t), End(t)}
          BY <1>0, <3>1, <3>4, <4>1
        <5> QED BY <2>3, <3>1, <3>4, <4>1, <5>1, MessagesDiffer DEF Takes, Known
      <4>2. CASE i # 1
        <5>1. i - 1 \in DOMAIN toClient' /\ toClient'[i - 1] = Create(t)
          BY <1>0, <3>1, <3>4, <4>2
        <5>2. ASSUME NEW k \in DOMAIN toClient', k > i - 1
              PROVE  toClient'[k] \notin {Begin(t), End(t)}
          BY <1>0, <3>1, <3>4, <5>2
        <5> QED BY <5>1, <5>2 DEF Known
      <4> QED BY <4>1, <4>2
    <3> QED BY <2>1, <3>2, <3>3, <3>4 DEF Known
  <2> QED BY <2>1, <2>2, <2>3 DEF ReadEffect
<1>3. CASE ClientCalls \/ StartAttempt \/ LimitPasses \/ UNCHANGED vars
  BY <1>1, <1>3 DEF ClientCalls, StartAttempt, LimitPasses, vars, clientVars, serverVars, history,
                OpenDocument, CloseDocument, AskOnce, AskUnopened, AskSettled, Fail, Finish
<1>4. ASSUME NEW m, toClient' = Append(toClient, m), m \notin {Begin(t), End(t)},
             UNCHANGED prepared, t \in forgotten => t \in forgotten',
             work[t] = "prepared" \/ m = Create(t)
      PROVE  Known(t)'
  <2>1. /\ DOMAIN toClient' = 1..(n + 1) /\ toClient'[n + 1] = m
        /\ \A j \in 1..n : toClient'[j] = toClient[j]
    BY <1>0, <1>4
  <2>2. CASE m = Create(t)
    <3>1. n + 1 \in DOMAIN toClient' /\ toClient'[n + 1] = Create(t)
          /\ \A k \in DOMAIN toClient' : ~(k > n + 1)
      BY <2>1, <2>2
    <3> QED BY <3>1 DEF Known
  <2>3. CASE work[t] = "prepared"
    <3>1. Known(t)
      BY <2>3 DEF PreparedAnnounced
    <3>2. CASE t \in forgotten
      BY <1>4, <3>2 DEF Known
    <3>3. CASE t \in prepared /\ \A i \in DOMAIN toClient : toClient[i] \notin {Begin(t), End(t)}
      <4>1. \A k \in DOMAIN toClient' : toClient'[k] \notin {Begin(t), End(t)}
        BY <1>0, <1>4, <2>1, <3>3
      <4> QED BY <1>4, <3>3, <4>1 DEF Known
    <3>4. ASSUME NEW i \in DOMAIN toClient, toClient[i] = Create(t),
                 \A k \in DOMAIN toClient : k > i => toClient[k] \notin {Begin(t), End(t)}
          PROVE  Known(t)'
      <4>1. i \in DOMAIN toClient' /\ toClient'[i] = Create(t)
        BY <1>0, <2>1, <3>4
      <4>2. ASSUME NEW k \in DOMAIN toClient', k > i
            PROVE  toClient'[k] \notin {Begin(t), End(t)}
        BY <1>0, <1>4, <2>1, <3>4, <4>2
      <4> QED BY <4>1, <4>2 DEF Known
    <3> QED BY <3>1, <3>2, <3>3, <3>4 DEF Known
  <2> QED BY <1>4, <2>2, <2>3
<1>5. CASE Server
  <2> USE DEF serverVars, clientVars, history
  <2>1. CASE ServerReadsNotification \/ ServerComputes \/ ServerCloses
    BY <1>1, <2>1 DEF ServerReadsNotification, ServerComputes, ServerCloses
  <2>2. CASE ServerResponds
    <3>1. PICK m \in computed : Says(m)
      BY <2>2 DEF ServerResponds
    <3>2. m.type = "response"
      BY DEF TypeOK, Answers
    <3>3. m \notin {Begin(t), End(t)}
      BY <3>2, MessagesDiffer
    <3> QED BY <1>4, <2>2, <3>1, <3>3 DEF ServerResponds, Says
  <2>3. CASE ServerSays
    BY <1>4, <2>3, MessagesDiffer DEF ServerSays, Says
  <2>4. ASSUME NEW u \in Tokens, ServerPrepares(u) PROVE Known(t)'
    <3>1. u = t \/ (work[t] = "prepared" /\ (t \in forgotten => t \in forgotten'))
      BY <2>4 DEF ServerPrepares, TypeOK
    <3>2. t \in forgotten => t \in forgotten' \/ u = t
      BY <2>4 DEF ServerPrepares
    <3>3. CASE u = t
      <4>1. /\ DOMAIN toClient' = 1..(n + 1) /\ toClient'[n + 1] = Create(t)
        BY <1>0, <2>4, <3>3 DEF ServerPrepares, Says
      <4>2. n + 1 \in DOMAIN toClient' /\ \A k \in DOMAIN toClient' : ~(k > n + 1)
        BY <4>1
      <4> QED BY <4>1, <4>2 DEF Known
    <3>4. CASE u # t
      BY <1>4, <2>4, <3>1, <3>4, MessagesDiffer DEF ServerPrepares, Says
    <3> QED BY <3>3, <3>4
  <2>5. ASSUME NEW u \in Tokens, ServerDrops(u) PROVE Known(t)'
    <3>1. work[t] = "prepared" /\ UNCHANGED <<toClient, prepared, forgotten>>
      BY <2>5 DEF ServerDrops, TypeOK
    <3> QED BY <3>1 DEF PreparedAnnounced, Known
  <2>6. ASSUME NEW u \in Tokens, ServerBegins(u) \/ ServerEnds(u) PROVE Known(t)'
    <3>1. u # t /\ work[t] = "prepared"
      BY <2>6 DEF ServerBegins, ServerEnds, TypeOK
    <3>2. PICK m \in {Begin(u), End(u)} : toClient' = Append(toClient, m)
      BY <2>6 DEF ServerBegins, ServerEnds, Says
    <3>3. m \notin {Begin(t), End(t)}
      BY <3>1, <3>2, MessagesDiffer
    <3>4. UNCHANGED <<prepared, forgotten>>
      BY <2>6 DEF ServerBegins, ServerEnds
    <3> QED BY <1>4, <3>1, <3>2, <3>3, <3>4
  <2> QED BY <1>5, <2>1, <2>2, <2>3, <2>4, <2>5, <2>6 DEF Server
<1> QED BY <1>2, <1>3, <1>5 DEF Next

-----------------------------------------------------------------------------
(* Ids *)

LEMMA NextKeepsIds ==
    ASSUME TypeOK, IdsBelowNext, [Next]_vars
    PROVE  IdsBelowNext'
<1> PICK n \in Nat : n = Len(toClient)
  BY DEF TypeOK
<1> PICK k \in Nat : k = Len(toServer)
  BY DEF TypeOK
<1>0. /\ toClient \in Seq(ServerMessages) /\ DOMAIN toClient = 1..n
      /\ toServer \in Seq(ClientMessages) /\ DOMAIN toServer = 1..k
      /\ nextId \in Nat
  BY DEF TypeOK
<1> DEFINE Out == \A i \in DOMAIN toServer : toServer[i].type = "ask" => toServer[i].id < nextId
           Back == \A i \in DOMAIN toClient : toClient[i].type = "response" => toClient[i].id < nextId
<1>1. ASSUME toClient # <<>>, toClient' = Tail(toClient), nextId' \in {nextId, nextId + 1}
      PROVE  Back'
  <2>1. DOMAIN toClient' = 1..(n - 1) /\ \A i \in 1..(n - 1) : toClient'[i] = toClient[i + 1]
    BY <1>0, <1>1
  <2>2. ASSUME NEW i \in DOMAIN toClient', toClient'[i].type = "response"
        PROVE  toClient'[i].id < nextId'
    <3>1. i + 1 \in DOMAIN toClient /\ toClient'[i] = toClient[i + 1]
      BY <1>0, <2>1
    <3>2. toClient[i + 1] \in Answers
      BY <1>0, <2>2, <3>1 DEF ServerMessages, Answers
    <3>3. toClient[i + 1].id \in Nat /\ toClient[i + 1].id < nextId
      BY <2>2, <3>1, <3>2 DEF IdsBelowNext, Answers
    <3> QED BY <1>0, <1>1, <3>1, <3>3
  <2> QED BY <2>2
<1>2. ASSUME UNCHANGED toClient, nextId' \in {nextId, nextId + 1} PROVE Back'
  <2>1. ASSUME NEW i \in DOMAIN toClient, toClient[i].type = "response"
        PROVE  toClient[i].id < nextId'
    <3>1. toClient[i] \in Answers
      BY <1>0, <2>1 DEF ServerMessages, Answers
    <3> QED BY <1>0, <1>2, <2>1, <3>1 DEF IdsBelowNext, Answers
  <2> QED BY <1>2, <2>1
<1>3. ASSUME NEW m, toClient' = Append(toClient, m), UNCHANGED nextId,
             m.type = "response" => m.id < nextId
      PROVE  Back'
  <2>1. DOMAIN toClient' = 1..(n + 1) /\ toClient'[n + 1] = m
        /\ \A i \in 1..n : toClient'[i] = toClient[i]
    BY <1>0, <1>3
  <2> QED BY <1>0, <1>3, <2>1 DEF IdsBelowNext
<1>4. ASSUME UNCHANGED toServer, nextId' \in {nextId, nextId + 1} PROVE Out'
  <2>1. ASSUME NEW i \in DOMAIN toServer, toServer[i].type = "ask"
        PROVE  toServer[i].id < nextId'
    <3>1. toServer[i].id \in Nat
      BY <1>0, <2>1 DEF ClientMessages
    <3> QED BY <1>0, <1>4, <2>1, <3>1 DEF IdsBelowNext
  <2> QED BY <1>4, <2>1
<1>5. ASSUME NEW m, toServer' = Append(toServer, m), nextId' \in {nextId, nextId + 1},
             m.type = "ask" => m.id < nextId'
      PROVE  Out'
  <2>1. DOMAIN toServer' = 1..(k + 1) /\ toServer'[k + 1] = m
        /\ \A i \in 1..k : toServer'[i] = toServer[i]
    BY <1>0, <1>5
  <2>2. ASSUME NEW i \in 1..k, toServer[i].type = "ask" PROVE toServer[i].id < nextId'
    <3>1. toServer[i].id \in Nat
      BY <1>0, <2>2 DEF ClientMessages
    <3> QED BY <1>0, <1>5, <2>2, <3>1 DEF IdsBelowNext
  <2> QED BY <1>0, <1>5, <2>1, <2>2
<1>6. ASSUME toServer # <<>>, toServer' = Tail(toServer), UNCHANGED nextId PROVE Out'
  <2>1. DOMAIN toServer' = 1..(k - 1) /\ \A i \in 1..(k - 1) : toServer'[i] = toServer[i + 1]
    BY <1>0, <1>6
  <2> QED BY <1>0, <1>6, <2>1 DEF IdsBelowNext
<1>7. ASSUME UNCHANGED computed, nextId' \in {nextId, nextId + 1}
      PROVE  \A m \in computed' : m.id < nextId'
  <2>1. \A m \in computed : m.id \in Nat
    BY DEF TypeOK, Answers
  <2> QED BY <1>0, <1>7, <2>1 DEF IdsBelowNext
<1>8. ASSUME NEW m, Sends(m) \/ CannotSend, nextId' \in {nextId, nextId + 1},
             m.type = "ask" => m.id < nextId'
      PROVE  Out'
  BY <1>4, <1>5, <1>8 DEF Sends, CannotSend
<1>9. \A d : DidOpen(d).type # "ask" /\ DidClose(d).type # "ask"
  BY DEF DidOpen, DidClose
<1>10. \A s : ReplyTo(s).type # "ask"
  BY DEF ReplyTo
<1>11. \A d : Ask(nextId, d).type = "ask" /\ Ask(nextId, d).id < nextId + 1
  BY <1>0 DEF Ask
<1>12. CASE ClientCalls
  <2>1. UNCHANGED <<toClient, computed>> /\ nextId' \in {nextId, nextId + 1}
    BY <1>12 DEF ClientCalls, OpenDocument, CloseDocument, AskOnce, AskUnopened, AskSettled, serverVars
  <2>2. Out'
    BY <1>4, <1>8, <1>9, <1>11, <1>12
    DEF ClientCalls, OpenDocument, CloseDocument, AskOnce, AskUnopened, AskSettled
  <2> QED BY <1>2, <1>7, <2>1, <2>2 DEF IdsBelowNext
<1>13. CASE StartAttempt
  <2>1. UNCHANGED <<toClient, computed>> /\ nextId' = nextId + 1
    BY <1>13 DEF StartAttempt, serverVars
  <2>2. Out'
    BY <1>8, <1>11, <1>13, <2>1 DEF StartAttempt
  <2> QED BY <1>2, <1>7, <2>1, <2>2 DEF IdsBelowNext
<1>14. CASE ClientReads
  <2>1. UNCHANGED computed
    BY <1>14, ClientReadsEffect DEF ReadEffect, serverVars
  <2>2. nextId' \in {nextId, nextId + 1}
    BY <1>14 DEF ClientReads, ReadCreate, ReadBegin, ReadEnd, ReadNotification, ReadRequest,
                 ReadMalformed, ReadFails, ReadFailure, ReadStart, ReadAnswer, ReadUnsettled
  <2>3. Back'
    BY <1>1, <1>2, <1>14, <2>2, ClientReadsEffect DEF ReadEffect
  <2>4. Out'
    <3>1. CASE UNCHANGED toServer
      BY <1>4, <2>2, <3>1
    <3>2. ASSUME NEW s, Sends(ReplyTo(s)) \/ CannotSend PROVE Out'
      BY <1>8, <1>10, <2>2, <3>2
    <3>3. ASSUME NEW m, ReadStart(m) PROVE Out'
      BY <1>8, <1>11, <3>3 DEF ReadStart
    <3> QED BY <1>14, <3>1, <3>2, <3>3
        DEF ClientReads, ReadCreate, ReadBegin, ReadEnd, ReadNotification, ReadRequest,
            ReadMalformed, ReadFails, ReadFailure, ReadAnswer, ReadUnsettled
  <2> QED BY <1>7, <2>1, <2>2, <2>3, <2>4 DEF IdsBelowNext
<1>15. CASE LimitPasses \/ UNCHANGED vars
  BY <1>15 DEF LimitPasses, vars, clientVars, serverVars, IdsBelowNext
<1>16. CASE Server
  <2> USE DEF serverVars, clientVars
  <2>1. nextId' = nextId
    BY <1>16 DEF Server, ServerReadsNotification, ServerComputes, ServerResponds, ServerSays,
             ServerCloses, ServerPrepares, ServerDrops, ServerBegins, ServerEnds
  <2>2. CASE ServerReadsNotification
    BY <1>2, <1>6, <1>7, <2>1, <2>2 DEF ServerReadsNotification, IdsBelowNext
  <2>3. CASE ServerComputes
    <3>1. /\ Head(toServer) = toServer[1] /\ 1 \in DOMAIN toServer /\ Head(toServer).type = "ask"
          /\ toServer # <<>> /\ toServer' = Tail(toServer) /\ UNCHANGED toClient
      BY <1>0, <2>3 DEF ServerComputes
    <3>2. Head(toServer).id < nextId
      BY <3>1 DEF IdsBelowNext
    <3>3. \A m \in computed' : m.id < nextId'
      BY <2>1, <2>3, <3>2 DEF ServerComputes, ComputedAnswer, IdsBelowNext
    <3> QED BY <1>2, <1>6, <2>1, <3>1, <3>3 DEF IdsBelowNext
  <2>4. CASE ServerResponds
    <3>1. PICK m \in computed : Says(m) /\ computed' = computed \ {m}
      BY <2>4 DEF ServerResponds
    <3>2. m.id < nextId /\ \A a \in computed' : a.id < nextId'
      BY <2>1, <3>1 DEF IdsBelowNext
    <3> QED BY <1>3, <1>4, <2>1, <2>4, <3>1, <3>2 DEF ServerResponds, Says, IdsBelowNext
  <2>5. ASSUME NEW m, Says(m), m.type # "response", UNCHANGED <<toServer, computed>>
        PROVE  IdsBelowNext'
    BY <1>3, <1>4, <1>7, <2>1, <2>5 DEF Says, IdsBelowNext
  <2>6. CASE ServerSays
    BY <2>5, <2>6 DEF ServerSays, Notification, Malformed, Request
  <2>7. ASSUME NEW t \in Tokens, ServerPrepares(t) \/ ServerBegins(t) \/ ServerEnds(t)
        PROVE  IdsBelowNext'
    BY <2>5, <2>7 DEF ServerPrepares, ServerBegins, ServerEnds, Create, Begin, End
  <2>8. CASE ServerCloses \/ \E t \in Tokens : ServerDrops(t)
    BY <2>1, <2>8 DEF ServerCloses, ServerDrops, IdsBelowNext
  <2> QED BY <1>16, <2>2, <2>3, <2>4, <2>6, <2>7, <2>8 DEF Server
<1> QED BY <1>12, <1>13, <1>14, <1>15, <1>16 DEF Next

-----------------------------------------------------------------------------
(* The answers of a settled query *)

\* Reading a message that is not the response, and going on.
LEMMA TakeBetrays ==
    ASSUME TypeOK, TypeOK', AnswersBetrayed,
           toClient # <<>>, toClient' = Tail(toClient),
           UNCHANGED <<nextId, computed, used, noticedBefore>>,
           noticed <= noticed', Head(toClient).type \in {"create", "begin"} => noticed < noticed',
           Touched => Touched', running' # {} => noticed' > noticedBefore
    PROVE  AnswersBetrayed'
<1> PICK n \in Nat : n = Len(toClient)
  BY DEF TypeOK
<1>0. /\ DOMAIN toClient = 1..n /\ DOMAIN toClient' = 1..(n - 1) /\ n > 0 /\ Len(toClient') = n - 1
      /\ Head(toClient) = toClient[1]
      /\ \A j \in 1..(n - 1) : toClient'[j] = toClient[j + 1]
  BY HeadOfQueue DEF TypeOK
<1>1. /\ noticed \in Nat /\ noticed' \in Nat /\ noticedBefore \in Nat /\ noticedBefore <= noticed
  BY DEF TypeOK, AnswersBetrayed
<1>2. ASSUME NEW i \in 1..n, Touched \/ ToldBefore(i + 1)
      PROVE  Touched' \/ ToldBefore(i)'
  <2>1. CASE Touched
    BY <2>1
  <2>2. ASSUME NEW j \in 1..i, toClient[j].type \in {"create", "begin"}
        PROVE  Touched' \/ ToldBefore(i)'
    <3>1. CASE j = 1
      BY <1>0, <1>1, <2>2, <3>1 DEF Touched
    <3>2. CASE j # 1
      <4>1. j - 1 \in 1..(i - 1) /\ toClient'[j - 1] = toClient[j]
        BY <1>0, <3>2
      <4> QED BY <2>2, <4>1 DEF ToldBefore
    <3> QED BY <3>1, <3>2
  <2> QED BY <1>2, <2>1, <2>2 DEF ToldBefore
<1>3. Awaited' = Awaited
  BY DEF Awaited
<1>4. ASSUME NEW m \in computed, Unwhole(m)
      PROVE  Touched' \/ ToldBefore(Len(toClient) + 1)'
  <2>1. Touched \/ ToldBefore(n + 1)
    BY <1>4 DEF AnswersBetrayed
  <2>2. Touched' \/ ToldBefore(n)'
    BY <1>0, <1>2, <2>1
  <2> QED BY <1>0, <2>2 DEF ToldBefore
<1>5. ASSUME NEW i \in DOMAIN toClient', toClient'[i].type = "response", Unwhole(toClient'[i])
      PROVE  Touched' \/ ToldBefore(i)'
  <2>1. i \in 1..n /\ i + 1 \in DOMAIN toClient /\ toClient'[i] = toClient[i + 1]
    BY <1>0
  <2>2. Touched \/ ToldBefore(i + 1)
    BY <1>5, <2>1 DEF AnswersBetrayed
  <2> QED BY <1>2, <2>1, <2>2
<1>6. \A m \in used : m.loading \/ m.pending => Touched'
  BY DEF AnswersBetrayed
<1>7. \A i \in DOMAIN toClient' :
        (toClient'[i].type = "response" /\ Unwhole(toClient'[i])) => Touched' \/ ToldBefore(i)'
  BY <1>5
<1> QED BY <1>1, <1>3, <1>4, <1>6, <1>7 DEF AnswersBetrayed, Unwhole

\* One more message in the queue, the client doing nothing.
LEMMA SayBetrays ==
    ASSUME TypeOK, AnswersBetrayed, UNCHANGED <<nextId, used, noticedBefore, noticed, prepared, running>>,
           NEW m, toClient' = Append(toClient, m), computed' \subseteq computed,
           m.type = "response" => m \in computed
    PROVE  AnswersBetrayed'
<1> PICK n \in Nat : n = Len(toClient)
  BY DEF TypeOK
<1>0. /\ DOMAIN toClient = 1..n /\ DOMAIN toClient' = 1..(n + 1) /\ Len(toClient') = n + 1
      /\ toClient'[n + 1] = m
      /\ \A j \in 1..n : toClient'[j] = toClient[j]
  BY DEF TypeOK
<1>1. Touched' <=> Touched
  BY DEF Touched
<1>2. \A i \in 1..(n + 1) : ToldBefore(i) => ToldBefore(i)'
  BY <1>0 DEF ToldBefore
<1>3. Awaited' = Awaited
  BY DEF Awaited
<1>4. ASSUME NEW a \in computed, Unwhole(a)
      PROVE  Touched' \/ (ToldBefore(n + 1) /\ ToldBefore(Len(toClient) + 1)')
  <2>1. Touched \/ ToldBefore(n + 1)
    BY <1>4 DEF AnswersBetrayed
  <2>2. ToldBefore(n + 1) => ToldBefore(Len(toClient) + 1)'
    BY <1>0 DEF ToldBefore
  <2> QED BY <1>1, <2>1, <2>2
<1>5. ASSUME NEW i \in DOMAIN toClient', toClient'[i].type = "response", Unwhole(toClient'[i])
      PROVE  Touched' \/ ToldBefore(i)'
  <2>1. CASE i \in 1..n
    BY <1>0, <1>1, <1>2, <1>5, <2>1 DEF AnswersBetrayed
  <2>2. CASE i = n + 1
    BY <1>0, <1>1, <1>2, <1>4, <1>5, <2>2
  <2> QED BY <1>0, <2>1, <2>2
<1>6. /\ (noticedBefore <= noticed)' /\ (running # {} => noticed > noticedBefore)'
      /\ \A a \in used : a.loading \/ a.pending => Touched'
  BY <1>1 DEF AnswersBetrayed
<1>7. \A i \in DOMAIN toClient' :
        (toClient'[i].type = "response" /\ Unwhole(toClient'[i])) => Touched' \/ ToldBefore(i)'
  BY <1>5
<1>8. \A a \in computed' : Unwhole(a) => Touched' \/ ToldBefore(Len(toClient) + 1)'
  BY <1>4
<1> QED BY <1>3, <1>6, <1>7, <1>8 DEF AnswersBetrayed, Unwhole

\* An answer computed now betrays itself if work is running or prepared: the
\* client knows of the work, or the queue tells it before this answer is sent.
LEMMA ComputeBetrays ==
    ASSUME TypeOK, WorkInStep, PreparedAnnounced, AnswersBetrayed, NEW id, NEW r,
           ComputedAnswer(id, r).loading \/ ComputedAnswer(id, r).pending
    PROVE  Touched \/ ToldBefore(Len(toClient) + 1)
<1> PICK n \in Nat : n = Len(toClient)
  BY DEF TypeOK
<1>0. DOMAIN toClient = 1..n
  BY DEF TypeOK
<1>1. CASE RunningTokens # {}
  <2>1. PICK t \in Tokens : work[t] = "running"
    BY <1>1 DEF RunningTokens
  <2>2. RunningAt(t, n + 1)
    BY <2>1 DEF WorkInStep
  <2>3. t \in running \/ \E j \in 1..n : toClient[j] = Begin(t)
    BY <2>2 DEF RunningAt, OnAt
  <2> QED BY <2>3 DEF AnswersBetrayed, Touched, ToldBefore, Begin
<1>2. CASE PreparedTokens # {}
  <2>1. PICK t \in Tokens : work[t] = "prepared" /\ t \notin forgotten
    BY <1>2 DEF PreparedTokens
  <2>2. t \in prepared \/ \E j \in 1..n : toClient[j] = Create(t)
    BY <1>0, <2>1 DEF PreparedAnnounced, Known
  <2> QED BY <2>2 DEF Touched, ToldBefore, Create
<1> QED BY <1>1, <1>2 DEF ComputedAnswer

LEMMA StartAttemptBetrays ==
    ASSUME TypeOK, IdsBelowNext, SettlingSound, StartAttempt, pc' = "awaiting"
    PROVE  AnswersBetrayed'
<1>1. /\ nextId \in Nat /\ nextId' = nextId + 1 /\ noticedBefore' = noticed /\ noticed' = noticed
      /\ running = {} /\ running' = {} /\ used = {} /\ used' = {} /\ noticed \in Nat
      /\ UNCHANGED <<toClient, computed>>
  BY DEF TypeOK, StartAttempt, SettlingSound, Fail, Finish, serverVars
<1>2. Awaited' = nextId
  BY <1>1 DEF Awaited
<1>3. \A m \in computed : m.id # nextId
  BY <1>1 DEF IdsBelowNext, TypeOK, Answers
<1>4. \A i \in DOMAIN toClient : toClient[i].type = "response" => toClient[i].id # nextId
  BY <1>1 DEF IdsBelowNext
<1> QED BY <1>1, <1>2, <1>3, <1>4 DEF AnswersBetrayed, Unwhole

LEMMA ReadStartBetrays ==
    ASSUME TypeOK, IdsBelowNext, AnswersBetrayed, NEW m, ReadStart(m), pc' = "awaiting"
    PROVE  AnswersBetrayed'
<1> PICK n \in Nat : n = Len(toClient)
  BY DEF TypeOK
<1>0. /\ toClient # <<>> /\ m = Head(toClient) /\ m.type = "response" /\ m.id = Awaited
      /\ toClient' = Tail(toClient) /\ UNCHANGED <<computed, noticed, running>>
  BY DEF ReadStart, ReadsResponse, Reads, IsStray, ReadKeeps, serverVars
<1>1. /\ DOMAIN toClient = 1..n /\ DOMAIN toClient' = 1..(n - 1) /\ n > 0 /\ m = toClient[1]
      /\ \A j \in 1..(n - 1) : toClient'[j] = toClient[j + 1]
  BY <1>0, HeadOfQueue DEF TypeOK
<1>2. /\ nextId \in Nat /\ nextId' = nextId + 1 /\ used' = {m}
      /\ UNCHANGED <<noticedBefore, prepared>>
  BY DEF TypeOK, ReadStart, Fail, Finish
<1>3. Awaited' = nextId /\ (Touched' <=> Touched)
  BY <1>0, <1>2 DEF Awaited, Touched
<1>4. m.loading \/ m.pending => Touched
  <2>1. ~ToldBefore(1)
    BY DEF ToldBefore
  <2> QED BY <1>0, <1>1, <2>1 DEF AnswersBetrayed, Unwhole
<1>5. \A a \in computed : a.id # nextId
  BY <1>2 DEF IdsBelowNext, TypeOK, Answers
<1>6. \A i \in DOMAIN toClient' : toClient'[i].type = "response" => toClient'[i].id # nextId
  BY <1>1, <1>2 DEF IdsBelowNext
<1>7. (noticedBefore <= noticed)' /\ (running # {} => noticed > noticedBefore)'
  BY <1>0, <1>2 DEF AnswersBetrayed
<1> QED BY <1>0, <1>2, <1>3, <1>4, <1>5, <1>6, <1>7 DEF AnswersBetrayed, Unwhole

LEMMA ReadsKeepSettling ==
    ASSUME TypeOK, TypeOK', WorkInStep, prepared \cap running = {}, IdsBelowNext, SettlingSound,
           ClientReads
    PROVE  SettlingSound'
<1>0. UNCHANGED <<call, computed>> /\ pc # "idle"
  BY ClientReadsEffect DEF ReadEffect, serverVars, ClientReads, ReadCreate, ReadBegin, ReadEnd,
     ReadNotification, ReadRequest, ReadMalformed, ReadFails, ReadFailure, ReadStart, ReadAnswer,
     ReadUnsettled, ReadKeeps
<1>1. CASE pc' = "idle"
  BY <1>1 DEF SettlingSound
<1>2. ASSUME NEW m, Reads(m), NEW p, Continue(p), UNCHANGED nextId,
             noticed <= noticed', m.type \in {"create", "begin"} => noticed < noticed',
             Touched => Touched', running' # {} => running # {} \/ noticed < noticed'
      PROVE  SettlingSound'
  <2>1. /\ UNCHANGED <<pc, used, noticedBefore>> /\ toClient # <<>> /\ m = Head(toClient)
        /\ toClient' = Tail(toClient)
    BY <1>2 DEF Continue, frame, Reads
  <2>2. CASE pc = "awaiting" /\ Settled
    <3>1. AnswersBetrayed
      BY <2>2 DEF SettlingSound
    <3>2. running' # {} => noticed' > noticedBefore
      BY <1>2, <3>1 DEF AnswersBetrayed, TypeOK
    <3>3. AnswersBetrayed'
      BY <1>0, <1>2, <2>1, <3>1, <3>2, TakeBetrays
    <3> QED BY <2>1, <2>2, <3>3 DEF SettlingSound
  <2> QED BY <1>0, <2>1, <2>2 DEF SettlingSound, Settled
<1>3. ASSUME NEW p, NEW r, AfterMessage(p, r), pc' # "idle" PROVE Continue(p) /\ prepared' = p
  BY <1>3 DEF AfterMessage, Fail, Finish, Continue
<1>4. ASSUME NEW t \in Tokens, ReadCreate(t), pc' # "idle" PROVE SettlingSound'
  <2>1. /\ Reads(Create(t)) /\ UNCHANGED <<nextId, running>> /\ noticed' = noticed + 1
        /\ Continue(prepared \cup {t}) /\ prepared' = prepared \cup {t}
    BY <1>3, <1>4 DEF ReadCreate
  <2>2. Touched' /\ noticed < noticed' /\ noticed <= noticed'
    BY <2>1 DEF Touched, TypeOK
  <2> QED BY <1>2, <2>1, <2>2
<1>5. ASSUME NEW t \in Tokens, ReadBegin(t), pc' # "idle" PROVE SettlingSound'
  <2>1. /\ Reads(Begin(t)) /\ UNCHANGED nextId /\ noticed' = noticed + 1
        /\ Continue(prepared \ {t}) /\ noticed < noticed' /\ noticed <= noticed'
    BY <1>3, <1>5 DEF ReadBegin, TypeOK
  <2>2. CASE pc = "awaiting" /\ Settled
    <3>1. Touched'
      BY <2>1, <2>2 DEF Touched, SettlingSound, AnswersBetrayed, TypeOK, Continue, frame
    <3> QED BY <1>2, <2>1, <3>1
  <2>3. CASE ~(pc = "awaiting" /\ Settled)
    BY <1>0, <2>1, <2>3 DEF SettlingSound, Settled, Continue
  <2> QED BY <2>2, <2>3
<1>6. ASSUME NEW t \in Tokens, ReadEnd(t), pc' # "idle" PROVE SettlingSound'
  <2>1. /\ Reads(End(t)) /\ UNCHANGED <<nextId, noticed>> /\ running' = running \ {t}
        /\ Continue(prepared \ {t}) /\ prepared' = prepared \ {t} /\ noticed <= noticed'
        /\ End(t).type \notin {"create", "begin"}
    BY <1>3, <1>6 DEF ReadEnd, TypeOK, End
  <2>2. t \notin prepared
    <3>1. toClient[1] = End(t) /\ 1 \in DOMAIN toClient
      BY <2>1, HeadOfQueue DEF Reads, TypeOK
    <3>2. RunningAt(t, 1) <=> t \in running
      BY DEF RunningAt, OnAt
    <3> QED BY <3>1, <3>2 DEF WorkInStep
  <2>3. Touched => Touched'
    BY <2>1, <2>2 DEF Touched, Continue, frame
  <2> QED BY <1>2, <2>1, <2>3
<1>7. ASSUME NEW m, Reads(m), Continue(prepared), UNCHANGED <<nextId, noticed, running>>,
             m.type \notin {"create", "begin"}
      PROVE  SettlingSound'
  <2>1. Touched => Touched' /\ noticed <= noticed'
    BY <1>7 DEF Touched, Continue, frame, TypeOK
  <2> QED BY <1>2, <1>7, <2>1 DEF TypeOK
<1>8. ASSUME ReadNotification \/ ReadRequest, pc' # "idle" PROVE SettlingSound'
  <2>1. CASE ReadNotification
    BY <1>3, <1>7, <1>8, <2>1 DEF ReadNotification, Notification
  <2>2. CASE ReadRequest
    BY <1>3, <1>7, <1>8, <2>2 DEF ReadRequest, Request, Fail, Finish
  <2> QED BY <1>8, <2>1, <2>2
<1>9. ASSUME NEW m, ReadStart(m), pc' # "idle" PROVE SettlingSound'
  <2>1. /\ pc = "awaiting" /\ pc' = "awaiting" /\ Settled
    BY <1>0, <1>9 DEF ReadStart, IsStray, NeedsSecondRequest, Settled, Fail, Finish, TypeOK
  <2>2. AnswersBetrayed
    BY <2>1 DEF SettlingSound
  <2> QED BY <1>9, <2>1, <2>2, ReadStartBetrays DEF SettlingSound
<1>10. ASSUME NEW m, ReadUnsettled(m), pc' # "idle" PROVE SettlingSound'
  BY <1>10 DEF ReadUnsettled, Discard, Fail, Finish, SettlingSound
<1>11. ASSUME ReadMalformed \/ ReadFails \/ \E m : ReadFailure(m) \/ ReadAnswer(m)
       PROVE  pc' = "idle"
  BY <1>11 DEF ReadMalformed, ReadFails, ReadFailure, ReadAnswer, Fail, Finish
<1> QED BY <1>1, <1>4, <1>5, <1>6, <1>8, <1>9, <1>10, <1>11 DEF ClientReads

LEMMA ServerKeepsSettling ==
    ASSUME TypeOK, WorkInStep, PreparedAnnounced, SettlingSound, Server
    PROVE  SettlingSound'
<1> USE DEF serverVars, clientVars
<1>1. UNCHANGED <<pc, call, used, nextId, noticedBefore, noticed, prepared, running>>
  BY DEF Server, ServerReadsNotification, ServerComputes, ServerResponds, ServerSays, ServerCloses,
         ServerPrepares, ServerDrops, ServerBegins, ServerEnds
<1> SUFFICES ASSUME AnswersBetrayed PROVE AnswersBetrayed'
  BY <1>1 DEF SettlingSound, Settled
<1>2. ASSUME NEW m, Says(m), computed' \subseteq computed, m.type = "response" => m \in computed
      PROVE  AnswersBetrayed'
  BY <1>1, <1>2, SayBetrays DEF Says
<1>3. ASSUME UNCHANGED <<toClient, computed>> PROVE AnswersBetrayed'
  BY <1>1, <1>3 DEF AnswersBetrayed, Unwhole, Awaited, Touched, ToldBefore
<1>4. CASE ServerComputes
  <2>1. PICK r \in Results : computed' = computed \cup {ComputedAnswer(Head(toServer).id, r)}
    BY <1>4 DEF ServerComputes
  <2>2. toClient' = toClient
    BY <1>4 DEF ServerComputes
  <2>3. Awaited' = Awaited /\ (Touched' <=> Touched) /\ \A i : ToldBefore(i)' <=> ToldBefore(i)
    BY <1>1, <2>2 DEF Awaited, Touched, ToldBefore
  <2>4. ASSUME NEW m \in computed', Unwhole(m) PROVE Touched \/ ToldBefore(Len(toClient) + 1)
    <3>1. CASE m \in computed
      BY <2>4, <3>1 DEF AnswersBetrayed
    <3>2. CASE m = ComputedAnswer(Head(toServer).id, r)
      BY <2>4, <3>2, ComputeBetrays DEF Unwhole
    <3> QED BY <2>1, <3>1, <3>2
  <2>5. ToldBefore(Len(toClient) + 1)' <=> ToldBefore(Len(toClient) + 1)
    BY <2>2 DEF ToldBefore
  <2> QED BY <1>1, <2>2, <2>3, <2>4, <2>5 DEF AnswersBetrayed, Unwhole
<1>5. CASE ServerResponds
  BY <1>2, <1>5 DEF ServerResponds
<1>6. CASE ServerSays
  BY <1>2, <1>6 DEF ServerSays, Notification, Malformed, Request
<1>7. ASSUME NEW t \in Tokens, ServerPrepares(t) \/ ServerBegins(t) \/ ServerEnds(t)
      PROVE  AnswersBetrayed'
  BY <1>2, <1>7 DEF ServerPrepares, ServerBegins, ServerEnds, Create, Begin, End
<1>8. CASE ServerReadsNotification \/ ServerCloses \/ \E t \in Tokens : ServerDrops(t)
  BY <1>3, <1>8 DEF ServerReadsNotification, ServerCloses, ServerDrops
<1> QED BY <1>4, <1>5, <1>6, <1>7, <1>8 DEF Server

LEMMA NextKeepsSettling ==
    ASSUME TypeOK, TypeOK', WorkInStep, prepared \cap running = {}, PreparedAnnounced, IdsBelowNext,
           SettlingSound, [Next]_vars
    PROVE  SettlingSound'
<1>1. CASE ClientReads
  BY <1>1, ReadsKeepSettling
<1>2. CASE Server
  BY <1>2, ServerKeepsSettling
<1>3. CASE StartAttempt
  <2>1. CASE pc' = "awaiting"
    BY <1>3, <2>1, StartAttemptBetrays DEF SettlingSound
  <2>2. CASE pc' = "idle"
    BY <2>2 DEF SettlingSound
  <2> QED BY <1>3, <2>1, <2>2 DEF StartAttempt, Fail, Finish
<1>4. CASE ClientCalls
  <2>1. ASSUME NEW d \in Documents,
               OpenDocument(d) \/ CloseDocument(d) \/ \E q \in Queries : AskUnopened(q, d)
        PROVE  pc' = "idle"
    BY <2>1 DEF OpenDocument, CloseDocument, AskUnopened, Callable
  <2>2. ASSUME NEW d \in Documents, AskOnce(d)
        PROVE  pc' # "settling" /\ ~Settled'
    BY <2>2 DEF AskOnce, Callable, Settled
  <2>3. ASSUME NEW d \in Documents, NEW q \in Queries, AskSettled(q, d)
        PROVE  pc' = "settling" /\ used' = {}
    BY <2>3 DEF AskSettled
  <2> QED BY <1>4, <2>1, <2>2, <2>3 DEF ClientCalls, SettlingSound
<1>5. CASE LimitPasses \/ UNCHANGED vars
  BY <1>5 DEF LimitPasses, vars, clientVars, serverVars, history, frame, SettlingSound, Settled,
              AnswersBetrayed, Unwhole, Awaited, Touched, ToldBefore
<1> QED BY <1>1, <1>2, <1>3, <1>4, <1>5 DEF Next

WholeAnswers == NotComputedDuringWork /\ NotComputedBeforePreparedWork

LEMMA NextKeepsWhole ==
    ASSUME TypeOK, SettlingSound, WholeAnswers, [Next]_vars
    PROVE  WholeAnswers'
<1> USE DEF WholeAnswers, NotComputedDuringWork, NotComputedBeforePreparedWork, Settles
<1>1. ASSUME NEW m, ReadAnswer(m) PROVE WholeAnswers'
  <2>1. /\ pc = "awaiting" /\ m = Head(toClient) /\ toClient # <<>> /\ m.type = "response"
        /\ m.id = Awaited /\ used' = used \cup {m} /\ call' = call
        /\ Settled => Untouched
    BY <1>1 DEF ReadAnswer, ReadsResponse, Reads, Reading, IsStray, ReadKeeps
  <2>2. CASE Settled
    <3>1. ~Touched /\ AnswersBetrayed
      BY <2>1, <2>2 DEF Untouched, Touched, SettlingSound, TypeOK
    <3>2. ~ToldBefore(1) /\ m = toClient[1] /\ 1 \in DOMAIN toClient
      BY <2>1, HeadOfQueue DEF ToldBefore, TypeOK
    <3> QED BY <2>1, <3>1, <3>2 DEF AnswersBetrayed, Unwhole
  <2>3. CASE ~Settled
    BY <2>1, <2>3 DEF Settled
  <2> QED BY <2>2, <2>3
<1>2. ASSUME NEW m, ReadUnsettled(m) PROVE WholeAnswers'
  BY <1>2 DEF ReadUnsettled, Discard, Fail
<1>3. ASSUME NEW m, ReadStart(m) PROVE WholeAnswers'
  <2>1. pc = "awaiting"
    BY <1>3 DEF ReadStart, IsStray, ReadsResponse, Reads, Reading
  <2> QED BY <1>3, <2>1 DEF ReadStart, Fail
<1>4. ASSUME NEW p, NEW r, AfterMessage(p, r), pc # "idle" PROVE WholeAnswers'
  BY <1>4 DEF AfterMessage, Fail, Continue
<1>5. CASE ClientReads
  <2>1. pc # "idle"
    BY <1>5, ClientReadsEffect DEF ReadEffect
  <2> QED BY <1>1, <1>2, <1>3, <1>4, <1>5, <2>1
      DEF ClientReads, ReadCreate, ReadBegin, ReadEnd, ReadNotification, ReadRequest,
          ReadMalformed, ReadFails, ReadFailure, Fail
<1>6. CASE StartAttempt
  BY <1>6 DEF StartAttempt, Fail
<1>7. CASE ClientCalls
  BY <1>7 DEF ClientCalls, OpenDocument, CloseDocument, AskOnce, AskUnopened, AskSettled
<1>8. CASE Server \/ LimitPasses \/ UNCHANGED vars
  <2>1. UNCHANGED <<pc, outcome, call, used>>
    BY <1>8 DEF Server, ServerReadsNotification, ServerComputes, ServerResponds, ServerSays,
         ServerCloses, ServerPrepares, ServerDrops, ServerBegins, ServerEnds, LimitPasses, vars,
         clientVars
  <2> QED BY <2>1 DEF Settled
<1> QED BY <1>5, <1>6, <1>7, <1>8 DEF Next

-----------------------------------------------------------------------------
(* The theorems *)

LEMMA InitWorkInvariant == Init => WorkInvariant
<1> SUFFICES ASSUME Init PROVE WorkInvariant
  OBVIOUS
<1>1. WorkInStep
  BY DEF Init, WorkInStep, RunningAt, OnAt
<1>2. PreparedAnnounced /\ IdsBelowNext
  BY DEF Init, PreparedAnnounced, IdsBelowNext
<1>3. SettlingSound /\ NotComputedDuringWork /\ NotComputedBeforePreparedWork
  BY DEF Init, SettlingSound, NotComputedDuringWork, NotComputedBeforePreparedWork
<1> QED BY <1>1, <1>2, <1>3, InitTypeOK DEF Init, WorkInvariant

LEMMA NextWorkInvariant == WorkInvariant /\ [Next]_vars => WorkInvariant'
BY NextTypeOK, NextKeepsStep, NextKeepsAnnounced, NextKeepsIds, NextKeepsSettling, NextKeepsWhole
   DEF WorkInvariant, WholeAnswers

\* The inductive invariant: the client's notion of the server's work is the
\* server's own, read through the queue between them.
THEOREM WorkInvariantHolds == Spec => []WorkInvariant
BY InitWorkInvariant, NextWorkInvariant, PTL DEF Spec

\* A settled query never returns an answer computed while the server was working,
\* whatever the interleaving of the answer with the messages about the work.
THEOREM NoAnswerFromDuringWork == Spec => []NotComputedDuringWork
BY WorkInvariantHolds, PTL DEF WorkInvariant

\* ... nor one computed before work the client was told to expect.
THEOREM NoAnswerFromBeforePreparedWork == Spec => []NotComputedBeforePreparedWork
BY WorkInvariantHolds, PTL DEF WorkInvariant

\* A client that waits for work to end waits for an end that is still to come.
THEOREM WaitsAreForRealWork == Spec => []WaitsOnlyForRealWork
<1>1. WorkInvariant => WaitsOnlyForRealWork
  <2> SUFFICES ASSUME WorkInvariant, NEW t \in running
               PROVE  work[t] = "running" \/ End(t) \in MessagesIn(toClient)
    BY DEF WaitsOnlyForRealWork
  <2>1. /\ t \in Tokens /\ Len(toClient) \in Nat /\ DOMAIN toClient = 1..Len(toClient)
        /\ work[t] = "running" <=> RunningAt(t, Len(toClient) + 1)
    BY DEF WorkInvariant, TypeOK, WorkInStep
  <2>2. CASE \A k \in 1..Len(toClient) : toClient[k] # End(t)
    BY <2>1, <2>2 DEF RunningAt, OnAt
  <2>3. CASE \E k \in 1..Len(toClient) : toClient[k] = End(t)
    BY <2>1, <2>3 DEF MessagesIn
  <2> QED BY <2>2, <2>3
<1> QED BY <1>1, WorkInvariantHolds, PTL

-----------------------------------------------------------------------------
(* The two ends together, for every set of documents and tokens, every     *)
(* number of attempts and every bound: the documents and the requests of   *)
(* the server stay in step, and what a call returns fits what the client   *)
(* has heard.                                                              *)
(* The documents *)

LEMMA ClientQueue ==
    ASSUME TypeOK
    PROVE  /\ toServer \in Seq(ClientMessages) /\ Len(toServer) \in Nat
           /\ DOMAIN toServer = 1..Len(toServer)
BY DEF TypeOK

LEMMA DocumentMessages ==
    /\ \A d, e : DidOpen(d) # DidClose(e) /\ (DidOpen(d) = DidOpen(e) \/ DidClose(d) = DidClose(e) => d = e)
    /\ \A m \in ClientMessages : /\ m.type = "didOpen" => m = DidOpen(m.doc) /\ m.doc \in Documents
                                 /\ m.type = "didClose" => m = DidClose(m.doc) /\ m.doc \in Documents
                                 /\ m.type = "ask" => m.doc \in Documents
    /\ \A d \in Documents : {DidOpen(d), DidClose(d)} \subseteq ClientMessages
    /\ \A d : DidOpen(d).type = "didOpen" /\ DidClose(d).type = "didClose"
              /\ DidOpen(d).doc = d /\ DidClose(d).doc = d
<1>1. \A m \in ClientMessages : /\ m.type = "didOpen" => m = DidOpen(m.doc) /\ m.doc \in Documents
                                /\ m.type = "didClose" => m = DidClose(m.doc) /\ m.doc \in Documents
                                /\ m.type = "ask" => m.doc \in Documents
  BY DEF ClientMessages, DidOpen, DidClose
<1> QED BY <1>1 DEF ClientMessages, DidOpen, DidClose

\* What is written while it agrees with the open documents agrees with what the
\* server will have open when it comes to it.
LEMMA WriteKeepsDocuments ==
    ASSUME TypeOK, DocumentsInStep, UNCHANGED serverOpen,
           NEW m \in ClientMessages, toServer' = Append(toServer, m),
           \A d \in Documents : d \in openDocuments' <=>
             (m = DidOpen(d) \/ (d \in openDocuments /\ m # DidClose(d))),
           m.type = "didOpen" => m.doc \notin openDocuments,
           m.type = "didClose" \/ (m.type = "ask" /\ ~m.sited) => m.doc \in openDocuments,
           pc' # "idle" /\ Guarded(call'.query) => call'.doc \in openDocuments'
    PROVE  DocumentsInStep'
<1> DEFINE q == toServer
<1> PICK n \in Nat : n = Len(toServer)
  BY ClientQueue
<1>0. /\ q \in Seq(ClientMessages) /\ Len(Append(q, m)) = n + 1
      /\ \A j \in 1..n : Append(q, m)[j] = q[j]
      /\ Append(q, m)[n + 1] = m /\ n = Len(q)
      /\ DOMAIN q = 1..n /\ DOMAIN Append(q, m) = 1..(n + 1)
  BY ClientQueue
<1>1. ASSUME NEW d, NEW i \in 1..(n + 1) PROVE OpenAt(d, i)' <=> OpenAt(d, i)
  <2>1. OnAt(Append(q, m), DidOpen(d), DidClose(d), d, serverOpen, i)
          <=> OnAt(q, DidOpen(d), DidClose(d), d, serverOpen, i)
    BY <1>0, OnAtAppend
  <2> QED BY <2>1 DEF OpenAt
<1>2. ASSUME NEW d \in Documents
      PROVE  (d \in openDocuments <=> OpenAt(d, Len(toServer) + 1))'
  <2>1. OnAt(Append(q, m), DidOpen(d), DidClose(d), d, serverOpen, n + 2)
          <=> (m = DidOpen(d) \/ (OnAt(q, DidOpen(d), DidClose(d), d, serverOpen, n + 1)
                                   /\ m # DidClose(d)))
    BY <1>0, OnAtLast, DocumentMessages
  <2>2. OpenAt(d, n + 2)' <=> (m = DidOpen(d) \/ (OpenAt(d, n + 1) /\ m # DidClose(d)))
    BY <2>1 DEF OpenAt
  <2>3. d \in openDocuments <=> OpenAt(d, n + 1)
    BY <1>0 DEF DocumentsInStep
  <2>4. Len(toServer') + 1 = n + 2
    BY <1>0
  <2> QED BY <2>2, <2>3, <2>4 DEF OpenAt
<1>3. ASSUME NEW i \in DOMAIN Append(q, m), NEW x, x = Append(q, m)[i]
      PROVE  /\ x.type = "didOpen" => ~OpenAt(x.doc, i)'
             /\ x.type = "didClose" \/ (x.type = "ask" /\ ~x.sited) => OpenAt(x.doc, i)'
  <2>1. CASE i \in 1..n
    <3>1. x = q[i] /\ i \in DOMAIN q /\ (OpenAt(x.doc, i)' <=> OpenAt(x.doc, i))
      BY <1>0, <1>1, <1>3, <2>1
    <3> QED BY <3>1 DEF DocumentsInStep
  <2>2. CASE i = n + 1
    <3>1. \A d \in Documents : OpenAt(d, n + 1)' <=> d \in openDocuments
      BY <1>0, <1>1 DEF DocumentsInStep
    <3>2. x = m
      BY <1>0, <1>3, <2>2
    <3> QED BY <2>2, <3>1, <3>2, DocumentMessages
  <2> QED BY <1>0, <2>1, <2>2
<1>4. DOMAIN toServer' = DOMAIN Append(q, m)
  OBVIOUS
<1> QED BY <1>2, <1>3, <1>4 DEF DocumentsInStep

\* What the server takes from its input, it was prepared for.
LEMMA TakeKeepsDocuments ==
    ASSUME TypeOK, DocumentsInStep, UNCHANGED <<openDocuments, pc, call>>,
           toServer # <<>>, toServer' = Tail(toServer),
           \A d \in Documents : d \in serverOpen' <=>
             (Head(toServer) = DidOpen(d) \/ (d \in serverOpen /\ Head(toServer) # DidClose(d)))
    PROVE  DocumentsInStep'
<1> DEFINE q == toServer
<1> PICK n \in Nat : n = Len(toServer)
  BY ClientQueue
<1>0. /\ q \in Seq(ClientMessages) /\ n > 0 /\ Len(Tail(q)) = n - 1
      /\ \A j \in 1..(n - 1) : Tail(q)[j] = q[j + 1]
      /\ DOMAIN q = 1..n /\ DOMAIN Tail(q) = 1..(n - 1) /\ n = Len(q)
  BY ClientQueue
<1>1. ASSUME NEW d \in Documents, NEW i \in 1..n PROVE OpenAt(d, i)' <=> OpenAt(d, i + 1)
  <2>1. (d \in serverOpen') <=> (Head(q) = DidOpen(d) \/ ((d \in serverOpen) /\ Head(q) # DidClose(d)))
    OBVIOUS
  <2>2. DidOpen(d) # DidClose(d)
    BY DocumentMessages
  <2>3. OnAt(Tail(q), DidOpen(d), DidClose(d), d, serverOpen', i)
          <=> OnAt(q, DidOpen(d), DidClose(d), d, serverOpen, i + 1)
    BY <1>0, <2>1, <2>2, OnAtTail
  <2> QED BY <2>3 DEF OpenAt
<1>2. ASSUME NEW d \in Documents
      PROVE  (d \in openDocuments <=> OpenAt(d, Len(toServer) + 1))'
  <2>1. OpenAt(d, n)' <=> OpenAt(d, n + 1)
    BY <1>0, <1>1
  <2>2. Len(toServer') + 1 = n
    BY <1>0
  <2> QED BY <1>0, <2>1, <2>2 DEF DocumentsInStep, OpenAt
<1>3. ASSUME NEW i \in DOMAIN Tail(q), NEW x, x = Tail(q)[i]
      PROVE  /\ x.type = "didOpen" => ~OpenAt(x.doc, i)'
             /\ x.type = "didClose" \/ (x.type = "ask" /\ ~x.sited) => OpenAt(x.doc, i)'
  <2>1. i \in 1..n /\ i + 1 \in DOMAIN q /\ x = q[i + 1] /\ x \in ClientMessages
    BY <1>0, <1>3
  <2>2. /\ x.type = "didOpen" => ~OpenAt(x.doc, i + 1)
        /\ x.type = "didClose" \/ (x.type = "ask" /\ ~x.sited) => OpenAt(x.doc, i + 1)
    BY <2>1 DEF DocumentsInStep
  <2>3. x.type \in {"didOpen", "didClose", "ask"} => (OpenAt(x.doc, i)' <=> OpenAt(x.doc, i + 1))
    BY <1>1, <2>1, DocumentMessages
  <2> QED BY <2>2, <2>3
<1>4. DOMAIN toServer' = DOMAIN Tail(q)
  OBVIOUS
<1> QED BY <1>2, <1>3, <1>4 DEF DocumentsInStep

LEMMA SilenceKeepsDocuments ==
    ASSUME DocumentsInStep, UNCHANGED <<toServer, openDocuments, serverOpen>>,
           pc' # "idle" /\ Guarded(call'.query) => call'.doc \in openDocuments
    PROVE  DocumentsInStep'
<1>1. \A d, i : OpenAt(d, i)' <=> OpenAt(d, i)
  BY DEF OpenAt
<1> QED BY <1>1 DEF DocumentsInStep

\* A write that does not open or close a document.
LEMMA SendKeepsDocuments ==
    ASSUME TypeOK, DocumentsInStep, UNCHANGED <<serverOpen, openDocuments>>,
           NEW m \in ClientMessages, Sends(m) \/ CannotSend, m.type \notin {"didOpen", "didClose"},
           m.type = "ask" /\ ~m.sited => m.doc \in openDocuments,
           pc' # "idle" /\ Guarded(call'.query) => call'.doc \in openDocuments'
    PROVE  DocumentsInStep'
<1>1. \A d : m # DidOpen(d) /\ m # DidClose(d)
  BY DEF DidOpen, DidClose
<1>2. CASE Sends(m)
  BY <1>1, <1>2, WriteKeepsDocuments DEF Sends
<1>3. CASE CannotSend
  BY <1>3, SilenceKeepsDocuments DEF CannotSend
<1> QED BY <1>2, <1>3

LEMMA CallsKeepDocuments ==
    ASSUME TypeOK, DocumentsInStep, ClientCalls PROVE DocumentsInStep'
<1> USE DEF serverVars, Callable
<1>1. ASSUME NEW d \in Documents, OpenDocument(d) PROVE DocumentsInStep'
  <2>1. pc' = "idle" /\ UNCHANGED serverOpen
    BY <1>1 DEF OpenDocument
  <2>2. CASE UNCHANGED <<openDocuments, toServer>>
    BY <2>1, <2>2, SilenceKeepsDocuments
  <2>3. CASE d \notin openDocuments /\ Sends(DidOpen(d)) /\ openDocuments' = openDocuments \cup {d}
    BY <2>1, <2>3, WriteKeepsDocuments, DocumentMessages DEF Sends
  <2> QED BY <1>1, <2>2, <2>3 DEF OpenDocument, CannotSend
<1>2. ASSUME NEW d \in Documents, CloseDocument(d) PROVE DocumentsInStep'
  <2>1. pc' = "idle" /\ UNCHANGED serverOpen
    BY <1>2 DEF CloseDocument
  <2>2. CASE UNCHANGED <<openDocuments, toServer>>
    BY <2>1, <2>2, SilenceKeepsDocuments
  <2>3. CASE d \in openDocuments /\ Sends(DidClose(d)) /\ openDocuments' = openDocuments \ {d}
    BY <2>1, <2>3, WriteKeepsDocuments, DocumentMessages DEF Sends
  <2> QED BY <1>2, <2>2, <2>3 DEF CloseDocument, CannotSend
<1>3. ASSUME NEW d \in Documents, AskOnce(d) PROVE DocumentsInStep'
  <2>1. /\ UNCHANGED <<serverOpen, openDocuments>> /\ d \in openDocuments
        /\ call' = [query |-> "typeDefinition", doc |-> d]
        /\ Sends(Ask(nextId, call')) \/ CannotSend
    BY <1>3 DEF AskOnce
  <2>2. Ask(nextId, call') \in ClientMessages /\ Ask(nextId, call').type = "ask"
        /\ Ask(nextId, call').doc = d
    BY <2>1 DEF Ask, ClientMessages, TypeOK
  <2> QED BY <2>1, <2>2, SendKeepsDocuments
<1>4. ASSUME NEW d \in Documents, NEW q \in Queries, AskUnopened(q, d) PROVE DocumentsInStep'
  BY <1>4, SilenceKeepsDocuments DEF AskUnopened
<1>5. ASSUME NEW d \in Documents, NEW q \in Queries, AskSettled(q, d) PROVE DocumentsInStep'
  BY <1>5, SilenceKeepsDocuments DEF AskSettled
<1> QED BY <1>1, <1>2, <1>3, <1>4, <1>5 DEF ClientCalls

\* The question of the call in progress is one the server is prepared for.
LEMMA AskIsPrepared ==
    ASSUME TypeOK, DocumentsInStep, pc # "idle"
    PROVE  /\ Ask(nextId, call) \in ClientMessages
           /\ Ask(nextId, call).type \notin {"didOpen", "didClose"}
           /\ ~Ask(nextId, call).sited => Ask(nextId, call).doc \in openDocuments
<1>1. Ask(nextId, call) \in ClientMessages
  BY DEF TypeOK, CallKinds, Ask, ClientMessages
<1> QED BY <1>1 DEF Ask, DocumentsInStep, Guarded

LEMMA ReadsKeepDocuments ==
    ASSUME TypeOK, DocumentsInStep, ClientReads \/ StartAttempt PROVE DocumentsInStep'
<1>1. UNCHANGED <<openDocuments, serverOpen, call>> /\ pc # "idle"
  BY ClientReadsEffect DEF ReadEffect, serverVars, ClientReads, ReadCreate, ReadBegin, ReadEnd,
     ReadNotification, ReadRequest, ReadMalformed, ReadFails, ReadFailure, ReadStart, ReadAnswer,
     ReadUnsettled, ReadKeeps, StartAttempt
<1>2. Guarded(call'.query) => call'.doc \in openDocuments'
  BY <1>1 DEF DocumentsInStep
<1>3. /\ Ask(nextId, call) \in ClientMessages
      /\ Ask(nextId, call).type \notin {"didOpen", "didClose"}
      /\ ~Ask(nextId, call).sited => Ask(nextId, call).doc \in openDocuments
  BY <1>1, AskIsPrepared
<1>4. ASSUME NEW s \in {"create", "request"}, Sends(ReplyTo(s)) \/ CannotSend PROVE DocumentsInStep'
  <2>1. ReplyTo(s) \in ClientMessages /\ ReplyTo(s).type = "reply"
    BY DEF ReplyTo, ClientMessages
  <2> QED BY <1>1, <1>2, <1>4, <2>1, SendKeepsDocuments
<1>5. CASE StartAttempt \/ \E m : ReadStart(m)
  <2>1. Sends(Ask(nextId, call)) \/ CannotSend
    BY <1>5 DEF StartAttempt, ReadStart
  <2> QED BY <1>1, <1>2, <1>3, <2>1, SendKeepsDocuments
<1>6. CASE ReadRequest \/ \E t \in Tokens : ReadCreate(t)
  BY <1>4, <1>6 DEF ReadRequest, ReadCreate
<1>7. CASE UNCHANGED toServer
  BY <1>1, <1>2, <1>7, SilenceKeepsDocuments
<1> QED BY <1>5, <1>6, <1>7 DEF ClientReads, ReadBegin, ReadEnd, ReadNotification, ReadMalformed,
           ReadFails, ReadFailure, ReadAnswer, ReadUnsettled

LEMMA ServerKeepsDocuments ==
    ASSUME TypeOK, DocumentsInStep, Server PROVE DocumentsInStep'
<1>1. UNCHANGED <<openDocuments, pc, call>>
  BY DEF Server, ServerReadsNotification, ServerComputes, ServerResponds, ServerSays, ServerCloses,
         ServerPrepares, ServerDrops, ServerBegins, ServerEnds, clientVars
<1>2. CASE ServerReadsNotification
  <2>1. /\ toServer # <<>> /\ toServer' = Tail(toServer)
        /\ LET m == Head(toServer) IN
             serverOpen' = CASE m.type = "didOpen"  -> serverOpen \cup {m.doc}
                             [] m.type = "didClose" -> serverOpen \ {m.doc}
                             [] OTHER               -> serverOpen
    BY <1>2 DEF ServerReadsNotification
  <2>2. Head(toServer) \in ClientMessages
    BY <2>1 DEF TypeOK
  <2>3. \A d \in Documents : d \in serverOpen' <=>
             (Head(toServer) = DidOpen(d) \/ (d \in serverOpen /\ Head(toServer) # DidClose(d)))
    BY <2>1, <2>2, DocumentMessages
  <2> QED BY <1>1, <2>1, <2>3, TakeKeepsDocuments
<1>3. CASE ServerComputes
  <2>1. /\ toServer # <<>> /\ toServer' = Tail(toServer) /\ UNCHANGED serverOpen
        /\ Head(toServer).type = "ask"
    BY <1>3 DEF ServerComputes
  <2>2. \A d : Head(toServer) # DidOpen(d) /\ Head(toServer) # DidClose(d)
    BY <2>1, DocumentMessages
  <2> QED BY <1>1, <2>1, <2>2, TakeKeepsDocuments
<1>4. CASE UNCHANGED <<toServer, serverOpen>>
  <2>1. pc' # "idle" /\ Guarded(call'.query) => call'.doc \in openDocuments
    BY <1>1 DEF DocumentsInStep
  <2> QED BY <1>1, <1>4, <2>1, SilenceKeepsDocuments
<1> QED BY <1>2, <1>3, <1>4 DEF Server, ServerResponds, ServerSays, ServerCloses,
           ServerPrepares, ServerDrops, ServerBegins, ServerEnds, serverVars

LEMMA NextKeepsDocuments ==
    ASSUME TypeOK, DocumentsInStep, [Next]_vars PROVE DocumentsInStep'
<1>1. CASE LimitPasses \/ UNCHANGED vars
  <2>1. UNCHANGED <<toServer, openDocuments, serverOpen, pc, call>>
    BY <1>1 DEF LimitPasses, vars, clientVars, serverVars
  <2>2. pc' # "idle" /\ Guarded(call'.query) => call'.doc \in openDocuments
    BY <2>1 DEF DocumentsInStep
  <2> QED BY <2>1, <2>2, SilenceKeepsDocuments
<1> QED BY <1>1, CallsKeepDocuments, ReadsKeepDocuments, ServerKeepsDocuments DEF Next

-----------------------------------------------------------------------------
(* The requests of the server *)

LEMMA MessagesAppend ==
    ASSUME NEW S, NEW q \in Seq(S), NEW m \in S
    PROVE  MessagesIn(Append(q, m)) = MessagesIn(q) \cup {m}
<1> PICK n \in Nat : n = Len(q)
  OBVIOUS
<1>1. /\ DOMAIN q = 1..n /\ DOMAIN Append(q, m) = 1..(n + 1)
      /\ Append(q, m)[n + 1] = m /\ \A j \in 1..n : Append(q, m)[j] = q[j]
  OBVIOUS
<1>2. MessagesIn(Append(q, m)) = {Append(q, m)[i] : i \in 1..(n + 1)}
  BY <1>1 DEF MessagesIn
<1>3. MessagesIn(q) = {q[i] : i \in 1..n}
  BY <1>1 DEF MessagesIn
<1>4. 1..(n + 1) = 1..n \cup {n + 1}
  OBVIOUS
<1> QED BY <1>1, <1>2, <1>3, <1>4

LEMMA MessagesTail ==
    ASSUME NEW S, NEW q \in Seq(S), q # <<>>
    PROVE  MessagesIn(q) = {Head(q)} \cup MessagesIn(Tail(q))
<1> PICK n \in Nat : n = Len(q)
  OBVIOUS
<1>1. /\ n > 0 /\ DOMAIN q = 1..n /\ DOMAIN Tail(q) = 1..(n - 1) /\ Head(q) = q[1]
      /\ \A j \in 1..(n - 1) : Tail(q)[j] = q[j + 1]
  OBVIOUS
<1>2. ASSUME NEW x, x \in MessagesIn(q) PROVE x = Head(q) \/ x \in MessagesIn(Tail(q))
  <2>1. PICK i \in 1..n : x = q[i]
    BY <1>1, <1>2 DEF MessagesIn
  <2>2. CASE i = 1
    BY <1>1, <2>1, <2>2
  <2>3. CASE i # 1
    <3>1. i - 1 \in 1..(n - 1) /\ x = Tail(q)[i - 1]
      BY <1>1, <2>1, <2>3
    <3> QED BY <1>1, <3>1 DEF MessagesIn
  <2> QED BY <2>2, <2>3
<1>3. ASSUME NEW x, x = Head(q) \/ x \in MessagesIn(Tail(q)) PROVE x \in MessagesIn(q)
  <2>1. PICK i \in 1..n : x = q[i]
    <3>1. CASE x = Head(q)
      BY <1>1, <3>1
    <3>2. CASE x \in MessagesIn(Tail(q))
      <4>1. PICK j \in 1..(n - 1) : x = Tail(q)[j]
        BY <1>1, <3>2 DEF MessagesIn
      <4>2. j + 1 \in 1..n /\ x = q[j + 1]
        BY <1>1, <4>1
      <4> QED BY <4>2
    <3> QED BY <1>3, <3>1, <3>2
  <2> QED BY <1>1, <2>1 DEF MessagesIn
<1> QED BY <1>2, <1>3

LEMMA ServerQueue ==
    ASSUME TypeOK
    PROVE  toClient \in Seq(ServerMessages) /\ toServer \in Seq(ClientMessages)
BY DEF TypeOK

\* What the client reads of the server's messages leaves a waiting server a way out.
LEMMA SendKeepsReply ==
    ASSUME TypeOK, UNCHANGED inputOpen, ReplyTo("request") \in MessagesIn(toServer) \/ ~inputOpen,
           NEW m \in ClientMessages, Sends(m) \/ CannotSend \/ UNCHANGED toServer
    PROVE  ReplyTo("request") \in MessagesIn(toServer') \/ ~inputOpen'
<1>1. CASE Sends(m)
  BY <1>1, MessagesAppend, ServerQueue DEF Sends
<1> QED BY <1>1 DEF CannotSend

LEMMA ReadsKeepReplies ==
    ASSUME TypeOK, NoMutualWait, ClientReads \/ StartAttempt PROVE NoMutualWait'
<1>1. UNCHANGED <<serverAwaits, inputOpen>> /\ pc # "idle"
  BY ClientReadsEffect DEF ReadEffect, serverVars, ClientReads, ReadCreate, ReadBegin, ReadEnd,
     ReadNotification, ReadRequest, ReadMalformed, ReadFails, ReadFailure, ReadStart, ReadAnswer,
     ReadUnsettled, ReadKeeps, StartAttempt
<1>2. ASSUME NEW m \in ClientMessages, Sends(m) \/ CannotSend \/ UNCHANGED toServer,
             toClient' = toClient
               \/ (toClient # <<>> /\ toClient' = Tail(toClient) /\ Head(toClient) # Request)
      PROVE  NoMutualWait'
  <2>1. Request \in MessagesIn(toClient) => Request \in MessagesIn(toClient')
    BY <1>2, MessagesTail, ServerQueue
  <2> QED BY <1>1, <1>2, <2>1, SendKeepsReply DEF NoMutualWait
<1>3. ASSUME NEW m, Reads(m) PROVE toClient # <<>> /\ toClient' = Tail(toClient) /\ Head(toClient) = m
  BY <1>3 DEF Reads
<1>4. ReplyTo("create") \in ClientMessages /\ ReplyTo("request") \in ClientMessages
      /\ Ask(nextId, call) \in ClientMessages
  BY <1>1 DEF TypeOK, CallKinds, ReplyTo, Ask, ClientMessages
<1>5. CASE StartAttempt
  <2>1. toClient' = toClient /\ (Sends(Ask(nextId, call)) \/ CannotSend)
    BY <1>5 DEF StartAttempt
  <2> QED BY <1>2, <1>4, <2>1
<1>6. ASSUME NEW t \in Tokens, ReadCreate(t) \/ ReadBegin(t) \/ ReadEnd(t) PROVE NoMutualWait'
  <2>1. toClient # <<>> /\ toClient' = Tail(toClient) /\ Head(toClient) # Request
    BY <1>3, <1>6, MessagesDiffer DEF ReadCreate, ReadBegin, ReadEnd
  <2>2. Sends(ReplyTo("create")) \/ CannotSend \/ UNCHANGED toServer
    BY <1>6 DEF ReadCreate, ReadBegin, ReadEnd
  <2> QED BY <1>2, <1>4, <2>1, <2>2
<1>7. CASE ReadNotification \/ ReadMalformed
  <2>1. toClient # <<>> /\ toClient' = Tail(toClient) /\ Head(toClient) # Request /\ UNCHANGED toServer
    BY <1>3, <1>7 DEF ReadNotification, ReadMalformed, Request, Notification, Malformed
  <2> QED BY <1>2, <1>4, <2>1
<1>8. CASE ReadRequest
  <2>1. Sends(ReplyTo("request")) \/ CannotSend
    BY <1>8 DEF ReadRequest
  <2>2. ReplyTo("request") \in MessagesIn(toServer') \/ ~inputOpen
    <3>1. CASE Sends(ReplyTo("request"))
      <4>1. MessagesIn(toServer') = MessagesIn(toServer) \cup {ReplyTo("request")}
        BY <1>4, <3>1, MessagesAppend, ServerQueue DEF Sends
      <4> QED BY <4>1
    <3> QED BY <2>1, <3>1 DEF CannotSend
  <2> QED BY <1>1, <2>2 DEF NoMutualWait
<1>9. CASE ReadFails
  <2>1. UNCHANGED <<toClient, toServer>>
    BY <1>9 DEF ReadFails
  <2> QED BY <1>2, <1>4, <2>1
<1>10. ASSUME NEW m, ReadFailure(m) \/ ReadStart(m) \/ ReadAnswer(m) \/ ReadUnsettled(m)
       PROVE  NoMutualWait'
  <2>1. ReadsResponse(m) /\ (Sends(Ask(nextId, call)) \/ CannotSend \/ UNCHANGED toServer)
    BY <1>10 DEF ReadFailure, ReadStart, ReadAnswer, ReadUnsettled
  <2>2. toClient # <<>> /\ toClient' = Tail(toClient) /\ Head(toClient) # Request
    BY <1>3, <2>1 DEF ReadsResponse, Request
  <2> QED BY <1>2, <1>4, <2>1, <2>2
<1> QED BY <1>5, <1>6, <1>7, <1>8, <1>9, <1>10 DEF ClientReads

LEMMA CallsKeepReplies ==
    ASSUME TypeOK, NoMutualWait, ClientCalls PROVE NoMutualWait'
<1>1. UNCHANGED <<serverAwaits, inputOpen, toClient>>
  BY DEF ClientCalls, OpenDocument, CloseDocument, AskOnce, AskUnopened, AskSettled, serverVars
<1>2. UNCHANGED toServer \/ \E m \in ClientMessages : Sends(m) \/ CannotSend
  <2>1. ASSUME NEW d \in Documents, AskOnce(d) PROVE \E m \in ClientMessages : Sends(m) \/ CannotSend
    <3>1. /\ call' = [query |-> "typeDefinition", doc |-> d]
          /\ Sends(Ask(nextId, call')) \/ CannotSend
      BY <2>1 DEF AskOnce
    <3>2. Ask(nextId, call') \in ClientMessages
      BY <3>1 DEF Ask, ClientMessages, TypeOK
    <3> QED BY <3>1, <3>2
  <2>2. \A d \in Documents : OpenDocument(d) => UNCHANGED toServer \/ Sends(DidOpen(d)) \/ CannotSend
    BY DEF OpenDocument
  <2>3. \A d \in Documents : CloseDocument(d) => UNCHANGED toServer \/ Sends(DidClose(d)) \/ CannotSend
    BY DEF CloseDocument
  <2>4. \A d \in Documents, q \in Queries : AskUnopened(q, d) \/ AskSettled(q, d) => UNCHANGED toServer
    BY DEF AskUnopened, AskSettled
  <2>5. \A d \in Documents : {DidOpen(d), DidClose(d)} \subseteq ClientMessages
    BY DocumentMessages
  <2> QED BY <2>1, <2>2, <2>3, <2>4, <2>5 DEF ClientCalls, CannotSend
<1>3. ASSUME NEW m \in ClientMessages, Sends(m) \/ CannotSend PROVE NoMutualWait'
  BY <1>1, <1>3, SendKeepsReply DEF NoMutualWait
<1> QED BY <1>1, <1>2, <1>3 DEF NoMutualWait

LEMMA ServerKeepsReplies ==
    ASSUME TypeOK, NoMutualWait, Server PROVE NoMutualWait'
<1>1. CASE ServerReadsNotification
  <2>1. /\ toServer # <<>> /\ toServer' = Tail(toServer) /\ UNCHANGED <<toClient, inputOpen>>
        /\ serverAwaits' => serverAwaits /\ Head(toServer) # ReplyTo("request")
    BY <1>1 DEF ServerReadsNotification
  <2>2. MessagesIn(toServer) = {Head(toServer)} \cup MessagesIn(toServer')
    BY <2>1, MessagesTail, ServerQueue
  <2> QED BY <2>1, <2>2 DEF NoMutualWait
<1>2. CASE ServerComputes
  <2>1. /\ toServer # <<>> /\ toServer' = Tail(toServer)
        /\ UNCHANGED <<toClient, inputOpen, serverAwaits>> /\ Head(toServer) # ReplyTo("request")
    BY <1>2 DEF ServerComputes, ReplyTo
  <2>2. MessagesIn(toServer) = {Head(toServer)} \cup MessagesIn(toServer')
    BY <2>1, MessagesTail, ServerQueue
  <2> QED BY <2>1, <2>2 DEF NoMutualWait
<1>3. ASSUME NEW m, Says(m), UNCHANGED <<toServer, inputOpen>>, m \in ServerMessages,
             serverAwaits' = serverAwaits \/ m = Request
      PROVE  NoMutualWait'
  <2>1. MessagesIn(toClient') = MessagesIn(toClient) \cup {m}
    BY <1>3, MessagesAppend, ServerQueue DEF Says
  <2> QED BY <1>3, <2>1 DEF NoMutualWait
<1>4. \A t \in Tokens : {Create(t), Begin(t), End(t)} \subseteq ServerMessages
  BY DEF Create, Begin, End, ServerMessages
<1>5. {Notification, Request, Malformed} \subseteq ServerMessages
  BY DEF Notification, Request, Malformed, ServerMessages
<1>6. CASE ServerSays
  BY <1>3, <1>5, <1>6 DEF ServerSays
<1>7. CASE ServerResponds
  <2>1. PICK r \in computed : Says(r) /\ UNCHANGED <<toServer, inputOpen, serverAwaits>>
    BY <1>7 DEF ServerResponds
  <2>2. r \in ServerMessages
    BY DEF TypeOK, ServerMessages
  <2> QED BY <1>3, <2>1, <2>2
<1>8. ASSUME NEW t \in Tokens, ServerPrepares(t) \/ ServerBegins(t) \/ ServerEnds(t)
      PROVE  NoMutualWait'
  <2>1. /\ Says(Create(t)) \/ Says(Begin(t)) \/ Says(End(t))
        /\ UNCHANGED <<toServer, inputOpen, serverAwaits>>
    BY <1>8 DEF ServerPrepares, ServerBegins, ServerEnds
  <2> QED BY <1>3, <1>4, <2>1
<1>9. ASSUME NEW t \in Tokens, ServerDrops(t) PROVE NoMutualWait'
  BY <1>9 DEF ServerDrops, NoMutualWait
<1>10. CASE ServerCloses
  BY <1>10 DEF ServerCloses, NoMutualWait
<1> QED BY <1>1, <1>2, <1>6, <1>7, <1>8, <1>9, <1>10 DEF Server

LEMMA NextKeepsReplies ==
    ASSUME TypeOK, NoMutualWait, [Next]_vars PROVE NoMutualWait'
<1>1. CASE LimitPasses \/ UNCHANGED vars
  BY <1>1 DEF LimitPasses, vars, clientVars, serverVars, NoMutualWait
<1> QED BY <1>1, CallsKeepReplies, ReadsKeepReplies, ServerKeepsReplies DEF Next

-----------------------------------------------------------------------------
(* The news of the server's work *)

\* A call that goes on after a message is the call it was; one that ends forgets.
LEMMA FinishKeepsNews ==
    ASSUME TypeOK, NewsInStep, NEW o, NEW p, Finish(o, p), UNCHANGED call, noticed' \in Nat,
           noticed' >= noticed, p # {} => noticedAtForget < noticed'
    PROVE  NewsInStep'
BY DEF NewsInStep, Finish, TypeOK, Settled

LEMMA MessageKeepsNews ==
    ASSUME TypeOK, NewsInStep, NEW p, NEW r, AfterMessage(p, r), UNCHANGED call, noticed' \in Nat,
           noticed' >= noticed, p # {} => noticedAtForget < noticed'
    PROVE  NewsInStep'
<1>1. CASE Fail("abandoned", p)
  BY <1>1, FinishKeepsNews DEF Fail
<1>2. CASE Continue(p)
  BY <1>2 DEF Continue, NewsInStep, history, frame, Settled, TypeOK
<1> QED BY <1>1, <1>2 DEF AfterMessage

LEMMA ReadsKeepNews ==
    ASSUME TypeOK, NewsInStep, ClientReads PROVE NewsInStep'
<1> USE DEF ReadKeeps
<1>0. noticed \in Nat /\ noticedAtForget \in Nat /\ (prepared # {} => noticedAtForget < noticed)
      /\ noticedAtForget <= noticed
  BY DEF TypeOK, NewsInStep
<1>1. ASSUME NEW t \in Tokens, ReadCreate(t) PROVE NewsInStep'
  <2>1. CASE AfterMessage(prepared \cup {t}, running) /\ noticed' = noticed + 1
    BY <1>0, <1>1, <2>1, MessageKeepsNews DEF ReadCreate
  <2>2. CASE /\ UNCHANGED noticed /\ pc' = "idle"
             /\ prepared' = IF Settled THEN {} ELSE prepared
             /\ noticedAtForget' = IF Settled THEN noticed ELSE noticedAtForget
    BY <1>0, <2>2 DEF NewsInStep
  <2> QED BY <1>1, <2>1, <2>2 DEF ReadCreate
<1>2. ASSUME NEW t \in Tokens, ReadBegin(t) PROVE NewsInStep'
  <2>1. AfterMessage(prepared \ {t}, running') /\ noticed' = noticed + 1 /\ UNCHANGED call
    BY <1>2 DEF ReadBegin
  <2> QED BY <1>0, <2>1, MessageKeepsNews
<1>3. ASSUME NEW t \in Tokens, ReadEnd(t) PROVE NewsInStep'
  <2>1. AfterMessage(prepared \ {t}, running') /\ UNCHANGED <<noticed, call>>
    BY <1>3 DEF ReadEnd
  <2> QED BY <1>0, <2>1, MessageKeepsNews
<1>4. ASSUME NEW o, Fail(o, prepared), UNCHANGED <<noticed, call>> PROVE NewsInStep'
  BY <1>0, <1>4, FinishKeepsNews DEF Fail
<1>5. CASE ReadNotification \/ ReadRequest
  <2>1. UNCHANGED <<noticed, call>>
        /\ (AfterMessage(prepared, running) \/ Fail("failed", prepared))
    BY <1>5 DEF ReadNotification, ReadRequest
  <2> QED BY <1>0, <1>4, <2>1, MessageKeepsNews
<1>6. CASE ReadMalformed \/ ReadFails \/ \E m : ReadFailure(m)
  <2>1. UNCHANGED <<noticed, call>> /\ \E o : Fail(o, prepared)
    BY <1>6 DEF ReadMalformed, ReadFails, ReadFailure
  <2> QED BY <1>4, <2>1
<1>7. ASSUME NEW m, ReadStart(m) PROVE NewsInStep'
  <2>1. UNCHANGED <<noticed, call>>
    BY <1>7 DEF ReadStart
  <2>2. CASE UNCHANGED <<prepared, pc, noticedBefore, noticedAtForget>>
    BY <2>1, <2>2 DEF NewsInStep, Settled
  <2> QED BY <1>4, <1>7, <2>1, <2>2 DEF ReadStart, history
<1>8. ASSUME NEW m, ReadAnswer(m) PROVE NewsInStep'
  BY <1>0, <1>8, FinishKeepsNews DEF ReadAnswer
<1>9. ASSUME NEW m, ReadUnsettled(m) PROVE NewsInStep'
  <2>1. UNCHANGED <<noticed, call>> /\ Discard
    BY <1>9 DEF ReadUnsettled
  <2>2. CASE pc' = "settling" /\ UNCHANGED <<prepared, noticedAtForget>>
    BY <2>1, <2>2 DEF NewsInStep
  <2> QED BY <1>4, <2>1, <2>2 DEF Discard, history
<1> QED BY <1>1, <1>2, <1>3, <1>5, <1>6, <1>7, <1>8, <1>9 DEF ClientReads

LEMMA NextKeepsNews ==
    ASSUME TypeOK, NewsInStep, [Next]_vars PROVE NewsInStep'
<1>1. CASE LimitPasses \/ Server \/ UNCHANGED vars
  <2>1. UNCHANGED <<prepared, noticed, pc, call, noticedBefore, noticedAtForget>>
    BY <1>1 DEF LimitPasses, Server, ServerReadsNotification, ServerComputes, ServerResponds,
       ServerSays, ServerCloses, ServerPrepares, ServerDrops, ServerBegins, ServerEnds,
       vars, clientVars, history
  <2> QED BY <2>1 DEF NewsInStep, Settled
<1>2. CASE ClientCalls
  <2>1. /\ UNCHANGED <<prepared, noticed, noticedAtForget>>
        /\ pc' = "awaiting" => call'.query = "typeDefinition"
    BY <1>2 DEF ClientCalls, OpenDocument, CloseDocument, AskUnopened, AskOnce, AskSettled,
       Callable, history
  <2> QED BY <2>1 DEF NewsInStep, Settled
<1>3. CASE StartAttempt
  <2>1. UNCHANGED <<noticed, call>> /\ noticed \in Nat
    BY <1>3 DEF StartAttempt, TypeOK
  <2>2. CASE Fail("failed", prepared)
    BY <2>1, <2>2, FinishKeepsNews DEF NewsInStep, Fail
  <2>3. CASE noticedBefore' = noticed /\ UNCHANGED <<prepared, noticedAtForget>>
    BY <2>1, <2>3 DEF NewsInStep
  <2> QED BY <1>3, <2>2, <2>3 DEF StartAttempt, history
<1> QED BY <1>1, <1>2, <1>3, ReadsKeepNews DEF Next

-----------------------------------------------------------------------------
(* The works an answer shows *)

LEMMA BeginsAppend ==
    ASSUME NEW S, NEW q \in Seq(S), NEW m
    PROVE  /\ BeginsIn(q) \in Nat
           /\ BeginsIn(Append(q, m)) = BeginsIn(q) + (IF m.type = "begin" THEN 1 ELSE 0)
           /\ (\A j \in DOMAIN q : q[j].type # "begin") => BeginsIn(q) = 0
<1> PICK n \in Nat : n = Len(q)
  OBVIOUS
<1> DEFINE A == {i \in DOMAIN q : q[i].type = "begin"}
           B == {i \in DOMAIN Append(q, m) : Append(q, m)[i].type = "begin"}
<1>1. /\ DOMAIN q = 1..n /\ DOMAIN Append(q, m) = 1..(n + 1)
      /\ Append(q, m)[n + 1] = m /\ \A j \in 1..n : Append(q, m)[j] = q[j]
  OBVIOUS
<1>2. IsFiniteSet(A) /\ Cardinality(A) \in Nat
  <2>1. A \in SUBSET (1..n) /\ IsFiniteSet(1..n)
    BY <1>1, FS_Interval
  <2>2. IsFiniteSet(A)
    BY <2>1, FS_Subset
  <2> QED BY <2>2, FS_CardinalityType
<1>3. n + 1 \notin A /\ B = IF m.type = "begin" THEN A \cup {n + 1} ELSE A
  BY <1>1
<1>4. Cardinality(B) = Cardinality(A) + (IF m.type = "begin" THEN 1 ELSE 0)
  <2>1. Cardinality(A \cup {n + 1}) = Cardinality(A) + 1
    BY <1>2, <1>3, FS_AddElement
  <2>2. CASE m.type = "begin"
    <3>1. B = A \cup {n + 1}
      BY <1>3, <2>2
    <3> HIDE DEF A, B
    <3> QED BY <2>1, <2>2, <3>1
  <2>3. CASE m.type # "begin"
    <3>1. B = A
      BY <1>3, <2>3
    <3> HIDE DEF A, B
    <3> QED BY <1>2, <2>3, <3>1
  <2> QED BY <2>2, <2>3
<1>5. (\A j \in DOMAIN q : q[j].type # "begin") => Cardinality(A) = 0
  BY FS_EmptySet
<1> QED BY <1>2, <1>4, <1>5 DEF BeginsIn

LEMMA BeginsTail ==
    ASSUME NEW S, NEW q \in Seq(S), q # <<>>, Head(q).type # "begin"
    PROVE  BeginsIn(Tail(q)) = BeginsIn(q)
<1> PICK n \in Nat : n = Len(q)
  OBVIOUS
<1> DEFINE A == {i \in DOMAIN q : q[i].type = "begin"}
           B == {i \in DOMAIN Tail(q) : Tail(q)[i].type = "begin"}
           f == [i \in B |-> i + 1]
<1>1. /\ n > 0 /\ DOMAIN q = 1..n /\ DOMAIN Tail(q) = 1..(n - 1) /\ Head(q) = q[1]
      /\ \A j \in 1..(n - 1) : Tail(q)[j] = q[j + 1]
  OBVIOUS
<1>2. IsFiniteSet(B)
  <2>1. B \in SUBSET (1..n)
    BY <1>1
  <2>2. IsFiniteSet(1..n)
    BY FS_Interval
  <2> QED BY <2>1, <2>2, FS_Subset
<1>3. f \in Bijection(B, A)
  <2>1. f \in [B -> A] /\ \A i, j \in B : f[i] = f[j] => i = j
    BY <1>1
  <2>2. ASSUME NEW a \in A PROVE \E i \in B : f[i] = a
    <3>1. a \in 1..n /\ a # 1
      BY <1>1
    <3>2. a - 1 \in B /\ f[a - 1] = a
      BY <1>1, <3>1
    <3> QED BY <3>2
  <2> QED BY <2>1, <2>2 DEF Bijection, Injection, Surjection, IsInjective
<1>4. Cardinality(A) = Cardinality(B)
  BY ZenonT(60), <1>2, <1>3, FS_Bijection DEF ExistsBijection
<1> QED BY <1>4 DEF BeginsIn

\* The works that will be begun when the client has read the unread messages.
LEMMA SayKeepsGenerations ==
    ASSUME TypeOK, GenerationsInStep, UNCHANGED <<nextId, pc, call, noticed, noticedBefore, used>>,
           NEW m \in ServerMessages, toClient' = Append(toClient, m),
           generation' = generation + (IF m.type = "begin" THEN 1 ELSE 0),
           computed' \subseteq computed, m.type = "response" => m \in computed
    PROVE  GenerationsInStep'
<1> SUFFICES ASSUME pc = "awaiting", Settled, noticed = noticedBefore
             PROVE  GenerationsInStep'
  BY DEF GenerationsInStep, Settled
<1> PICK n \in Nat : n = Len(toClient)
  BY DEF TypeOK
<1> DEFINE b == IF m.type = "begin" THEN 1 ELSE 0
<1>1. /\ DOMAIN toClient = 1..n /\ DOMAIN toClient' = 1..(n + 1) /\ toClient'[n + 1] = m
      /\ \A j \in 1..n : toClient'[j] = toClient[j]
  BY ServerQueue
<1>2. /\ BeginsIn(toClient) \in Nat /\ generation \in Nat /\ b \in Nat
      /\ BeginsIn(toClient') = BeginsIn(toClient) + b
      /\ (\A j \in 1..n : toClient[j].type # "begin") => BeginsIn(toClient) = 0
  <2>1. BeginsIn(Append(toClient, m)) = BeginsIn(toClient) + b
    BY BeginsAppend, ServerQueue
  <2>2. BeginsIn(toClient') = BeginsIn(Append(toClient, m))
    BY DEF BeginsIn
  <2> QED BY <1>1, <2>1, <2>2, BeginsAppend, ServerQueue DEF TypeOK
<1>3. Awaited' = Awaited
  BY DEF Awaited
<1>4. ASSUME NEW a \in Answers, a.generation + BeginsIn(toClient) = generation
      PROVE  a.generation + BeginsIn(toClient') = generation'
  BY <1>2, <1>4 DEF Answers
<1>5. ASSUME NEW a \in used PROVE a.generation + BeginsIn(toClient') = generation'
  BY <1>4 DEF GenerationsInStep, TypeOK
<1>6. ASSUME NEW i \in 1..(n + 1), toClient'[i].type = "response", toClient'[i].id = Awaited,
             \A j \in 1..(i - 1) : toClient'[j].type # "begin"
      PROVE  toClient'[i].generation + BeginsIn(toClient') = generation'
  <2>1. CASE i \in 1..n
    <3>1. toClient'[i] \in Answers
      BY <1>1, <1>6, <2>1, ServerQueue DEF ServerMessages
    <3>2. \A j \in 1..(i - 1) : toClient[j].type # "begin"
      BY <1>1, <1>6, <2>1
    <3>3. toClient[i].generation + BeginsIn(toClient) = generation
      BY <1>1, <1>6, <2>1, <3>2 DEF GenerationsInStep
    <3> QED BY <1>1, <1>4, <2>1, <3>1, <3>3
  <2>2. CASE i = n + 1
    <3>1. m \in computed /\ m \in Answers /\ m.id = Awaited /\ m.type = "response"
      BY <1>1, <1>6, <2>2 DEF TypeOK
    <3>2. \A j \in 1..n : toClient[j].type # "begin"
      BY <1>1, <1>6, <2>2
    <3>3. m.generation = generation /\ m.generation \in Nat
      BY <1>1, <3>1, <3>2 DEF GenerationsInStep, Answers
    <3>4. BeginsIn(toClient') = 0 /\ generation' = generation
      BY <1>1, <1>2, <3>1, <3>2
    <3>5. toClient'[i].generation = generation
      BY <1>1, <2>2, <3>3
    <3> QED BY <1>2, <3>4, <3>5
  <2> QED BY <2>1, <2>2
<1>7. ASSUME \A j \in 1..(n + 1) : toClient'[j].type # "begin",
             NEW a \in computed', a.id = Awaited
      PROVE  a.generation = generation'
  <2>1. m.type # "begin" /\ \A j \in 1..n : toClient[j].type # "begin"
    BY <1>1, <1>7
  <2>2. a.generation = generation
    BY <1>1, <1>7, <2>1 DEF GenerationsInStep
  <2> QED BY <1>2, <2>1, <2>2
<1> QED BY <1>1, <1>3, <1>5, <1>6, <1>7 DEF GenerationsInStep

\* A message that ends no attempt and tells of no new work.
LEMMA TakeKeepsGenerations ==
    ASSUME TypeOK, GenerationsInStep,
           UNCHANGED <<nextId, pc, call, noticed, noticedBefore, used, computed, generation>>,
           toClient # <<>>, Head(toClient).type # "begin", toClient' = Tail(toClient)
    PROVE  GenerationsInStep'
<1> SUFFICES ASSUME pc = "awaiting", Settled, noticed = noticedBefore
             PROVE  GenerationsInStep'
  BY DEF GenerationsInStep, Settled
<1> PICK n \in Nat : n = Len(toClient)
  BY DEF TypeOK
<1>1. /\ n > 0 /\ DOMAIN toClient = 1..n /\ DOMAIN toClient' = 1..(n - 1)
      /\ Head(toClient) = toClient[1] /\ \A j \in 1..(n - 1) : toClient'[j] = toClient[j + 1]
  BY ServerQueue
<1>2. BeginsIn(toClient') = BeginsIn(toClient)
  <2>1. BeginsIn(Tail(toClient)) = BeginsIn(toClient)
    BY BeginsTail, ServerQueue
  <2> QED BY <2>1 DEF BeginsIn
<1>3. Awaited' = Awaited
  BY DEF Awaited
<1>4. ASSUME NEW i \in 1..n, \A j \in 1..(i - 1) : toClient'[j].type # "begin"
      PROVE  \A j \in 1..i : toClient[j].type # "begin"
  <2> SUFFICES ASSUME NEW j \in 1..i PROVE toClient[j].type # "begin"
    OBVIOUS
  <2>1. CASE j = 1
    BY <1>1, <2>1
  <2>2. CASE j # 1
    <3>1. j - 1 \in 1..(i - 1) /\ j - 1 \in 1..(n - 1) /\ toClient'[j - 1] = toClient[j]
      BY <1>1, <2>2
    <3> QED BY <1>4, <3>1
  <2> QED BY <2>1, <2>2
<1>5. ASSUME NEW i \in 1..(n - 1), toClient'[i].type = "response", toClient'[i].id = Awaited,
             \A j \in 1..(i - 1) : toClient'[j].type # "begin"
      PROVE  toClient'[i].generation + BeginsIn(toClient') = generation
  <2>1. \A j \in 1..i : toClient[j].type # "begin"
    BY <1>1, <1>4, <1>5
  <2>2. i + 1 \in DOMAIN toClient /\ (i + 1) - 1 = i /\ toClient'[i] = toClient[i + 1]
    BY <1>1
  <2> QED BY <1>2, <1>5, <2>1, <2>2 DEF GenerationsInStep
<1>6. ASSUME \A j \in 1..(n - 1) : toClient'[j].type # "begin", NEW a \in computed, a.id = Awaited
      PROVE  a.generation = generation
  <2>1. \A j \in 1..n : toClient[j].type # "begin"
    BY <1>1, <1>4, <1>6
  <2> QED BY <1>1, <1>6, <2>1 DEF GenerationsInStep
<1>7. \A a \in used : a.generation + BeginsIn(toClient') = generation
  BY <1>2 DEF GenerationsInStep
<1> QED BY <1>1, <1>3, <1>5, <1>6, <1>7 DEF GenerationsInStep

LEMMA CallsKeepGenerations ==
    ASSUME TypeOK, NewsInStep, IdsBelowNext, SettlingSound, GenerationsInStep,
           ClientCalls \/ StartAttempt
    PROVE  GenerationsInStep'
<1>1. CASE ClientCalls
  <2>1. pc' = "awaiting" => call'.query = "typeDefinition"
    BY <1>1 DEF ClientCalls, OpenDocument, CloseDocument, AskUnopened, AskOnce, AskSettled, Callable
  <2> QED BY <2>1 DEF GenerationsInStep, Settled
<1>2. CASE StartAttempt
  <2> SUFFICES ASSUME pc' = "awaiting" PROVE GenerationsInStep'
    BY DEF GenerationsInStep
  <2>1. /\ nextId \in Nat /\ nextId' = nextId + 1 /\ used' = {}
        /\ UNCHANGED <<toClient, computed>>
    BY <1>2 DEF TypeOK, StartAttempt, SettlingSound, Fail, Finish, serverVars
  <2>2. Awaited' = nextId
    BY <2>1 DEF Awaited
  <2>3. \A m \in computed : m.id # nextId
    BY <2>1 DEF IdsBelowNext, TypeOK, Answers
  <2>4. \A i \in DOMAIN toClient : toClient[i].type = "response" => toClient[i].id # nextId
    BY <2>1 DEF IdsBelowNext
  <2> QED BY <2>1, <2>2, <2>3, <2>4 DEF GenerationsInStep
<1> QED BY <1>1, <1>2

\* The first answer of callees shows what the client has heard: so does the
\* question that is asked on the strength of it.
LEMMA ReadStartKeepsGenerations ==
    ASSUME TypeOK, IdsBelowNext, GenerationsInStep, NEW m, ReadStart(m)
    PROVE  GenerationsInStep'
<1> SUFFICES ASSUME pc' = "awaiting", noticed' = noticedBefore' PROVE GenerationsInStep'
  BY DEF GenerationsInStep
<1> PICK n \in Nat : n = Len(toClient)
  BY DEF TypeOK
<1>0. /\ toClient # <<>> /\ m = Head(toClient) /\ m.type = "response" /\ m.id = Awaited
      /\ pc # "settling" /\ pc # "idle" /\ call.query = "callees"
      /\ toClient' = Tail(toClient) /\ UNCHANGED <<computed, noticed, call, generation>>
  BY DEF ReadStart, ReadsResponse, Reads, Reading, IsStray, NeedsSecondRequest, ReadKeeps, serverVars
<1>1. /\ DOMAIN toClient = 1..n /\ DOMAIN toClient' = 1..(n - 1) /\ n > 0 /\ m = toClient[1]
      /\ \A j \in 1..(n - 1) : toClient'[j] = toClient[j + 1]
  BY <1>0, HeadOfQueue DEF TypeOK
<1>2. nextId \in Nat /\ nextId' = nextId + 1 /\ used' = {m} /\ UNCHANGED noticedBefore
  BY DEF TypeOK, ReadStart, Fail, Finish
<1>3. m.generation + BeginsIn(toClient) = generation
  <2>1. pc = "awaiting" /\ Settled /\ noticed = noticedBefore
    BY <1>0, <1>2 DEF TypeOK, Settled
  <2>2. 1 \in DOMAIN toClient /\ \A j \in 1..(1 - 1) : toClient[j].type # "begin"
    BY <1>1
  <2> QED BY <1>0, <1>1, <2>1, <2>2 DEF GenerationsInStep
<1>4. BeginsIn(toClient') = BeginsIn(toClient)
  <2>1. BeginsIn(Tail(toClient)) = BeginsIn(toClient)
    BY <1>0, BeginsTail, ServerQueue
  <2> QED BY <1>0, <2>1 DEF BeginsIn
<1>5. Awaited' = nextId
  BY <1>2 DEF Awaited
<1>6. \A a \in computed : a.id # nextId
  BY <1>2 DEF IdsBelowNext, TypeOK, Answers
<1>7. \A i \in DOMAIN toClient' : toClient'[i].type = "response" => toClient'[i].id # nextId
  BY <1>1, <1>2 DEF IdsBelowNext
<1> QED BY <1>0, <1>2, <1>3, <1>4, <1>5, <1>6, <1>7 DEF GenerationsInStep

LEMMA ReadsKeepGenerations ==
    ASSUME TypeOK, IdsBelowNext, SettlingSound, GenerationsInStep, ClientReads
    PROVE  GenerationsInStep'
<1> SUFFICES ASSUME pc' = "awaiting", Settled', noticed' = noticedBefore' PROVE GenerationsInStep'
  BY DEF GenerationsInStep
<1>1. /\ UNCHANGED <<computed, generation, call>> /\ noticed \in Nat
  BY ClientReadsEffect DEF ReadEffect, serverVars, TypeOK, ClientReads, ReadCreate, ReadBegin,
     ReadEnd, ReadNotification, ReadRequest, ReadMalformed, ReadFails, ReadFailure, ReadStart,
     ReadAnswer, ReadUnsettled, ReadKeeps
<1>2. ASSUME NEW p, NEW r, AfterMessage(p, r)
      PROVE  pc = "awaiting" /\ UNCHANGED <<pc, noticedBefore, used>> /\ noticedBefore <= noticed
  <2>1. Continue(p)
    BY <1>2 DEF AfterMessage, Fail, Finish
  <2>2. pc = "awaiting" /\ UNCHANGED <<pc, noticedBefore, used>>
    BY <2>1 DEF Continue, frame
  <2> QED BY <1>1, <2>2 DEF SettlingSound, AnswersBetrayed, Settled
<1>3. ASSUME NEW t \in Tokens PROVE ~ReadCreate(t) /\ ~ReadBegin(t)
  <2>1. ASSUME ReadBegin(t) PROVE FALSE
    <3>1. noticed' = noticed + 1 /\ AfterMessage(prepared \ {t}, running')
      BY <2>1 DEF ReadBegin
    <3> QED BY <1>1, <1>2, <3>1 DEF TypeOK
  <2>2. ASSUME ReadCreate(t) PROVE FALSE
    <3>1. noticed' = noticed + 1 /\ AfterMessage(prepared \cup {t}, running)
      BY <2>2 DEF ReadCreate
    <3> QED BY <1>1, <1>2, <3>1 DEF TypeOK
  <2> QED BY <2>1, <2>2
<1>4. ASSUME NEW m, Reads(m), m.type # "begin", NEW p, NEW r, AfterMessage(p, r),
             UNCHANGED <<nextId, noticed>>
      PROVE  GenerationsInStep'
  <2>1. toClient # <<>> /\ Head(toClient).type # "begin" /\ toClient' = Tail(toClient)
    BY <1>4 DEF Reads
  <2>2. UNCHANGED <<pc, noticedBefore, used>>
    BY <1>2, <1>4
  <2> QED BY <1>1, <1>4, <2>1, <2>2, TakeKeepsGenerations
<1>5. ASSUME NEW t \in Tokens, ReadEnd(t) PROVE GenerationsInStep'
  BY <1>4, <1>5 DEF ReadEnd, End
<1>6. CASE ReadNotification
  BY <1>4, <1>6 DEF ReadNotification, Notification
<1>7. CASE ReadRequest
  BY <1>4, <1>7 DEF ReadRequest, Request, Fail, Finish
<1>8. ~ReadMalformed /\ ~ReadFails /\ \A m : ~ReadFailure(m) /\ ~ReadAnswer(m) /\ ~ReadUnsettled(m)
  BY DEF ReadMalformed, ReadFails, ReadFailure, ReadAnswer, ReadUnsettled, Discard, Fail, Finish
<1> QED BY <1>3, <1>5, <1>6, <1>7, <1>8, ReadStartKeepsGenerations DEF ClientReads

LEMMA ServerKeepsGenerations ==
    ASSUME TypeOK, GenerationsInStep, Server PROVE GenerationsInStep'
<1>1. UNCHANGED <<nextId, pc, call, noticed, noticedBefore, used>>
  BY DEF Server, ServerReadsNotification, ServerComputes, ServerResponds, ServerSays, ServerCloses,
         ServerPrepares, ServerDrops, ServerBegins, ServerEnds, clientVars
<1>2. Awaited' = Awaited /\ (Settled' <=> Settled)
  BY <1>1 DEF Awaited, Settled
<1>3. ASSUME UNCHANGED <<toClient, computed, generation>> PROVE GenerationsInStep'
  BY <1>1, <1>2, <1>3 DEF GenerationsInStep
<1>4. CASE ServerComputes
  <2>1. PICK id, r : computed' = computed \cup {ComputedAnswer(id, r)}
    BY <1>4 DEF ServerComputes
  <2>2. UNCHANGED <<toClient, generation>>
    BY <1>4 DEF ServerComputes
  <2>3. ComputedAnswer(id, r).generation = generation
    BY DEF ComputedAnswer
  <2> QED BY <1>1, <1>2, <2>1, <2>2, <2>3 DEF GenerationsInStep
<1>5. generation \in Nat
  BY DEF TypeOK
<1>6. ASSUME NEW m \in ServerMessages, Says(m), m.type # "response",
             generation' = generation + (IF m.type = "begin" THEN 1 ELSE 0), UNCHANGED computed
      PROVE  GenerationsInStep'
  BY <1>1, <1>6, SayKeepsGenerations DEF Says
<1>7. \A t \in Tokens : {Create(t), Begin(t), End(t)} \subseteq ServerMessages
  BY DEF Create, Begin, End, ServerMessages
<1>8. {Notification, Request, Malformed} \subseteq ServerMessages
  BY DEF Notification, Request, Malformed, ServerMessages
<1>9. CASE ServerSays
  <2>1. PICK m \in {Notification, Request, Malformed} : Says(m)
    BY <1>9 DEF ServerSays
  <2>2. UNCHANGED <<generation, computed>> /\ m.type \notin {"begin", "response"}
    BY <1>9 DEF ServerSays, Notification, Request, Malformed
  <2> QED BY <1>5, <1>6, <1>8, <2>1, <2>2
<1>10. CASE ServerResponds
  <2>1. PICK r \in computed : Says(r) /\ computed' = computed \ {r}
    BY <1>10 DEF ServerResponds
  <2>2. r \in ServerMessages /\ r.type = "response" /\ UNCHANGED generation
    BY <1>10 DEF TypeOK, ServerMessages, Answers, ServerResponds
  <2>3. toClient' = Append(toClient, r) /\ computed' \subseteq computed
    BY <2>1 DEF Says
  <2> QED BY <1>1, <1>5, <2>1, <2>2, <2>3, SayKeepsGenerations
<1>11. ASSUME NEW t \in Tokens, ServerPrepares(t) \/ ServerBegins(t) \/ ServerEnds(t)
       PROVE  GenerationsInStep'
  <2>1. CASE ServerPrepares(t)
    <3>1. Says(Create(t)) /\ UNCHANGED <<generation, computed>> /\ Create(t).type = "create"
      BY <2>1 DEF ServerPrepares, Create
    <3> QED BY <1>5, <1>6, <1>7, <3>1
  <2>2. CASE ServerBegins(t)
    <3>1. /\ Says(Begin(t)) /\ generation' = generation + 1 /\ UNCHANGED computed
          /\ Begin(t).type = "begin"
      BY <2>2 DEF ServerBegins, Begin
    <3> QED BY <1>5, <1>6, <1>7, <3>1
  <2>3. CASE ServerEnds(t)
    <3>1. Says(End(t)) /\ UNCHANGED <<generation, computed>> /\ End(t).type = "end"
      BY <2>3 DEF ServerEnds, End
    <3> QED BY <1>5, <1>6, <1>7, <3>1
  <2> QED BY <1>11, <2>1, <2>2, <2>3
<1>12. CASE ServerReadsNotification \/ ServerCloses \/ \E t \in Tokens : ServerDrops(t)
  BY <1>3, <1>12 DEF ServerReadsNotification, ServerCloses, ServerDrops, serverVars
<1> QED BY <1>4, <1>9, <1>10, <1>11, <1>12 DEF Server

LEMMA NextKeepsGenerations ==
    ASSUME WorkInvariant, NewsInStep, GenerationsInStep, [Next]_vars PROVE GenerationsInStep'
<1>1. TypeOK /\ IdsBelowNext /\ SettlingSound
  BY DEF WorkInvariant
<1>2. CASE LimitPasses \/ UNCHANGED vars
  <2>1. UNCHANGED <<nextId, pc, call, noticed, noticedBefore, used, toClient, computed, generation>>
    BY <1>2 DEF LimitPasses, vars, clientVars, serverVars
  <2>2. Awaited' = Awaited /\ (Settled' <=> Settled)
    BY <2>1 DEF Awaited, Settled
  <2> QED BY <2>1, <2>2 DEF GenerationsInStep
<1> QED BY <1>1, <1>2, CallsKeepGenerations, ReadsKeepGenerations, ServerKeepsGenerations DEF Next

-----------------------------------------------------------------------------
(* The theorems *)

LEMMA InitConversationInvariant == Init => ConversationInvariant
<1> SUFFICES ASSUME Init PROVE ConversationInvariant
  OBVIOUS
<1>1. WorkInvariant
  BY InitWorkInvariant
<1>2. DocumentsInStep
  BY DEF Init, DocumentsInStep, OpenAt, OnAt
<1>3. NoMutualWait /\ NewsInStep /\ GenerationsInStep
  BY DEF Init, NoMutualWait, NewsInStep, GenerationsInStep
<1> QED BY <1>1, <1>2, <1>3 DEF ConversationInvariant

LEMMA NextConversationInvariant == ConversationInvariant /\ [Next]_vars => ConversationInvariant'
BY NextWorkInvariant, NextKeepsDocuments, NextKeepsReplies, NextKeepsNews, NextKeepsGenerations
   DEF ConversationInvariant, WorkInvariant

\* The inductive invariant: documents, requests, notices and begun works, each
\* read through the queue between the two ends.
THEOREM ConversationInvariantHolds == Spec => []ConversationInvariant
BY InitConversationInvariant, NextConversationInvariant, PTL DEF Spec

\* What the server will have open when it comes to a message is what the client
\* had open when it wrote it: openDocuments of Connection.
THEOREM DocumentsStayInStep == Spec => []DocumentsInStep
BY ConversationInvariantHolds, PTL DEF ConversationInvariant

\* No didOpen of an open document, no didClose of a closed one and no question
\* about one reaches the server.
THEOREM ServerIsNeverSurprised == Spec => []ServerNeverSurprised
<1>1. ConversationInvariant => ServerNeverSurprised
  <2> SUFFICES ASSUME ConversationInvariant, toServer # <<>>, NEW m, m = Head(toServer)
               PROVE  /\ m.type = "didOpen" => m.doc \notin serverOpen
                      /\ m.type = "didClose" \/ (m.type = "ask" /\ ~m.sited) => m.doc \in serverOpen
    BY DEF ServerNeverSurprised
  <2>1. 1 \in DOMAIN toServer /\ m = toServer[1]
    BY ServerQueue DEF ConversationInvariant, WorkInvariant
  <2>2. \A d : OpenAt(d, 1) <=> d \in serverOpen
    BY DEF OpenAt, OnAt
  <2> QED BY <2>1, <2>2 DEF ConversationInvariant, DocumentsInStep
<1> QED BY <1>1, ConversationInvariantHolds, PTL

\* The client answers every request it reads before it reads on: a server that
\* waits for the answer is never waited for in vain.
THEOREM NeverBothWait == Spec => []NoMutualWait
BY ConversationInvariantHolds, PTL DEF ConversationInvariant

\* The step in which a settled query takes its last response.
LEMMA AnswersShowSeenWork ==
    ASSUME ConversationInvariant, [Next]_vars, pc = "awaiting", Settles'
    PROVE  \A m \in used' : m.generation = generation - BeginsIn(toClient')
<1> USE DEF Settles
<1>1. TypeOK
  BY DEF ConversationInvariant, WorkInvariant
<1>2. \E m : ReadAnswer(m)
  <2>1. ClientReads
    BY DEF Next, vars, clientVars, ClientCalls, OpenDocument, CloseDocument, AskOnce, AskUnopened,
       AskSettled, Callable, StartAttempt, LimitPasses, Server, ServerReadsNotification,
       ServerComputes, ServerResponds, ServerSays, ServerCloses, ServerPrepares, ServerDrops,
       ServerBegins, ServerEnds
  <2>2. \A o, p : Finish(o, p) => o = "answered"
    BY DEF Finish
  <2>3. \A p, r : ~AfterMessage(p, r)
    BY <2>2 DEF AfterMessage, Fail, Continue
  <2> QED BY <2>1, <2>2, <2>3 DEF ClientReads, ReadCreate, ReadBegin, ReadEnd, ReadNotification,
             ReadRequest, ReadMalformed, ReadFails, ReadFailure, ReadStart, ReadUnsettled, Discard, Fail
<1>3. PICK m : ReadAnswer(m)
  BY <1>2
<1>4. /\ toClient # <<>> /\ m = Head(toClient) /\ toClient' = Tail(toClient) /\ m.id = Awaited
      /\ m.type = "response" /\ UNCHANGED <<call, generation>> /\ used' = used \cup {m}
      /\ Settled => noticed = noticedBefore
  BY <1>3 DEF ReadAnswer, ReadsResponse, Reads, IsStray, ReadKeeps, serverVars, Untouched
<1>5. Settled /\ noticed = noticedBefore
  BY <1>4 DEF Settled
<1>6. /\ 1 \in DOMAIN toClient /\ m = toClient[1] /\ m \in Answers
      /\ \A j \in 1..(1 - 1) : toClient[j].type # "begin"
  BY <1>1, <1>4, HeadOfQueue, ServerQueue DEF ServerMessages
<1>7. \A a \in used' : a.generation + BeginsIn(toClient) = generation
  BY <1>4, <1>5, <1>6 DEF ConversationInvariant, GenerationsInStep
<1>8. BeginsIn(toClient') = BeginsIn(toClient) /\ BeginsIn(toClient) \in Nat
  <2>1. BeginsIn(Tail(toClient)) = BeginsIn(toClient)
    BY <1>1, <1>4, BeginsTail, ServerQueue
  <2> QED BY <1>1, <1>4, <2>1, BeginsAppend, ServerQueue DEF BeginsIn
<1>9. used' \subseteq Answers
  BY <1>1, <1>4, <1>6 DEF TypeOK
<1> QED BY <1>1, <1>7, <1>8, <1>9 DEF Answers, TypeOK

\* All responses a settled query returns show one state of the server's work, the
\* one the client had heard of: settled_outcome_of over callees' two requests.
THEOREM AnswersShowOneState == Spec => AnswerReflectsSeenWork
<1>1. ConversationInvariant /\ [Next]_vars
        => [(pc = "awaiting" /\ Settles')
              => \A m \in used' : m.generation = generation - BeginsIn(toClient')]_vars
  BY AnswersShowSeenWork
<1> QED BY <1>1, ConversationInvariantHolds, PTL DEF Spec, AnswerReflectsSeenWork

\* The step in which a settled query gives up.
LEMMA GivingUpIsNews ==
    ASSUME ConversationInvariant, [Next]_vars, pc = "awaiting", outcome' = "stillWorking", pc' = "idle"
    PROVE  noticed > noticedAtForget \/ Head(toClient).result = "modified"
<1>1. TypeOK /\ NewsInStep /\ SettlingSound
  BY DEF ConversationInvariant, WorkInvariant
<1>2. \E m : ReadUnsettled(m)
  <2>1. ClientReads
    BY DEF Next, vars, clientVars, ClientCalls, OpenDocument, CloseDocument, AskOnce, AskUnopened,
       AskSettled, Callable, StartAttempt, LimitPasses, Server, ServerReadsNotification,
       ServerComputes, ServerResponds, ServerSays, ServerCloses, ServerPrepares, ServerDrops,
       ServerBegins, ServerEnds
  <2>2. \A o, p : Finish(o, p) => o = "stillWorking"
    BY DEF Finish
  <2>3. \A p, r : ~AfterMessage(p, r)
    BY <2>2 DEF AfterMessage, Fail, Continue
  <2> QED BY <2>1, <2>2, <2>3 DEF ClientReads, ReadCreate, ReadBegin, ReadEnd, ReadNotification,
             ReadRequest, ReadMalformed, ReadFails, ReadFailure, ReadStart, ReadAnswer, Fail
<1>3. PICK m : ReadUnsettled(m)
  BY <1>2
<1>4. Settled /\ m = Head(toClient) /\ (m.result = "modified" \/ ~Untouched)
  BY <1>3 DEF ReadUnsettled, ReadsResponse, Reads
<1>5. noticedBefore <= noticed /\ (running # {} => noticed > noticedBefore)
  BY <1>1, <1>4 DEF SettlingSound, AnswersBetrayed
<1> QED BY <1>1, <1>4, <1>5 DEF Untouched, NewsInStep, TypeOK

\* "Still working" is only said to someone who has not been told before.
THEOREM StillWorkingTellsNews == Spec => StillWorkingIsNews
<1>1. ConversationInvariant /\ [Next]_vars
        => [(pc = "awaiting" /\ outcome' = "stillWorking" /\ pc' = "idle")
              => noticed > noticedAtForget \/ Head(toClient).result = "modified"]_vars
  BY GivingUpIsNews
<1> QED BY <1>1, ConversationInvariantHolds, PTL DEF Spec, StillWorkingIsNews

=============================================================================
