----------------------------- MODULE Connection -----------------------------
(***************************************************************************)
(* The conversation with a language server: src/lsp/connection.rs.         *)
(*                                                                         *)
(* One client thread asks questions over two FIFO pipes.  The server may   *)
(* load the project at any time; an answer computed before a load is over  *)
(* misses the files it has not seen.  The client hears of the work only    *)
(* through messages interleaved with the answers ("create" announces a     *)
(* progress token, "begin" and "end" frame the work), asks again while     *)
(* they touch its question, and gives up after SettledAttempts tries.      *)
(*                                                                         *)
(* The server and the pipes are external: the server does whatever the     *)
(* client code is prepared to meet.  Queue entries are whole messages, the *)
(* framing below them is not modelled here.                                *)
(***************************************************************************)
EXTENDS Integers, Sequences, FiniteSets

CONSTANTS
    Documents,       \* the files the client may open
    Tokens,          \* progress tokens the server may use
    Queries,         \* the calls made in this instance, of AllQueries
    Results,         \* what the responses of this instance hold, of AllResults
    Troubles,        \* what else happens in this instance, of AllTroubles
    SettledAttempts, \* Connection::settled_attempts
    MaxRequests,     \* bound: no call starts once this many requests were sent
    MaxAnnounced,    \* bound: "create" and "begin" messages the server sends
    QueueBound       \* bound: unread messages in a pipe when one more is started

\* "declarationHover" asks at a place the server itself named, in a file that need
\* not be open.
AllQueries == {"typeDefinition", "references", "callees", "declarationHover"}
AllResults == {"answer", "nothing", "modified", "error"}
AllTroubles == {"notifications", "requests", "malformed", "closes", "timeouts"}

ASSUME ConnectionAssumption ==
    /\ Queries \subseteq AllQueries
    /\ Results \subseteq AllResults
    /\ Troubles \subseteq AllTroubles
    /\ SettledAttempts \in Nat \ {0}
    /\ MaxRequests \in Nat
    /\ MaxAnnounced \in Nat
    /\ QueueBound \in Nat

VARIABLES
    \* the client: struct Connection, and the frames of the call it is in
    nextId, openDocuments, prepared, running, noticed,
    pc,             \* "idle", "settling" (before a request), "awaiting" (a response)
    call,           \* the query in progress, or the last one
    attemptsLeft, noticedBefore,
    late,           \* the streaming limit of the current wait is over
    used,           \* responses the current attempt has taken
    outcome,        \* how the last call ended
    \* the two pipes
    toServer, toClient, inputOpen, outputOpen,
    \* the server
    serverOpen, work, generation, announced, computed, serverAwaits,
    \* history: prepared tokens the client no longer remembers, and the
    \* number of notices when it last forgot them
    forgotten, noticedAtForget

clientVars == <<nextId, openDocuments, prepared, running, noticed, pc, call,
                attemptsLeft, noticedBefore, late, used, outcome>>
serverVars == <<serverOpen, work, generation, announced, computed, serverAwaits>>
frame == <<attemptsLeft, noticedBefore, late>>
history == <<forgotten, noticedAtForget>>
vars == <<clientVars, toServer, toClient, inputOpen, outputOpen, serverVars, history>>

-----------------------------------------------------------------------------
(* Messages *)

Create(t) == [type |-> "create", token |-> t]
Begin(t)  == [type |-> "begin", token |-> t]
End(t)    == [type |-> "end", token |-> t]
Notification == [type |-> "notification"]  \* log lines, progress reports
Request      == [type |-> "request"]       \* a request the client does not support
Malformed    == [type |-> "malformed"]     \* not a message, or unreadable params

Answers == [type: {"response"}, id: Nat, result: AllResults,
            loading: BOOLEAN,   \* computed while some work was running
            pending: BOOLEAN,   \* computed while some work was prepared
            generation: Nat]    \* works begun when it was computed
ServerMessages == [type: {"create", "begin", "end"}, token: Tokens]
                    \cup [type: {"notification", "request", "malformed"}] \cup Answers

Ask(id, c)  == [type |-> "ask", id |-> id, doc |-> c.doc, sited |-> c.query = "declarationHover"]
DidOpen(d)  == [type |-> "didOpen", doc |-> d]
DidClose(d) == [type |-> "didClose", doc |-> d]
ReplyTo(s)  == [type |-> "reply", to |-> s] \* to a "create" or another "request"
ClientMessages == [type: {"ask"}, id: Nat, doc: Documents, sited: BOOLEAN]
                    \cup [type: {"didOpen", "didClose"}, doc: Documents]
                    \cup [type: {"reply"}, to: {"create", "request"}]

Outcomes == {"none", "done", "notOpen", "answered", "stillWorking", "failed", "abandoned"}

\* typeDefinition is asked once; the others are asked until an answer settles.
Settled == call.query \in {"references", "callees", "declarationHover"}
\* The calls refused when their document is not open.
Guarded(q) == q # "declarationHover"
NoCall == [query |-> "none", doc |-> "none"]
\* The id response_of waits for: request() has just advanced next_id.
Awaited == nextId - 1
\* The client sits in a blocking read.
Reading == pc = "awaiting" \/ (pc = "settling" /\ running # {})

-----------------------------------------------------------------------------
Init ==
    /\ nextId = 1 /\ openDocuments = {} /\ prepared = {} /\ running = {} /\ noticed = 0
    /\ pc = "idle" /\ call = NoCall
    /\ attemptsLeft = 0 /\ noticedBefore = 0 /\ late = FALSE /\ used = {} /\ outcome = "none"
    /\ toServer = <<>> /\ toClient = <<>> /\ inputOpen = TRUE /\ outputOpen = TRUE
    /\ serverOpen = {} /\ work = [t \in Tokens |-> "none"]
    /\ generation = 0 /\ announced = 0 /\ computed = {} /\ serverAwaits = FALSE
    /\ forgotten = {} /\ noticedAtForget = 0

-----------------------------------------------------------------------------
(* The client: documents *)

\* A write reaches the server's queue, or fails because its input is closed.
Sends(m) == inputOpen /\ toServer' = Append(toServer, m)
CannotSend == ~inputOpen /\ UNCHANGED toServer

\* An abandoned conversation takes no further call (Client::converse).
Callable == pc = "idle" /\ outcome # "abandoned" /\ Len(toServer) < QueueBound

OpenDocument(d) ==
    /\ Callable
    /\ \/ d \in openDocuments /\ outcome' = "done" /\ UNCHANGED <<openDocuments, toServer>>
       \/ /\ d \notin openDocuments /\ Sends(DidOpen(d))
          /\ openDocuments' = openDocuments \cup {d} /\ outcome' = "done"
       \/ /\ d \notin openDocuments /\ CannotSend
          /\ outcome' = "failed" /\ UNCHANGED openDocuments
    /\ used' = {}
    /\ UNCHANGED <<nextId, prepared, running, noticed, pc, call, frame,
                   toClient, inputOpen, outputOpen, serverVars, history>>

Slip_CloseKeepsDocument(d) ==
    /\ Callable /\ d \in openDocuments /\ Sends(DidClose(d))
    /\ outcome' = "done" /\ used' = {}
    /\ UNCHANGED <<nextId, openDocuments, prepared, running, noticed, pc, call, frame,
                   toClient, inputOpen, outputOpen, serverVars, history>>

CloseDocument(d) ==
    /\ Callable
    /\ \/ d \notin openDocuments /\ outcome' = "done" /\ UNCHANGED <<openDocuments, toServer>>
       \/ /\ d \in openDocuments /\ Sends(DidClose(d))
          /\ openDocuments' = openDocuments \ {d} /\ outcome' = "done"
       \/ /\ d \in openDocuments /\ CannotSend
          /\ outcome' = "failed" /\ UNCHANGED openDocuments
    /\ used' = {}
    /\ UNCHANGED <<nextId, prepared, running, noticed, pc, call, frame,
                   toClient, inputOpen, outputOpen, serverVars, history>>

-----------------------------------------------------------------------------
(* The client: the end of a call *)

Slip_FinishRemembers(o, p) ==
    /\ pc' = "idle" /\ outcome' = o
    /\ prepared' = p
    /\ UNCHANGED forgotten
    /\ noticedAtForget' = IF Settled THEN noticed' ELSE noticedAtForget
    /\ attemptsLeft' = 0 /\ noticedBefore' = 0 /\ late' = FALSE

\* settled_outcome_of forgets the prepared tokens p on every way out; a call
\* that is not settled keeps them.  The locals of the call are gone with it.
Finish(o, p) ==
    /\ pc' = "idle" /\ outcome' = o
    /\ prepared' = IF Settled THEN {} ELSE p
    /\ forgotten' = IF Settled THEN forgotten \cup p ELSE forgotten
    /\ noticedAtForget' = IF Settled THEN noticed' ELSE noticedAtForget
    /\ attemptsLeft' = 0 /\ noticedBefore' = 0 /\ late' = FALSE
Fail(o, p) == Finish(o, p) /\ used' = {}

Continue(p) == prepared' = p /\ UNCHANGED <<pc, outcome, used, frame, history>>

\* One attempt came to nothing: ask again, or give up.
Discard ==
    IF attemptsLeft > 1
      THEN /\ attemptsLeft' = attemptsLeft - 1 /\ used' = {}
           /\ pc' = "settling" /\ late' = FALSE
           /\ UNCHANGED <<prepared, outcome, noticedBefore, history>>
      ELSE Fail("stillWorking", prepared)

-----------------------------------------------------------------------------
(* The client: asking *)

AskUnopened(q, d) ==
    /\ Callable /\ d \notin openDocuments /\ Guarded(q)
    /\ outcome' = "notOpen" /\ call' = [query |-> q, doc |-> d] /\ used' = {}
    /\ UNCHANGED <<nextId, openDocuments, prepared, running, noticed, pc, frame,
                   toServer, toClient, inputOpen, outputOpen, serverVars, history>>

\* type_definition, project_membership: one request, no settling.
AskOnce(d) ==
    /\ Callable /\ d \in openDocuments /\ "typeDefinition" \in Queries
    /\ nextId <= MaxRequests
    /\ call' = [query |-> "typeDefinition", doc |-> d] /\ used' = {}
    /\ nextId' = nextId + 1
    /\ \/ Sends(Ask(nextId, call')) /\ pc' = "awaiting" /\ UNCHANGED outcome
       \/ CannotSend /\ outcome' = "failed" /\ UNCHANGED pc
    /\ UNCHANGED <<openDocuments, prepared, running, noticed, frame,
                   toClient, inputOpen, outputOpen, serverVars, history>>

\* hover, definition, implementation, references, hover_at_declaration (one
\* request an attempt) and callees (two): settled_outcome_of takes the call over.
AskSettled(q, d) ==
    /\ Callable /\ (Guarded(q) => d \in openDocuments) /\ q # "typeDefinition"
    /\ nextId <= MaxRequests
    /\ call' = [query |-> q, doc |-> d] /\ used' = {}
    /\ pc' = "settling" /\ attemptsLeft' = SettledAttempts
    /\ UNCHANGED <<nextId, openDocuments, prepared, running, noticed, noticedBefore, late,
                   outcome, toServer, toClient, inputOpen, outputOpen, serverVars, history>>

\* No work runs any more: the first request of the attempt goes out.
StartAttempt ==
    /\ pc = "settling" /\ running = {}
    /\ UNCHANGED <<openDocuments, running, noticed, call,
                   toClient, inputOpen, outputOpen, serverVars>>
    /\ nextId' = nextId + 1
    /\ \/ /\ Sends(Ask(nextId, call)) /\ pc' = "awaiting"
          /\ noticedBefore' = noticed /\ late' = FALSE
          /\ UNCHANGED <<prepared, outcome, attemptsLeft, used, history>>
       \/ CannotSend /\ Fail("failed", prepared)

-----------------------------------------------------------------------------
(* The client: reading *)

Reads(m) == Reading /\ toClient # <<>> /\ m = Head(toClient) /\ toClient' = Tail(toClient)

\* No read touches these.
ReadKeeps == UNCHANGED <<openDocuments, call, inputOpen, outputOpen, serverVars>>

Slip_NoStreamingLimit(p, r) == Continue(p)

\* What follows a message that was not the response: the streaming limit is
\* looked at, except when the message ended the wait for the work.
AfterMessage(p, r) ==
    IF late /\ ~(pc = "settling" /\ r = {}) THEN Fail("abandoned", p) ELSE Continue(p)

ReadCreate(t) ==
    /\ Reads(Create(t))
    /\ UNCHANGED <<nextId, running>> /\ ReadKeeps
    /\ \/ /\ Sends(ReplyTo("create")) /\ noticed' = noticed + 1
          /\ AfterMessage(prepared \cup {t}, running)
       \/ /\ CannotSend /\ UNCHANGED noticed     \* the token is lost with the call
          /\ pc' = "idle" /\ outcome' = "failed" /\ used' = {}
          /\ prepared' = IF Settled THEN {} ELSE prepared
          /\ forgotten' = forgotten \cup {t} \cup IF Settled THEN prepared ELSE {}
          /\ noticedAtForget' = IF Settled THEN noticed ELSE noticedAtForget
          /\ attemptsLeft' = 0 /\ noticedBefore' = 0 /\ late' = FALSE

ReadBegin(t) ==
    /\ Reads(Begin(t))
    /\ UNCHANGED <<nextId, toServer>> /\ ReadKeeps
    /\ noticed' = noticed + 1
    /\ running' = running \cup {t}
    /\ AfterMessage(prepared \ {t}, running')

Slip_EndKeepsRunning(t) ==
    /\ Reads(End(t))
    /\ UNCHANGED <<nextId, noticed, toServer, running>> /\ ReadKeeps
    /\ AfterMessage(prepared \ {t}, running)

ReadEnd(t) ==
    /\ Reads(End(t))
    /\ UNCHANGED <<nextId, noticed, toServer>> /\ ReadKeeps
    /\ running' = running \ {t}
    /\ AfterMessage(prepared \ {t}, running')

ReadNotification ==
    /\ Reads(Notification)
    /\ UNCHANGED <<nextId, running, noticed, toServer>> /\ ReadKeeps
    /\ AfterMessage(prepared, running)

Slip_RequestSwallowed ==
    /\ Reads(Request)
    /\ UNCHANGED <<nextId, running, noticed, toServer>> /\ ReadKeeps
    /\ AfterMessage(prepared, running)

\* Every other request is answered with MethodNotFound: the server may wait for it.
ReadRequest ==
    /\ Reads(Request)
    /\ UNCHANGED <<nextId, running, noticed>> /\ ReadKeeps
    /\ \/ Sends(ReplyTo("request")) /\ AfterMessage(prepared, running)
       \/ CannotSend /\ Fail("failed", prepared)

ReadMalformed ==
    /\ Reads(Malformed)
    /\ UNCHANGED <<nextId, running, noticed, toServer>> /\ ReadKeeps
    /\ Fail("failed", prepared)

ReadsResponse(m) == Reads(m) /\ m.type = "response"

Slip_AnyIdIsMine(m) == pc = "settling"

\* A response nobody asked for, or to a question given up on: the call fails.
IsStray(m) == pc = "settling" \/ m.id # Awaited

Slip_RunningOnly == running = {} /\ prepared = {}
Slip_PreparedIgnored == noticed = noticedBefore /\ running = {}

\* The attempt was not touched by any work of the server.
Untouched == noticed = noticedBefore /\ running = {} /\ prepared = {}

\* callees: the first response names where the calls start from.
NeedsSecondRequest(m) == call.query = "callees" /\ used = {} /\ m.result = "answer"

\* A stray response, an error, or (not settled) ContentModified taken as one.
ReadFailure(m) ==
    /\ ReadsResponse(m)
    /\ UNCHANGED <<nextId, running, noticed, toServer>> /\ ReadKeeps
    /\ IsStray(m) \/ m.result = "error" \/ (m.result = "modified" /\ ~Settled)
    /\ Fail("failed", prepared)

ReadStart(m) ==
    /\ ReadsResponse(m) /\ ~IsStray(m) /\ NeedsSecondRequest(m)
    /\ UNCHANGED <<running, noticed>> /\ ReadKeeps
    /\ nextId' = nextId + 1
    /\ \/ /\ Sends(Ask(nextId, call)) /\ used' = {m} /\ late' = FALSE
          /\ UNCHANGED <<prepared, pc, outcome, attemptsLeft, noticedBefore, history>>
       \/ CannotSend /\ Fail("failed", prepared)

ReadAnswer(m) ==
    /\ ReadsResponse(m) /\ ~IsStray(m) /\ ~NeedsSecondRequest(m)
    /\ UNCHANGED <<nextId, running, noticed, toServer>> /\ ReadKeeps
    /\ m.result \in {"answer", "nothing"}
    /\ Settled => Untouched
    /\ Finish("answered", prepared) /\ used' = used \cup {m}

ReadUnsettled(m) ==
    /\ ReadsResponse(m) /\ ~IsStray(m) /\ ~NeedsSecondRequest(m)
    /\ UNCHANGED <<nextId, running, noticed, toServer>> /\ ReadKeeps
    /\ Settled
    /\ m.result = "modified" \/ (m.result \in {"answer", "nothing"} /\ ~Untouched)
    /\ Discard

\* The read itself fails: the output ended, nothing came for the silence limit,
\* or a frame was still unfinished when the streaming limit was over.
ReadFails ==
    /\ Reading
    /\ UNCHANGED <<nextId, running, noticed, toServer, toClient>> /\ ReadKeeps
    /\ \/ toClient = <<>> /\ ~outputOpen /\ Fail("failed", prepared)
       \/ /\ "timeouts" \in Troubles
          /\ (toClient = <<>> /\ outputOpen) \/ late
          /\ Fail("abandoned", prepared)

LimitPasses ==
    /\ "timeouts" \in Troubles /\ Reading /\ ~late /\ late' = TRUE
    /\ UNCHANGED <<nextId, openDocuments, prepared, running, noticed, pc, call, attemptsLeft,
                   noticedBefore, used, outcome, toServer, toClient, inputOpen, outputOpen,
                   serverVars, history>>

-----------------------------------------------------------------------------
(* The server (external) *)

\* The client kills the server of an abandoned conversation.
Alive == outcome # "abandoned"
CanSay == Alive /\ outputOpen /\ Len(toClient) < QueueBound
Says(m) == CanSay /\ toClient' = Append(toClient, m)

\* An unanswered preparation the client still has to take into account.
PreparedTokens == {t \in Tokens : work[t] = "prepared"} \ forgotten
RunningTokens == {t \in Tokens : work[t] = "running"}

ServerReadsNotification ==
    /\ Alive /\ inputOpen /\ toServer # <<>> /\ toServer' = Tail(toServer)
    /\ LET m == Head(toServer) IN
         /\ m.type # "ask"
         /\ serverOpen' = CASE m.type = "didOpen"  -> serverOpen \cup {m.doc}
                            [] m.type = "didClose" -> serverOpen \ {m.doc}
                            [] OTHER               -> serverOpen
         /\ serverAwaits' = (serverAwaits /\ m # ReplyTo("request"))
    /\ UNCHANGED <<clientVars, toClient, inputOpen, outputOpen, work, generation, announced,
                   computed, history>>

\* The answer shows what the server has seen of the project so far.
ComputedAnswer(id, r) ==
    [type |-> "response", id |-> id, result |-> r,
     loading |-> RunningTokens # {}, pending |-> PreparedTokens # {},
     generation |-> generation]

ServerComputes ==
    /\ Alive /\ inputOpen /\ toServer # <<>> /\ toServer' = Tail(toServer)
    /\ Head(toServer).type = "ask"
    /\ \E r \in Results : computed' = computed \cup {ComputedAnswer(Head(toServer).id, r)}
    /\ UNCHANGED <<clientVars, toClient, inputOpen, outputOpen, serverOpen, work, generation,
                   announced, serverAwaits, history>>

ServerResponds ==
    /\ ~serverAwaits
    /\ \E r \in computed : Says(r) /\ computed' = computed \ {r}
    /\ UNCHANGED <<clientVars, toServer, inputOpen, outputOpen, serverOpen, work, generation,
                   announced, serverAwaits, history>>

ServerPrepares(t) ==
    /\ work[t] = "none" /\ announced < MaxAnnounced
    /\ Says(Create(t))
    /\ work' = [work EXCEPT ![t] = "prepared"] /\ announced' = announced + 1
    /\ forgotten' = forgotten \ {t}
    /\ UNCHANGED <<clientVars, toServer, inputOpen, outputOpen, serverOpen, generation,
                   computed, serverAwaits, noticedAtForget>>

\* A prepared token may be thrown away without a word.
ServerDrops(t) ==
    /\ Alive /\ work[t] = "prepared"
    /\ work' = [work EXCEPT ![t] = "none"]
    /\ UNCHANGED <<clientVars, toServer, toClient, inputOpen, outputOpen, serverOpen,
                   generation, announced, computed, serverAwaits, history>>

ServerBegins(t) ==
    /\ work[t] # "running" /\ announced < MaxAnnounced
    /\ Says(Begin(t))
    /\ work' = [work EXCEPT ![t] = "running"] /\ announced' = announced + 1
    /\ generation' = generation + 1
    /\ UNCHANGED <<clientVars, toServer, inputOpen, outputOpen, serverOpen, computed,
                   serverAwaits, history>>

ServerEnds(t) ==
    /\ work[t] = "running"
    /\ Says(End(t))
    /\ work' = [work EXCEPT ![t] = "none"]
    /\ UNCHANGED <<clientVars, toServer, inputOpen, outputOpen, serverOpen, generation,
                   announced, computed, serverAwaits, history>>

ServerSays ==
    /\ \/ "notifications" \in Troubles /\ Says(Notification) /\ UNCHANGED serverAwaits
       \/ "malformed" \in Troubles /\ Says(Malformed) /\ UNCHANGED serverAwaits
       \/ "requests" \in Troubles /\ ~serverAwaits /\ Says(Request) /\ serverAwaits' = TRUE
    /\ UNCHANGED <<clientVars, toServer, inputOpen, outputOpen, serverOpen, work, generation,
                   announced, computed, history>>

\* The server closes its input, or both pipes (it exits).
ServerCloses ==
    /\ "closes" \in Troubles /\ Alive /\ inputOpen /\ inputOpen' = FALSE
    /\ outputOpen' \in {outputOpen, FALSE}
    /\ UNCHANGED <<clientVars, toServer, toClient, serverVars, history>>

-----------------------------------------------------------------------------
ClientReads ==
    \/ \E t \in Tokens : ReadCreate(t) \/ ReadBegin(t) \/ ReadEnd(t)
    \/ ReadNotification \/ ReadRequest \/ ReadMalformed
    \/ ReadFails
    \/ /\ toClient # <<>>
       /\ LET m == Head(toClient) IN
            ReadFailure(m) \/ ReadStart(m) \/ ReadAnswer(m) \/ ReadUnsettled(m)

ClientCalls ==
    \E d \in Documents :
      \/ OpenDocument(d) \/ CloseDocument(d) \/ AskOnce(d)
      \/ \E q \in Queries : AskUnopened(q, d) \/ AskSettled(q, d)

Server ==
    \/ ServerReadsNotification \/ ServerComputes \/ ServerResponds \/ ServerSays \/ ServerCloses
    \/ \E t \in Tokens : ServerPrepares(t) \/ ServerDrops(t) \/ ServerBegins(t) \/ ServerEnds(t)

Next == ClientCalls \/ StartAttempt \/ ClientReads \/ LimitPasses \/ Server

Spec == Init /\ [][Next]_vars

\* The client's thread runs and its clocks advance; nothing is asked of the server.
FairSpec == Spec /\ WF_vars(StartAttempt) /\ WF_vars(ClientReads) /\ WF_vars(LimitPasses)

-----------------------------------------------------------------------------
(* Properties *)

CallKinds == [query: AllQueries, doc: Documents] \cup {NoCall}

\* The type of every variable: the invariant every other proof rests on.
TypeOK ==
    /\ nextId \in Nat \ {0} /\ openDocuments \subseteq Documents
    /\ prepared \subseteq Tokens /\ running \subseteq Tokens /\ noticed \in Nat
    /\ pc \in {"idle", "settling", "awaiting"} /\ call \in CallKinds
    /\ pc # "idle" => call # NoCall
    /\ attemptsLeft \in Nat /\ noticedBefore \in Nat /\ late \in BOOLEAN
    /\ used \subseteq Answers /\ outcome \in Outcomes
    /\ toServer \in Seq(ClientMessages) /\ toClient \in Seq(ServerMessages)
    /\ inputOpen \in BOOLEAN /\ outputOpen \in BOOLEAN
    /\ serverOpen \subseteq Documents /\ work \in [Tokens -> {"none", "prepared", "running"}]
    /\ generation \in Nat /\ announced \in Nat /\ computed \subseteq Answers
    /\ serverAwaits \in BOOLEAN
    /\ forgotten \subseteq Tokens /\ noticedAtForget \in Nat

Settles == pc = "idle" /\ outcome = "answered" /\ Settled

\* An answer a settled query returns was computed while no work of the server
\* was running, whatever was read before and after it: the promise of
\* settled_outcome_of.
NotComputedDuringWork == Settles => \A m \in used : ~m.loading

\* ... nor while work was prepared that had not begun, unless an earlier query
\* that did not settle has already given up on that very token.
NotComputedBeforePreparedWork == Settles => \A m \in used : ~m.pending

MessagesIn(q) == {q[i] : i \in DOMAIN q}

\* A settled query that waits, waits for an end the server still owes: never
\* for a token that was only prepared, and never for work already over.
WaitsOnlyForRealWork ==
    pc = "settling" =>
        \A t \in running : work[t] = "running" \/ End(t) \in MessagesIn(toClient)

\* The server never meets a didOpen of a document it has open, a didClose of
\* one it has not, nor (but for hover_at_declaration) a question about one: the client's set of open documents
\* runs ahead of the server's by exactly the messages in between.
ServerNeverSurprised ==
    (inputOpen /\ toServer # <<>>) =>
        LET m == Head(toServer) IN
          /\ m.type = "didOpen" => m.doc \notin serverOpen
          /\ m.type = "didClose" \/ (m.type = "ask" /\ ~m.sited) => m.doc \in serverOpen

\* A server that withholds its answers until its own request is answered is
\* never left to wait by a client that waits for it: the request is still to be
\* read, or the reply is on its way, or the server's input is closed.
NoMutualWait ==
    serverAwaits => \/ Request \in MessagesIn(toClient)
                    \/ ReplyTo("request") \in MessagesIn(toServer)
                    \/ ~inputOpen

BeginsIn(q) == Cardinality({i \in DOMAIN q : q[i].type = "begin"})

\* The responses a settled query returns were computed from one and the same
\* state of the server's work, the one the client knew when it took the last of
\* them: no begun work lies between the two requests of callees, and no answer
\* to an earlier, failed call is taken for this one's.
AnswerReflectsSeenWork ==
    [][(pc = "awaiting" /\ Settles')
        => \A m \in used' : m.generation = generation - BeginsIn(toClient')]_vars

\* "Still working" is said of news: something was announced after the prepared
\* tokens were last forgotten, or the last response was ContentModified.  A token
\* thrown away before it began spoils one query, not every later one.
StillWorkingIsNews ==
    [][(pc = "awaiting" /\ outcome' = "stillWorking" /\ pc' = "idle")
        => noticed > noticedAtForget \/ Head(toClient).result = "modified"]_vars

\* Every call returns, however the server behaves: it may stream messages that
\* are not the answer for ever, or stop.
CallReturns == pc # "idle" ~> pc = "idle"

\* What the comment on Connection::prepared_progress says: a prepared token is
\* forgotten once the question was asked again.  After two attempts only tokens
\* announced during the last of them are still remembered.
PreparedForgottenAfterOneReask ==
    (pc = "settling" /\ SettledAttempts - attemptsLeft >= 2 /\ noticed = noticedBefore)
        => prepared = {}

-----------------------------------------------------------------------------
(* The inductive invariant *)

\* Whether x, one of the set `on` now, is one of it once the messages of q before
\* the i-th are read, when message `up` puts it there and `down` takes it away.
OnAt(q, up, down, x, on, i) ==
    \/ \E j \in 1..(i - 1) : q[j] = up /\ \A k \in (j + 1)..(i - 1) : q[k] # down
    \/ x \in on /\ \A k \in 1..(i - 1) : q[k] # down

\* Whether t will be in running when the client comes to the i-th unread message.
RunningAt(t, i) == OnAt(toClient, Begin(t), End(t), t, running, i)

\* Whether d will be open at the server when it comes to the i-th unread message.
OpenAt(d, i) == OnAt(toServer, DidOpen(d), DidClose(d), d, serverOpen, i)

\* The server's work is what the client will know once it has read everything,
\* and the messages about one token come in order.
WorkInStep ==
    \A t \in Tokens :
      /\ work[t] = "running" <=> RunningAt(t, Len(toClient) + 1)
      /\ \A i \in DOMAIN toClient :
           /\ toClient[i] = End(t) => RunningAt(t, i)
           /\ toClient[i] = Create(t) => ~RunningAt(t, i)

\* A prepared token is given up on, remembered, or still to be read of.
Known(t) ==
    \/ t \in forgotten
    \/ t \in prepared /\ \A i \in DOMAIN toClient : toClient[i] \notin {Begin(t), End(t)}
    \/ \E i \in DOMAIN toClient :
         /\ toClient[i] = Create(t)
         /\ \A k \in DOMAIN toClient : k > i => toClient[k] \notin {Begin(t), End(t)}

PreparedAnnounced == \A t \in Tokens : work[t] = "prepared" => Known(t)

\* The client has been told of work since the attempt began, or of work to come.
Touched == noticed > noticedBefore \/ prepared # {}

\* ... or will be told before it reads the i-th message.
ToldBefore(i) == \E j \in 1..(i - 1) : toClient[j].type \in {"create", "begin"}

\* While a settled query awaits a response: any answer to it that is not whole
\* betrays itself by what the client reads no later than the answer.
Unwhole(m) == m.id = Awaited /\ (m.loading \/ m.pending)
AnswersBetrayed ==
    /\ noticedBefore <= noticed
    /\ running # {} => noticed > noticedBefore
    /\ \A m \in computed : Unwhole(m) => Touched \/ ToldBefore(Len(toClient) + 1)
    /\ \A i \in DOMAIN toClient :
         (toClient[i].type = "response" /\ Unwhole(toClient[i])) => Touched \/ ToldBefore(i)
    /\ \A m \in used : m.loading \/ m.pending => Touched

SettlingSound ==
    /\ (pc = "awaiting" /\ Settled) => AnswersBetrayed
    /\ pc = "settling" => used = {}

\* Every id on the way was handed out before.
IdsBelowNext ==
    /\ \A i \in DOMAIN toServer : toServer[i].type = "ask" => toServer[i].id < nextId
    /\ \A m \in computed : m.id < nextId
    /\ \A i \in DOMAIN toClient : toClient[i].type = "response" => toClient[i].id < nextId

\* What the server will find open when it comes to a message agrees with it.
DocumentsInStep ==
    /\ \A d \in Documents : d \in openDocuments <=> OpenAt(d, Len(toServer) + 1)
    /\ \A i \in DOMAIN toServer :
         /\ toServer[i].type = "didOpen" => ~OpenAt(toServer[i].doc, i)
         /\ toServer[i].type = "didClose" \/ (toServer[i].type = "ask" /\ ~toServer[i].sited)
              => OpenAt(toServer[i].doc, i)
    /\ pc # "idle" /\ Guarded(call.query) => call.doc \in openDocuments

\* The inductive invariant behind the theorems of ConnectionProofs.
WorkInvariant ==
    /\ TypeOK
    /\ prepared \cap running = {}
    /\ WorkInStep
    /\ PreparedAnnounced
    /\ IdsBelowNext
    /\ SettlingSound
    /\ NotComputedDuringWork
    /\ NotComputedBeforePreparedWork


\* What the client was told since it last forgot, and since the attempt began.
NewsInStep ==
    /\ noticedAtForget <= noticed
    /\ prepared # {} => noticedAtForget < noticed
    /\ (pc = "awaiting" /\ Settled) => noticedAtForget <= noticedBefore

\* A settled query that has not heard of work since the attempt began: what was
\* answered to it shows all the works but those it is still to read about.
GenerationsInStep ==
    (pc = "awaiting" /\ Settled /\ noticed = noticedBefore) =>
        /\ \A m \in used : m.generation + BeginsIn(toClient) = generation
        /\ \A i \in DOMAIN toClient :
             (toClient[i].type = "response" /\ toClient[i].id = Awaited
               /\ \A j \in 1..(i - 1) : toClient[j].type # "begin")
             => toClient[i].generation + BeginsIn(toClient) = generation
        /\ (\A j \in DOMAIN toClient : toClient[j].type # "begin")
             => \A m \in computed : m.id = Awaited => m.generation = generation

\* The inductive invariant behind the theorems of ConnectionProofs.
ConversationInvariant ==
    /\ WorkInvariant
    /\ DocumentsInStep
    /\ NoMutualWait
    /\ NewsInStep
    /\ GenerationsInStep

=============================================================================
