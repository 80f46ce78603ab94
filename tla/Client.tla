------------------------------- MODULE Client -------------------------------
(***************************************************************************)
(* The life of a language server process, from Client::start to the Drop   *)
(* of the client: src/lsp.rs.                                              *)
(*                                                                         *)
(* The client owns the child process, the two pipes and, for a server that *)
(* keeps its state in files (jdtls), a temporary directory.  Whatever goes *)
(* wrong, the process is reaped and the directory removed, and a server    *)
(* given up on is killed at once and never talked to again.                *)
(*                                                                         *)
(* The conversation of module Connection is reduced here to its writes and *)
(* its waits.  The server and the processes it starts are external: they   *)
(* read, write, exit and hold the pipes open as they like.                 *)
(***************************************************************************)
EXTENDS Naturals, Sequences

CONSTANTS
    KeepsState,        \* ServerCommand::state_directory_flag is set
    SynchronizesIndex, \* ServerLanguage::synchronizes_index
    Says,              \* what the server of this instance says, of AllSays
    MaxCalls,          \* bound: calls made on the session
    MaxUnread          \* bound: messages in the output pipe when one more is said

\* A progress begin, a progress end, a request of the server, an answer, and
\* anything the connection cannot take (not a message, an unexpected answer).
AllSays == {"begin", "end", "request", "response", "malformed"}

ASSUME ClientAssumption ==
    /\ KeepsState \in BOOLEAN /\ SynchronizesIndex \in BOOLEAN
    /\ Says \subseteq AllSays
    /\ MaxCalls \in Nat /\ MaxUnread \in Nat

VARIABLES
    pc,         \* where the client's thread is
    call,       \* the exchange in progress, or the last one
    todo,       \* what is left of it
    result,     \* how it ended
    calls,      \* exchanges begun on the session so far
    late,       \* the limit on the current wait is over
    \* struct Client, and what it reaches of its connection
    terminated, abandoned, exceeded, working,
    \* the processes and the pipe they write to
    child, holder, unread,
    directory   \* the state directory exists

clientVars == <<pc, call, todo, result, calls, late, terminated, abandoned, exceeded, working>>
vars == <<clientVars, child, holder, unread, directory>>

Starting == {"create", "spawn", "wire"}
InCall == {"wait", "write", "read"}
Exchanges == {"initialize", "synchronize", "notify", "nothing", "query", "shutdown"}
Reasons == {"silent", "streaming"}

\* The writes and the waits of an exchange.  "wait" is for running work only,
\* "nothing" a document already open, "notify" any other one-way message.
Plan == [initialize  |-> <<"write", "read", "write">>,
         synchronize |-> <<"write", "read">>,
         notify      |-> <<"write">>,
         nothing     |-> <<>>,
         query       |-> <<"wait", "write", "read">>,
         shutdown    |-> <<"write", "read", "write">>]

\* Somebody has the other end of the pipes.
Open == child = "running" \/ holder
Exited == child \in {"success", "failure"}

Init ==
    /\ pc = "create" /\ call = "initialize" /\ todo = <<>> /\ result = "none" /\ calls = 0
    /\ late = FALSE
    /\ terminated = FALSE /\ abandoned = "none" /\ exceeded = FALSE /\ working = FALSE
    /\ child = "none" /\ holder = FALSE /\ unread = <<>> /\ directory = FALSE

-----------------------------------------------------------------------------
(* Client::start *)

\* What start leaves to the later steps: nothing was said to the server yet.
StartKeeps == UNCHANGED <<call, todo, calls, late, terminated, abandoned, exceeded, working,
                          holder, unread>>

CreateDirectory ==
    /\ pc = "create" /\ StartKeeps /\ UNCHANGED child
    /\ \/ pc' = "spawn" /\ directory' = KeepsState /\ UNCHANGED result
       \/ KeepsState /\ pc' = "gone" /\ result' = "notStarted" /\ UNCHANGED directory

Spawn ==
    /\ pc = "spawn" /\ StartKeeps /\ UNCHANGED directory
    /\ \/ pc' = "wire" /\ child' = "running" /\ UNCHANGED result
       \/ pc' = "remove" /\ result' = "notStarted" /\ UNCHANGED child

Slip_WireLeavesChild ==
    /\ pc = "wire" /\ StartKeeps /\ UNCHANGED <<directory, child>>
    /\ \/ pc' = "idle" /\ UNCHANGED result
       \/ pc' = "remove" /\ result' = "notStarted"

\* The pipes are taken and the three threads started, or the child is killed.
Wire ==
    /\ pc = "wire" /\ StartKeeps /\ UNCHANGED directory
    /\ \/ pc' = "idle" /\ UNCHANGED <<result, child>>
       \/ pc' = "remove" /\ result' = "notStarted" /\ child' = "reaped"

-----------------------------------------------------------------------------
(* The exchanges: how they begin, go on and end *)

\* kill and wait; nothing when the child was reaped before.
Terminate ==
    /\ terminated' = TRUE
    /\ child' = IF terminated THEN child ELSE "reaped"

\* Handshake and shutdown consume the client: it is dropped when they fail.
Consumed == call' \in {"initialize", "synchronize", "shutdown"}

\* An exchange returned with r.
Ends(r) ==
    /\ result' = r /\ late' = FALSE /\ todo' = <<>>
    /\ IF r = "ok"
         THEN pc' = IF call' = "shutdown" THEN "poll" ELSE "idle"
         ELSE pc' = IF Consumed THEN "terminate" ELSE "idle"

Slip_SilentLeavesChild(cause) ==
    \/ cause \in Reasons /\ abandoned' = cause /\ Ends(cause) /\ UNCHANGED <<terminated, child>>
    \/ cause = "notReading" /\ Terminate /\ Ends(cause) /\ UNCHANGED abandoned
    \/ /\ cause \in {"closed", "unexpected"}
       /\ Ends("conversation") /\ UNCHANGED <<abandoned, terminated, child>>

\* The connection failed: handshake_error_of, conversation_error_of.
Fails(cause) ==
    \/ /\ cause = "closed" /\ call = "initialize"
       /\ Terminate /\ Ends("closedDuringHandshake") /\ UNCHANGED abandoned
    \/ cause \in Reasons /\ abandoned' = cause /\ Terminate /\ Ends(cause)
    \/ cause = "notReading" /\ Terminate /\ Ends(cause) /\ UNCHANGED abandoned
    \/ /\ cause = "unexpected" \/ (cause = "closed" /\ call # "initialize")
       /\ Ends("conversation") /\ UNCHANGED <<abandoned, terminated, child>>

ClientKeeps == UNCHANGED <<abandoned, terminated, child>>

\* The steps s come next.  Work that is over is not waited for.
Goes(s) ==
    LET rest == IF s # <<>> /\ Head(s) = "wait" /\ ~working' THEN Tail(s) ELSE s IN
    /\ ClientKeeps
    /\ IF rest = <<>>
         THEN Ends("ok")
         ELSE pc' = Head(rest) /\ todo' = Tail(rest) /\ late' = FALSE /\ UNCHANGED result

Slip_AbandonedIsAsked(e) == call' = e /\ Goes(Plan[e])

\* converse: an abandoned server gets no further exchange, the first reason is
\* returned again.
Converse(e) ==
    /\ call' = e
    /\ IF abandoned = "none" THEN Goes(Plan[e]) ELSE Ends(abandoned) /\ ClientKeeps

\* What no exchange changes, and what one changes only while it reads or writes.
WorldKeeps == UNCHANGED <<holder, directory>>
ConnectionKeeps == UNCHANGED <<exceeded, working, unread>>

Handshake ==
    /\ pc = "idle" /\ call = "initialize" /\ result = "none"
    /\ UNCHANGED <<call, calls>> /\ ConnectionKeeps /\ WorldKeeps
    /\ Goes(Plan["initialize"])

Synchronize ==
    /\ pc = "idle" /\ call = "initialize" /\ result = "ok" /\ SynchronizesIndex
    /\ UNCHANGED calls /\ ConnectionKeeps /\ WorldKeeps
    /\ Converse("synchronize")

\* There is a Session: the handshake is over.
HasSession == call # "initialize" \/ (result = "ok" /\ ~SynchronizesIndex)

Exchange(e) ==
    /\ pc = "idle" /\ HasSession /\ calls < MaxCalls
    /\ calls' = calls + 1 /\ ConnectionKeeps /\ WorldKeeps
    /\ Converse(e)

Shutdown ==
    /\ pc = "idle" /\ HasSession
    /\ UNCHANGED calls /\ ConnectionKeeps /\ WorldKeeps
    /\ Converse("shutdown")

\* The session, or the client before it has one, goes out of scope.
Abandon ==
    /\ pc = "idle" /\ pc' = "terminate"
    /\ UNCHANGED <<call, todo, result, calls, late, terminated, abandoned, child>>
    /\ ConnectionKeeps /\ WorldKeeps

-----------------------------------------------------------------------------
(* The exchanges: writing and reading *)

\* Something is written, and Then follows: IntakeLimitedWriter.  It refuses all
\* that comes after a write nobody took for the intake limit.
Writes(Then) ==
    \/ ~exceeded /\ Open /\ UNCHANGED exceeded /\ Then
    \/ ~exceeded /\ ~Open /\ UNCHANGED exceeded /\ Fails("closed")
    \/ (exceeded \/ Open) /\ exceeded' = TRUE /\ Fails("notReading")

Write ==
    /\ pc = "write"
    /\ UNCHANGED <<call, calls, working, unread>> /\ WorldKeeps
    /\ Writes(Goes(todo))

Reads(m) ==
    /\ pc \in {"wait", "read"} /\ unread # <<>>
    /\ m = Head(unread) /\ unread' = Tail(unread)
    /\ UNCHANGED <<call, calls>> /\ WorldKeeps

\* The message was not what is waited for.
Stays ==
    IF late THEN Fails("streaming") ELSE UNCHANGED <<pc, todo, result, late>> /\ ClientKeeps

ReadBegin == Reads("begin") /\ UNCHANGED exceeded /\ working' = TRUE /\ Stays

ReadEnd ==
    /\ Reads("end") /\ UNCHANGED exceeded /\ working' \in {working, FALSE}
    /\ IF pc = "wait" /\ ~working' THEN Goes(todo) ELSE Stays

ReadRequest == Reads("request") /\ UNCHANGED working /\ Writes(Stays)

\* A settled query may have to be asked again (module Connection says when).
ReadResponse ==
    /\ Reads("response") /\ UNCHANGED <<exceeded, working>>
    /\ \/ pc = "wait" /\ Fails("unexpected")
       \/ pc = "read" /\ Goes(todo)
       \/ pc = "read" /\ call = "query" /\ Goes(Plan["query"])

ReadMalformed == Reads("malformed") /\ UNCHANGED <<exceeded, working>> /\ Fails("unexpected")

\* The output ended, nothing came for the silence limit, or a frame was still
\* unfinished when the streaming limit was over.
ReadFails ==
    /\ pc \in {"wait", "read"} /\ UNCHANGED <<call, calls>> /\ ConnectionKeeps /\ WorldKeeps
    /\ \/ unread = <<>> /\ ~Open /\ Fails("closed")
       \/ unread = <<>> /\ Open /\ Fails("silent")
       \/ late /\ Open /\ Fails("streaming")

LimitPasses ==
    /\ pc \in {"wait", "read", "poll"} /\ ~late /\ late' = TRUE
    /\ UNCHANGED <<pc, call, todo, result, calls, terminated, abandoned, child>>
    /\ ConnectionKeeps /\ WorldKeeps

-----------------------------------------------------------------------------
(* The end: exit_status_within_limit, Drop *)

AfterCalls == UNCHANGED <<call, todo, calls, late, abandoned>> /\ ConnectionKeeps

Slip_ExitIsWaitedFor ==
    /\ pc = "poll" /\ AfterCalls /\ WorldKeeps /\ pc' = "terminate"
    /\ Exited /\ child' = "reaped" /\ terminated' = TRUE
    /\ result' = IF child = "success" THEN "ok" ELSE "abnormal"

\* try_wait finds the child gone, or the exit limit is over.
PollExit ==
    /\ pc = "poll" /\ AfterCalls /\ WorldKeeps /\ pc' = "terminate"
    /\ \/ /\ Exited /\ child' = "reaped" /\ terminated' = TRUE
          /\ result' = IF child = "success" THEN "ok" ELSE "abnormal"
       \/ ~Exited /\ late /\ result' = "exitTimedOut" /\ Terminate

PollFails ==
    /\ pc = "poll" /\ AfterCalls /\ WorldKeeps /\ pc' = "terminate"
    /\ result' = "wait" /\ UNCHANGED <<child, terminated>>

Slip_DropRemovesFirst ==
    /\ pc = "terminate" /\ pc' = "remove" /\ directory' = FALSE
    /\ AfterCalls /\ UNCHANGED <<result, holder, child, terminated>>

DropTerminates ==
    /\ pc = "terminate" /\ pc' = "remove" /\ Terminate
    /\ AfterCalls /\ WorldKeeps /\ UNCHANGED result

DropRemoves ==
    /\ pc = "remove" /\ pc' = "gone" /\ directory' = FALSE
    /\ AfterCalls /\ UNCHANGED <<result, terminated, child, holder>>

-----------------------------------------------------------------------------
(* The server, and the processes it starts (external) *)

ServerSays(m) ==
    /\ child = "running" /\ Len(unread) < MaxUnread /\ unread' = Append(unread, m)
    /\ UNCHANGED <<clientVars, child, holder, directory>>

ServerExits ==
    /\ child = "running" /\ child' \in {"success", "failure"}
    /\ UNCHANGED <<clientVars, holder, unread, directory>>

\* A process the server starts inherits the pipes, and may outlive it.
ServerForks ==
    /\ child = "running" /\ ~holder /\ holder' = TRUE
    /\ UNCHANGED <<clientVars, child, unread, directory>>

HolderExits ==
    /\ holder /\ holder' = FALSE
    /\ UNCHANGED <<clientVars, child, unread, directory>>

-----------------------------------------------------------------------------
ClientSteps ==
    \/ CreateDirectory \/ Spawn \/ Wire
    \/ Write \/ ReadBegin \/ ReadEnd \/ ReadRequest \/ ReadResponse \/ ReadMalformed \/ ReadFails
    \/ PollExit \/ DropTerminates \/ DropRemoves

Calls ==
    \/ Handshake \/ Synchronize \/ Shutdown \/ Abandon
    \/ \E e \in {"notify", "nothing", "query"} : Exchange(e)

World == ServerExits \/ ServerForks \/ HolderExits \/ \E m \in Says : ServerSays(m)

Next == ClientSteps \/ PollFails \/ Calls \/ LimitPasses \/ World

Spec == Init /\ [][Next]_vars

\* The client's thread runs and its clocks advance.  Nothing is asked of the
\* server, nor of a failing try_wait (PollFails).
FairSpec == Spec /\ WF_vars(ClientSteps) /\ WF_vars(LimitPasses)

-----------------------------------------------------------------------------
(* Properties *)

Results == {"none", "ok", "notStarted", "closedDuringHandshake", "silent", "streaming",
            "notReading", "conversation", "wait", "exitTimedOut", "abnormal"}

TypeOK ==
    /\ pc \in {"create", "spawn", "wire", "idle", "wait", "write", "read", "poll",
               "terminate", "remove", "gone"}
    /\ call \in Exchanges /\ todo \in Seq(InCall)
    /\ result \in Results /\ calls \in Nat /\ late \in BOOLEAN
    /\ terminated \in BOOLEAN /\ abandoned \in Reasons \cup {"none"}
    /\ exceeded \in BOOLEAN /\ working \in BOOLEAN
    /\ child \in {"none", "running", "success", "failure", "reaped"}
    /\ holder \in BOOLEAN /\ unread \in Seq(AllSays) /\ directory \in BOOLEAN

\* However the client ended, half started, given up on or dropped in the middle,
\* its server was reaped and its state directory removed.
NothingLeftBehind == pc = "gone" => child \in {"none", "reaped"} /\ ~directory

\* The state directory outlives the server that writes to it: removed under a
\* running server, it would be written again and stay.
DirectoryOutlivesServer == KeepsState /\ child = "running" => directory

\* A server given up on for any of the three limits is stopped at once, it does
\* not live on until the client is dropped.
GivenUpIsStopped == (abandoned # "none" \/ exceeded) /\ pc \notin InCall => child = "reaped"

\* After the silence or the streaming limit nothing is said to the server and
\* nothing waited for: every further call returns the first reason.
FirstReasonKept ==
    [][abandoned # "none" =>
          /\ abandoned' = abandoned /\ pc' \notin InCall
          /\ result' = abandoned]_vars

\* A shutdown ends, the process with it, whatever the server does about it.
ShutdownEnds == (call = "shutdown" /\ pc # "idle") ~> pc = "gone"

\* The test refuses_with_the_same_reason, of a server that stopped reading: what
\* is asked of it later is refused with that reason.
SameReasonAfterIntake == (exceeded /\ pc = "idle") => result \in {"notReading", "ok"}

-----------------------------------------------------------------------------
(* The inductive invariant *)

\* The points at which there is a server to be terminated, or one that was.
WithServer == {"wire", "idle", "poll", "terminate"} \cup InCall

\* What NothingLeftBehind and the others rest on: `terminated` is only set when
\* the child is reaped, and every limit that is over has set it.
LifeInvariant ==
    /\ terminated => child = "reaped"
    /\ exceeded => terminated
    /\ abandoned # "none" =>
          terminated /\ result = abandoned /\ pc \in {"idle", "terminate", "remove", "gone"}
    /\ pc \in {"create", "spawn"} => child = "none"
    /\ pc \in WithServer => child # "none"
    /\ pc \in WithServer \cup {"spawn"} => (KeepsState => directory)
    /\ pc \in {"remove", "gone"} => child \in {"none", "reaped"}
    /\ pc \in {"create", "gone"} => ~directory

=============================================================================
