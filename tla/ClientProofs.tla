---------------------------- MODULE ClientProofs ----------------------------
(***************************************************************************)
(* Theorems about module Client, for every server and every bound: what is *)
(* left behind, how long the state directory lives, and what happens to a  *)
(* server given up on.  LifeInvariant is the inductive invariant; TypeOK   *)
(* is proved first and used in every step of it.                           *)
(***************************************************************************)
EXTENDS Client, TLAPS

\* Nothing is a sequence of anything.
LEMMA EmptySeq == ASSUME NEW S PROVE <<>> \in Seq(S)
  OBVIOUS

\* The writes and waits of an exchange are a sequence of steps.
LEMMA PlanType == ASSUME NEW e \in Exchanges PROVE Plan[e] \in Seq(InCall)
  <1>1. /\ Plan["initialize"] = <<"write", "read", "write">>
        /\ Plan["synchronize"] = <<"write", "read">>
        /\ Plan["notify"] = <<"write">>
        /\ Plan["nothing"] = <<>>
        /\ Plan["query"] = <<"wait", "write", "read">>
        /\ Plan["shutdown"] = <<"write", "read", "write">>
    BY DEF Plan
  <1>2. /\ <<"write", "read", "write">> \in Seq(InCall) /\ <<"write", "read">> \in Seq(InCall)
        /\ <<"write">> \in Seq(InCall) /\ <<"wait", "write", "read">> \in Seq(InCall)
    BY DEF InCall
  <1> QED
    BY <1>1, <1>2, EmptySeq DEF Exchanges

\* What follows when the steps s come next: the exchange goes on, or ends well.
LEMMA GoesOn ==
    ASSUME NEW s \in Seq(InCall), TypeOK, call' \in Exchanges, Goes(s)
    PROVE  /\ UNCHANGED <<abandoned, terminated, child>>
           /\ todo' \in Seq(InCall) /\ late' \in BOOLEAN /\ result' \in Results
           /\ pc' \in InCall \cup {"idle", "poll"}
  <1> DEFINE rest == IF s # <<>> /\ Head(s) = "wait" /\ ~working' THEN Tail(s) ELSE s
  <1>1. rest \in Seq(InCall)
    OBVIOUS
  <1>2. ClientKeeps
    BY DEF Goes
  <1>3. CASE rest = <<>>
    <2>1. Ends("ok")
      BY <1>3 DEF Goes
    <2> QED
      BY <1>2, <2>1, EmptySeq DEF Ends, ClientKeeps, Results
  <1>4. CASE rest # <<>>
    <2>1. Head(rest) \in InCall /\ Tail(rest) \in Seq(InCall)
      BY <1>1, <1>4
    <2>2. pc' = Head(rest) /\ todo' = Tail(rest) /\ late' = FALSE /\ UNCHANGED result
      BY <1>4 DEF Goes
    <2> QED
      BY <1>2, <2>1, <2>2 DEF ClientKeeps, TypeOK, InCall
  <1> QED
    BY <1>3, <1>4

\* An exchange that ends without success gives up the client, or goes idle.
LEMMA EndsBadly ==
    ASSUME NEW r \in Results \ {"ok"}, Ends(r)
    PROVE  result' = r /\ late' = FALSE /\ todo' = <<>> /\ pc' \in {"idle", "terminate"}
  BY DEF Ends

\* A failed exchange: what is remembered of it, and what was done to the server.
LEMMA FailsBadly ==
    ASSUME NEW cause, Fails(cause), TypeOK
    PROVE  /\ todo' = <<>> /\ late' = FALSE /\ result' \in Results
           /\ pc' \in {"idle", "terminate"}
           /\ \/ UNCHANGED <<abandoned, terminated, child>> /\ cause # "notReading"
              \/ abandoned' = abandoned /\ Terminate
              \/ abandoned' = result' /\ abandoned' \in Reasons /\ Terminate
  BY EndsBadly DEF Fails, Results, Reasons

\* An exchange begun on a live client goes on; on an abandoned one it ends at
\* once with the first reason.
LEMMA ConverseGoesOn ==
    ASSUME TypeOK, NEW e \in Exchanges, Converse(e)
    PROVE  /\ call' = e /\ UNCHANGED <<abandoned, terminated, child>>
           /\ todo' \in Seq(InCall) /\ late' \in BOOLEAN /\ result' \in Results
           /\ \/ abandoned = "none" /\ pc' \in InCall \cup {"idle", "poll"}
              \/ abandoned # "none" /\ result' = abandoned /\ pc' \in {"idle", "terminate"}
  <1>1. CASE abandoned = "none"
    BY <1>1, PlanType, GoesOn DEF Converse
  <1>2. CASE abandoned # "none"
    <2>1. abandoned \in Results \ {"ok"}
      BY <1>2 DEF TypeOK, Results, Reasons
    <2>2. call' = e /\ Ends(abandoned) /\ UNCHANGED <<abandoned, terminated, child>>
      BY <1>2 DEF Converse, ClientKeeps
    <2> QED
      BY <1>2, <2>1, <2>2, EndsBadly, EmptySeq
  <1> QED
    BY <1>1, <1>2

\* The client takes the next message: the queue keeps its type.
LEMMA ReadsType ==
    ASSUME TypeOK, NEW m, Reads(m)
    PROVE  /\ unread' \in Seq(AllSays) /\ pc \in {"wait", "read"}
           /\ UNCHANGED <<call, calls, holder, directory>>
  BY DEF Reads, WorldKeeps, TypeOK

\* A message that was not waited for: the wait goes on, or the streaming limit
\* is over.
LEMMA StaysOrFails ==
    ASSUME Stays
    PROVE  UNCHANGED <<pc, todo, result, late, abandoned, terminated, child>> \/ Fails("streaming")
  BY DEF Stays, ClientKeeps

-----------------------------------------------------------------------------
(* Type correctness *)

\* The variables an exchange can set, when it goes on or ends.
CallType ==
    /\ pc \in InCall \cup {"idle", "poll", "terminate"}
    /\ todo \in Seq(InCall) /\ late \in BOOLEAN /\ result \in Results
    /\ terminated \in BOOLEAN /\ abandoned \in Reasons \cup {"none"}
    /\ child \in {"none", "running", "success", "failure", "reaped"}

\* A failed exchange leaves them well typed.
LEMMA FailsType == ASSUME TypeOK, NEW cause, Fails(cause) PROVE CallType'
  <1>1. todo' \in Seq(InCall)
    BY FailsBadly, EmptySeq
  <1> QED
    BY <1>1, FailsBadly DEF CallType, Terminate, TypeOK

\* So does one that goes on.
LEMMA GoesType ==
    ASSUME TypeOK, NEW s \in Seq(InCall), call' \in Exchanges, Goes(s) PROVE CallType'
  BY GoesOn DEF CallType, TypeOK

\* And one whose wait goes on.
LEMMA StaysType ==
    ASSUME TypeOK, pc \in InCall, Stays PROVE CallType'
  <1>1. CASE Fails("streaming")
    BY <1>1, FailsType
  <1>2. CASE UNCHANGED <<pc, todo, result, late, abandoned, terminated, child>>
    BY <1>2 DEF CallType, TypeOK
  <1> QED
    BY <1>1, <1>2, StaysOrFails

LEMMA InitType == Init => TypeOK
  <1> SUFFICES ASSUME Init PROVE TypeOK
    OBVIOUS
  <1>1. todo \in Seq(InCall) /\ unread \in Seq(AllSays)
    BY EmptySeq DEF Init
  <1> QED
    BY <1>1 DEF Init, TypeOK, Exchanges, Results, Reasons

\* Every step of the client, the server and the clocks keeps the types.
LEMMA StepType == TypeOK /\ [Next]_vars => TypeOK'
  <1> SUFFICES ASSUME TypeOK, [Next]_vars PROVE TypeOK'
    OBVIOUS
  <1>0. CASE UNCHANGED vars
    BY <1>0 DEF vars, clientVars, TypeOK
  <1>1. CASE CreateDirectory \/ Spawn \/ Wire
    BY <1>1, ClientAssumption
       DEF CreateDirectory, Spawn, Wire, StartKeeps, Results, TypeOK
  <1>2. ASSUME CallType', UNCHANGED <<holder, directory>>, unread' \in Seq(AllSays),
               call' \in Exchanges, calls' \in Nat, exceeded' \in BOOLEAN, working' \in BOOLEAN
        PROVE  TypeOK'
    BY <1>2 DEF CallType, TypeOK, InCall
  <1>3. CASE Write
    <2>1. /\ UNCHANGED <<call, calls, working, unread, holder, directory>>
          /\ Goes(todo) \/ Fails("closed") \/ Fails("notReading")
          /\ exceeded' \in {exceeded, TRUE}
      BY <1>3 DEF Write, Writes, WorldKeeps
    <2>2. CallType'
      BY <2>1, FailsType, GoesType DEF TypeOK
    <2> QED
      BY <1>2, <2>1, <2>2 DEF TypeOK
  <1>4. CASE ReadBegin
    <2>1. Reads("begin") /\ UNCHANGED exceeded /\ working' = TRUE /\ Stays
      BY <1>4 DEF ReadBegin
    <2>2. CallType'
      BY <2>1, ReadsType, StaysType DEF InCall
    <2> QED
      BY <1>2, <2>1, <2>2, ReadsType DEF TypeOK
  <1>5. CASE ReadEnd
    <2>1. Reads("end") /\ UNCHANGED exceeded /\ working' \in {working, FALSE}
      BY <1>5 DEF ReadEnd
    <2>2. Goes(todo) \/ Stays
      BY <1>5 DEF ReadEnd
    <2>3. CallType'
      BY <2>1, <2>2, ReadsType, StaysType, GoesType DEF InCall, TypeOK
    <2> QED
      BY <1>2, <2>1, <2>3, ReadsType DEF TypeOK
  <1>6. CASE ReadRequest
    <2>1. /\ Reads("request") /\ UNCHANGED working
          /\ Stays \/ Fails("closed") \/ Fails("notReading")
          /\ exceeded' \in {exceeded, TRUE}
      BY <1>6 DEF ReadRequest, Writes
    <2>2. CallType'
      BY <2>1, ReadsType, StaysType, FailsType DEF InCall
    <2> QED
      BY <1>2, <2>1, <2>2, ReadsType DEF TypeOK
  <1>7. CASE ReadResponse
    <2>1. Reads("response") /\ UNCHANGED <<exceeded, working>>
      BY <1>7 DEF ReadResponse
    <2>2. Fails("unexpected") \/ Goes(todo) \/ Goes(Plan["query"])
      BY <1>7 DEF ReadResponse
    <2>3. Plan["query"] \in Seq(InCall)
      BY PlanType DEF Exchanges
    <2>4. CallType'
      BY <2>1, <2>2, <2>3, ReadsType, FailsType, GoesType DEF TypeOK
    <2> QED
      BY <1>2, <2>1, <2>4, ReadsType DEF TypeOK
  <1>8. CASE ReadMalformed
    BY <1>2, <1>8, ReadsType, FailsType DEF ReadMalformed, TypeOK
  <1>9. CASE ReadFails
    <2>1. /\ UNCHANGED <<call, calls, exceeded, working, unread, holder, directory>>
          /\ \E cause : Fails(cause)
      BY <1>9 DEF ReadFails, ConnectionKeeps, WorldKeeps
    <2> QED
      BY <1>2, <2>1, FailsType DEF TypeOK
  <1>10. CASE Handshake
    <2>1. /\ UNCHANGED <<call, calls, exceeded, working, unread, holder, directory>>
          /\ Goes(Plan["initialize"])
      BY <1>10 DEF Handshake, ConnectionKeeps, WorldKeeps
    <2>2. Plan["initialize"] \in Seq(InCall)
      BY PlanType DEF Exchanges
    <2> QED
      BY <1>2, <2>1, <2>2, GoesType DEF TypeOK
  <1>11. ASSUME NEW e \in Exchanges, Converse(e), calls' \in {calls, calls + 1},
                UNCHANGED <<exceeded, working, unread, holder, directory>>
         PROVE  TypeOK'
    <2>1. CallType'
      BY <1>11, ConverseGoesOn DEF CallType, TypeOK
    <2> QED
      BY <1>2, <1>11, <2>1, ConverseGoesOn DEF TypeOK
  <1>12. CASE Synchronize \/ Shutdown \/ \E e \in {"notify", "nothing", "query"} : Exchange(e)
    BY <1>11, <1>12
       DEF Synchronize, Shutdown, Exchange, ConnectionKeeps, WorldKeeps, Exchanges
  <1>13. CASE Abandon \/ LimitPasses
    BY ZenonT(60), <1>13 DEF Abandon, LimitPasses, ConnectionKeeps, WorldKeeps, TypeOK
  <1>14. CASE PollExit \/ PollFails \/ DropTerminates \/ DropRemoves
    BY ZenonT(60), <1>14 DEF PollExit, PollFails, DropTerminates, DropRemoves, AfterCalls,
                 ConnectionKeeps, WorldKeeps, Terminate, Results, TypeOK
  <1>15. CASE World
    <2>1. ASSUME NEW m \in Says, ServerSays(m) PROVE TypeOK'
      <3>1. unread' \in Seq(AllSays)
        BY <2>1, ClientAssumption DEF ServerSays, TypeOK
      <3> QED
        BY <2>1, <3>1 DEF ServerSays, clientVars, TypeOK
    <2> QED
      BY ZenonT(60), <1>15, <2>1 DEF World, ServerExits, ServerForks, HolderExits, clientVars, TypeOK
  <1> QED
    BY <1>0, <1>1, <1>3, <1>4, <1>5, <1>6, <1>7, <1>8, <1>9, <1>10, <1>12, <1>13, <1>14, <1>15
       DEF Next, ClientSteps, Calls

\* Every variable keeps its type, whatever the server does.
THEOREM TypeCorrect == Spec => []TypeOK
  BY InitType, StepType, PTL DEF Spec

-----------------------------------------------------------------------------
(* What is left behind *)

LEMMA InitLife == Init => LifeInvariant
  BY DEF Init, LifeInvariant, WithServer, InCall

\* An exchange that fails: what LifeInvariant says of the client afterwards.
LEMMA FailsLife ==
    ASSUME TypeOK, LifeInvariant, pc \in InCall, NEW cause, Fails(cause),
           UNCHANGED <<holder, directory>>,
           UNCHANGED exceeded \/ (exceeded' = TRUE /\ cause = "notReading")
    PROVE  LifeInvariant'
  <1>1. /\ pc' \in {"idle", "terminate"}
        /\ \/ UNCHANGED <<abandoned, terminated, child>> /\ cause # "notReading"
           \/ abandoned' = abandoned /\ Terminate
           \/ abandoned' = result' /\ abandoned' \in Reasons /\ Terminate
    BY FailsBadly
  <1>2. abandoned = "none" /\ child # "none" /\ (KeepsState => directory)
    BY DEF LifeInvariant, InCall, WithServer
  <1>3. CASE UNCHANGED <<abandoned, terminated, child, exceeded>>
    BY <1>1, <1>2, <1>3 DEF LifeInvariant, WithServer, InCall
  <1>4. CASE Terminate /\ (abandoned' = "none" \/ abandoned' = result')
    <2>1. terminated' = TRUE /\ child' = "reaped"
      BY <1>4 DEF Terminate, LifeInvariant
    <2> QED
      BY <1>1, <1>2, <1>4, <2>1 DEF LifeInvariant, WithServer, InCall
  <1> QED
    BY <1>1, <1>2, <1>3, <1>4

\* Any step that leaves the server and what is remembered of it alone, between
\* points at which there is one.
LEMMA GoesLife ==
    ASSUME LifeInvariant, UNCHANGED <<abandoned, terminated, child, exceeded, directory>>,
           pc \in {"idle"} \cup InCall, pc' \in WithServer,
           abandoned = "none"
    PROVE  LifeInvariant'
  BY DEF LifeInvariant, WithServer, InCall

\* The client's and the server's steps keep the invariant.
LEMMA StepLife == TypeOK /\ LifeInvariant /\ [Next]_vars => LifeInvariant'
  <1> SUFFICES ASSUME TypeOK, LifeInvariant, [Next]_vars PROVE LifeInvariant'
    OBVIOUS
  <1>0. CASE UNCHANGED vars
    BY <1>0 DEF vars, clientVars, LifeInvariant
  <1>1. CASE CreateDirectory \/ Spawn \/ Wire
    <2>1. CASE CreateDirectory
      BY <2>1 DEF CreateDirectory, StartKeeps, LifeInvariant, WithServer, InCall
    <2>2. CASE Spawn
      <3>1. child = "none" /\ ~terminated /\ ~exceeded /\ abandoned = "none"
        BY <2>2 DEF Spawn, LifeInvariant
      <3> QED
        BY <2>2, <3>1 DEF Spawn, StartKeeps, LifeInvariant, WithServer, InCall
    <2>3. CASE Wire
      BY <2>3 DEF Wire, StartKeeps, LifeInvariant, WithServer, InCall
    <2> QED
      BY <1>1, <2>1, <2>2, <2>3
  <1>2. pc \in InCall => abandoned = "none"
    BY DEF LifeInvariant, InCall
  <1>3. ASSUME pc \in InCall, UNCHANGED <<call, exceeded, directory>>,
               NEW s \in Seq(InCall), Goes(s)
        PROVE  LifeInvariant'
    BY <1>2, <1>3, GoesOn, GoesLife DEF WithServer, TypeOK
  <1>4. ASSUME pc \in InCall, UNCHANGED <<exceeded, holder, directory>>, Stays
        PROVE  LifeInvariant'
    BY <1>2, <1>4, StaysOrFails, FailsLife, GoesLife DEF WithServer
  <1>5. CASE Write
    <2>1. /\ pc \in InCall /\ UNCHANGED <<call, holder, directory>>
          /\ \/ UNCHANGED exceeded /\ Goes(todo)
             \/ UNCHANGED exceeded /\ Fails("closed")
             \/ exceeded' = TRUE /\ Fails("notReading")
      BY <1>5 DEF Write, Writes, WorldKeeps, InCall
    <2> QED
      BY <1>3, <2>1, FailsLife DEF TypeOK
  <1>6. CASE ReadBegin
    BY <1>4, <1>6, ReadsType DEF ReadBegin, InCall
  <1>7. CASE ReadEnd
    <2>1. Reads("end") /\ UNCHANGED exceeded /\ (Goes(todo) \/ Stays)
      BY <1>7 DEF ReadEnd
    <2> QED
      BY <1>3, <1>4, <2>1, ReadsType DEF InCall, TypeOK
  <1>8. CASE ReadRequest
    <2>1. /\ Reads("request")
          /\ \/ UNCHANGED exceeded /\ Stays
             \/ UNCHANGED exceeded /\ Fails("closed")
             \/ exceeded' = TRUE /\ Fails("notReading")
      BY <1>8 DEF ReadRequest, Writes
    <2> QED
      BY <1>4, <2>1, ReadsType, FailsLife DEF InCall
  <1>9. CASE ReadResponse
    <2>1. Reads("response") /\ UNCHANGED exceeded
      BY <1>9 DEF ReadResponse
    <2>2. Fails("unexpected") \/ Goes(todo) \/ Goes(Plan["query"])
      BY <1>9 DEF ReadResponse
    <2>3. Plan["query"] \in Seq(InCall)
      BY PlanType DEF Exchanges
    <2> QED
      BY <1>3, <2>1, <2>2, <2>3, ReadsType, FailsLife DEF InCall, TypeOK
  <1>10. CASE ReadMalformed
    BY <1>10, ReadsType, FailsLife DEF ReadMalformed, InCall
  <1>11. CASE ReadFails
    BY <1>11, FailsLife DEF ReadFails, ConnectionKeeps, WorldKeeps, InCall
  <1>12. CASE Handshake
    <2>1. /\ pc = "idle" /\ result = "none" /\ UNCHANGED <<call, exceeded, directory>>
          /\ Goes(Plan["initialize"])
      BY <1>12 DEF Handshake, ConnectionKeeps, WorldKeeps
    <2>2. Plan["initialize"] \in Seq(InCall)
      BY PlanType DEF Exchanges
    <2>3. abandoned = "none"
      BY <2>1 DEF LifeInvariant, TypeOK, Reasons
    <2> QED
      BY <2>1, <2>2, <2>3, GoesOn, GoesLife DEF WithServer, TypeOK
  <1>13. ASSUME NEW e \in Exchanges, pc = "idle", Converse(e), UNCHANGED <<exceeded, directory>>
         PROVE  LifeInvariant'
    <2>1. CASE abandoned = "none"
      BY <1>13, <2>1, ConverseGoesOn, GoesLife DEF WithServer
    <2>2. CASE abandoned # "none"
      BY <1>13, <2>2, ConverseGoesOn DEF LifeInvariant, WithServer, InCall
    <2> QED
      BY <2>1, <2>2
  <1>14. CASE Synchronize \/ Shutdown \/ \E e \in {"notify", "nothing", "query"} : Exchange(e)
    BY <1>13, <1>14
       DEF Synchronize, Shutdown, Exchange, ConnectionKeeps, WorldKeeps, Exchanges
  <1>15. CASE Abandon \/ LimitPasses
    BY <1>15 DEF Abandon, LimitPasses, ConnectionKeeps, WorldKeeps, LifeInvariant, WithServer, InCall
  <1>16. CASE PollExit \/ PollFails \/ DropTerminates \/ DropRemoves
    BY <1>16 DEF PollExit, PollFails, DropTerminates, DropRemoves, AfterCalls, ConnectionKeeps,
                 WorldKeeps, Terminate, LifeInvariant, WithServer, InCall, TypeOK
  <1>17. CASE World
    BY <1>17 DEF World, ServerSays, ServerExits, ServerForks, HolderExits, clientVars,
                 LifeInvariant, WithServer, InCall
  <1> QED
    BY <1>0, <1>1, <1>5, <1>6, <1>7, <1>8, <1>9, <1>10, <1>11, <1>12, <1>14, <1>15, <1>16, <1>17
       DEF Next, ClientSteps, Calls

\* The inductive invariant holds of every behaviour.
THEOREM LifeInvariantHolds == Spec => []LifeInvariant
  BY TypeCorrect, InitLife, StepLife, PTL DEF Spec

\* However it ends, no process and no directory of the client stays behind.
THEOREM NothingStaysBehind == Spec => []NothingLeftBehind
  <1>1. LifeInvariant => NothingLeftBehind
    BY DEF LifeInvariant, NothingLeftBehind
  <1> QED
    BY <1>1, LifeInvariantHolds, PTL

\* The directory is removed only when no server can write to it any more.
THEOREM DirectoryIsRemovedLast == Spec => []DirectoryOutlivesServer
  <1>1. TypeOK /\ LifeInvariant => DirectoryOutlivesServer
    BY DEF TypeOK, LifeInvariant, DirectoryOutlivesServer, WithServer, InCall
  <1> QED
    BY <1>1, TypeCorrect, LifeInvariantHolds, PTL

\* A server past a limit is dead by the time the client can do anything else.
THEOREM PastALimitIsKilled == Spec => []GivenUpIsStopped
  <1>1. LifeInvariant => GivenUpIsStopped
    BY DEF LifeInvariant, GivenUpIsStopped
  <1> QED
    BY <1>1, LifeInvariantHolds, PTL

\* Nothing is said to an abandoned server, nor waited for, and the reason given
\* for it never changes.
THEOREM AbandonedOnce == Spec => FirstReasonKept
  <1> DEFINE Kept == abandoned' = abandoned /\ pc' \notin InCall /\ result' = abandoned
  <1>1. TypeOK /\ LifeInvariant /\ LifeInvariant' /\ [Next]_vars
            => (abandoned # "none" => Kept) \/ UNCHANGED vars
    <2> SUFFICES ASSUME TypeOK, LifeInvariant, LifeInvariant', Next, abandoned # "none"
                 PROVE  Kept
      OBVIOUS
    <2>1. pc \in {"idle", "terminate", "remove", "gone"} /\ result \in Reasons
      BY DEF LifeInvariant, TypeOK
    <2>2. World => abandoned' = abandoned
      BY DEF World, ServerSays, ServerExits, ServerForks, HolderExits, clientVars
    <2>3. Calls => abandoned' = abandoned
      BY <2>1 DEF Calls, Handshake, Synchronize, Shutdown, Abandon, Exchange, Converse,
                        ClientKeeps, Reasons
    <2>4. ClientSteps \/ PollFails \/ LimitPasses => abandoned' = abandoned
      BY <2>1
         DEF ClientSteps, CreateDirectory, Spawn, Wire, Write, ReadBegin, ReadEnd, ReadRequest,
             ReadResponse, ReadMalformed, Reads, ReadFails, PollExit, PollFails, DropTerminates,
             DropRemoves, AfterCalls, LimitPasses
    <2>5. abandoned' = abandoned
      BY <2>2, <2>3, <2>4 DEF Next
    <2> QED
      BY <2>5 DEF LifeInvariant, InCall
  <1> QED
    BY <1>1, TypeCorrect, LifeInvariantHolds, PTL DEF FirstReasonKept, Spec
=============================================================================
