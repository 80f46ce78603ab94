----------------------------- MODULE ScanProofs -----------------------------
(***************************************************************************)
(* Proofs about Scan, for any number of chunks and servers, any languages, *)
(* any codebases: the type of the state, that a run with --fail-on fails   *)
(* closed, that the first failure is the one reported, that a membership   *)
(* is asked for at most once, and that check selects from what scan does.  *)
(***************************************************************************)
EXTENDS Scan, TLAPS

-----------------------------------------------------------------------------
(* Types.                                                                  *)

(* No step of a run changes the shape of its state: what ScanSemantics and *)
(* ChunkSemantics of pipeline.rs declare.                                  *)
LEMMA TypeInit == Init => TypeOK
  BY ShapeAssumption DEF Init, TypeOK, Chunks, Servers, Caps, Unasked, Outcomes, None, Failures

(* A failure of a server that is recorded is one of the known failures.    *)
LEMMA FromFailureType ==
  ASSUME TypeOK, server \in Servers, NEW cause \in Failures, FromFailure(server, cause)
  PROVE  /\ setup' \in [Servers -> Failures]
         /\ perChunk' \in [Servers -> [Chunks -> {"notACandidate", "unavailable", "noName", "asked"}]]
  BY DEF TypeOK, FromFailure

LEMMA FailedType ==
  ASSUME TypeOK, server \in Servers, NEW cause \in Failures, Failed(server, cause)
  PROVE  first' \in [Servers -> Failures]
  BY DEF TypeOK, Failed

(* Recording the outcome of a question keeps the shape of the answers.     *)
LEMMA PutTypes ==
  ASSUME TypeOK, server \in Servers, NEW c \in Chunks, NEW o \in {"answer", "error"}, Put("types", c, o)
  PROVE  /\ answers' \in [Chunks -> [types : Outcomes, callees : Outcomes,
                             callers : Outcomes \union {"withheld", "unreachable", "taken"}]]
         /\ first' \in [Servers -> Failures] /\ todo' \in SUBSET Chunks
<1>1. <<"types", c>> \in Failures
  BY DEF Failures
<1>2. first' \in [Servers -> Failures]
  BY <1>1, FailedType DEF Put, TypeOK
<1> QED BY ZenonT(60), <1>2 DEF Put, TypeOK, Outcomes

LEMMA PutCallees ==
  ASSUME TypeOK, server \in Servers, NEW c \in Chunks, NEW o \in {"answer", "error"}, Put("callees", c, o)
  PROVE  /\ answers' \in [Chunks -> [types : Outcomes, callees : Outcomes,
                             callers : Outcomes \union {"withheld", "unreachable", "taken"}]]
         /\ first' \in [Servers -> Failures] /\ todo' \in SUBSET Chunks
<1>1. <<"callees", c>> \in Failures
  BY DEF Failures
<1>2. first' \in [Servers -> Failures]
  BY <1>1, FailedType DEF Put, TypeOK
<1> QED BY ZenonT(60), <1>2 DEF Put, TypeOK, Outcomes

LEMMA PutCallers ==
  ASSUME TypeOK, server \in Servers, NEW c \in Chunks,
         NEW o \in {"answer", "error", "withheld", "unreachable", "taken"}, Put("callers", c, o)
  PROVE  /\ answers' \in [Chunks -> [types : Outcomes, callees : Outcomes,
                             callers : Outcomes \union {"withheld", "unreachable", "taken"}]]
         /\ first' \in [Servers -> Failures] /\ todo' \in SUBSET Chunks
<1>1. <<"callers", c>> \in Failures /\ <<"membership", c>> \in Failures
  BY DEF Failures
<1>2. first' \in [Servers -> Failures]
  BY <1>1, FailedType DEF Put, TypeOK
<1> QED BY ZenonT(60), <1>2 DEF Put, TypeOK, Outcomes

LEMMA AtServer ==
  ASSUME TypeOK, NEW p, At(p) PROVE server \in Servers
  BY ShapeAssumption DEF TypeOK, At, Servers

LEMMA NextServerType ==
  ASSUME TypeOK, server \in Servers, NextServer
  PROVE  /\ server' \in 1..(NumServers + 1) /\ phase' = "begin"
         /\ opened' \in SUBSET Files /\ todo' \in SUBSET Chunks
         /\ membership' \in [Files -> {"unknown", "askable", "withheld", "taken"}]
  BY ShapeAssumption DEF NextServer, Servers, TypeOK

(* One turn of AskCallers: m is what is known of the membership.           *)
AskedAbout(c, m) ==
  /\ queries' = [queries EXCEPT ![code.file[c]] = @ + m[2]]
  /\ membership' = [membership EXCEPT ![code.file[c]] = IF m[1] = "unreachable" THEN "taken" ELSE m[1]]
  /\ IF m[1] = "askable"
     THEN \E outcome \in IF caps.references THEN {"answer", "error"} ELSE {"answer"} :
            Put("callers", c, outcome)
     ELSE Put("callers", c, m[1])

LEMMA TypeStep ==
  ASSUME TypeOK, [Next]_vars PROVE TypeOK'
<1>1. CASE CannotScan
  BY <1>1 DEF CannotScan, TypeOK, conversation, results, history
<1>2. CASE Compare
  BY <1>2 DEF Compare, TypeOK, conversation, results, history, CandidatesOf
<1>3. CASE NothingToAsk
  BY <1>3, AtServer, NextServerType DEF NothingToAsk, NextServer, TypeOK, results, history
<1>4. CASE SetupFails
  <2>1. PICK kind \in {"document", "workspace"} :
          FromFailure(server, <<kind, 0>>) /\ Failed(server, <<kind, 0>>)
    BY <1>4 DEF SetupFails
  <2>2. <<kind, 0>> \in Failures
    BY DEF Failures
  <2> QED BY <1>4, <2>1, <2>2, AtServer, NextServerType, FromFailureType, FailedType
          DEF SetupFails, NextServer, TypeOK
<1>5. CASE Start
  BY <1>5, AtServer, ShapeAssumption DEF Start, TypeOK, results
<1>6. CASE StartFails
  <2>1. PICK kind \in {"start", "handshake"} :
          FromFailure(server, <<kind, 0>>) /\ Failed(server, <<kind, 0>>)
    BY <1>6 DEF StartFails
  <2>2. <<kind, 0>> \in Failures
    BY DEF Failures
  <2> QED BY <1>6, <2>1, <2>2, AtServer, NextServerType, FromFailureType, FailedType
          DEF StartFails, NextServer, TypeOK
<1>7. CASE Opens
  BY <1>7, ShapeAssumption DEF Opens, TypeOK, results, history, Codebase
<1>8. CASE OpenFails
  <2>1. PICK c \in Chunks : FromFailure(server, <<"open", c>>) /\ Failed(server, <<"open", c>>)
    BY <1>8 DEF OpenFails
  <2>2. <<"open", c>> \in Failures
    BY DEF Failures
  <2> QED BY <1>8, <2>1, <2>2, AtServer, FromFailureType, FailedType DEF OpenFails, TypeOK
<1>9. CASE \E from, to \in {"open", "types", "callers", "callees", "shutdown"} : Turn(from, to)
  BY <1>9 DEF Turn, TypeOK, results, history, Askable, Served, AskedChunks, Pairs
<1>10. CASE AskTypes
  <2>1. PICK c \in Chunks, o \in {"answer", "error"} : Put("types", c, o)
    BY <1>10 DEF AskTypes, AskOne
  <2>2. server \in Servers
    BY <1>10, AtServer DEF AskTypes, AskOne
  <2> QED BY ZenonT(60), <1>10, <2>1, <2>2, PutTypes DEF AskTypes, AskOne, Put, TypeOK, results
<1>11. CASE AskCallees
  <2>1. PICK c \in Chunks, o \in {"answer", "error"} : Put("callees", c, o)
    BY <1>11 DEF AskCallees, AskOne
  <2>2. server \in Servers
    BY <1>11, AtServer DEF AskCallees, AskOne
  <2> QED BY ZenonT(60), <1>11, <2>1, <2>2, PutCallees DEF AskCallees, AskOne, Put, TypeOK, results
<1>12. CASE AskCallers
  <2>1. server \in Servers
    BY <1>12, AtServer DEF AskCallers
  <2>2. PICK c \in Chunks : \E m \in Remembered(code.file[c]) : AskedAbout(c, m)
    BY <1>12 DEF AskCallers, AskedAbout
  <2>3. PICK m \in Remembered(code.file[c]) : AskedAbout(c, m)
    BY <2>2
  <2>4. code.file[c] \in Files
    BY ShapeAssumption DEF TypeOK, Codebase
  <2>5. m[1] \in {"askable", "withheld", "unreachable", "taken"} /\ m[2] \in {0, 1}
    BY <2>4 DEF Remembered, Memberships, TypeOK
  <2>6. PICK o \in {"answer", "error", "withheld", "unreachable", "taken"} : Put("callers", c, o)
    BY <2>3, <2>5 DEF AskedAbout
  <2>7. /\ membership' \in [Files -> {"unknown", "askable", "withheld", "taken"}]
        /\ queries' \in [Files -> Nat]
    BY <2>3, <2>4, <2>5 DEF AskedAbout, TypeOK
  <2> QED BY ZenonT(60), <2>1, <2>6, <2>7, PutCallers DEF Put, TypeOK, results
<1>13. CASE Shutdown
  <2>1. server \in Servers
    BY <1>13, AtServer DEF Shutdown
  <2>2. PerChunk(server) \in [Chunks -> {"notACandidate", "unavailable", "noName", "asked"}]
    BY DEF PerChunk
  <2>3. perChunk' \in [Servers -> [Chunks -> {"notACandidate", "unavailable", "noName", "asked"}]]
    BY <1>13, <2>1, <2>2 DEF Shutdown, TypeOK, results
  <2> QED BY <1>13, <2>1, <2>3, NextServerType DEF Shutdown, NextServer, TypeOK, results
<1>14. CASE ShutdownFails
  BY <1>14, AtServer, NextServerType, FromFailureType, FailedType DEF ShutdownFails, NextServer, TypeOK, Failures
<1>15. CASE Report
  BY <1>15 DEF Report, ExitCode, TypeOK, conversation, results, history
<1>16. CASE UNCHANGED vars
  BY <1>16 DEF vars, TypeOK, conversation, results, history
<1> QED BY <1>1, <1>2, <1>3, <1>4, <1>5, <1>6, <1>7, <1>8, <1>9, <1>10, <1>11, <1>12, <1>13,
           <1>14, <1>15, <1>16 DEF Next, AllOpened

THEOREM TypeCorrect == Spec => []TypeOK
<1>1. Init => TypeOK
  BY TypeInit
<1>2. TypeOK /\ [Next]_vars => TypeOK'
  BY TypeStep
<1> QED BY <1>1, <1>2, PTL DEF Spec

-----------------------------------------------------------------------------
(* Which server a chunk belongs to.                                        *)

LEMMA ServedOnce ==
  ASSUME NEW s \in Servers, NEW t \in Servers, NEW c \in Served(s), c \in Served(t)
  PROVE  s = t
  BY ShapeAssumption DEF Served, IsServer, Servers

(* As long as candidates are what they were, so is what is asked.          *)
LEMMA ServedSame ==
  ASSUME UNCHANGED <<code, candidates>>
  PROVE  \A s : Served(s)' = Served(s) /\ Askable(s)' = Askable(s) /\ PerChunk(s)' = PerChunk(s)
  BY DEF Served, Askable, AskedChunks, PerChunk

(* A failure to set a server up marks its chunks and keeps the others'.    *)
LEMMA FromFailureKept ==
  ASSUME TypeOK, KeptIfServed, server \in Servers, NEW cause \in Failures, cause # None,
         FromFailure(server, cause), UNCHANGED <<code, candidates>>, server' \in {server, server + 1}
  PROVE  /\ KeptIfServed'
         /\ setup'[server] # None
         /\ \A s \in Servers : s # server => setup'[s] = setup[s] /\ perChunk'[s] = perChunk[s]
<1>1. /\ setup'[server] = cause
      /\ \A s \in Servers : s # server => setup'[s] = setup[s] /\ perChunk'[s] = perChunk[s]
      /\ \A c \in Chunks : perChunk'[server][c] = IF c \in Served(server) THEN "unavailable"
                                                   ELSE "notACandidate"
  BY DEF FromFailure, TypeOK
<1>2. SUFFICES ASSUME NEW s \in Servers, NEW c \in Chunks
               PROVE  /\ perChunk'[s][c] # "notACandidate" => c \in Served(s)
                      /\ perChunk'[s][c] = "asked" => s < server' /\ setup'[s] = None
                      /\ c \in Served(s) /\ (s < server' \/ setup'[s] # None)
                           => perChunk'[s][c] # "notACandidate"
  BY <1>1, ServedSame DEF KeptIfServed
<1>3. CASE s = server
  BY <1>1, <1>3
<1>4. CASE s # server
  <2>1. s < server' <=> s < server
    BY <1>4 DEF Servers
  <2> QED BY <1>1, <1>4, <2>1 DEF KeptIfServed
<1> QED BY <1>3, <1>4

(* What a server left behind stays as long as its chunks are not asked     *)
(* about.                                                                  *)
LEMMA EarlierStay ==
  ASSUME TypeOK, EarlierServers, server \in Servers, UNCHANGED <<code, candidates>>,
         \A s \in Servers : s # server =>
           /\ setup'[s] = setup[s] /\ perChunk'[s] = perChunk[s]
           /\ ended'[s] = ended[s] /\ starts'[s] = starts[s],
         \A c \in Chunks : c \notin Askable(server) => answers'[c] = answers[c]
  PROVE  \A s \in Servers : s < server => (setup[s] # None \/ Served(s) = {} \/ LeftBehind(s))'
<1> SUFFICES ASSUME NEW s \in Servers, s < server
             PROVE  setup'[s] # None \/ Served(s)' = {} \/ LeftBehind(s)'
  OBVIOUS
<1>1. s # server
  BY DEF Servers
<1>2. \A c \in Askable(s) : c \in Chunks /\ answers'[c] = answers[c]
  BY <1>1, ServedOnce DEF Askable, Served, AskedChunks, TypeOK, Pairs
<1>3. CASE setup[s] # None \/ Served(s) = {}
  BY <1>1, <1>3, ServedSame
<1>4. CASE LeftBehind(s)
  BY <1>1, <1>2, <1>4, ServedSame DEF LeftBehind
<1> QED BY <1>3, <1>4 DEF EarlierServers

-----------------------------------------------------------------------------
(* The invariant, one lemma for each kind of step.                         *)

LEMMA InvInit == Init => ScanInvariant
<1> SUFFICES ASSUME Init PROVE ScanInvariant
  OBVIOUS
<1>1. TypeOK
  BY TypeInit
<1>2. NothingBeforeCandidates /\ CandidatesKnown /\ NoErrorAtTheEnd
  BY DEF Init, NothingBeforeCandidates, CandidatesKnown, NoErrorAtTheEnd
<1>3. KeptIfServed
  BY ShapeAssumption DEF Init, KeptIfServed, Servers, Served, AskedChunks
<1>4. SessionInStep /\ QuestionsAnswered
  BY DEF Init, SessionInStep, QuestionsAnswered
<1>5. EarlierServers
  BY ShapeAssumption DEF Init, EarlierServers, Servers
<1> QED BY <1>1, <1>2, <1>3, <1>4, <1>5 DEF ScanInvariant

LEMMA CannotScanStep == ASSUME ScanInvariant, TypeOK', CannotScan PROVE ScanInvariant'
<1>1. UNCHANGED <<code, failOn, candidates, server, phase, caps, opened, todo, membership, answers,
                  perChunk, setup, starts, queries, first, ended>>
      /\ pc' = "done" /\ exit' = 2
  BY DEF CannotScan, conversation, results, history
<1>2. \A s : Served(s)' = Served(s) /\ Askable(s)' = Askable(s) /\ PerChunk(s)' = PerChunk(s)
  BY <1>1, ServedSame
<1>3. NothingBeforeCandidates' /\ CandidatesKnown' /\ NoErrorAtTheEnd'
  BY <1>1 DEF ScanInvariant, NothingBeforeCandidates, CandidatesKnown, NoErrorAtTheEnd
<1>4. KeptIfServed' /\ SessionInStep' /\ QuestionsAnswered' /\ EarlierServers'
  BY <1>1, <1>2 DEF ScanInvariant, KeptIfServed, SessionInStep, QuestionsAnswered, EarlierServers,
                    Asked, LeftBehind
<1> QED BY <1>3, <1>4 DEF ScanInvariant

LEMMA CompareStep == ASSUME ScanInvariant, TypeOK', Compare PROVE ScanInvariant'
<1>1. /\ UNCHANGED <<code, server, phase, todo, membership, answers, perChunk, setup, starts, ended>>
      /\ pc' = "serve" /\ candidates' = CandidatesOf(code) /\ phase = "begin" /\ server = 1
      /\ perChunk = [s \in Servers |-> [c \in Chunks |-> "notACandidate"]]
      /\ setup = [s \in Servers |-> None] /\ todo = {}
  BY DEF Compare, conversation, results, history, ScanInvariant, NothingBeforeCandidates, SessionInStep
<1>2. NothingBeforeCandidates' /\ CandidatesKnown' /\ NoErrorAtTheEnd'
  BY <1>1 DEF NothingBeforeCandidates, CandidatesKnown, CandidatesOf, NoErrorAtTheEnd
<1>3. KeptIfServed' /\ EarlierServers'
  BY <1>1, ShapeAssumption DEF KeptIfServed, EarlierServers, Servers
<1>4. SessionInStep' /\ QuestionsAnswered'
  BY <1>1 DEF SessionInStep, QuestionsAnswered, ScanInvariant
<1> QED BY <1>2, <1>3, <1>4 DEF ScanInvariant

(* After the last word about a server the next one starts afresh.          *)
LEMMA NextSession ==
  ASSUME TypeOK, SessionInStep, server \in Servers, NextServer,
         starts' \in [Servers -> Nat], \A s \in Servers : s # server => starts'[s] = starts[s]
  PROVE  SessionInStep' /\ QuestionsAnswered'
<1>1. /\ todo' = {} /\ phase' = "begin" /\ server' = server + 1
      /\ membership' = [f \in Files |-> "unknown"]
  BY DEF NextServer
<1>2. \A s \in Servers : s > server' \/ s = server' => s > server /\ s # server
  BY <1>1 DEF Servers
<1>3. SessionInStep'
  BY <1>1, <1>2 DEF SessionInStep
<1> QED BY <1>1, <1>3 DEF QuestionsAnswered

LEMMA GiveUpStep ==
  ASSUME ScanInvariant, TypeOK', pc = "serve", server \in Servers,
         NEW cause \in Failures, cause # None, FromFailure(server, cause), NextServer,
         ended' = ended, starts' \in [Servers -> Nat],
         \A s \in Servers : s # server => starts'[s] = starts[s]
  PROVE  ScanInvariant'
<1>1. UNCHANGED <<code, failOn, pc, candidates, answers, exit>> /\ server' = server + 1
  BY DEF NextServer
<1>2. NothingBeforeCandidates' /\ CandidatesKnown' /\ NoErrorAtTheEnd'
  BY <1>1 DEF NothingBeforeCandidates, CandidatesKnown, CandidatesOf, NoErrorAtTheEnd, ScanInvariant
<1>3. /\ KeptIfServed' /\ setup'[server] # None
      /\ \A s \in Servers : s # server => setup'[s] = setup[s] /\ perChunk'[s] = perChunk[s]
  BY <1>1, FromFailureKept DEF ScanInvariant
<1>4. SessionInStep' /\ QuestionsAnswered'
  BY NextSession DEF ScanInvariant
<1>5. \A s \in Servers : s < server => (setup[s] # None \/ Served(s) = {} \/ LeftBehind(s))'
  BY <1>1, <1>3, EarlierStay DEF ScanInvariant
<1>6. EarlierServers'
  BY <1>1, <1>3, <1>5 DEF EarlierServers, Servers
<1> QED BY <1>2, <1>3, <1>4, <1>6 DEF ScanInvariant

LEMMA SetupFailsStep == ASSUME ScanInvariant, TypeOK', SetupFails PROVE ScanInvariant'
<1>1. PICK kind \in {"document", "workspace"} : FromFailure(server, <<kind, 0>>)
  BY DEF SetupFails
<1>2. <<kind, 0>> \in Failures /\ <<kind, 0>> # None
  BY DEF Failures, None
<1>3. server \in Servers /\ pc = "serve"
  BY AtServer DEF SetupFails, At, ScanInvariant
<1> QED BY <1>1, <1>2, <1>3, GiveUpStep DEF SetupFails, ScanInvariant, TypeOK

LEMMA StartFailsStep == ASSUME ScanInvariant, TypeOK', StartFails PROVE ScanInvariant'
<1>1. PICK kind \in {"start", "handshake"} : FromFailure(server, <<kind, 0>>)
  BY DEF StartFails
<1>2. <<kind, 0>> \in Failures /\ <<kind, 0>> # None
  BY DEF Failures, None
<1>3. server \in Servers /\ pc = "serve"
  BY AtServer DEF StartFails, At, ScanInvariant
<1>4. starts' \in [Servers -> Nat] /\ \A s \in Servers : s # server => starts'[s] = starts[s]
  BY <1>3 DEF StartFails, ScanInvariant, TypeOK
<1> QED BY <1>1, <1>2, <1>3, <1>4, GiveUpStep DEF StartFails

LEMMA ShutdownFailsStep == ASSUME ScanInvariant, TypeOK', ShutdownFails PROVE ScanInvariant'
<1>1. <<"shutdown", 0>> \in Failures /\ <<"shutdown", 0>> # None
  BY DEF Failures, None
<1>2. server \in Servers /\ pc = "serve"
  BY AtServer DEF ShutdownFails, At, ScanInvariant
<1> QED BY <1>1, <1>2, GiveUpStep DEF ShutdownFails, ScanInvariant, TypeOK

LEMMA NothingToAskStep == ASSUME ScanInvariant, TypeOK', NothingToAsk PROVE ScanInvariant'
<1>1. /\ UNCHANGED <<code, failOn, pc, candidates, answers, exit, perChunk, setup, starts, ended>>
      /\ server' = server + 1 /\ Served(server) = {} /\ NextServer
  BY DEF NothingToAsk, NextServer, results, history
<1>2. server \in Servers /\ pc = "serve"
  BY AtServer DEF NothingToAsk, At, ScanInvariant
<1>3. NothingBeforeCandidates' /\ CandidatesKnown' /\ NoErrorAtTheEnd'
  BY <1>1, <1>2 DEF NothingBeforeCandidates, CandidatesKnown, CandidatesOf, NoErrorAtTheEnd, ScanInvariant
<1>4. SessionInStep' /\ QuestionsAnswered'
  BY <1>1, <1>2, NextSession DEF ScanInvariant, TypeOK
<1>5. \A s \in Servers : s < server' <=> s < server \/ s = server
  BY <1>1, <1>2 DEF Servers
<1>6. KeptIfServed'
  BY <1>1, <1>5, ServedSame DEF KeptIfServed, ScanInvariant
<1>7. \A s \in Servers : s < server => (setup[s] # None \/ Served(s) = {} \/ LeftBehind(s))'
  BY <1>1, <1>2, EarlierStay DEF ScanInvariant
<1>8. EarlierServers'
  BY <1>1, <1>5, <1>7, ServedSame DEF EarlierServers
<1> QED BY <1>3, <1>4, <1>6, <1>8 DEF ScanInvariant

LEMMA ShutdownStep == ASSUME ScanInvariant, TypeOK', Shutdown PROVE ScanInvariant'
<1>1. /\ UNCHANGED <<code, failOn, pc, candidates, answers, exit, setup, starts>>
      /\ server' = server + 1 /\ NextServer /\ phase = "shutdown"
      /\ ended' = [ended EXCEPT ![server] = TRUE]
      /\ perChunk' = IF setup[server] = None THEN [perChunk EXCEPT ![server] = PerChunk(server)]
                     ELSE perChunk
  BY DEF Shutdown, NextServer, results, At
<1>2. server \in Servers /\ pc = "serve"
  BY AtServer DEF Shutdown, At, ScanInvariant
<1>3. \A s \in Servers : s # server =>
        /\ setup'[s] = setup[s] /\ perChunk'[s] = perChunk[s]
        /\ ended'[s] = ended[s] /\ starts'[s] = starts[s]
  BY <1>1 DEF ScanInvariant, TypeOK
<1>4. NothingBeforeCandidates' /\ CandidatesKnown' /\ NoErrorAtTheEnd'
  BY <1>1, <1>2 DEF NothingBeforeCandidates, CandidatesKnown, CandidatesOf, NoErrorAtTheEnd, ScanInvariant
<1>5. SessionInStep' /\ QuestionsAnswered'
  BY <1>1, <1>2, NextSession DEF ScanInvariant, TypeOK
<1>6. \A s \in Servers : s < server' <=> s < server \/ s = server
  BY <1>1, <1>2 DEF Servers
<1>7. setup[server] = None => perChunk'[server] = PerChunk(server)
  BY <1>1, <1>2 DEF ScanInvariant, TypeOK
<1>8. KeptIfServed'
  <2> SUFFICES ASSUME NEW s \in Servers, NEW c \in Chunks
               PROVE  /\ perChunk'[s][c] # "notACandidate" => c \in Served(s)
                      /\ perChunk'[s][c] = "asked" => s < server' /\ setup[s] = None
                      /\ c \in Served(s) /\ (s < server' \/ setup[s] # None)
                           => perChunk'[s][c] # "notACandidate"
    BY <1>1, ServedSame DEF KeptIfServed
  <2>1. CASE s # server \/ setup[server] # None
    BY <1>1, <1>3, <1>6, <2>1 DEF KeptIfServed, ScanInvariant
  <2>2. CASE s = server /\ setup[server] = None
    BY <1>6, <1>7, <2>2 DEF PerChunk
  <2> QED BY <2>1, <2>2
<1>9. ASSUME NEW s \in Servers, s = server, setup[s] = None PROVE LeftBehind(s)'
  <2>1. PerChunk(s)' = PerChunk(s) /\ Askable(s)' = Askable(s)
    BY <1>1, ServedSame
  <2>2. \A c \in Askable(s) : c \in Chunks
    BY DEF Askable, Served, AskedChunks, ScanInvariant, TypeOK, Pairs
  <2>3. ended'[s] /\ starts'[s] = 1 /\ perChunk'[s] = PerChunk(s)
    BY <1>1, <1>2, <1>7, <1>9 DEF ScanInvariant, TypeOK, SessionInStep
  <2>4. \A c \in Askable(s) :
          /\ answers[c].types # "unasked" /\ answers[c].callers # "unasked"
          /\ answers[c].callees # "unasked"
          /\ answers[c].callers = "taken" => membership[code.file[c]] = "taken"
    BY <1>1, <1>2, <1>9 DEF ScanInvariant, QuestionsAnswered, Asked
  <2>5. \A c \in Chunks : code.file[c] \in Files
    BY ShapeAssumption DEF ScanInvariant, TypeOK, Codebase
  <2>6. \A c \in Askable(s) : answers[c].callers = "taken" =>
          \E d \in Askable(s) : answers[d].callers = "unreachable"
    BY <1>1, <1>2, <1>9, <2>2, <2>4, <2>5 DEF ScanInvariant, QuestionsAnswered
  <2> QED BY <1>1, <2>1, <2>3, <2>4, <2>6 DEF LeftBehind
<1>10. \A s \in Servers : s < server => (setup[s] # None \/ Served(s) = {} \/ LeftBehind(s))'
  BY <1>1, <1>2, <1>3, EarlierStay DEF ScanInvariant
<1>11. EarlierServers'
  <2> SUFFICES ASSUME NEW s \in Servers, s < server'
               PROVE  (setup[s] # None \/ Served(s) = {} \/ LeftBehind(s))'
    BY DEF EarlierServers
  <2>1. CASE s < server
    BY <1>10, <2>1
  <2>2. CASE s = server
    BY <1>1, <1>9, <2>2
  <2> QED BY <1>6, <2>1, <2>2
<1> QED BY <1>4, <1>5, <1>8, <1>11 DEF ScanInvariant

(* What no step within a session disturbs.                                 *)
LEMMA WithinSession ==
  ASSUME ScanInvariant, pc = "serve", server \in Servers,
         UNCHANGED <<code, failOn, pc, candidates, server, exit, perChunk, setup, ended>>,
         \A s \in Servers : s # server => starts'[s] = starts[s],
         \A c \in Chunks : c \notin Askable(server) => answers'[c] = answers[c]
  PROVE  NothingBeforeCandidates' /\ CandidatesKnown' /\ NoErrorAtTheEnd' /\ KeptIfServed' /\ EarlierServers'
<1>1. NothingBeforeCandidates' /\ CandidatesKnown' /\ NoErrorAtTheEnd'
  BY DEF NothingBeforeCandidates, CandidatesKnown, CandidatesOf, NoErrorAtTheEnd, ScanInvariant
<1>2. KeptIfServed'
  BY ServedSame DEF KeptIfServed, ScanInvariant
<1>3. \A s \in Servers : s < server => (setup[s] # None \/ Served(s) = {} \/ LeftBehind(s))'
  BY EarlierStay DEF ScanInvariant
<1> QED BY <1>1, <1>2, <1>3 DEF EarlierServers

LEMMA StartStep == ASSUME ScanInvariant, TypeOK', Start PROVE ScanInvariant'
<1>1. /\ UNCHANGED <<code, failOn, pc, candidates, server, opened, todo, membership, answers,
                     perChunk, setup, exit, ended>>
      /\ starts' = [starts EXCEPT ![server] = @ + 1] /\ phase = "begin" /\ phase' = "open"
  BY DEF Start, results, At
<1>2. server \in Servers /\ pc = "serve"
  BY AtServer DEF Start, At, ScanInvariant
<1>3. /\ \A s \in Servers : s # server => starts'[s] = starts[s]
      /\ starts'[server] = 1 /\ todo = {} /\ \A f \in Files : membership[f] = "unknown"
  BY <1>1, <1>2 DEF ScanInvariant, TypeOK, SessionInStep
<1>4. SessionInStep'
  BY <1>1, <1>2, <1>3 DEF ScanInvariant, SessionInStep, Servers
<1>5. QuestionsAnswered'
  BY <1>1, <1>3 DEF QuestionsAnswered, Asked
<1> QED BY <1>1, <1>2, <1>3, <1>4, <1>5, WithinSession DEF ScanInvariant

LEMMA OpensStep == ASSUME ScanInvariant, TypeOK', Opens PROVE ScanInvariant'
<1>1. UNCHANGED <<code, failOn, pc, candidates, server, phase, todo, membership, answers,
                  perChunk, setup, exit, ended, starts>>
  BY DEF Opens, results, history
<1>2. server \in Servers /\ pc = "serve"
  BY AtServer DEF Opens, At, ScanInvariant
<1>3. SessionInStep' /\ QuestionsAnswered'
  BY <1>1, ServedSame DEF ScanInvariant, SessionInStep, QuestionsAnswered, Asked
<1> QED BY <1>1, <1>2, <1>3, WithinSession DEF ScanInvariant

LEMMA OpenFailsStep == ASSUME ScanInvariant, TypeOK', OpenFails PROVE ScanInvariant'
<1>1. PICK c \in Chunks : FromFailure(server, <<"open", c>>)
  BY DEF OpenFails
<1>2. <<"open", c>> \in Failures /\ <<"open", c>> # None
  BY DEF Failures, None
<1>3. server \in Servers /\ pc = "serve"
  BY AtServer DEF OpenFails, At, ScanInvariant
<1>4. /\ UNCHANGED <<code, failOn, pc, candidates, server, todo, membership, answers, exit,
                     ended, starts>>
      /\ phase = "open" /\ phase' = "shutdown"
  BY DEF OpenFails, At
<1>5. /\ KeptIfServed' /\ setup'[server] # None
      /\ \A s \in Servers : s # server => setup'[s] = setup[s] /\ perChunk'[s] = perChunk[s]
  BY <1>1, <1>2, <1>3, <1>4, FromFailureKept DEF ScanInvariant
<1>6. NothingBeforeCandidates' /\ CandidatesKnown' /\ NoErrorAtTheEnd'
  BY <1>3, <1>4 DEF NothingBeforeCandidates, CandidatesKnown, CandidatesOf, NoErrorAtTheEnd, ScanInvariant
<1>7. SessionInStep' /\ QuestionsAnswered'
  BY <1>3, <1>4, <1>5, ServedSame DEF ScanInvariant, SessionInStep, QuestionsAnswered
<1>8. \A s \in Servers : s < server => (setup[s] # None \/ Served(s) = {} \/ LeftBehind(s))'
  BY <1>3, <1>4, <1>5, EarlierStay DEF ScanInvariant
<1>9. EarlierServers'
  BY <1>4, <1>8 DEF EarlierServers
<1> QED BY <1>5, <1>6, <1>7, <1>9 DEF ScanInvariant

LEMMA TurnStep ==
  ASSUME ScanInvariant, TypeOK', NEW from, NEW to, Turn(from, to),
         <<from, to>> \in {<<"open", "types">>, <<"types", "callers">>, <<"callers", "callees">>,
                          <<"callees", "shutdown">>}
  PROVE  ScanInvariant'
<1>1. /\ UNCHANGED <<code, failOn, pc, candidates, server, membership, answers, perChunk, setup, exit,
                     starts, ended>>
      /\ phase = from /\ todo = {} /\ phase' = to
      /\ todo' = IF to = "shutdown" THEN {} ELSE Askable(server)
  BY DEF Turn, At, results, history
<1>2. server \in Servers /\ pc = "serve"
  BY AtServer DEF Turn, At, ScanInvariant
<1>3. SessionInStep'
  BY <1>1, <1>2, ServedSame DEF ScanInvariant, SessionInStep
<1>4. QuestionsAnswered'
  BY <1>1, <1>2, ServedSame DEF ScanInvariant, QuestionsAnswered, Asked
<1> QED BY <1>1, <1>2, <1>3, <1>4, WithinSession DEF ScanInvariant

LEMMA AskTypesStep == ASSUME ScanInvariant, TypeOK', AskTypes PROVE ScanInvariant'
<1>1. PICK c \in Chunks, o \in {"answer", "error"} : IsFirst(c, todo) /\ Put("types", c, o)
  BY DEF AskTypes, AskOne
<1>2. /\ UNCHANGED <<code, failOn, pc, candidates, server, phase, membership, perChunk, setup, exit,
                     starts, ended>>
      /\ answers' = [answers EXCEPT ![c]["types"] = o] /\ todo' = todo \ {c} /\ phase = "types"
  BY <1>1 DEF AskTypes, AskOne, Put, At, results
<1>3. server \in Servers /\ pc = "serve"
  BY AtServer DEF AskTypes, AskOne, At, ScanInvariant
<1>4. c \in todo /\ c \in Askable(server)
  BY <1>1, <1>2, <1>3 DEF IsFirst, ScanInvariant, SessionInStep
<1>5. /\ \A d \in Chunks : d # c => answers'[d] = answers[d]
      /\ answers'[c].types = o
      /\ answers'[c].callees = answers[c].callees /\ answers'[c].callers = answers[c].callers
  BY <1>2 DEF ScanInvariant, TypeOK
<1>6. \A d \in Askable(server) : d \in Chunks
  BY DEF Askable, Served, AskedChunks, ScanInvariant, TypeOK, Pairs
<1>7. SessionInStep'
  BY <1>2, ServedSame DEF ScanInvariant, SessionInStep
<1>8. ASSUME setup[server] = None PROVE QuestionsAnswered'
  <2>1. Askable(server)' = Askable(server)
    BY <1>2, ServedSame
  <2>2. \A d \in Askable(server) :
          /\ Asked("types", d)' => answers'[d].types # "unasked"
          /\ Asked("callers", d)' => answers'[d].callers # "unasked"
          /\ Asked("callees", d)' => answers'[d].callees # "unasked"
    BY <1>2, <1>3, <1>5, <1>6, <1>8 DEF ScanInvariant, QuestionsAnswered, Asked
  <2>3. \A d \in Askable(server) : Asked("callers", d)' <=> Asked("callers", d)
    BY <1>2 DEF Asked
  <2>4. \A d \in Askable(server) : answers'[d].callers = answers[d].callers
    BY <1>5, <1>6
  <2>5. \A d \in Askable(server) : Asked("callers", d)' /\ answers'[d].callers = "taken" =>
          membership'[code'.file[d]] = "taken"
    BY <1>2, <1>3, <1>8, <2>3, <2>4 DEF ScanInvariant, QuestionsAnswered
  <2>6. \A f \in Files : membership'[f] = "taken" =>
          \E d \in Askable(server) : Asked("callers", d)' /\ answers'[d].callers = "unreachable"
    BY <1>2, <1>3, <1>8, <2>3, <2>4 DEF ScanInvariant, QuestionsAnswered
  <2> QED BY <2>1, <2>2, <2>5, <2>6 DEF QuestionsAnswered
<1>9. QuestionsAnswered'
  BY <1>2, <1>8 DEF QuestionsAnswered
<1> QED BY <1>2, <1>3, <1>4, <1>5, <1>7, <1>9, WithinSession DEF ScanInvariant

LEMMA AskCalleesStep == ASSUME ScanInvariant, TypeOK', AskCallees PROVE ScanInvariant'
<1>1. PICK c \in Chunks, o \in {"answer", "error"} : IsFirst(c, todo) /\ Put("callees", c, o)
  BY DEF AskCallees, AskOne
<1>2. /\ UNCHANGED <<code, failOn, pc, candidates, server, phase, membership, perChunk, setup, exit,
                     starts, ended>>
      /\ answers' = [answers EXCEPT ![c]["callees"] = o] /\ todo' = todo \ {c} /\ phase = "callees"
  BY <1>1 DEF AskCallees, AskOne, Put, At, results
<1>3. server \in Servers /\ pc = "serve"
  BY AtServer DEF AskCallees, AskOne, At, ScanInvariant
<1>4. c \in todo /\ c \in Askable(server)
  BY <1>1, <1>2, <1>3 DEF IsFirst, ScanInvariant, SessionInStep
<1>5. /\ \A d \in Chunks : d # c => answers'[d] = answers[d]
      /\ answers'[c].callees = o
      /\ answers'[c].types = answers[c].types /\ answers'[c].callers = answers[c].callers
  BY <1>2 DEF ScanInvariant, TypeOK
<1>6. \A d \in Askable(server) : d \in Chunks
  BY DEF Askable, Served, AskedChunks, ScanInvariant, TypeOK, Pairs
<1>7. SessionInStep'
  BY <1>2, ServedSame DEF ScanInvariant, SessionInStep
<1>8. ASSUME setup[server] = None PROVE QuestionsAnswered'
  <2>1. Askable(server)' = Askable(server)
    BY <1>2, ServedSame
  <2>2. \A d \in Askable(server) :
          /\ Asked("types", d)' => answers'[d].types # "unasked"
          /\ Asked("callers", d)' => answers'[d].callers # "unasked"
          /\ Asked("callees", d)' => answers'[d].callees # "unasked"
    BY <1>2, <1>3, <1>5, <1>6, <1>8 DEF ScanInvariant, QuestionsAnswered, Asked
  <2>3. \A d \in Askable(server) : Asked("callers", d)' <=> Asked("callers", d)
    BY <1>2 DEF Asked
  <2>4. \A d \in Askable(server) : answers'[d].callers = answers[d].callers
    BY <1>5, <1>6
  <2>5. \A d \in Askable(server) : Asked("callers", d)' /\ answers'[d].callers = "taken" =>
          membership'[code'.file[d]] = "taken"
    BY <1>2, <1>3, <1>8, <2>3, <2>4 DEF ScanInvariant, QuestionsAnswered
  <2>6. \A f \in Files : membership'[f] = "taken" =>
          \E d \in Askable(server) : Asked("callers", d)' /\ answers'[d].callers = "unreachable"
    BY <1>2, <1>3, <1>8, <2>3, <2>4 DEF ScanInvariant, QuestionsAnswered
  <2> QED BY <2>1, <2>2, <2>5, <2>6 DEF QuestionsAnswered
<1>9. QuestionsAnswered'
  BY <1>2, <1>8 DEF QuestionsAnswered
<1> QED BY <1>2, <1>3, <1>4, <1>5, <1>7, <1>9, WithinSession DEF ScanInvariant

LEMMA AskCallersStep == ASSUME ScanInvariant, TypeOK', AskCallers PROVE ScanInvariant'
<1>1. PICK c \in Chunks : IsFirst(c, todo) /\ \E m \in Remembered(code.file[c]) : AskedAbout(c, m)
  BY DEF AskCallers, AskedAbout
<1>2. PICK m \in Remembered(code.file[c]) : AskedAbout(c, m)
  BY <1>1
<1>3. \A d \in Chunks : code.file[d] \in Files
  BY ShapeAssumption DEF ScanInvariant, TypeOK, Codebase
<1>4. /\ m[1] \in {"askable", "withheld", "unreachable", "taken"}
      /\ membership[code.file[c]] = "taken" => m[1] = "taken"
      /\ m[1] = "taken" => membership[code.file[c]] = "taken"
  BY <1>3 DEF Remembered, Memberships, ScanInvariant, TypeOK
<1>5. PICK o \in {"answer", "error", "withheld", "unreachable", "taken"} :
        /\ Put("callers", c, o)
        /\ m[1] = "askable" => o \in {"answer", "error"}
        /\ m[1] # "askable" => o = m[1]
  BY <1>2, <1>4 DEF AskedAbout
<1>6. /\ UNCHANGED <<code, failOn, pc, candidates, server, phase, perChunk, setup, exit, starts, ended>>
      /\ todo' = todo \ {c} /\ phase = "callers"
  BY <1>5 DEF AskCallers, Put, At, results
<1>7. server \in Servers /\ pc = "serve"
  BY AtServer DEF AskCallers, At, ScanInvariant
<1>8. c \in todo /\ c \in Askable(server)
  BY <1>1, <1>7 DEF IsFirst, ScanInvariant, SessionInStep
<1>9. /\ \A d \in Chunks : d # c => answers'[d] = answers[d]
      /\ answers'[c].callers = o
      /\ answers'[c].types = answers[c].types /\ answers'[c].callees = answers[c].callees
  BY <1>5 DEF Put, ScanInvariant, TypeOK
<1>10. \A d \in Askable(server) : d \in Chunks
  BY DEF Askable, Served, AskedChunks, ScanInvariant, TypeOK, Pairs
<1>11. /\ membership'[code.file[c]] = IF m[1] = "unreachable" THEN "taken" ELSE m[1]
       /\ \A f \in Files : f # code.file[c] => membership'[f] = membership[f]
  BY <1>2, <1>3 DEF AskedAbout, ScanInvariant, TypeOK
<1>12. SessionInStep'
  BY <1>6, ServedSame DEF ScanInvariant, SessionInStep
<1>13. ASSUME setup[server] = None PROVE QuestionsAnswered'
  <2>1. Askable(server)' = Askable(server)
    BY <1>6, ServedSame
  <2>2. \A d \in Askable(server) : /\ Asked("types", d)' /\ ~Asked("callees", d)'
                                   /\ Asked("types", d)
                                   /\ Asked("callers", d)' <=> d = c \/ Asked("callers", d)
    BY <1>6, <1>8 DEF Asked
  <2>3. ~Asked("callers", c)
    BY <1>6, <1>8 DEF Asked
  <2>4. \A d \in Askable(server) :
          /\ Asked("types", d)' => answers'[d].types # "unasked"
          /\ Asked("callers", d)' => answers'[d].callers # "unasked"
          /\ Asked("callees", d)' => answers'[d].callees # "unasked"
    BY <1>6, <1>7, <1>9, <1>10, <1>13, <2>2 DEF ScanInvariant, QuestionsAnswered
  <2>5. \A d \in Askable(server) : Asked("callers", d)' /\ answers'[d].callers = "taken" =>
          membership'[code'.file[d]] = "taken"
    <3> SUFFICES ASSUME NEW d \in Askable(server), Asked("callers", d)', answers'[d].callers = "taken"
                 PROVE  membership'[code.file[d]] = "taken"
      BY <1>6
    <3>1. CASE d = c
      BY <1>5, <1>9, <1>11, <3>1
    <3>2. CASE d # c
      <4>1. membership[code.file[d]] = "taken"
        BY <1>6, <1>7, <1>9, <1>10, <1>13, <2>2, <3>2 DEF ScanInvariant, QuestionsAnswered
      <4> QED BY <1>3, <1>4, <1>10, <1>11, <4>1
    <3> QED BY <3>1, <3>2
  <2>6. \A f \in Files : membership'[f] = "taken" =>
          \E d \in Askable(server) : Asked("callers", d)' /\ answers'[d].callers = "unreachable"
    <3> SUFFICES ASSUME NEW f \in Files, membership'[f] = "taken"
                 PROVE  \E d \in Askable(server) : Asked("callers", d)' /\ answers'[d].callers = "unreachable"
      OBVIOUS
    <3>1. CASE membership[f] = "taken"
      <4>1. PICK d \in Askable(server) : Asked("callers", d) /\ answers[d].callers = "unreachable"
        BY <1>6, <1>7, <1>13, <3>1 DEF ScanInvariant, QuestionsAnswered
      <4> QED BY <1>9, <1>10, <2>2, <2>3, <4>1
    <3>2. CASE membership[f] # "taken"
      <4>1. f = code.file[c] /\ m[1] = "unreachable"
        BY <1>4, <1>11, <3>2
      <4> QED BY <1>5, <1>8, <1>9, <2>2, <4>1
    <3> QED BY <3>1, <3>2
  <2> QED BY <2>1, <2>4, <2>5, <2>6 DEF QuestionsAnswered
<1>14. QuestionsAnswered'
  BY <1>6, <1>13 DEF QuestionsAnswered
<1> QED BY <1>6, <1>7, <1>8, <1>9, <1>12, <1>14, WithinSession DEF ScanInvariant

(* No error is found exactly when none is known.                           *)
LEMMA IntoErrorNone ==
  ASSUME NEW s PROVE IntoError(s) = None => NoError(s)
  BY DEF IntoError, NoError, None

LEMMA ReportStep == ASSUME ScanInvariant, TypeOK', Report PROVE ScanInvariant'
<1>1. /\ UNCHANGED <<code, failOn, candidates, server, phase, todo, membership, answers,
                     perChunk, setup, starts, ended>>
      /\ pc = "serve" /\ pc' = "done" /\ server > NumServers
  BY DEF Report, conversation, results, history
<1>2. NothingBeforeCandidates' /\ CandidatesKnown'
  BY <1>1 DEF ScanInvariant, NothingBeforeCandidates, CandidatesKnown, CandidatesOf
<1>3. NoErrorAtTheEnd'
  <2> SUFFICES ASSUME failOn, exit' \in {0, 1}, NEW s \in Servers PROVE NoError(s)'
    BY <1>1 DEF NoErrorAtTheEnd
  <2>1. IntoError(s) = None
    BY DEF Report, ExitCode
  <2>2. NoError(s)
    BY <2>1, IntoErrorNone
  <2> QED BY <1>1, <2>2 DEF NoError, FailedChunks
<1>4. KeptIfServed' /\ SessionInStep' /\ QuestionsAnswered' /\ EarlierServers'
  BY <1>1, ServedSame DEF ScanInvariant, KeptIfServed, SessionInStep, QuestionsAnswered, EarlierServers,
                    Asked, LeftBehind
<1> QED BY <1>2, <1>3, <1>4 DEF ScanInvariant

LEMMA StutterStep == ASSUME ScanInvariant, TypeOK', UNCHANGED vars PROVE ScanInvariant'
<1>1. UNCHANGED <<code, failOn, pc, candidates, server, phase, todo, membership, answers,
                  perChunk, setup, exit, starts, ended>>
  BY DEF vars, conversation, results, history
<1>2. NothingBeforeCandidates' /\ CandidatesKnown' /\ NoErrorAtTheEnd'
  BY <1>1 DEF ScanInvariant, NothingBeforeCandidates, CandidatesKnown, CandidatesOf, NoErrorAtTheEnd,
              NoError, FailedChunks
<1>3. KeptIfServed' /\ SessionInStep' /\ QuestionsAnswered' /\ EarlierServers'
  BY <1>1, ServedSame DEF ScanInvariant, KeptIfServed, SessionInStep, QuestionsAnswered, EarlierServers,
                    Asked, LeftBehind
<1> QED BY <1>2, <1>3 DEF ScanInvariant

(* What each server keeps, how far the conversation with the current one   *)
(* has come, and what is known at the end stay in step, whatever happens.  *)
THEOREM ScanInvariantHolds == Spec => []ScanInvariant
<1>1. Init => ScanInvariant
  BY InvInit
<1>2. ASSUME ScanInvariant, [Next]_vars PROVE ScanInvariant'
  <2>1. TypeOK'
    BY <1>2, TypeStep DEF ScanInvariant
  <2>2. CASE AllOpened \/ Turn("types", "callers") \/ Turn("callers", "callees") \/ Turn("callees", "shutdown")
    BY <1>2, <2>1, <2>2, TurnStep DEF AllOpened
  <2>3. CASE SetupFails \/ StartFails \/ ShutdownFails \/ NothingToAsk \/ Shutdown
    BY <1>2, <2>1, <2>3, SetupFailsStep, StartFailsStep, ShutdownFailsStep, NothingToAskStep, ShutdownStep
  <2>4. CASE Start \/ Opens \/ OpenFails \/ AskTypes \/ AskCallers \/ AskCallees
    BY <1>2, <2>1, <2>4, StartStep, OpensStep, OpenFailsStep, AskTypesStep, AskCallersStep, AskCalleesStep
  <2>5. CASE CannotScan \/ Compare \/ Report \/ UNCHANGED vars
    BY <1>2, <2>1, <2>5, CannotScanStep, CompareStep, ReportStep, StutterStep
  <2> QED BY <1>2, <2>2, <2>3, <2>4, <2>5 DEF Next
<1>3. ScanInvariant /\ [Next]_vars => ScanInvariant'
  BY <1>2
<1> QED BY <1>1, <1>3, PTL DEF Spec

-----------------------------------------------------------------------------
(* What follows from the invariant.                                        *)

LEMMA InvariantFailsClosed == ASSUME ScanInvariant PROVE FailsClosed
<1> SUFFICES ASSUME pc = "done", failOn, exit \in {0, 1},
                    NEW c \in AskedChunks, NEW s \in Servers, IsServer(s, Grammar(code, c))
             PROVE  IF c \in code.named
                    THEN /\ perChunk[s][c] = "asked" /\ ended[s]
                         /\ answers[c].types = "answer" /\ answers[c].callees = "answer"
                         /\ answers[c].callers \in {"answer", "withheld"}
                    ELSE perChunk[s][c] = "noName"
  BY DEF FailsClosed
<1>1. server > NumServers /\ \A t \in Servers : NoError(t)
  BY DEF ScanInvariant, NoErrorAtTheEnd
<1>2. s < server
  BY <1>1, ShapeAssumption DEF Servers, ScanInvariant, TypeOK
<1>3. c \in Served(s) /\ c \in Chunks
  BY DEF Served, AskedChunks, ScanInvariant, TypeOK, Pairs
<1>4. LeftBehind(s)
  BY <1>1, <1>2, <1>3 DEF ScanInvariant, EarlierServers, NoError
<1>5. /\ ended[s]
      /\ \A d \in Chunks : perChunk[s][d] = IF d \notin Served(s) THEN "notACandidate"
                                            ELSE IF d \in code.named THEN "asked" ELSE "noName"
  BY <1>4 DEF LeftBehind, PerChunk
<1>6. CASE c \notin code.named
  BY <1>3, <1>5, <1>6
<1>7. CASE c \in code.named
  <2>1. c \in Askable(s) /\ perChunk[s][c] = "asked"
    BY <1>3, <1>5, <1>7 DEF Askable
  <2>2. \A d \in Chunks : perChunk[s][d] = "asked" =>
          /\ answers[d].types # "error" /\ answers[d].callees # "error"
          /\ answers[d].callers \notin {"error", "unreachable"}
    BY <1>1 DEF NoError, FailedChunks
  <2>3. \A d \in Askable(s) : d \in Chunks /\ perChunk[s][d] = "asked"
    BY <1>5 DEF Askable, Served, AskedChunks, ScanInvariant, TypeOK, Pairs
  <2>4. answers[c].callers # "taken"
    BY <1>4, <2>1, <2>2, <2>3 DEF LeftBehind
  <2>5. /\ answers[c].types # "unasked" /\ answers[c].callers # "unasked"
        /\ answers[c].callees # "unasked"
    BY <1>4, <2>1 DEF LeftBehind
  <2>6. /\ answers[c].types \in Outcomes /\ answers[c].callees \in Outcomes
        /\ answers[c].callers \in Outcomes \union {"withheld", "unreachable", "taken"}
    BY <1>3 DEF ScanInvariant, TypeOK
  <2> QED BY <1>3, <1>5, <1>7, <2>1, <2>2, <2>4, <2>5, <2>6 DEF Outcomes
<1> QED BY <1>6, <1>7

(* exit_code_of never calls a check clean, or a verdict found, unless every *)
(* chunk of a candidate pair was really asked about: whatever fails, in     *)
(* whatever order, of however many servers.                                 *)
THEOREM ChecksFailClosed == Spec => []FailsClosed
<1>1. ScanInvariant => FailsClosed
  BY InvariantFailsClosed
<1> QED BY <1>1, ScanInvariantHolds, PTL

LEMMA InvariantCleanEnd == ASSUME ScanInvariant PROVE AnswersNeedCleanEnd
<1> SUFFICES ASSUME NEW s \in Servers, NEW c \in Chunks, perChunk[s][c] = "asked"
             PROVE  /\ ended[s] /\ starts[s] = 1
                    /\ "unasked" \notin {answers[c].types, answers[c].callers, answers[c].callees}
  BY DEF AnswersNeedCleanEnd
<1>1. s < server /\ setup[s] = None /\ c \in Served(s)
  BY DEF ScanInvariant, KeptIfServed
<1>2. LeftBehind(s)
  BY <1>1 DEF ScanInvariant, EarlierServers
<1>3. c \in Askable(s)
  BY <1>1, <1>2 DEF LeftBehind, PerChunk, Askable
<1> QED BY <1>2, <1>3 DEF LeftBehind

(* scan_semantics_of keeps no answer of a session that did not end         *)
(* normally, and none to a question that was not asked.                    *)
THEOREM AnswersAreOfCleanSessions == Spec => []AnswersNeedCleanEnd
<1>1. ScanInvariant => AnswersNeedCleanEnd
  BY InvariantCleanEnd
<1> QED BY <1>1, ScanInvariantHolds, PTL

LEMMA InvariantReadWhereAsked == ASSUME ScanInvariant PROVE ReadWhereAsked
<1> SUFFICES ASSUME NEW p \in candidates, NEW s \in Servers, IsOver(s), IsServer(s, Grammar(code, p[1]))
             PROVE  "notACandidate" \notin {perChunk[s][p[1]], perChunk[s][p[2]]}
  BY DEF ReadWhereAsked
<1>1. s < server
  BY ShapeAssumption DEF IsOver, ScanInvariant, TypeOK, Servers
<1>2. p[1] \in Chunks /\ p[2] \in Chunks /\ p[1] \in AskedChunks /\ p[2] \in AskedChunks
  BY DEF ScanInvariant, TypeOK, Pairs, AskedChunks
<1>3. Language[Grammar(code, p[1])] = Language[Grammar(code, p[2])]
  BY DEF ScanInvariant, CandidatesKnown, CandidatesOf, IsCompared
<1>4. Grammar(code, p[1]) \in Grammars /\ Grammar(code, p[2]) \in Grammars
  BY <1>2, ShapeAssumption DEF ScanInvariant, TypeOK, Codebase, Grammar
<1>5. IsServer(s, Grammar(code, p[2]))
  BY <1>3, <1>4, LanguagesAssumption DEF IsServer
<1>6. p[1] \in Served(s) /\ p[2] \in Served(s)
  BY <1>2, <1>5 DEF Served
<1> QED BY <1>1, <1>2, <1>6 DEF ScanInvariant, KeptIfServed

(* Looking a server up by the grammar of one chunk of a pair finds what    *)
(* was kept for the other one as well (ServedSemantics::for_grammar).      *)
THEOREM VerdictsReadWhatWasAsked == Spec => []ReadWhereAsked
<1>1. ScanInvariant => ReadWhereAsked
  BY InvariantReadWhereAsked
<1> QED BY <1>1, ScanInvariantHolds, PTL

(* However the languages of the servers overlap, each chunk has the        *)
(* results of one of them at most.                                         *)
THEOREM ChunksHaveOneServer == Spec => []OneServerPerChunk
<1>1. ScanInvariant => OneServerPerChunk
  BY ServedOnce DEF ScanInvariant, KeptIfServed, OneServerPerChunk
<1> QED BY <1>1, ScanInvariantHolds, PTL
-----------------------------------------------------------------------------
(* The candidates, the memberships and the first failure.                  *)

LEMMA FirstUnique ==
  ASSUME NEW S \in SUBSET Chunks, NEW c, IsFirst(c, S) PROVE FirstOf(S) = c
<1>1. \A d : IsFirst(d, S) => d = c
  BY DEF IsFirst, Chunks
<1> QED BY <1>1 DEF FirstOf

LEMMA AskableChunks == ASSUME TypeOK PROVE \A s : Askable(s) \subseteq Chunks
  BY DEF Askable, Served, AskedChunks, TypeOK, Pairs

(* Looking in the same failures finds the same.                            *)
LEMMA FoundStays ==
  ASSUME NEW said, NEW said1, NEW types, NEW callers, NEW callees, NEW cause,
         FoundFirst(said, types, callers, callees, cause),
         \A c \in callers : said1[c] = said[c]
  PROVE  FoundFirst(said1, types, callers, callees, cause)
  BY DEF FoundFirst

(* What is reported of the servers that are over stays, as long as only    *)
(* chunks of the current one are asked about.                              *)
LEMMA ReportsStay ==
  ASSUME FailureInvariant, server \in Servers, UNCHANGED <<code, candidates>>,
         \A s \in Servers : s # server =>
           setup'[s] = setup[s] /\ perChunk'[s] = perChunk[s] /\ first'[s] = first[s],
         \A c \in Chunks : c \notin Askable(server) => answers'[c] = answers[c]
  PROVE  \A s \in Servers : s < server => FirstIsReported(s)'
<1> SUFFICES ASSUME NEW s \in Servers, s < server PROVE FirstIsReported(s)'
  OBVIOUS
<1>1. s # server /\ FirstIsReported(s)
  BY DEF FailureInvariant, Servers
<1>2. CASE setup[s] # None
  BY <1>1, <1>2 DEF FirstIsReported
<1>3. CASE setup[s] = None
  <2>1. \A c \in Chunks : perChunk[s][c] = "asked" => answers'[c] = answers[c]
    BY <1>1, ServedOnce DEF FailureInvariant, ScanInvariant, KeptIfServed, Askable
  <2>2. /\ FailedChunks(s, "types", {"error"})' = FailedChunks(s, "types", {"error"})
        /\ FailedChunks(s, "callers", {"error", "unreachable"})'
             = FailedChunks(s, "callers", {"error", "unreachable"})
        /\ FailedChunks(s, "callees", {"error"})' = FailedChunks(s, "callees", {"error"})
    BY <1>1, <2>1 DEF FailedChunks
  <2>3. \A c \in FailedChunks(s, "callers", {"error", "unreachable"}) : answers'[c] = answers[c]
    BY <2>1 DEF FailedChunks
  <2>4. FoundFirst(answers, FailedChunks(s, "types", {"error"}),
                   FailedChunks(s, "callers", {"error", "unreachable"}),
                   FailedChunks(s, "callees", {"error"}), first[s])
    BY <1>1, <1>3 DEF FirstIsReported
  <2>5. first'[s] = first[s] /\ setup'[s] = None
    BY <1>1, <1>3
  <2>6. FoundFirst(answers', FailedChunks(s, "types", {"error"}),
                   FailedChunks(s, "callers", {"error", "unreachable"}),
                   FailedChunks(s, "callees", {"error"}), first[s])
    BY <2>3, <2>4, FoundStays
  <2> QED BY <2>2, <2>5, <2>6 DEF FirstIsReported
<1> QED BY <1>2, <1>3

(* What was asked about memberships stays known.                           *)
LEMMA QueriesStay ==
  ASSUME TypeOK, QueriesInStep, UNCHANGED <<code, candidates, queries>>,
         \/ UNCHANGED <<server, membership>>
         \/ server \in Servers /\ server' = server + 1
  PROVE  QueriesInStep'
<1> SUFFICES ASSUME NEW f \in Files, queries[f] = 1
             PROVE  \E s \in Servers : \E c \in Askable(s) :
                      /\ code.file[c] = f
                      /\ s < server' \/ (s = server' /\ membership'[f] # "unknown")
  BY ServedSame DEF QueriesInStep
<1>1. PICK s \in Servers :
        /\ \E c \in Askable(s) : code.file[c] = f
        /\ s < server \/ (s = server /\ membership[f] # "unknown")
  BY DEF QueriesInStep
<1>2. s < server' \/ (s = server' /\ membership'[f] # "unknown")
  BY <1>1 DEF Servers
<1> QED BY <1>1, <1>2

(* A question that had its turn before, and only then, fails as before.    *)
LEMMA FailedSame ==
  ASSUME UNCHANGED <<code, candidates, server>>, NEW signal, NEW how,
         \A c \in Askable(server) :
           /\ Asked(signal, c)' <=> Asked(signal, c)
           /\ answers'[c][signal] = answers[c][signal]
  PROVE  FailedSoFar(signal, how)' = FailedSoFar(signal, how)
<1>1. Askable(server)' = Askable(server)
  BY ServedSame
<1> QED BY <1>1 DEF FailedSoFar

LEMMA FirstSame ==
  ASSUME UNCHANGED <<code, candidates, server, answers>>, first'[server] = first[server], FirstSoFar,
         \A c \in Askable(server) : /\ Asked("types", c)' <=> Asked("types", c)
                                    /\ Asked("callers", c)' <=> Asked("callers", c)
                                    /\ Asked("callees", c)' <=> Asked("callees", c)
  PROVE  FirstSoFar'
<1>1. /\ FailedSoFar("types", {"error"})' = FailedSoFar("types", {"error"})
      /\ FailedSoFar("callers", {"error", "unreachable"})' = FailedSoFar("callers", {"error", "unreachable"})
      /\ FailedSoFar("callees", {"error"})' = FailedSoFar("callees", {"error"})
  BY FailedSame
<1> QED BY <1>1 DEF FirstSoFar

(* A server is over: what is reported of it is its first failure.          *)
LEMMA ServerOver ==
  ASSUME FailureInvariant, ScanInvariant', server \in Servers, pc = "serve", NextServer,
         queries' = queries,
         \A s \in Servers : s # server =>
           setup'[s] = setup[s] /\ perChunk'[s] = perChunk[s] /\ first'[s] = first[s],
         \A s \in Servers : s = server => FirstIsReported(s)'
  PROVE  FailureInvariant'
<1>1. /\ UNCHANGED <<code, candidates, pc, answers>>
      /\ server' = server + 1 /\ phase' = "begin" /\ todo' = {}
  BY DEF NextServer
<1>2. TodoInOrder' /\ QueriesInStep'
  BY <1>1, QueriesStay DEF FailureInvariant, ScanInvariant, TodoInOrder
<1>3. \A s \in Servers : s > server' \/ s = server' => s > server /\ s # server
  BY <1>1 DEF Servers
<1>4. FirstInStep'
  BY <1>1, <1>3 DEF FailureInvariant, FirstInStep
<1>5. \A s \in Servers : s < server' => s < server \/ s = server
  BY <1>1 DEF Servers
<1>6. \A s \in Servers : s < server' => FirstIsReported(s)'
  BY <1>1, <1>5, ReportsStay
<1> QED BY <1>2, <1>4, <1>6 DEF FailureInvariant

(* The conversation with a server goes on.                                 *)
LEMMA SessionGoesOn ==
  ASSUME FailureInvariant, ScanInvariant', server \in Servers, phase' # "begin",
         UNCHANGED <<code, candidates, pc, server>>,
         \A s \in Servers : s # server =>
           setup'[s] = setup[s] /\ perChunk'[s] = perChunk[s] /\ first'[s] = first[s],
         \A c \in Chunks : c \notin Askable(server) => answers'[c] = answers[c],
         QueriesInStep', TodoInOrder', phase' = "open" => setup'[server] = None,
         IF setup'[server] = None THEN FirstSoFar' ELSE first'[server] = setup'[server]
  PROVE  FailureInvariant'
<1>1. \A s \in Servers : s > server => s # server
  BY DEF Servers
<1>2. FirstInStep'
  BY <1>1 DEF FailureInvariant, FirstInStep
<1>3. \A s \in Servers : s < server => FirstIsReported(s)'
  BY ReportsStay
<1> QED BY <1>2, <1>3 DEF FailureInvariant

LEMMA FirstInit == Init => FailureInvariant
<1> SUFFICES ASSUME Init PROVE FailureInvariant
  OBVIOUS
<1>1. ScanInvariant
  BY InvInit
<1>2. QueriesInStep /\ TodoInOrder
  BY DEF Init, QueriesInStep, TodoInOrder
<1>3. FirstInStep
  BY DEF Init, FirstInStep
<1>4. \A s \in Servers : ~(s < server)
  BY DEF Init, Servers
<1> QED BY <1>1, <1>2, <1>3, <1>4 DEF FailureInvariant

(* The steps around the conversations.                                     *)
LEMMA CannotScanFirst ==
  ASSUME FailureInvariant, ScanInvariant', CannotScan \/ Report \/ UNCHANGED vars
  PROVE  FailureInvariant'
<1>1. /\ UNCHANGED <<code, candidates, server, phase, todo, membership, answers, perChunk, setup,
                     queries, first>>
      /\ pc' = "serve" => pc = "serve"
  BY DEF CannotScan, Report, vars, conversation, results, history
<1>2. QueriesInStep' /\ TodoInOrder'
  BY <1>1, ServedSame DEF FailureInvariant, QueriesInStep, TodoInOrder
<1>3. FirstInStep'
  BY <1>1, FirstSame DEF FailureInvariant, FirstInStep, Asked
<1>4. \A s \in Servers : s < server' => FirstIsReported(s)'
  BY <1>1 DEF FailureInvariant, FirstIsReported, FailedChunks
<1> QED BY <1>2, <1>3, <1>4 DEF FailureInvariant

LEMMA CompareFirst ==
  ASSUME FailureInvariant, ScanInvariant', Compare PROVE FailureInvariant'
<1>1. /\ UNCHANGED <<code, server, phase, todo, membership, setup, queries, first>>
      /\ server = 1 /\ phase = "begin" /\ todo = {}
      /\ \A f \in Files : membership[f] = "unknown"
  BY DEF Compare, conversation, results, history, FailureInvariant, ScanInvariant,
         NothingBeforeCandidates, SessionInStep
<1>2. \A s \in Servers : ~(s < server)
  BY <1>1 DEF Servers
<1>3. \A f \in Files : queries[f] = 0
  BY <1>1, <1>2 DEF FailureInvariant, QueriesInStep
<1>4. QueriesInStep' /\ TodoInOrder'
  BY <1>1, <1>3 DEF QueriesInStep, TodoInOrder
<1>5. FirstInStep'
  BY <1>1 DEF FailureInvariant, FirstInStep
<1> QED BY <1>1, <1>2, <1>4, <1>5 DEF FailureInvariant

LEMMA NothingToAskFirst ==
  ASSUME FailureInvariant, ScanInvariant', NothingToAsk PROVE FailureInvariant'
<1>1. server \in Servers /\ pc = "serve" /\ phase = "begin"
  BY AtServer DEF NothingToAsk, At, FailureInvariant, ScanInvariant
<1>2. UNCHANGED <<perChunk, setup, queries, first>> /\ NextServer
  BY DEF NothingToAsk, results, history
<1>3. first[server] = None /\ setup[server] = None
  BY <1>1 DEF FailureInvariant, FirstInStep
<1>4. \A c \in Chunks : perChunk[server][c] # "asked"
  BY <1>1 DEF FailureInvariant, ScanInvariant, KeptIfServed, Servers
<1>5. \A s \in Servers : s = server => FirstIsReported(s)'
  BY <1>2, <1>3, <1>4 DEF FirstIsReported, FoundFirst, FailedChunks
<1> QED BY <1>1, <1>2, <1>5, ServerOver

(* The failures that end the conversation with a server.                   *)
LEMMA GiveUpFirst ==
  ASSUME FailureInvariant, ScanInvariant', pc = "serve", server \in Servers, NEW cause \in Failures,
         cause # None, FromFailure(server, cause), Failed(server, cause), NextServer,
         queries' = queries, first[server] = None \/ cause = <<"shutdown", 0>>
  PROVE  FailureInvariant'
<1>1. /\ setup'[server] = cause
      /\ first[server] = None => first'[server] = cause
      /\ \A s \in Servers : s # server =>
           setup'[s] = setup[s] /\ perChunk'[s] = perChunk[s] /\ first'[s] = first[s]
  BY DEF FromFailure, Failed, FailureInvariant, ScanInvariant, TypeOK
<1>2. \A s \in Servers : s = server => FirstIsReported(s)'
  BY <1>1 DEF FirstIsReported
<1> QED BY <1>1, <1>2, ServerOver

LEMMA FailsFirst ==
  ASSUME FailureInvariant, ScanInvariant', SetupFails \/ StartFails \/ ShutdownFails
  PROVE  FailureInvariant'
<1>1. server \in Servers /\ pc = "serve" /\ queries' = queries /\ NextServer
  BY AtServer DEF SetupFails, StartFails, ShutdownFails, At, FailureInvariant, ScanInvariant
<1>2. CASE SetupFails \/ StartFails
  <2>1. PICK kind \in {"document", "workspace", "start", "handshake"} :
          FromFailure(server, <<kind, 0>>) /\ Failed(server, <<kind, 0>>)
    BY <1>2 DEF SetupFails, StartFails
  <2>2. <<kind, 0>> \in Failures /\ <<kind, 0>> # None
    BY DEF Failures, None
  <2>3. first[server] = None
    BY <1>1, <1>2 DEF SetupFails, StartFails, At, FailureInvariant, FirstInStep
  <2> QED BY <1>1, <2>1, <2>2, <2>3, GiveUpFirst
<1>3. CASE ShutdownFails
  <2>1. <<"shutdown", 0>> \in Failures /\ <<"shutdown", 0>> # None
    BY DEF Failures, None
  <2> QED BY <1>1, <1>3, <2>1, GiveUpFirst DEF ShutdownFails
<1> QED BY <1>2, <1>3

(* The steps of a conversation.                                            *)
LEMMA StartFirst ==
  ASSUME FailureInvariant, ScanInvariant', Start PROVE FailureInvariant'
<1>1. /\ UNCHANGED <<code, candidates, pc, server, todo, membership, answers, perChunk, setup,
                     queries, first>>
      /\ phase = "begin" /\ phase' = "open"
  BY DEF Start, At, results
<1>2. server \in Servers
  BY AtServer DEF Start, FailureInvariant, ScanInvariant
<1>3. first[server] = None /\ setup[server] = None
  BY <1>1, <1>2 DEF FailureInvariant, FirstInStep
<1>4. FirstSoFar'
  BY <1>1, <1>3 DEF FirstSoFar, FoundFirst, FailedSoFar, Asked
<1>5. QueriesInStep' /\ TodoInOrder'
  BY <1>1, QueriesStay, ServedSame DEF FailureInvariant, ScanInvariant, TodoInOrder
<1> QED BY <1>1, <1>2, <1>3, <1>4, <1>5, SessionGoesOn

LEMMA OpensFirst ==
  ASSUME FailureInvariant, ScanInvariant', Opens PROVE FailureInvariant'
<1>1. /\ UNCHANGED <<code, candidates, pc, server, phase, todo, membership, answers, perChunk, setup,
                     queries, first>>
      /\ phase = "open"
  BY DEF Opens, At, results, history
<1>2. server \in Servers
  BY AtServer DEF Opens, FailureInvariant, ScanInvariant
<1>3. setup[server] = None /\ FirstSoFar
  BY <1>1, <1>2 DEF FailureInvariant, FirstInStep
<1>4. FirstSoFar'
  BY <1>1, <1>3, FirstSame DEF Asked
<1>5. QueriesInStep' /\ TodoInOrder'
  BY <1>1, QueriesStay, ServedSame DEF FailureInvariant, ScanInvariant, TodoInOrder
<1> QED BY <1>1, <1>2, <1>3, <1>4, <1>5, SessionGoesOn

LEMMA OpenFailsFirst ==
  ASSUME FailureInvariant, ScanInvariant', OpenFails PROVE FailureInvariant'
<1>1. /\ UNCHANGED <<code, candidates, pc, server, todo, membership, answers, queries>>
      /\ phase = "open" /\ phase' = "shutdown"
  BY DEF OpenFails, At
<1>2. server \in Servers
  BY AtServer DEF OpenFails, FailureInvariant, ScanInvariant
<1>3. PICK c \in Chunks : FromFailure(server, <<"open", c>>) /\ Failed(server, <<"open", c>>)
  BY DEF OpenFails
<1>4. setup[server] = None /\ first[server] = None
  BY <1>1, <1>2 DEF FailureInvariant, FirstInStep, FirstSoFar, FoundFirst, FailedSoFar, Asked
<1>5. /\ setup'[server] = <<"open", c>> /\ first'[server] = <<"open", c>>
      /\ \A s \in Servers : s # server =>
           setup'[s] = setup[s] /\ perChunk'[s] = perChunk[s] /\ first'[s] = first[s]
  BY <1>2, <1>3, <1>4 DEF FromFailure, Failed, FailureInvariant, ScanInvariant, TypeOK
<1>6. QueriesInStep' /\ TodoInOrder'
  BY <1>1, QueriesStay, ServedSame DEF FailureInvariant, ScanInvariant, TodoInOrder
<1> QED BY <1>1, <1>2, <1>5, <1>6, SessionGoesOn DEF None

LEMMA TurnFirst ==
  ASSUME FailureInvariant, ScanInvariant', NEW from, NEW to, Turn(from, to),
         <<from, to>> \in {<<"open", "types">>, <<"types", "callers">>, <<"callers", "callees">>,
                          <<"callees", "shutdown">>}
  PROVE  FailureInvariant'
<1>1. /\ UNCHANGED <<code, candidates, pc, server, membership, answers, perChunk, setup, queries, first>>
      /\ phase = from /\ todo = {} /\ phase' = to
      /\ todo' = IF to = "shutdown" THEN {} ELSE Askable(server)
  BY DEF Turn, At, results, history
<1>2. server \in Servers
  BY AtServer DEF Turn, FailureInvariant, ScanInvariant
<1>3. IF setup[server] = None THEN FirstSoFar ELSE first[server] = setup[server]
  BY <1>1, <1>2 DEF FailureInvariant, FirstInStep
<1>4. \A c \in Askable(server) : /\ Asked("types", c)' <=> Asked("types", c)
                                 /\ Asked("callers", c)' <=> Asked("callers", c)
                                 /\ Asked("callees", c)' <=> Asked("callees", c)
  BY <1>1 DEF Asked
<1>5. IF setup'[server] = None THEN FirstSoFar' ELSE first'[server] = setup'[server]
  BY <1>1, <1>3, <1>4, FirstSame
<1>6. QueriesInStep' /\ TodoInOrder'
  BY <1>1, QueriesStay, ServedSame DEF FailureInvariant, ScanInvariant, TodoInOrder
<1> QED BY <1>1, <1>2, <1>5, <1>6, SessionGoesOn

(* A question about the next chunk: its failure is the first one unless    *)
(* there was one before.                                                   *)
LEMMA PutFirst ==
  ASSUME FailureInvariant, ScanInvariant', server \in Servers, phase # "begin", phase # "open",
         NEW c \in todo, IsFirst(c, todo), QueriesInStep',
         UNCHANGED <<code, candidates, pc, server, phase, perChunk, setup>>, todo' = todo \ {c},
         \A s \in Servers : s # server => first'[s] = first[s],
         \A d \in Chunks : d # c => answers'[d] = answers[d],
         setup[server] = None => FirstSoFar', first[server] # None => first' = first
  PROVE  FailureInvariant'
<1>1. c \in Askable(server) /\ Askable(server) \subseteq Chunks
  BY AskableChunks DEF FailureInvariant, ScanInvariant, SessionInStep
<1>2. TodoInOrder'
  <2> SUFFICES ASSUME NEW d \in Askable(server) \ (todo \ {c}), NEW e \in todo \ {c} PROVE d < e
    BY ServedSame DEF TodoInOrder
  <2>1. c < e
    BY <1>1 DEF IsFirst, FailureInvariant, ScanInvariant, TypeOK, Chunks
  <2> QED BY <2>1 DEF FailureInvariant, TodoInOrder
<1>3. setup[server] # None => first[server] = setup[server]
  BY DEF FailureInvariant, FirstInStep
<1>4. IF setup'[server] = None THEN FirstSoFar' ELSE first'[server] = setup'[server]
  BY <1>3
<1> QED BY <1>1, <1>2, <1>4, SessionGoesOn

LEMMA AskTypesFirst ==
  ASSUME FailureInvariant, ScanInvariant', AskTypes PROVE FailureInvariant'
<1>1. server \in Servers
  BY AtServer DEF AskTypes, AskOne, FailureInvariant, ScanInvariant
<1>2. PICK c \in Chunks, o \in {"answer", "error"} : IsFirst(c, todo) /\ Put("types", c, o)
  BY DEF AskTypes, AskOne
<1>3. /\ UNCHANGED <<code, candidates, pc, server, phase, membership, perChunk, setup, queries>>
      /\ phase = "types" /\ todo' = todo \ {c} /\ c \in todo
      /\ answers' = [answers EXCEPT ![c]["types"] = o]
      /\ IF o = "error" THEN Failed(server, <<"types", c>>) ELSE first' = first
  BY <1>2 DEF AskTypes, AskOne, At, Put, results, IsFirst
<1>4. /\ answers'[c].types = o /\ \A d \in Chunks : d # c => answers'[d] = answers[d]
      /\ \A s \in Servers : s # server => first'[s] = first[s]
      /\ first[server] # None => first' = first
      /\ first[server] = None => first'[server] = IF o = "error" THEN <<"types", c>> ELSE None
  BY <1>1, <1>3 DEF Failed, FailureInvariant, ScanInvariant, TypeOK
<1>5. ASSUME setup[server] = None PROVE FirstSoFar'
  <2> DEFINE T == FailedSoFar("types", {"error"})
             E == IF o = "error" THEN {c} ELSE {}
  <2>1. c \in Askable(server) /\ Askable(server)' = Askable(server) /\ Askable(server) \subseteq Chunks
    BY <1>1, <1>3, ServedSame, AskableChunks DEF FailureInvariant, ScanInvariant, SessionInStep
  <2>2. /\ FailedSoFar("callers", {"error", "unreachable"}) = {} /\ FailedSoFar("callees", {"error"}) = {}
        /\ FailedSoFar("callers", {"error", "unreachable"})' = {} /\ FailedSoFar("callees", {"error"})' = {}
    BY <1>3 DEF FailedSoFar, Asked
  <2>3. T' = T \cup E
    BY <1>3, <1>4, <2>1 DEF FailedSoFar, Asked
  <2>4. \A d \in T : d < c
    BY <1>1, <1>3 DEF FailedSoFar, Asked, FailureInvariant, TodoInOrder
  <2>5. \/ T = {} /\ first[server] = None
        \/ \E d \in T : IsFirst(d, T) /\ first[server] = <<"types", d>>
    BY <1>1, <1>3, <1>5, <2>2 DEF FailureInvariant, FirstInStep, FirstSoFar, FoundFirst
  <2>6. CASE T = {} /\ first[server] = None
    BY <1>3, <1>4, <2>2, <2>3, <2>6 DEF FirstSoFar, FoundFirst, IsFirst, Chunks
  <2>7. CASE \E d \in T : IsFirst(d, T) /\ first[server] = <<"types", d>>
    <3>1. PICK d \in T : IsFirst(d, T) /\ first[server] = <<"types", d>>
      BY <2>7
    <3>2. first' = first
      BY <1>4, <3>1 DEF None
    <3>3. d \in T' /\ IsFirst(d, T')
      <4>1. d < c /\ d \in T /\ \A e \in T : d <= e
        BY <2>4, <3>1 DEF IsFirst
      <4>2. d <= c /\ E \subseteq {c}
        BY <1>2, <2>1, <3>1, <4>1 DEF Chunks, FailedSoFar
      <4> QED BY <2>3, <4>1, <4>2 DEF IsFirst
    <3> QED BY <1>3, <3>1, <3>2, <3>3 DEF FirstSoFar, FoundFirst
  <2> QED BY <2>5, <2>6, <2>7
<1>6. QueriesInStep'
  BY <1>3, QueriesStay DEF FailureInvariant, ScanInvariant
<1> QED BY <1>1, <1>2, <1>3, <1>4, <1>5, <1>6, PutFirst

LEMMA AskCalleesFirst ==
  ASSUME FailureInvariant, ScanInvariant', AskCallees PROVE FailureInvariant'
<1>1. server \in Servers
  BY AtServer DEF AskCallees, AskOne, FailureInvariant, ScanInvariant
<1>2. PICK c \in Chunks, o \in {"answer", "error"} : IsFirst(c, todo) /\ Put("callees", c, o)
  BY DEF AskCallees, AskOne
<1>3. /\ UNCHANGED <<code, candidates, pc, server, phase, membership, perChunk, setup, queries>>
      /\ phase = "callees" /\ todo' = todo \ {c} /\ c \in todo
      /\ answers' = [answers EXCEPT ![c]["callees"] = o]
      /\ IF o = "error" THEN Failed(server, <<"callees", c>>) ELSE first' = first
  BY <1>2 DEF AskCallees, AskOne, At, Put, results, IsFirst
<1>4. /\ answers'[c].callees = o /\ \A d \in Chunks : d # c => answers'[d] = answers[d]
      /\ answers'[c].types = answers[c].types /\ answers'[c].callers = answers[c].callers
      /\ \A s \in Servers : s # server => first'[s] = first[s]
      /\ first[server] # None => first' = first
      /\ first[server] = None => first'[server] = IF o = "error" THEN <<"callees", c>> ELSE None
  BY <1>1, <1>3 DEF Failed, FailureInvariant, ScanInvariant, TypeOK
<1>5. ASSUME setup[server] = None PROVE FirstSoFar'
  <2> DEFINE T == FailedSoFar("types", {"error"})
             R == FailedSoFar("callers", {"error", "unreachable"})
             E == FailedSoFar("callees", {"error"})
  <2>1. c \in Askable(server) /\ Askable(server)' = Askable(server) /\ Askable(server) \subseteq Chunks
    BY <1>1, <1>3, ServedSame, AskableChunks DEF FailureInvariant, ScanInvariant, SessionInStep
  <2>2. T' = T /\ R' = R
    BY <1>3, <1>4, <2>1, FailedSame DEF Asked
  <2>3. E' = E \cup IF o = "error" THEN {c} ELSE {}
    BY <1>3, <1>4, <2>1 DEF FailedSoFar, Asked
  <2>4. \A d \in E : d < c
    BY <1>1, <1>3 DEF FailedSoFar, Asked, FailureInvariant, TodoInOrder
  <2>5. \A d \in R : answers'[d].callers = answers[d].callers
    BY <1>4, <2>1 DEF FailedSoFar
  <2>6. FoundFirst(answers, T, R, E, first[server])
    BY <1>1, <1>3, <1>5 DEF FailureInvariant, FirstInStep, FirstSoFar
  <2>7. CASE first[server] = None
    <3>1. T = {} /\ R = {} /\ E = {}
      BY <2>6, <2>7 DEF FoundFirst, None
    <3>2. FoundFirst(answers', {}, {}, E', first'[server])
      BY <1>4, <2>3, <2>7, <3>1 DEF FoundFirst, IsFirst, Chunks
    <3> QED BY <1>3, <2>2, <3>1, <3>2 DEF FirstSoFar
  <2>8. CASE first[server] # None
    <3>1. \A d \in E : IsFirst(d, E) => d \in E' /\ IsFirst(d, E')
      BY <1>3, <2>1, <2>3, <2>4 DEF IsFirst, FailedSoFar, Chunks
    <3>2. FoundFirst(answers', T, R, E', first[server])
      BY <2>5, <2>6, <2>8, <3>1 DEF FoundFirst
    <3> QED BY <1>3, <1>4, <2>2, <2>8, <3>2 DEF FirstSoFar
  <2> QED BY <2>7, <2>8
<1>6. QueriesInStep'
  BY <1>3, QueriesStay DEF FailureInvariant, ScanInvariant
<1> QED BY <1>1, <1>2, <1>3, <1>4, <1>5, <1>6, PutFirst

LEMMA AskCallersFirst ==
  ASSUME FailureInvariant, ScanInvariant', AskCallers PROVE FailureInvariant'
<1>1. server \in Servers /\ phase = "callers"
  BY AtServer DEF AskCallers, At, FailureInvariant, ScanInvariant
<1>2. PICK c \in Chunks : IsFirst(c, todo) /\ \E m \in Remembered(code.file[c]) : AskedAbout(c, m)
  BY DEF AskCallers, AskedAbout
<1>3. PICK m \in Remembered(code.file[c]) : AskedAbout(c, m)
  BY <1>2
<1>4. \A d \in Chunks : code.file[d] \in Files /\ code.grammar[code.file[d]] \in Grammars
  BY ShapeAssumption DEF FailureInvariant, ScanInvariant, TypeOK, Codebase
<1>5. /\ m[1] \in {"askable", "withheld", "unreachable", "taken"} /\ m[2] \in {0, 1}
      /\ membership[code.file[c]] # "unknown" => m[2] = 0
  BY <1>4 DEF Remembered, Memberships, FailureInvariant, ScanInvariant, TypeOK
<1>6. PICK o \in {"answer", "error", "withheld", "unreachable", "taken"} : Put("callers", c, o)
  BY <1>3, <1>5 DEF AskedAbout
<1>7. /\ UNCHANGED <<code, candidates, pc, server, phase, perChunk, setup>>
      /\ todo' = todo \ {c} /\ c \in todo
      /\ answers' = [answers EXCEPT ![c]["callers"] = o]
      /\ IF o \in {"error", "unreachable"}
         THEN Failed(server, <<IF o = "error" THEN "callers" ELSE "membership", c>>) ELSE first' = first
  BY <1>2, <1>6 DEF AskCallers, Put, results, IsFirst
<1>8. /\ answers'[c].callers = o /\ \A d \in Chunks : d # c => answers'[d] = answers[d]
      /\ answers'[c].types = answers[c].types /\ answers'[c].callees = answers[c].callees
      /\ \A s \in Servers : s # server => first'[s] = first[s]
      /\ first[server] # None => first' = first
      /\ first[server] = None =>
           first'[server] = IF o \in {"error", "unreachable"}
                            THEN <<IF o = "error" THEN "callers" ELSE "membership", c>> ELSE None
  <2>1. /\ DOMAIN answers = Chunks /\ DOMAIN first = Servers
        /\ DOMAIN answers[c] = {"types", "callers", "callees"}
    BY <1>1, <1>2 DEF FailureInvariant, ScanInvariant, TypeOK
  <2>2. /\ answers'[c].callers = o /\ \A d \in Chunks : d # c => answers'[d] = answers[d]
        /\ answers'[c].types = answers[c].types /\ answers'[c].callees = answers[c].callees
    BY <1>2, <1>7, <2>1
  <2>3. CASE o \in {"error", "unreachable"}
    <3> DEFINE cause == <<IF o = "error" THEN "callers" ELSE "membership", c>>
    <3>1. first' = [first EXCEPT ![server] = IF @ = None THEN cause ELSE @]
      BY <1>7, <2>3 DEF Failed
    <3> HIDE DEF cause
    <3>2. /\ \A s \in Servers : s # server => first'[s] = first[s]
          /\ first'[server] = IF first[server] = None THEN cause ELSE first[server]
      BY <1>1, <2>1, <3>1
    <3>3. ASSUME first[server] # None PROVE first' = first
      <4>1. first \in [Servers -> Failures] /\ first' \in [Servers -> Failures]
        BY DEF FailureInvariant, ScanInvariant, TypeOK
      <4>2. \A s \in Servers : first'[s] = first[s]
        BY <3>2, <3>3
      <4> QED BY <4>1, <4>2
    <3> QED BY <2>2, <2>3, <3>2, <3>3 DEF cause
  <2>4. CASE o \notin {"error", "unreachable"}
    BY <1>1, <1>7, <2>1, <2>2, <2>4
  <2> QED BY <2>2, <2>3, <2>4
<1>9. c \in Askable(server) /\ Askable(server)' = Askable(server) /\ Askable(server) \subseteq Chunks
  BY <1>1, <1>7, ServedSame, AskableChunks DEF FailureInvariant, ScanInvariant, SessionInStep
<1>10. ASSUME setup[server] = None PROVE FirstSoFar'
  <2> DEFINE T == FailedSoFar("types", {"error"})
             R == FailedSoFar("callers", {"error", "unreachable"})
             E == FailedSoFar("callees", {"error"})
  <2>2. T' = T /\ E = {} /\ E' = {}
    <3>1. T' = T
      BY <1>1, <1>7, <1>8, <1>9, FailedSame DEF Asked
    <3> QED BY <1>1, <1>7, <3>1 DEF FailedSoFar, Asked
  <2>3. R' = R \cup IF o \in {"error", "unreachable"} THEN {c} ELSE {}
    BY <1>1, <1>7, <1>8, <1>9 DEF FailedSoFar, Asked
  <2>4. \A d \in R : d < c /\ d # c /\ d \in Chunks
    BY <1>1, <1>7, <1>9 DEF FailedSoFar, Asked, FailureInvariant, TodoInOrder
  <2>5. \A d \in R : answers'[d].callers = answers[d].callers
    BY <1>8, <2>4
  <2>6. FoundFirst(answers, T, R, E, first[server])
    BY <1>1, <1>10 DEF FailureInvariant, FirstInStep, FirstSoFar
  <2>7. CASE first[server] = None
    <3>1. T = {} /\ R = {}
      BY <2>6, <2>7 DEF FoundFirst, None
    <3>2. FoundFirst(answers', {}, R', {}, first'[server])
      BY <1>8, <2>3, <2>7, <3>1 DEF FoundFirst, IsFirst, Chunks
    <3> QED BY <1>7, <2>2, <3>1, <3>2 DEF FirstSoFar
  <2>8. CASE first[server] # None
    <3>1. \A d \in R : IsFirst(d, R) => d \in R' /\ IsFirst(d, R')
      BY <2>3, <2>4 DEF IsFirst, Chunks
    <3>2. FoundFirst(answers', T, R', {}, first[server])
      BY <2>2, <2>5, <2>6, <2>8, <3>1 DEF FoundFirst
    <3> QED BY <1>7, <1>8, <2>2, <2>8, <3>2 DEF FirstSoFar
  <2> QED BY <2>7, <2>8
<1>11. QueriesInStep'
  <2> DEFINE g == code.file[c]
  <2>1. /\ queries'[g] = queries[g] + m[2] /\ \A f \in Files : f # g => queries'[f] = queries[f]
        /\ membership'[g] # "unknown"
        /\ \A f \in Files : f # g => membership'[f] = membership[f]
    BY <1>3, <1>4, <1>5 DEF AskedAbout, FailureInvariant, ScanInvariant, TypeOK
  <2>2. queries[g] = 1 => membership[g] # "unknown"
    <3> SUFFICES ASSUME queries[g] = 1 PROVE membership[g] # "unknown"
      OBVIOUS
    <3>1. PICK s \in Servers :
            /\ \E d \in Askable(s) : code.file[d] = g
            /\ s < server \/ (s = server /\ membership[g] # "unknown")
      BY <1>4 DEF FailureInvariant, QueriesInStep
    <3>2. s = server
      BY <1>1, <1>9, <3>1, ShapeAssumption DEF Askable, Served, IsServer, Grammar, Servers
    <3> QED BY <3>1, <3>2, ShapeAssumption DEF Servers
  <2>3. queries[g] \in {0, 1} /\ queries'[g] \in {0, 1}
    BY <1>4, <1>5, <2>1, <2>2 DEF FailureInvariant, QueriesInStep
  <2> SUFFICES ASSUME NEW f \in Files, queries'[f] = 1, f # g
               PROVE  \E s \in Servers : \E d \in Askable(s) :
                        /\ code.file[d] = f
                        /\ s < server \/ (s = server /\ membership'[f] # "unknown")
    <3>1. \A s : Askable(s)' = Askable(s)
      BY <1>7, ServedSame
    <3>2. \A f \in Files : f # g => queries'[f] \in {0, 1}
      BY <2>1 DEF FailureInvariant, QueriesInStep
    <3> QED BY <1>1, <1>7, <1>9, <2>1, <2>3, <3>1, <3>2 DEF QueriesInStep
  <2> QED BY <2>1 DEF FailureInvariant, QueriesInStep
<1> QED BY <1>1, <1>2, <1>7, <1>8, <1>10, <1>11, PutFirst

LEMMA ShutdownFirst ==
  ASSUME FailureInvariant, ScanInvariant', Shutdown PROVE FailureInvariant'
<1>1. /\ server \in Servers /\ pc = "serve" /\ phase = "shutdown"
      /\ queries' = queries /\ first' = first /\ setup' = setup /\ NextServer /\ answers' = answers
      /\ perChunk' = IF setup[server] = None THEN [perChunk EXCEPT ![server] = PerChunk(server)]
                     ELSE perChunk
  BY AtServer DEF Shutdown, NextServer, results, At, FailureInvariant, ScanInvariant
<1>2. \A s \in Servers : s # server => perChunk'[s] = perChunk[s]
  BY <1>1 DEF FailureInvariant, ScanInvariant, TypeOK
<1>3. CASE setup[server] # None
  <2>1. first[server] = setup[server]
    BY <1>1, <1>3 DEF FailureInvariant, FirstInStep
  <2>2. \A s \in Servers : s = server => FirstIsReported(s)'
    BY <1>1, <1>3, <2>1 DEF FirstIsReported
  <2> QED BY <1>1, <1>2, <2>2, ServerOver
<1>4. CASE setup[server] = None
  <2> SUFFICES ASSUME NEW s \in Servers, s = server PROVE FirstIsReported(s)'
    BY <1>1, <1>2, ServerOver
  <2>1. perChunk'[s] = PerChunk(s)
    BY <1>1, <1>4 DEF FailureInvariant, ScanInvariant, TypeOK
  <2>2. \A c \in Chunks : perChunk'[s][c] = "asked" <=> c \in Askable(s)
    BY <2>1 DEF PerChunk, Askable
  <2>3. Askable(s) \subseteq Chunks
    BY AskableChunks DEF FailureInvariant, ScanInvariant
  <2>4. /\ FailedChunks(s, "types", {"error"})' = FailedSoFar("types", {"error"})
        /\ FailedChunks(s, "callers", {"error", "unreachable"})'
             = FailedSoFar("callers", {"error", "unreachable"})
        /\ FailedChunks(s, "callees", {"error"})' = FailedSoFar("callees", {"error"})
    BY <1>1, <2>2, <2>3 DEF FailedChunks, FailedSoFar, Asked
  <2>5. FirstSoFar
    BY <1>1, <1>4 DEF FailureInvariant, FirstInStep
  <2> QED BY <1>1, <1>4, <2>4, <2>5 DEF FirstIsReported, FirstSoFar
<1> QED BY <1>3, <1>4

(* Which failure is the first of a server, and which is found when one     *)
(* looks for it afterwards, stay in step through the whole conversation.   *)
THEOREM FailureInvariantHolds == Spec => []FailureInvariant
<1>1. Init => FailureInvariant
  BY FirstInit
<1>2. ASSUME FailureInvariant, ScanInvariant', [Next]_vars PROVE FailureInvariant'
  <2>1. CASE AllOpened \/ Turn("types", "callers") \/ Turn("callers", "callees") \/ Turn("callees", "shutdown")
    BY <1>2, <2>1, TurnFirst DEF AllOpened
  <2>2. CASE SetupFails \/ StartFails \/ ShutdownFails \/ NothingToAsk \/ Shutdown
    BY <1>2, <2>2, FailsFirst, NothingToAskFirst, ShutdownFirst
  <2>3. CASE Start \/ Opens \/ OpenFails \/ AskTypes \/ AskCallers \/ AskCallees
    BY <1>2, <2>3, StartFirst, OpensFirst, OpenFailsFirst, AskTypesFirst, AskCallersFirst, AskCalleesFirst
  <2>4. CASE CannotScan \/ Compare \/ Report \/ UNCHANGED vars
    BY <1>2, <2>4, CannotScanFirst, CompareFirst
  <2> QED BY <1>2, <2>1, <2>2, <2>3, <2>4 DEF Next
<1>3. FailureInvariant /\ ScanInvariant' /\ [Next]_vars => FailureInvariant'
  BY <1>2
<1> QED BY <1>1, <1>3, ScanInvariantHolds, PTL DEF Spec

LEMMA FoundIsReported ==
  ASSUME TypeOK, NEW s \in Servers, FirstIsReported(s), setup[s] # <<"shutdown", 0>>
  PROVE  IntoError(s) = first[s]
<1> DEFINE types   == FailedChunks(s, "types", {"error"})
           callers == FailedChunks(s, "callers", {"error", "unreachable"})
           callees == FailedChunks(s, "callees", {"error"})
<1>1. types \subseteq Chunks /\ callers \subseteq Chunks /\ callees \subseteq Chunks
  BY DEF FailedChunks
<1>2. CASE setup[s] # None
  BY <1>2 DEF FirstIsReported, IntoError
<1>3. CASE setup[s] = None
  <2>1. FoundFirst(answers, types, callers, callees, first[s])
    BY <1>3 DEF FirstIsReported
  <2>2. IntoError(s) = IF types # {} THEN <<"types", FirstOf(types)>>
                       ELSE IF callers # {}
                       THEN <<IF answers[FirstOf(callers)].callers = "error" THEN "callers"
                              ELSE "membership", FirstOf(callers)>>
                       ELSE IF callees # {} THEN <<"callees", FirstOf(callees)>>
                       ELSE None
    BY <1>3 DEF IntoError
  <2> HIDE DEF types, callers, callees
  <2>3. /\ \A c : IsFirst(c, types) => types # {} /\ FirstOf(types) = c
        /\ \A c : IsFirst(c, callers) => callers # {} /\ FirstOf(callers) = c
        /\ \A c : IsFirst(c, callees) => callees # {} /\ FirstOf(callees) = c
    <3>1. \A S \in SUBSET Chunks : \A c : IsFirst(c, S) => S # {} /\ FirstOf(S) = c
      BY FirstUnique DEF IsFirst
    <3> QED BY <1>1, <3>1
  <2> QED BY <2>1, <2>2, <2>3 DEF FoundFirst
<1> QED BY <1>2, <1>3

(* ScanSemantics::into_error names the failure that came first although it *)
(* looks for it only afterwards: signal by signal and chunk by chunk is    *)
(* the order in which the server was asked, whatever it answered.          *)
THEOREM FirstFailureIsReported == Spec => []FirstFailureUnlessShutdown
<1>1. FailureInvariant => FirstFailureUnlessShutdown
  BY FoundIsReported DEF FailureInvariant, ScanInvariant, FirstFailureUnlessShutdown, IsOver
<1> QED BY <1>1, FailureInvariantHolds, PTL

(* The membership of a file in the project is asked for once, by the one   *)
(* server of its grammar, and only for a chunk that is asked about         *)
(* (memberships of asked_scan_semantics_of).                               *)
THEOREM MembershipIsAskedOnce == Spec => []MembershipAskedOnce
<1>1. FailureInvariant => MembershipAskedOnce
  BY DEF FailureInvariant, QueriesInStep, MembershipAskedOnce, Askable, Served
<1> QED BY <1>1, FailureInvariantHolds, PTL
=============================================================================
