-------------------------------- MODULE Scan --------------------------------
(***************************************************************************)
(* One run of `dryguard scan` or `check --diff` over the chunks cut from   *)
(* the sources: the pairs that become candidates, the questions about them *)
(* to one language server after the other, what is kept of the answers,    *)
(* the errors reported and the exit code (src/src/pipeline.rs, from        *)
(* scan_of_chunks on, and report_walked and exit_code_of of                *)
(* src/src/main.rs).                                                       *)
(*                                                                         *)
(* An exchange with a server is one step that gives an answer or an error; *)
(* the module Connection is about what happens inside of it.  What a       *)
(* server answers is not distinguished: an answer that leaves a signal     *)
(* unmeasured is an answer.                                                *)
(***************************************************************************)
EXTENDS Integers

CONSTANTS
  NumChunks,    \* chunks are numbered in the order of scan: by file, then by line
  NumServers,   \* servers are numbered in the order of LanguageServers
  Files,
  Grammars,
  Language,     \* the language a grammar reads (Grammar::same_language_as)
  Supports,     \* the grammars each server supports (ServerCommand::supports)
  Capabilities, \* what a session can be like: see Caps
  Codebases     \* the inputs that are scanned: see Codebase

Chunks  == 1..NumChunks
Servers == 1..NumServers
Pairs   == {p \in Chunks \X Chunks : p[1] < p[2]}

(* references: the server answers references; markers: its project is      *)
(* rooted at a marker file; projectInfo: whether a file belongs to the     *)
(* project has to be asked (needs_project_membership_query).               *)
Caps == [references : BOOLEAN, markers : BOOLEAN, projectInfo : BOOLEAN]

(* What the chunks are and how they relate.                                *)
Codebase == [file     : [Chunks -> Files],
             grammar  : [Files -> Grammars],
             named    : SUBSET Chunks,  \* chunks with a name to ask about
             targeted : SUBSET Chunks,  \* chunks that hold a changed line, or all
             nested   : SUBSET Pairs,   \* chunks of one file whose lines overlap
             ruledOut : SUBSET Pairs,   \* the similarity cannot reach the threshold
             similar  : SUBSET Pairs,   \* the similarity reaches the threshold
             marked   : SUBSET Files]   \* files below a project marker

ASSUME ShapeAssumption ==
  /\ NumChunks \in Nat /\ NumServers \in Nat
  /\ Supports \in [Servers -> SUBSET Grammars]
  /\ Capabilities \subseteq Caps
  /\ Codebases \subseteq Codebase

(* The similarity of two chunks is at most their ceiling, so a pair that   *)
(* is ruled out is not similar (similarity_ceiling_with).                  *)
ASSUME CeilingAssumption == \A c \in Codebases : c.ruledOut \intersect c.similar = {}

(* A server that reads one grammar of a language reads all of them         *)
(* (ServerCommand::supports of .ts and .tsx).                              *)
ASSUME LanguagesAssumption ==
  \A s \in Servers : \A g, h \in Grammars :
    Language[g] = Language[h] /\ g \in Supports[s] => h \in Supports[s]

VARIABLES
  code,       \* the codebase that is scanned
  failOn,     \* --fail-on was given
  pc,         \* "compare", "serve" or "done"
  candidates, \* the candidate pairs
  server,     \* the server being asked
  phase,      \* how far the conversation with it has come
  caps,       \* its capabilities
  opened,     \* the files it has been shown
  todo,       \* the chunks still to be asked about in this phase
  membership, \* the membership of a file in the server's project
  answers,    \* what came back for each chunk
  perChunk,   \* what each server leaves for each chunk (ScanSemantics::per_chunk)
  setup,      \* its setup_error
  exit,       \* the exit code, -1 before the end
  starts,     \* history: how often each server was started
  queries,    \* history: how often the membership of each file was asked for
  first,      \* history: the first failure of each server
  ended       \* history: whether its session ended normally

conversation == <<phase, caps, opened, todo, membership, answers>>
results == <<perChunk, setup>>
history == <<starts, queries, first, ended>>
vars == <<code, failOn, pc, candidates, server, conversation, results, exit, history>>

-----------------------------------------------------------------------------
(* The candidate pairs.                                                    *)

Grammar(c, chunk) == c.grammar[c.file[chunk]]

IsCompared(c, p) ==
  /\ p[1] \in c.targeted \/ p[2] \in c.targeted
  /\ Language[Grammar(c, p[1])] = Language[Grammar(c, p[2])]
  /\ p \notin c.nested

CandidatesOf(c) == {p \in Pairs : IsCompared(c, p) /\ p \notin c.ruledOut /\ p \in c.similar}

AskedChunks == {p[1] : p \in candidates} \union {p[2] : p \in candidates}

(* Mistake: every server that supports the grammar is asked.               *)
Slip_Supporting(s, grammar) == grammar \in Supports[s]

(* Whether s is the first server that supports the grammar.                *)
IsServer(s, grammar) ==
  grammar \in Supports[s] /\ \A t \in Servers : t < s => grammar \notin Supports[t]

Served(s) == {c \in AskedChunks : IsServer(s, Grammar(code, c))}

Askable(s) == Served(s) \intersect code.named

IsFirst(c, S) == c \in S /\ \A d \in S : c <= d

FirstOf(S) == CHOOSE c \in S : IsFirst(c, S)

-----------------------------------------------------------------------------
(* What is kept of a conversation.                                         *)

None == <<"none", 0>>

(* Mistake: a chunk without a name is left as if it were no candidate.     *)
Slip_OnlyNamed(s) ==
  [c \in Chunks |-> IF c \in Askable(s) THEN "asked" ELSE "notACandidate"]

(* per_chunk_semantics_of *)
PerChunk(s) == [c \in Chunks |-> IF c \notin Served(s) THEN "notACandidate"
                                 ELSE IF c \in code.named THEN "asked" ELSE "noName"]

(* ScanSemantics::from_failure *)
FromFailure(s, cause) ==
  /\ perChunk' = [perChunk EXCEPT ![s] = [c \in Chunks |-> IF c \in Served(s) THEN "unavailable"
                                                           ELSE "notACandidate"]]
  /\ setup' = [setup EXCEPT ![s] = cause]

Failed(s, cause) == first' = [first EXCEPT ![s] = IF @ = None THEN cause ELSE @]

FailedChunks(s, signal, how) ==
  {c \in Chunks : perChunk[s][c] = "asked" /\ answers[c][signal] \in how}

(* Mistake: errors of the callers are not looked for.                      *)
Slip_CallersForgotten(s) ==
  LET types   == FailedChunks(s, "types", {"error"})
      callees == FailedChunks(s, "callees", {"error"})
  IN  IF setup[s] # None THEN setup[s]
      ELSE IF types # {} THEN <<"types", FirstOf(types)>>
      ELSE IF callees # {} THEN <<"callees", FirstOf(callees)>> ELSE None

(* Mistake: the error of the first chunk that has one.                     *)
Slip_ByChunk(s) ==
  LET failed == UNION {FailedChunks(s, k, {"error", "unreachable"}) : k \in {"types", "callers", "callees"}}
      c == FirstOf(failed)
  IN  IF setup[s] # None THEN setup[s]
      ELSE IF failed = {} THEN None
      ELSE IF answers[c].types = "error" THEN <<"types", c>>
      ELSE IF answers[c].callers = "unreachable" THEN <<"membership", c>>
      ELSE IF answers[c].callers = "error" THEN <<"callers", c>> ELSE <<"callees", c>>

(* ScanSemantics::into_error: what stopped the setup, otherwise the first  *)
(* failed signature, callers or callees, in this order.                    *)
IntoError(s) ==
  LET types   == FailedChunks(s, "types", {"error"})
      callers == FailedChunks(s, "callers", {"error", "unreachable"})
      callees == FailedChunks(s, "callees", {"error"})
  IN  IF setup[s] # None THEN setup[s]
      ELSE IF types # {} THEN <<"types", FirstOf(types)>>
      ELSE IF callers # {}
      THEN <<IF answers[FirstOf(callers)].callers = "error" THEN "callers" ELSE "membership",
             FirstOf(callers)>>
      ELSE IF callees # {} THEN <<"callees", FirstOf(callees)>>
      ELSE None

-----------------------------------------------------------------------------
Unasked == [types |-> "unasked", callers |-> "unasked", callees |-> "unasked"]

Init ==
  /\ code \in Codebases
  /\ failOn \in BOOLEAN
  /\ pc = "compare" /\ candidates = {} /\ exit = -1
  /\ server = 1 /\ phase = "begin"
  /\ caps = [references |-> TRUE, markers |-> TRUE, projectInfo |-> FALSE]
  /\ opened = {} /\ todo = {}
  /\ membership = [f \in Files |-> "unknown"]
  /\ answers = [c \in Chunks |-> Unasked]
  /\ perChunk = [s \in Servers |-> [c \in Chunks |-> "notACandidate"]]
  /\ setup = [s \in Servers |-> None]
  /\ starts = [s \in Servers |-> 0]
  /\ queries = [f \in Files |-> 0]
  /\ first = [s \in Servers |-> None]
  /\ ended = [s \in Servers |-> FALSE]

(* The sources cannot be walked, a file is covered by two declarations, or *)
(* the changes cannot be had from git: nothing is judged (NOT_CLASSIFIED). *)
CannotScan ==
  /\ pc = "compare"
  /\ pc' = "done" /\ exit' = 2
  /\ UNCHANGED <<code, failOn, candidates, server, conversation, results, history>>

(* ComparedPairs::from_chunk for every chunk.                              *)
Compare ==
  /\ pc = "compare"
  /\ candidates' = CandidatesOf(code)
  /\ pc' = "serve"
  /\ UNCHANGED <<code, failOn, server, conversation, results, exit, history>>

At(p) == pc = "serve" /\ server <= NumServers /\ phase = p

(* The next server starts from a fresh session and a fresh memory of       *)
(* memberships.                                                            *)
NextServer ==
  /\ server' = server + 1
  /\ phase' = "begin"
  /\ opened' = {} /\ todo' = {}
  /\ membership' = [f \in Files |-> "unknown"]
  /\ UNCHANGED <<code, failOn, pc, candidates, caps, answers, exit>>

NothingToAsk ==
  /\ At("begin") /\ Served(server) = {}
  /\ NextServer
  /\ UNCHANGED <<results, history>>

(* documents_of or enclosing_project fails before a server is started.     *)
SetupFails ==
  /\ At("begin") /\ Served(server) # {}
  /\ \E kind \in {"document", "workspace"} :
       FromFailure(server, <<kind, 0>>) /\ Failed(server, <<kind, 0>>)
  /\ NextServer
  /\ UNCHANGED <<starts, queries, ended>>

(* Client::start and the handshake succeed.                                *)
Start ==
  /\ At("begin") /\ Served(server) # {}
  /\ starts' = [starts EXCEPT ![server] = @ + 1]
  /\ \E c \in Capabilities : caps' = c
  /\ phase' = "open"
  /\ UNCHANGED <<code, failOn, pc, candidates, server, opened, todo, membership, answers,
                 results, exit, queries, first, ended>>

(* The process cannot be started, or the handshake fails and it is dropped.*)
StartFails ==
  /\ At("begin") /\ Served(server) # {}
  /\ starts' = [starts EXCEPT ![server] = @ + 1]
  /\ \E kind \in {"start", "handshake"} :
       FromFailure(server, <<kind, 0>>) /\ Failed(server, <<kind, 0>>)
  /\ NextServer
  /\ UNCHANGED <<queries, ended>>

Unopened(s) == {c \in Served(s) : code.file[c] \notin opened}

Opens ==
  /\ At("open")
  /\ \E c \in Chunks : IsFirst(c, Unopened(server)) /\ opened' = opened \union {code.file[c]}
  /\ UNCHANGED <<code, failOn, pc, candidates, server, phase, caps, todo, membership, answers,
                 results, exit, history>>

(* A document that cannot be opened: no question is asked, but the session *)
(* is shut down.                                                           *)
OpenFails ==
  /\ At("open")
  /\ \E c \in Chunks : /\ IsFirst(c, Unopened(server))
                       /\ FromFailure(server, <<"open", c>>) /\ Failed(server, <<"open", c>>)
  /\ phase' = "shutdown"
  /\ UNCHANGED <<code, failOn, pc, candidates, server, caps, opened, todo, membership, answers,
                 exit, starts, queries, ended>>

(* From one kind of question to the next, all askable chunks anew.         *)
Turn(from, to) ==
  /\ At(from) /\ todo = {}
  /\ phase' = to
  /\ todo' = IF to = "shutdown" THEN {} ELSE Askable(server)
  /\ UNCHANGED <<code, failOn, pc, candidates, server, caps, opened, membership, answers,
                 results, exit, history>>

AllOpened == At("open") /\ Unopened(server) = {} /\ Turn("open", "types")

(* One question about the next chunk: an answer, or a failure that the     *)
(* next questions do not care about.                                       *)
Put(signal, c, outcome) ==
  /\ answers' = [answers EXCEPT ![c][signal] = outcome]
  /\ IF outcome \in {"error", "unreachable"}
     THEN Failed(server, <<IF outcome = "unreachable" THEN "membership" ELSE signal, c>>)
     ELSE UNCHANGED first
  /\ todo' = todo \ {c}
  /\ UNCHANGED <<code, failOn, pc, candidates, server, phase, caps, opened, results, exit,
                 starts, ended>>

AskOne(signal) ==
  /\ At(signal)
  /\ \E c \in Chunks, outcome \in {"answer", "error"} :
       IsFirst(c, todo) /\ Put(signal, c, outcome)
  /\ UNCHANGED <<membership, queries>>

AskTypes == AskOne("types")

AskCallees == AskOne("callees")

(* AskedMembership::ask: what is known of the file without or with asking, *)
(* and whether the server was asked.  withheld: the callers of a file that *)
(* is not, or not known to be, part of the project are not asked for.      *)
Memberships(f) ==
  IF ~caps.references \/ ~caps.markers THEN {<<"askable", 0>>}
  ELSE IF f \notin code.marked THEN {<<"withheld", 0>>}
  ELSE IF ~caps.projectInfo THEN {<<"askable", 0>>}
  ELSE {<<"askable", 1>>, <<"withheld", 1>>, <<"unreachable", 1>>}

(* Mistake: the membership is asked for anew for every chunk.              *)
Slip_Remembered(f) == Memberships(f)

(* memberships of asked_scan_semantics_of: asked for with the first chunk  *)
(* of the file and remembered.                                             *)
Remembered(f) == IF membership[f] = "unknown" THEN Memberships(f) ELSE {<<membership[f], 0>>}

(* AskedCallerDomains::ask: the failure to learn the membership is moved   *)
(* into the first chunk of the file, and found taken by the others.        *)
AskCallers ==
  /\ At("callers")
  /\ \E c \in Chunks : IsFirst(c, todo) /\
       LET f == code.file[c]
       IN  \E m \in Remembered(f) :
           /\ queries' = [queries EXCEPT ![f] = @ + m[2]]
           /\ membership' = [membership EXCEPT ![f] = IF m[1] = "unreachable" THEN "taken" ELSE m[1]]
           /\ IF m[1] = "askable"
              THEN \E outcome \in IF caps.references THEN {"answer", "error"} ELSE {"answer"} :
                     Put("callers", c, outcome)
              ELSE Put("callers", c, m[1])

(* Mistake: the answers of a server that did not end normally are kept.    *)
Slip_Shutdown ==
  /\ At("shutdown")
  /\ \E ok \in BOOLEAN : ended' = [ended EXCEPT ![server] = ok]
  /\ IF setup[server] = None
     THEN perChunk' = [perChunk EXCEPT ![server] = PerChunk(server)] /\ UNCHANGED setup
     ELSE UNCHANGED results
  /\ NextServer
  /\ UNCHANGED <<starts, queries, first>>

(* Session::shutdown; the answers of a server that does not end normally   *)
(* are thrown away.                                                        *)
Shutdown ==
  /\ At("shutdown")
  /\ IF setup[server] = None
     THEN perChunk' = [perChunk EXCEPT ![server] = PerChunk(server)] /\ UNCHANGED setup
     ELSE UNCHANGED results
  /\ ended' = [ended EXCEPT ![server] = TRUE]
  /\ NextServer
  /\ UNCHANGED <<starts, queries, first>>

ShutdownFails ==
  /\ At("shutdown")
  /\ FromFailure(server, <<"shutdown", 0>>)
  /\ Failed(server, <<"shutdown", 0>>)
  /\ NextServer
  /\ UNCHANGED <<starts, queries, ended>>

(* exit_code_of *)
ExitCode(met, errors) == IF ~failOn THEN 0 ELSE IF errors THEN 2 ELSE IF met THEN 1 ELSE 0

(* report_walked, once every server has been asked: whether a verdict      *)
(* meets --fail-on is up to the judgement of the candidate pairs.          *)
Report ==
  /\ pc = "serve" /\ server > NumServers
  /\ \E met \in IF candidates = {} THEN {FALSE} ELSE BOOLEAN :
       exit' = ExitCode(met, \E s \in Servers : IntoError(s) # None)
  /\ pc' = "done"
  /\ UNCHANGED <<code, failOn, candidates, server, conversation, results, history>>

Next ==
  \/ CannotScan \/ Compare
  \/ NothingToAsk \/ SetupFails \/ Start \/ StartFails
  \/ Opens \/ OpenFails \/ AllOpened
  \/ AskTypes \/ Turn("types", "callers")
  \/ AskCallers \/ Turn("callers", "callees")
  \/ AskCallees \/ Turn("callees", "shutdown")
  \/ Shutdown \/ ShutdownFails
  \/ Report

Spec == Init /\ [][Next]_vars

-----------------------------------------------------------------------------
(* Properties.                                                             *)

Failures == {None} \union {<<k, 0>> : k \in {"document", "workspace", "start", "handshake", "shutdown"}}
              \union ({"open", "types", "membership", "callers", "callees"} \X Chunks)

Outcomes == {"unasked", "answer", "error"}

(* The shape of the state of a run (pipeline.rs ScanSemantics and          *)
(* ChunkSemantics, main.rs exit codes).                                    *)
TypeOK ==
  /\ code \in Codebases /\ failOn \in BOOLEAN
  /\ pc \in {"compare", "serve", "done"}
  /\ candidates \in SUBSET Pairs
  /\ server \in 1..(NumServers + 1)
  /\ phase \in {"begin", "open", "types", "callers", "callees", "shutdown"}
  /\ caps \in Caps
  /\ opened \in SUBSET Files /\ todo \in SUBSET Chunks
  /\ membership \in [Files -> {"unknown", "askable", "withheld", "taken"}]
  /\ answers \in [Chunks -> [types : Outcomes, callees : Outcomes,
                             callers : Outcomes \union {"withheld", "unreachable", "taken"}]]
  /\ perChunk \in [Servers -> [Chunks -> {"notACandidate", "unavailable", "noName", "asked"}]]
  /\ setup \in [Servers -> Failures] /\ first \in [Servers -> Failures]
  /\ exit \in {-1, 0, 1, 2}
  /\ starts \in [Servers -> Nat] /\ queries \in [Files -> Nat]
  /\ ended \in [Servers -> BOOLEAN]

IsOver(s) == server > s

(* With --fail-on the run says 0 or 1 only if the check was really made:   *)
(* about every chunk of a candidate pair that some server reads, all three *)
(* questions were answered, or are known not to be answerable, by a server *)
(* that ended normally; only a chunk without a name was not asked about.   *)
(* No failure at any point, in any order, is lost on its way to the exit   *)
(* code (exit_code_of: a failed check must not pass for a clean one).      *)
FailsClosed ==
  pc = "done" /\ failOn /\ exit \in {0, 1} =>
    \A c \in AskedChunks, s \in Servers : IsServer(s, Grammar(code, c)) =>
      IF c \in code.named
      THEN /\ perChunk[s][c] = "asked" /\ ended[s]
           /\ answers[c].types = "answer" /\ answers[c].callees = "answer"
           /\ answers[c].callers \in {"answer", "withheld"}
      ELSE perChunk[s][c] = "noName"

(* The one error reported for a server is the failure that happened first, *)
(* although it is looked up only afterwards, signal by signal and chunk by *)
(* chunk; a failure of the shutdown takes its place (ScanSemantics::       *)
(* into_error).                                                            *)
FirstFailureUnlessShutdown ==
  \A s \in Servers : IsOver(s) => \/ IntoError(s) = first[s]
                                 \/ setup[s] = <<"shutdown", 0>>

(* What the doc of into_error says: the failure that came first is         *)
(* reported, a later one does not overwrite it.                            *)
FirstFailureReported ==
  \A s \in Servers : IsOver(s) => IntoError(s) = first[s]

(* An answer is used for a verdict only if it was asked for in a session   *)
(* that ended normally (scan_semantics_of: the answers of a server that    *)
(* ends abnormally are not taken).                                         *)
AnswersNeedCleanEnd ==
  \A s \in Servers, c \in Chunks : perChunk[s][c] = "asked" =>
    /\ ended[s] /\ starts[s] = 1
    /\ "unasked" \notin {answers[c].types, answers[c].callers, answers[c].callees}

(* The membership of a file is asked for at most once, and only if the     *)
(* file has a chunk whose callers will be asked for                        *)
(* (asked_scan_semantics_of, memberships).                                 *)
MembershipAskedOnce ==
  \A f \in Files : /\ queries[f] <= 1
                   /\ queries[f] = 1 => \E c \in AskedChunks \intersect code.named :
                                           code.file[c] = f

(* The verdict of a candidate pair reads what was asked for both its       *)
(* chunks: the server looked up by the grammar of the first one holds      *)
(* results for the second one as well (ServedSemantics::for_grammar).      *)
ReadWhereAsked ==
  \A p \in candidates, s \in Servers :
    IsOver(s) /\ IsServer(s, Grammar(code, p[1])) =>
      "notACandidate" \notin {perChunk[s][p[1]], perChunk[s][p[2]]}

(* Two servers that read the same language do not both talk about a chunk, *)
(* so no failure of the one that is not needed fails the run               *)
(* (ServedSemantics::ask).                                                 *)
OneServerPerChunk ==
  \A c \in Chunks : \A s, t \in Servers :
    perChunk[s][c] # "notACandidate" /\ perChunk[t][c] # "notACandidate" => s = t

-----------------------------------------------------------------------------
(* The inductive invariant behind the theorems of ScanProofs.              *)

(* Nothing was asked before the candidates are known.                      *)
NothingBeforeCandidates ==
  pc = "compare" => /\ server = 1 /\ phase = "begin"
                    /\ perChunk = [s \in Servers |-> [c \in Chunks |-> "notACandidate"]]
                    /\ setup = [s \in Servers |-> None]

CandidatesKnown == candidates \subseteq CandidatesOf(code)

(* Something is kept of a server for exactly the chunks it serves, as soon *)
(* as it is over or has failed; answers only of one that has not failed.   *)
KeptIfServed ==
  \A s \in Servers, c \in Chunks :
    /\ perChunk[s][c] # "notACandidate" => c \in Served(s)
    /\ perChunk[s][c] = "asked" => s < server /\ setup[s] = None
    /\ c \in Served(s) /\ (s < server \/ setup[s] # None) => perChunk[s][c] # "notACandidate"

(* Whether the question about c has had its turn in the conversation.      *)
Asked(signal, c) ==
  \/ phase = signal /\ c \notin todo
  \/ signal = "types" /\ phase \in {"callers", "callees", "shutdown"}
  \/ signal = "callers" /\ phase \in {"callees", "shutdown"}
  \/ signal = "callees" /\ phase = "shutdown"

SessionInStep ==
  /\ server \in Servers => todo \subseteq Askable(server)
  /\ phase = "begin" => todo = {} /\ \A f \in Files : membership[f] = "unknown"
  /\ server \in Servers /\ phase # "begin" => starts[server] = 1
  /\ \A s \in Servers : s > server \/ (s = server /\ phase = "begin") => starts[s] = 0

(* Every question that had its turn has its outcome; a chunk that found    *)
(* the failed membership of its file taken can name the one that took it.  *)
QuestionsAnswered ==
  server \in Servers /\ phase # "begin" /\ setup[server] = None =>
    /\ \A c \in Askable(server) :
         /\ Asked("types", c) => answers[c].types # "unasked"
         /\ Asked("callers", c) => answers[c].callers # "unasked"
         /\ Asked("callees", c) => answers[c].callees # "unasked"
         /\ Asked("callers", c) /\ answers[c].callers = "taken" =>
              membership[code.file[c]] = "taken"
    /\ \A f \in Files : membership[f] = "taken" =>
         \E d \in Askable(server) : Asked("callers", d) /\ answers[d].callers = "unreachable"

(* What a server that ended normally leaves behind.                        *)
LeftBehind(s) ==
  /\ perChunk[s] = PerChunk(s) /\ ended[s] /\ starts[s] = 1
  /\ \A c \in Askable(s) :
       /\ answers[c].types # "unasked" /\ answers[c].callers # "unasked"
       /\ answers[c].callees # "unasked"
       /\ answers[c].callers = "taken" =>
            \E d \in Askable(s) : answers[d].callers = "unreachable"

EarlierServers ==
  \A s \in Servers : s < server => setup[s] # None \/ Served(s) = {} \/ LeftBehind(s)

(* No failure is known of a server: what IntoError looks for.              *)
NoError(s) ==
  /\ setup[s] = None
  /\ FailedChunks(s, "types", {"error"}) = {}
  /\ FailedChunks(s, "callers", {"error", "unreachable"}) = {}
  /\ FailedChunks(s, "callees", {"error"}) = {}

(* A run that ends with 0 or 1 has looked for errors and found none.       *)
NoErrorAtTheEnd ==
  pc = "done" /\ failOn /\ exit \in {0, 1} =>
    server > NumServers /\ \A s \in Servers : NoError(s)

ScanInvariant ==
  /\ TypeOK
  /\ NothingBeforeCandidates
  /\ CandidatesKnown
  /\ KeptIfServed
  /\ SessionInStep
  /\ QuestionsAnswered
  /\ EarlierServers
  /\ NoErrorAtTheEnd
-----------------------------------------------------------------------------
(* What stands behind the memberships and the first failure: ScanInvariant *)
(* with the conjuncts below.                                               *)

(* The membership of a file was asked for by a server that is over, or by  *)
(* the current one, which then remembers what it knows of it.              *)
QueriesInStep ==
  \A f \in Files :
    /\ queries[f] \in {0, 1}
    /\ queries[f] = 1 =>
         \E s \in Servers : \E c \in Askable(s) :
           /\ code.file[c] = f
           /\ s < server \/ (s = server /\ membership[f] # "unknown")

(* A question goes through the chunks in their order.                      *)
TodoInOrder ==
  server \in Servers => \A c \in Askable(server) \ todo, d \in todo : c < d

(* What a look at all the failures, signal by signal and chunk by chunk,   *)
(* finds first.                                                            *)
FoundFirst(said, types, callers, callees, cause) ==
  \/ types = {} /\ callers = {} /\ callees = {} /\ cause = None
  \/ \E c \in types : IsFirst(c, types) /\ cause = <<"types", c>>
  \/ types = {} /\ \E c \in callers :
       /\ IsFirst(c, callers)
       /\ cause = <<IF said[c].callers = "error" THEN "callers" ELSE "membership", c>>
  \/ types = {} /\ callers = {} /\ \E c \in callees :
       IsFirst(c, callees) /\ cause = <<"callees", c>>

(* The chunks whose question has failed in the conversation so far.        *)
FailedSoFar(signal, how) ==
  {c \in Askable(server) : Asked(signal, c) /\ answers[c][signal] \in how}

FirstSoFar ==
  FoundFirst(answers, FailedSoFar("types", {"error"}),
             FailedSoFar("callers", {"error", "unreachable"}),
             FailedSoFar("callees", {"error"}), first[server])

FirstInStep ==
  /\ \A s \in Servers : s > server \/ (s = server /\ phase = "begin") =>
       first[s] = None /\ setup[s] = None
  /\ server \in Servers /\ phase = "open" => setup[server] = None
  /\ server \in Servers /\ phase # "begin" =>
       IF setup[server] = None THEN FirstSoFar ELSE first[server] = setup[server]

(* The first failure of a server that is over is the one reported.         *)
FirstIsReported(s) ==
  IF setup[s] # None THEN setup[s] = <<"shutdown", 0>> \/ first[s] = setup[s]
  ELSE FoundFirst(answers, FailedChunks(s, "types", {"error"}),
                  FailedChunks(s, "callers", {"error", "unreachable"}),
                  FailedChunks(s, "callees", {"error"}), first[s])

FailureInvariant ==
  /\ ScanInvariant
  /\ QueriesInStep
  /\ TodoInOrder
  /\ FirstInStep
  /\ \A s \in Servers : s < server => FirstIsReported(s)
=============================================================================
