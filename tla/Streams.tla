------------------------------- MODULE Streams -------------------------------
(***************************************************************************)
(* The two threads between the client and the pipes of a server: one that  *)
(* writes what the client hands over (src/src/lsp/child_input.rs) and one  *)
(* that drains what the server prints (src/src/lsp/child_output.rs).  They *)
(* turn blocking pipes into calls that give up after a limit.              *)
(*                                                                         *)
(* The bytes of a direction are numbered as they are produced, so that a   *)
(* lost, doubled or reordered byte shows.  The pipes are those of the      *)
(* operating system and external, as is the server: it reads and prints as *)
(* it likes, exits, and may leave a process behind that holds the pipes.   *)
(***************************************************************************)
EXTENDS Naturals, Sequences

CONSTANTS
  WriteChunk,    \* WRITE_CHUNK_BYTES
  ReadChunk,     \* READ_CHUNK_BYTES
  PendingChunks, \* PENDING_CHUNKS
  PipeSize,      \* what a pipe holds
  MaxWrite,      \* bound: bytes of one write_all
  MaxOffered,    \* bound: bytes the client writes in all
  MaxSaid        \* bound: bytes the server prints in all

ASSUME StreamsAssumption ==
  /\ {WriteChunk, ReadChunk, PendingChunks, PipeSize, MaxWrite} \subseteq Nat \ {0}
  /\ {MaxOffered, MaxSaid} \subseteq Nat

VARIABLES
  pc,        \* the client's thread: "idle", "writing", "waiting" or "reading"
  rest,      \* what write_all has still to write
  exceeded,  \* IntakeLimitedWriter::exceeded
  pending,   \* SilenceLimitedReader::pending, from consumed on
  dropped,   \* the client is gone, with its ends of the channels
  chunks,    \* the channel to the writing thread
  written,   \* the channel back from it
  writer,    \* the writing thread: "receiving", "writing", "reporting", "leaving", "gone"
  hand,      \* what is left of the chunk it writes
  drained,   \* the channel from the reading thread
  reader,    \* the reading thread: "reading", "sending", "gone"
  held,      \* the chunk it has read, or Broken
  input, output, \* the pipes
  running,   \* the server runs
  holder,    \* a process it started has the pipes open
  \* history
  offered,   \* bytes the client began to write
  arrived,   \* bytes that went into the input pipe
  confirmed, \* bytes the client was told are written
  failed,    \* a write has failed
  heard,     \* bytes the server has read
  said,      \* bytes the server has printed
  drawn,     \* bytes the reading thread has read
  taken,     \* bytes the client has read
  over       \* what the client was told of the end of the output

client == <<pc, rest, exceeded, pending, dropped>>
writing == <<chunks, written, writer, hand>>
reading == <<drained, reader, held>>
pipes == <<input, output>>
server == <<running, holder>>
inputHistory == <<offered, arrived, confirmed, failed, heard>>
outputHistory == <<said, drawn, taken, over>>
vars == <<client, writing, reading, pipes, server, inputHistory, outputHistory>>

(* An error of the pipe, in the place of a chunk.                          *)
Broken == <<>>

Bytes(n) == [i \in 1..n |-> i]

Least(m, n) == IF m < n THEN m ELSE n

From(s, n) == SubSeq(s, n + 1, Len(s))

(* Somebody has the other ends of the pipes.                               *)
Open == running \/ holder

Init ==
  /\ pc = "idle" /\ rest = <<>> /\ exceeded = FALSE /\ pending = <<>> /\ dropped = FALSE
  /\ chunks = <<>> /\ written = <<>> /\ writer = "receiving" /\ hand = <<>>
  /\ drained = <<>> /\ reader = "reading" /\ held = <<>>
  /\ input = <<>> /\ output = <<>>
  /\ running = TRUE /\ holder = FALSE
  /\ offered = 0 /\ arrived = <<>> /\ confirmed = 0 /\ failed = FALSE /\ heard = <<>>
  /\ said = 0 /\ drawn = <<>> /\ taken = <<>> /\ over = "no"

-----------------------------------------------------------------------------
(* The client writes: write_all over IntakeLimitedWriter::write.           *)

Write ==
  /\ pc = "idle" /\ ~dropped
  /\ \E n \in 1..MaxWrite :
       /\ offered + n <= MaxOffered
       /\ offered' = offered + n
       /\ rest' = [i \in 1..n |-> offered + i]
  /\ pc' = "writing"
  /\ UNCHANGED <<exceeded, pending, dropped, writing, reading, pipes, server,
                 arrived, confirmed, failed, heard, outputHistory>>

WriteFails == pc' = "idle" /\ rest' = <<>> /\ failed' = TRUE

(* The next chunk is handed over.  The send waits while the channel is     *)
(* full and fails when the thread is gone.                                 *)
HandOver ==
  /\ pc = "writing" /\ ~exceeded
  /\ writer # "gone" /\ chunks = <<>>
  /\ chunks' = <<SubSeq(rest, 1, Least(WriteChunk, Len(rest)))>>
  /\ pc' = "waiting"
  /\ UNCHANGED <<rest, exceeded, pending, dropped, written, writer, hand, reading, pipes, server,
                 inputHistory, outputHistory>>

(* Refused without waiting: the limit was over before, or the thread ended *)
(* with an earlier failure.                                                *)
Refused ==
  /\ pc = "writing" /\ (exceeded \/ writer = "gone")
  /\ WriteFails
  /\ UNCHANGED <<exceeded, pending, dropped, writing, reading, pipes, server,
                 offered, arrived, confirmed, heard, outputHistory>>

(* The thread reports on the chunk.                                        *)
Reported ==
  /\ pc = "waiting" /\ written # <<>>
  /\ written' = Tail(written)
  /\ IF Head(written)
     THEN LET n == Least(WriteChunk, Len(rest))
          IN  /\ confirmed' = rest[n]
              /\ rest' = From(rest, n)
              /\ pc' = IF rest' = <<>> THEN "idle" ELSE "writing"
              /\ UNCHANGED failed
     ELSE WriteFails /\ UNCHANGED confirmed
  /\ UNCHANGED <<exceeded, pending, dropped, chunks, writer, hand, reading, pipes, server,
                 offered, arrived, heard, outputHistory>>

(* Mistake: the limit is not remembered.                                   *)
Slip_LimitForgotten ==
  /\ pc = "waiting" /\ written = <<>> /\ writer # "gone"
  /\ WriteFails
  /\ UNCHANGED <<exceeded, pending, dropped, writing, reading, pipes, server,
                 offered, arrived, confirmed, heard, outputHistory>>

IntakeLimitPasses ==
  /\ pc = "waiting" /\ written = <<>> /\ writer # "gone"
  /\ exceeded' = TRUE
  /\ WriteFails
  /\ UNCHANGED <<pending, dropped, writing, reading, pipes, server,
                 offered, arrived, confirmed, heard, outputHistory>>

(* The thread was on its way out when the chunk was handed over.           *)
Disconnected ==
  /\ pc = "waiting" /\ written = <<>> /\ writer = "gone"
  /\ WriteFails
  /\ UNCHANGED <<exceeded, pending, dropped, writing, reading, pipes, server,
                 offered, arrived, confirmed, heard, outputHistory>>

-----------------------------------------------------------------------------
(* The writing thread.                                                     *)

WriterReceives ==
  /\ writer = "receiving" /\ chunks # <<>>
  /\ hand' = Head(chunks) /\ chunks' = Tail(chunks)
  /\ writer' = "writing"
  /\ UNCHANGED <<client, written, reading, pipes, server, inputHistory, outputHistory>>

(* One more byte goes into the pipe, which may be full.                    *)
WriterPuts ==
  /\ writer = "writing" /\ hand # <<>> /\ Open /\ Len(input) < PipeSize
  /\ input' = Append(input, Head(hand)) /\ arrived' = Append(arrived, Head(hand))
  /\ hand' = Tail(hand)
  /\ writer' = IF hand' = <<>> THEN "reporting" ELSE "writing"
  /\ UNCHANGED <<client, chunks, written, reading, output, server,
                 offered, confirmed, failed, heard, outputHistory>>

(* Nobody will read: what is left in hand tells the report.                *)
WriterBreaks ==
  /\ writer = "writing" /\ ~Open
  /\ writer' = "reporting"
  /\ UNCHANGED <<client, chunks, written, hand, reading, pipes, server,
                 inputHistory, outputHistory>>

WriterReports ==
  /\ writer = "reporting" /\ ~dropped /\ written = <<>>
  /\ written' = <<hand = <<>>>> /\ hand' = <<>>
  /\ writer' = IF hand = <<>> THEN "receiving" ELSE "leaving"
  /\ UNCHANGED <<client, chunks, reading, pipes, server, inputHistory, outputHistory>>

(* Mistake: the thread waits for chunks of a client that is gone.          *)
Slip_WriterStays ==
  /\ writer \in {"reporting", "leaving"} /\ (writer = "reporting" => dropped)
  /\ writer' = "gone" /\ chunks' = <<>> /\ hand' = <<>>
  /\ UNCHANGED <<client, written, reading, pipes, server, inputHistory, outputHistory>>

(* Nobody to report to, no more chunks, or a write that failed.            *)
WriterLeaves ==
  /\ \/ writer = "reporting" /\ dropped
     \/ writer = "receiving" /\ dropped /\ chunks = <<>>
     \/ writer = "leaving"
  /\ writer' = "gone" /\ chunks' = <<>> /\ hand' = <<>>
  /\ UNCHANGED <<client, written, reading, pipes, server, inputHistory, outputHistory>>

-----------------------------------------------------------------------------
(* The reading thread.                                                     *)

ReaderReads ==
  /\ reader = "reading" /\ output # <<>>
  /\ \E n \in 1..Least(ReadChunk, Len(output)) :
       /\ held' = SubSeq(output, 1, n) /\ drawn' = drawn \o held'
       /\ output' = From(output, n)
  /\ reader' = "sending"
  /\ UNCHANGED <<client, writing, drained, input, server, inputHistory, said, taken, over>>

(* An error other than an interrupted read is passed on.                   *)
ReaderBreaks ==
  /\ reader = "reading"
  /\ held' = Broken /\ reader' = "sending"
  /\ UNCHANGED <<client, writing, drained, pipes, server, inputHistory, outputHistory>>

ReaderEnds ==
  /\ reader = "reading" /\ output = <<>> /\ ~Open
  /\ reader' = "gone"
  /\ UNCHANGED <<client, writing, drained, held, pipes, server, inputHistory, outputHistory>>

(* Mistake: a channel without a limit.                                     *)
Slip_Unlimited ==
  /\ reader = "sending" /\ ~dropped
  /\ drained' = Append(drained, held)
  /\ reader' = IF held = Broken THEN "gone" ELSE "reading"
  /\ held' = <<>>
  /\ UNCHANGED <<client, writing, pipes, server, inputHistory, outputHistory>>

(* The send waits while the channel is full: the pipe fills behind it and  *)
(* the server waits.                                                       *)
ReaderSends ==
  /\ reader = "sending" /\ ~dropped /\ Len(drained) < PendingChunks
  /\ drained' = Append(drained, held)
  /\ reader' = IF held = Broken THEN "gone" ELSE "reading"
  /\ held' = <<>>
  /\ UNCHANGED <<client, writing, pipes, server, inputHistory, outputHistory>>

(* The client is gone: the send fails, also one that was waiting.          *)
ReaderLeaves ==
  /\ reader = "sending" /\ dropped
  /\ reader' = "gone" /\ held' = <<>>
  /\ UNCHANGED <<client, writing, drained, pipes, server, inputHistory, outputHistory>>

-----------------------------------------------------------------------------
(* The client reads: SilenceLimitedReader::read.                           *)

(* What is left of the last chunk is returned without waiting.             *)
ReadPending ==
  /\ pc = "idle" /\ ~dropped /\ pending # <<>>
  /\ \E n \in 1..Len(pending) :
       taken' = taken \o SubSeq(pending, 1, n) /\ pending' = From(pending, n)
  /\ UNCHANGED <<pc, rest, exceeded, dropped, writing, reading, pipes, server, inputHistory,
                 said, drawn, over>>

Read ==
  /\ pc = "idle" /\ ~dropped /\ pending = <<>>
  /\ pc' = "reading"
  /\ UNCHANGED <<rest, exceeded, pending, dropped, writing, reading, pipes, server,
                 inputHistory, outputHistory>>

ReadReturns == pc = "reading" /\ pc' = "idle" /\ UNCHANGED <<rest, exceeded, dropped>>

ReadChunkTaken ==
  /\ ReadReturns /\ drained # <<>> /\ Head(drained) # Broken
  /\ drained' = Tail(drained)
  /\ \E n \in 1..Len(Head(drained)) :
       /\ taken' = taken \o SubSeq(Head(drained), 1, n)
       /\ pending' = From(Head(drained), n)
  /\ UNCHANGED <<writing, reader, held, pipes, server, inputHistory, said, drawn, over>>

ReadBroken ==
  /\ ReadReturns /\ drained # <<>> /\ Head(drained) = Broken
  /\ drained' = Tail(drained)
  /\ over' = IF over = "no" THEN "failed" ELSE over
  /\ UNCHANGED <<pending, writing, reader, held, pipes, server, inputHistory, said, drawn, taken>>

SilenceLimitPasses ==
  /\ ReadReturns /\ drained = <<>> /\ reader # "gone"
  /\ UNCHANGED <<pending, writing, reading, pipes, server, inputHistory, outputHistory>>

ReadEnd ==
  /\ ReadReturns /\ drained = <<>> /\ reader = "gone"
  /\ over' = IF over = "no" THEN "ended" ELSE over
  /\ UNCHANGED <<pending, writing, reading, pipes, server, inputHistory, said, drawn, taken>>

-----------------------------------------------------------------------------
(* The server (external) and the end of the client.                        *)

ServerReads ==
  /\ Open /\ input # <<>>
  /\ heard' = Append(heard, Head(input)) /\ input' = Tail(input)
  /\ UNCHANGED <<client, writing, reading, output, server,
                 offered, arrived, confirmed, failed, outputHistory>>

ServerPrints ==
  /\ Open /\ Len(output) < PipeSize /\ said < MaxSaid
  /\ output' = Append(output, said + 1) /\ said' = said + 1
  /\ UNCHANGED <<client, writing, reading, input, server, inputHistory, drawn, taken, over>>

ServerForks ==
  /\ running /\ ~holder /\ holder' = TRUE
  /\ UNCHANGED <<client, writing, reading, pipes, running, inputHistory, outputHistory>>

ServerExits ==
  /\ running /\ running' = FALSE
  /\ UNCHANGED <<client, writing, reading, pipes, holder, inputHistory, outputHistory>>

HolderExits ==
  /\ holder /\ holder' = FALSE
  /\ UNCHANGED <<client, writing, reading, pipes, running, inputHistory, outputHistory>>

(* Client::drop kills the server, then the channels go with the fields.    *)
Drop ==
  /\ pc = "idle" /\ ~dropped /\ dropped' = TRUE
  /\ running' = FALSE
  /\ UNCHANGED <<pc, rest, exceeded, pending, writing, reading, pipes, holder,
                 inputHistory, outputHistory>>

-----------------------------------------------------------------------------
ClientSteps ==
  \/ HandOver \/ Refused \/ Reported \/ IntakeLimitPasses \/ Disconnected
  \/ ReadChunkTaken \/ ReadBroken \/ SilenceLimitPasses \/ ReadEnd

WriterSteps == WriterReceives \/ WriterPuts \/ WriterBreaks \/ WriterReports \/ WriterLeaves

ReaderSteps == ReaderReads \/ ReaderEnds \/ ReaderSends \/ ReaderLeaves

World == ServerReads \/ ServerPrints \/ ServerForks \/ ServerExits \/ HolderExits

Next ==
  \/ Write \/ Read \/ ReadPending \/ Drop
  \/ ClientSteps \/ WriterSteps \/ ReaderSteps \/ ReaderBreaks \/ World

Spec == Init /\ [][Next]_vars

(* The three threads run; nothing is asked of the server.                  *)
FairSpec == Spec /\ WF_vars(ClientSteps) /\ WF_vars(WriterSteps) /\ WF_vars(ReaderSteps)

-----------------------------------------------------------------------------
(* Properties.                                                             *)

(* The shape of the state: struct IntakeLimitedWriter, struct              *)
(* SilenceLimitedReader, their channels and their threads.                 *)
TypeOK ==
  /\ pc \in {"idle", "writing", "waiting", "reading"}
  /\ writer \in {"receiving", "writing", "reporting", "leaving", "gone"}
  /\ reader \in {"reading", "sending", "gone"}
  /\ exceeded \in BOOLEAN /\ dropped \in BOOLEAN /\ failed \in BOOLEAN
  /\ running \in BOOLEAN /\ holder \in BOOLEAN
  /\ rest \in Seq(Nat) /\ hand \in Seq(Nat) /\ held \in Seq(Nat) /\ pending \in Seq(Nat)
  /\ input \in Seq(Nat) /\ output \in Seq(Nat) /\ arrived \in Seq(Nat)
  /\ heard \in Seq(Nat) /\ drawn \in Seq(Nat) /\ taken \in Seq(Nat)
  /\ chunks \in Seq(Seq(Nat)) /\ Len(chunks) <= 1
  /\ written \in Seq(BOOLEAN) /\ Len(written) <= 1
  /\ drained \in Seq(Seq(Nat)) /\ Len(drained) <= PendingChunks
  /\ offered \in Nat /\ confirmed \in Nat /\ said \in Nat
  /\ over \in {"no", "ended", "failed"}
  /\ pc \in {"writing", "waiting"} => rest # <<>>

In == INSTANCE ByteStream WITH
  written <- Bytes(offered), broken <- failed, taken <- heard, over <- "no"

Out == INSTANCE ByteStream WITH
  written <- Bytes(said), arrived <- drawn, confirmed <- 0, broken <- FALSE

(* With two threads, three channels and limits that pass at any moment,    *)
(* each direction is still a plain stream of bytes: in particular the late *)
(* report on a chunk given up on is never taken for a report on a later    *)
(* one, a silence limit loses nothing, and the end of the output is told   *)
(* after the last byte (docs of IntakeLimitedWriter, SilenceLimitedReader).*)
BothAreStreams == In!Spec /\ Out!Spec

(* Every read and write returns, also when the server waits for its output *)
(* to be read while the client waits for its input to be taken, or when a  *)
(* process left behind holds the pipes (doc of IntakeLimitedWriter::       *)
(* exceeded: handing over one more chunk would block).                     *)
CallsReturn == pc # "idle" ~> pc = "idle"

(* Once the client is gone and nobody holds the pipes, neither thread is   *)
(* left behind, wherever they were blocked (docs of the two spawn).        *)
ThreadsEnd == (dropped /\ ~holder) ~> (writer = "gone" /\ reader = "gone")

-----------------------------------------------------------------------------
(* The inductive invariant behind the refinement (module StreamsProofs):   *)
(* where every byte is that has been produced and not yet received.        *)

(* The bytes of s are the ones that follow the first n.                    *)
Follows(s, n) == \A i \in 1..Len(s) : s[i] = n + i

(* A chunk that has been handed over, or is being written, comes next.     *)
InputInStep ==
  /\ Follows(heard, 0) /\ Follows(input, Len(heard)) /\ Follows(arrived, 0)
  /\ Len(heard) + Len(input) = Len(arrived)
  /\ confirmed <= Len(arrived) /\ Len(arrived) + Len(hand) <= offered
  /\ Follows(hand, Len(arrived))
  /\ writer = "writing" => hand # <<>>
  /\ writer \notin {"writing", "reporting"} => hand = <<>>
  /\ writer \in {"writing", "reporting"} => chunks = <<>>
  /\ writer = "receiving" /\ chunks # <<>> =>
       /\ chunks[1] # <<>> /\ Follows(chunks[1], Len(arrived))
       /\ Len(arrived) + Len(chunks[1]) <= offered

(* What is handed over next of a write that is under way.                  *)
Portion == Least(WriteChunk, Len(rest))

(* The chunk of the client that waits is in the channel, in the hand of    *)
(* the thread, or reported.                                                *)
Underway ==
  \/ /\ chunks = <<SubSeq(rest, 1, Portion)>> /\ written = <<>> /\ writer = "receiving"
     /\ Len(arrived) = confirmed
  \/ /\ chunks = <<>> /\ written = <<>> /\ writer \in {"writing", "reporting"}
     /\ Len(arrived) + Len(hand) = confirmed + Portion
  \/ /\ chunks = <<>> /\ written # <<>> /\ Head(written) /\ writer = "receiving"
     /\ Len(arrived) = confirmed + Portion
  \/ chunks = <<>> /\ written # <<>> /\ ~Head(written) /\ writer \in {"leaving", "gone"}

(* As long as no write has failed, what the client takes for done is what  *)
(* has arrived, and no report is left over from an earlier write.          *)
CallInStep ==
  /\ pc = "waiting" => Underway
  /\ pc # "waiting" => /\ chunks = <<>> /\ written = <<>> /\ Len(arrived) = confirmed
                       /\ writer = "receiving" \/ (writer = "gone" /\ dropped)
  /\ pc \in {"idle", "reading"} => confirmed = offered
  /\ pc \in {"writing", "waiting"} =>
       rest # <<>> /\ Follows(rest, confirmed) /\ confirmed + Len(rest) = offered

(* After a failure nothing more is handed over that could be reported.     *)
WritesInStep ==
  /\ ~failed => ~exceeded /\ CallInStep
  /\ failed => exceeded \/ (writer \in {"leaving", "gone"} /\ written = <<>>)
  /\ exceeded => pc # "waiting"

(* The last byte of the output before the n-th drained chunk.              *)
DrainedBefore(n) ==
  IF n = 1 THEN Len(taken) + Len(pending)
  ELSE IF drained[n - 1] = Broken THEN 0 ELSE drained[n - 1][Len(drained[n - 1])]

HasBroken == drained # <<>> /\ drained[Len(drained)] = Broken

(* The chunks in the channel come one after the other, an error comes last,*)
(* and the reading thread holds the next one.                              *)
DrainedInStep ==
  /\ \A n \in DOMAIN drained :
       IF drained[n] = Broken THEN n = Len(drained) /\ reader = "gone"
       ELSE Follows(drained[n], DrainedBefore(n))
  /\ IF HasBroken THEN DrainedBefore(Len(drained)) = Len(drawn)
     ELSE DrainedBefore(Len(drained) + 1) + Len(held) = Len(drawn)
  /\ \A n \in 1..(Len(drained) + 1) : DrainedBefore(n) <= Len(drawn)
  /\ HasBroken => over = "no"

OutputInStep ==
  /\ Follows(taken, 0) /\ Follows(pending, Len(taken)) /\ Follows(drawn, 0)
  /\ Follows(output, Len(drawn)) /\ Len(drawn) + Len(output) = said
  /\ Len(taken) + Len(pending) <= Len(drawn)
  /\ reader # "sending" => held = <<>>
  /\ dropped => pc = "idle"
  /\ pc = "reading" => pending = <<>>
  /\ ~dropped => Follows(held, Len(drawn) - Len(held)) /\ DrainedInStep
  /\ over # "no" => pending = <<>> /\ drained = <<>> /\ reader = "gone"
  /\ (reader = "gone" /\ ~dropped /\ over = "no" /\ ~HasBroken) \/ over = "ended" =>
       output = <<>> /\ ~Open

StreamInvariant == TypeOK /\ InputInStep /\ WritesInStep /\ OutputInStep
=============================================================================
