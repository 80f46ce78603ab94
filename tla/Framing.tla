------------------------------- MODULE Framing -------------------------------
(***************************************************************************)
(* How one frame of the base protocol is read (src/src/lsp/framing.rs):    *)
(* payload_of over a buffered reader that is refilled chunk by chunk, with *)
(* the limits of the header and of the payload and with a deadline.        *)
(*                                                                         *)
(* A byte is one of a few strings.  "n" is the end of a line (a carriage   *)
(* return before it is trimmed by the code and left out), a byte of        *)
(* Announced stands for the whole of a Content-Length header, "bad" for    *)
(* one whose value is no number, "x" for anything else; "w1" and "w2" are  *)
(* the two bytes of one character, and only together are they UTF-8.       *)
(***************************************************************************)
EXTENDS Naturals, SequencesExt

CONSTANTS
  MaxHeader,   \* MAX_HEADER_BYTES
  MaxPayload,  \* MAX_PAYLOAD_BYTES
  ChunkSize,   \* what one refill takes at most
  Announced,   \* the length each Content-Length byte stands for
  Texts,       \* the payloads a server frames, as sequences of characters
  Tails,       \* what may follow them on the wire, well formed or not
  MaxSent      \* bound: frames before the tail

(* What a text is made of: an end of line, another character of one byte,  *)
(* a character of two.                                                     *)
Characters == {"n", "x", "w"}

Bytes == DOMAIN Announced \cup {"n", "x", "w1", "w2", "bad"}

ASSUME FramingAssumption ==
  /\ {MaxHeader, MaxPayload, ChunkSize, MaxSent} \subseteq Nat
  /\ MaxHeader > 0 /\ ChunkSize > 0
  /\ Announced \in [DOMAIN Announced -> Nat]
  /\ DOMAIN Announced \cap {"n", "x", "w1", "w2", "bad"} = {}
  /\ Texts \subseteq Seq(Characters) /\ Tails \subseteq Seq(Bytes)

VARIABLES
  sent,     \* the texts the server has framed
  script,   \* history: everything on the wire, from the first byte on
  wire,     \* bytes still to arrive
  buffer,   \* arrived, not consumed: the inside of the BufReader
  late,     \* the deadline has passed
  pc,       \* "idle" between two frames, "line" or "body" in one, "ended"
  watched,  \* the call has a deadline
  line,     \* the line being read
  remaining, length, headerStarted, \* the locals of content_length_of
  frameStarted,                     \* DeadlineWatchedReader::frame_started
  payload,  \* what read_exact has filled
  read,     \* history: the payloads returned
  outcome,  \* the error returned, "none" before
  pieces,   \* history: chunks the frame has been taken from
  lateRefills \* history: refills of this call since the deadline passed

source == <<sent, script, wire, buffer>>
frame == <<watched, line, remaining, length, headerStarted, frameStarted, payload>>
history == <<read, pieces, lateRefills>>
vars == <<source, late, pc, frame, outcome, history>>

Lesser(m, n) == IF m < n THEN m ELSE n

From(s, n) == SubSeq(s, n + 1, Len(s))

(* One piece after the other: the first of them, and all of them.          *)
UpTo(parts) ==
  LET upTo[i \in 0..Len(parts)] == IF i = 0 THEN <<>> ELSE upTo[i - 1] \o parts[i] IN upTo

Joined(parts) == UpTo(parts)[Len(parts)]

(* The bytes of a text: the character "w" has two.                         *)
BytesOf(text) ==
  Joined([i \in 1..Len(text) |-> IF text[i] = "w" THEN <<"w1", "w2">> ELSE <<text[i]>>])

IsUtf8(bytes) ==
  \A i \in 1..Len(bytes) :
    /\ bytes[i] = "w1" => i < Len(bytes) /\ bytes[i + 1] = "w2"
    /\ bytes[i] = "w2" => i > 1 /\ bytes[i - 1] = "w1"

(* Content-Length counts bytes, not characters.                            *)
FramedBytesOf(text) ==
  <<CHOOSE b \in DOMAIN Announced : Announced[b] = Len(BytesOf(text)), "n", "n">>
    \o BytesOf(text)

(* What a server frames is announced, and within the limits: its header    *)
(* and two ends of a line, and the payload.                                *)
ASSUME TextsAssumption ==
  /\ MaxHeader >= 3
  /\ \A text \in Texts : LET size == Len(BytesOf(text))
                         IN  size <= MaxPayload /\ \E b \in DOMAIN Announced : Announced[b] = size

Wire(texts, tail) == Joined([i \in 1..Len(texts) |-> FramedBytesOf(texts[i])]) \o tail

Init ==
  /\ \E n \in 0..MaxSent, tail \in Tails :
       /\ sent \in [1..n -> Texts]
       /\ script = Wire(sent, tail)
  /\ wire = script
  /\ buffer = <<>> /\ late = FALSE /\ pc = "idle" /\ watched = FALSE
  /\ line = <<>> /\ remaining = MaxHeader /\ length = <<>> /\ headerStarted = FALSE
  /\ frameStarted = FALSE /\ payload = <<>>
  /\ read = <<>> /\ outcome = "none" /\ pieces = 0 /\ lateRefills = 0

(* payload_of is called, with a deadline that may have passed already or   *)
(* with none; a new wait has a new deadline.                               *)
PayloadOf ==
  /\ pc = "idle"
  /\ pc' = "line"
  /\ watched' \in BOOLEAN
  /\ late' \in {late, FALSE}
  /\ line' = <<>> /\ remaining' = MaxHeader /\ length' = <<>> /\ headerStarted' = FALSE
  /\ frameStarted' = FALSE /\ payload' = <<>>
  /\ pieces' = 0 /\ lateRefills' = 0
  /\ UNCHANGED <<source, outcome, read>>

DeadlinePasses ==
  /\ ~late
  /\ late' = TRUE
  /\ UNCHANGED <<source, pc, frame, outcome, history>>

Return(error) ==
  /\ pc' = "ended"
  /\ outcome' = error

(* The reader wants bytes and has none left.                               *)
Starved ==
  /\ buffer = <<>>
  /\ \/ pc = "line" /\ remaining > 0
     \/ pc = "body" /\ Len(payload) < length[1]

(* A deadline that is looked at even before the first byte of a frame.     *)
Slip_EvenBetweenFrames == watched /\ late

(* fill_buf: what has passed is looked at only when the frame goes on.     *)
PastDeadline == watched /\ frameStarted /\ late

(* The next chunk arrives; it is looked at only after that, so an end of   *)
(* the input keeps its own reason.                                         *)
Refill ==
  /\ Starved
  /\ \E n \in 1..Lesser(ChunkSize, Len(wire)) :
       /\ wire' = From(wire, n)
       /\ buffer' = SubSeq(wire, 1, n)
  /\ pieces' = pieces + 1
  /\ lateRefills' = IF late THEN lateRefills + 1 ELSE lateRefills
  /\ IF PastDeadline
     THEN Return("UnfinishedByDeadline") /\ UNCHANGED frameStarted
     ELSE frameStarted' = TRUE /\ UNCHANGED <<pc, outcome>>
  /\ UNCHANGED <<sent, script, late, watched, line, remaining, length, headerStarted, payload,
                 read>>

(* The server has closed its output.                                       *)
EndOfInput ==
  /\ Starved /\ wire = <<>>
  /\ Return(IF pc = "body" THEN "TruncatedFrame"
            ELSE IF ~IsUtf8(line) THEN "Read"
            ELSE IF line # <<>> \/ headerStarted THEN "TruncatedFrame" ELSE "ServerClosed")
  /\ UNCHANGED <<source, late, frame, history>>

(* The silence limit, or an error of the pipe.                             *)
RefillFails ==
  /\ Starved
  /\ Return("Read")
  /\ UNCHANGED <<source, late, frame, history>>

(* Where the next read_line stops: after an end of line, or where the      *)
(* buffer or the budget of the header ends.                                *)
LineStop ==
  LET most == Lesser(Len(buffer), remaining)
      ends == {i \in 1..most : buffer[i] = "n"}
  IN  IF ends = {} THEN most ELSE Min(ends)

(* A header line: it gives the length, cannot be read, or is another one.  *)
KindOf(text) ==
  IF ~IsUtf8(text) THEN "notUtf8"
  ELSE IF text = <<>> THEN "blank"
  ELSE IF text[1] \in DOMAIN Announced THEN IF Len(text) = 1 THEN "length" ELSE "malformed"
  ELSE IF text[1] = "bad" THEN "malformed" ELSE "other"

(* The line is complete: content_length_of after read_line.                *)
Line(text) ==
  LET kind == KindOf(text) IN
  CASE kind = "notUtf8" -> Return("Read") /\ UNCHANGED <<length, headerStarted>>
    [] kind = "blank" ->
         /\ CASE length = <<>> -> Return("MissingContentLength")
              [] length # <<>> /\ length[1] > MaxPayload -> Return("PayloadTooLarge")
              [] OTHER -> pc' = "body" /\ UNCHANGED outcome
         /\ UNCHANGED <<length, headerStarted>>
    [] kind \in {"length", "malformed"} /\ length # <<>> ->
         Return("DuplicateContentLength") /\ headerStarted' = TRUE /\ UNCHANGED length
    [] kind = "malformed" /\ length = <<>> ->
         Return("MalformedContentLength") /\ headerStarted' = TRUE /\ UNCHANGED length
    [] OTHER ->
         /\ headerStarted' = TRUE
         /\ length' = IF kind = "length" THEN <<Announced[text[1]]>> ELSE length
         /\ UNCHANGED <<pc, outcome>>

(* A line that forgets what it had of an earlier chunk.                    *)
Slip_LineForgotten ==
  /\ pc = "line" /\ remaining > 0 /\ buffer # <<>>
  /\ LET n == LineStop
         taken == SubSeq(buffer, 1, n)
     IN  /\ buffer' = From(buffer, n)
         /\ remaining' = remaining - n
         /\ IF buffer[n] = "n"
            THEN line' = <<>> /\ Line(SubSeq(taken, 1, n - 1))
            ELSE /\ line' = taken
                 /\ UNCHANGED <<pc, outcome, length, headerStarted>>
  /\ frameStarted' = TRUE
  /\ pieces' = IF pieces = 0 THEN 1 ELSE pieces
  /\ UNCHANGED <<sent, script, wire, late, watched, payload, read, lateRefills>>

(* read_line takes what the buffer has of the line.                        *)
ReadLine ==
  /\ pc = "line" /\ remaining > 0 /\ buffer # <<>>
  /\ LET n == LineStop
         text == line \o SubSeq(buffer, 1, n)
     IN  /\ buffer' = From(buffer, n)
         /\ remaining' = remaining - n
         /\ IF buffer[n] = "n"
            THEN line' = <<>> /\ Line(SubSeq(text, 1, Len(text) - 1))
            ELSE line' = text /\ UNCHANGED <<pc, outcome, length, headerStarted>>
  /\ frameStarted' = TRUE
  /\ pieces' = IF pieces = 0 THEN 1 ELSE pieces
  /\ UNCHANGED <<sent, script, wire, late, watched, payload, read, lateRefills>>

(* The budget of the header is used up, between two lines or within one.   *)
HeaderTooLong ==
  /\ pc = "line" /\ remaining = 0
  /\ Return(IF IsUtf8(line) THEN "HeaderTooLong" ELSE "Read")
  /\ UNCHANGED <<source, late, frame, history>>

(* read_exact takes what the buffer has of the payload.                    *)
ReadBody ==
  /\ pc = "body" /\ Len(payload) < length[1] /\ buffer # <<>>
  /\ LET n == Lesser(Len(buffer), length[1] - Len(payload))
     IN  payload' = payload \o SubSeq(buffer, 1, n) /\ buffer' = From(buffer, n)
  /\ UNCHANGED <<sent, script, wire, late, pc, watched, line, remaining, length,
                 headerStarted, frameStarted, outcome, history>>

PayloadComplete ==
  /\ pc = "body" /\ Len(payload) = length[1]
  /\ IF IsUtf8(payload)
     THEN pc' = "idle" /\ read' = Append(read, payload) /\ UNCHANGED outcome
     ELSE Return("NotUtf8") /\ UNCHANGED read
  /\ UNCHANGED <<source, late, frame, pieces, lateRefills>>

Next ==
  \/ PayloadOf \/ DeadlinePasses
  \/ Refill \/ EndOfInput \/ RefillFails
  \/ ReadLine \/ HeaderTooLong
  \/ ReadBody \/ PayloadComplete

Spec == Init /\ [][Next]_vars

-----------------------------------------------------------------------------
(* What the bytes of a wire mean, read as a whole and without chunks.      *)

(* The line that begins at p: where it ends, and of what kind it is.       *)
Ends(s, p) == {i \in p..Len(s) : s[i] = "n"}

LineEnd(s, p) == Min(Ends(s, p))

LineKind(s, p) ==
  IF Ends(s, p) = {} THEN "unended" ELSE KindOf(SubSeq(s, p, LineEnd(s, p) - 1))

(* The lines of a header that begins at h.                                 *)
LineStarts(s, h) == {h} \cup {i + 1 : i \in Ends(s, h)}

(* Those before the one at p that give a length.                           *)
Lengths(s, h, p) == {q \in LineStarts(s, h) : q < p /\ LineKind(s, q) = "length"}

IsWithinLimit(s, h, p) == Ends(s, p) # {} /\ LineEnd(s, p) < h + MaxHeader

(* After this line there is no other in the header.                        *)
IsLast(s, h, p) ==
  ~ /\ IsWithinLimit(s, h, p)
    /\ \/ LineKind(s, p) = "other"
       \/ LineKind(s, p) = "length" /\ Lengths(s, h, p) = {}

LastLine(s, h) == Min({q \in LineStarts(s, h) : IsLast(s, h, q)})

Header(s, h) ==
  LET p == LastLine(s, h)
      kind == LineKind(s, p)
      lengths == Lengths(s, h, p)
      refused(error) == [error |-> error, length |-> 0, next |-> 0]
  IN  IF ~IsWithinLimit(s, h, p)
      THEN IF Len(s) >= h + MaxHeader - 1
           THEN refused(IF IsUtf8(SubSeq(s, p, h + MaxHeader - 1)) THEN "HeaderTooLong" ELSE "Read")
           ELSE refused(IF ~IsUtf8(SubSeq(s, p, Len(s))) THEN "Read"
                        ELSE IF h > Len(s) THEN "ServerClosed" ELSE "TruncatedFrame")
      ELSE IF kind = "notUtf8" THEN refused("Read")
      ELSE IF kind = "blank"
      THEN IF lengths = {} THEN refused("MissingContentLength")
           ELSE [error |-> "none", length |-> Announced[s[Min(lengths)]],
                 next |-> LineEnd(s, p) + 1]
      ELSE refused(IF lengths # {} THEN "DuplicateContentLength" ELSE "MalformedContentLength")

(* A frame that begins at p, and what is known of all behind it.           *)
MeaningAt(s, p, from) ==
  LET h == Header(s, p)
      last == h.next + h.length - 1
      stop(error) == [payloads |-> <<>>, error |-> error]
  IN  IF h.error # "none" THEN stop(h.error)
      ELSE IF h.length > MaxPayload THEN stop("PayloadTooLarge")
      ELSE IF last > Len(s) THEN stop("TruncatedFrame")
      ELSE IF ~IsUtf8(SubSeq(s, h.next, last)) THEN stop("NotUtf8")
      ELSE [payloads |-> <<SubSeq(s, h.next, last)>> \o from[last + 1].payloads,
            error |-> from[last + 1].error]

(* From each position on: every payload, then the reason why there is no   *)
(* other.                                                                  *)
Meanings(s) == LET from[p \in 1..Len(s) + 1] == MeaningAt(s, p, from) IN from

Meaning(s) == Meanings(s)[1]

(* However the bytes are cut into chunks: what is read is what the server  *)
(* framed, text by text and then what the rest of the wire means, and a    *)
(* refusal other than a failed read or the deadline is the one the whole   *)
(* wire deserves (framed_bytes_of, content_length_of, framed_payload_of).  *)
ReadsWhatWasSent ==
  LET meant == Meaning(script) IN
  /\ IsPrefix([i \in 1..Len(sent) |-> BytesOf(sent[i])], meant.payloads)
  /\ IsPrefix(read, meant.payloads)
  /\ outcome \notin {"none", "Read", "UnfinishedByDeadline"} =>
       read = meant.payloads /\ outcome = meant.error

-----------------------------------------------------------------------------
TypeOK ==
  /\ late \in BOOLEAN /\ watched \in BOOLEAN
  /\ headerStarted \in BOOLEAN /\ frameStarted \in BOOLEAN
  /\ pc \in {"idle", "line", "body", "ended"}
  /\ remaining \in 0..MaxHeader
  /\ Len(length) <= 1
  /\ pieces \in Nat /\ lateRefills \in Nat

(* A deadline gives up only a frame that had begun and was still           *)
(* incomplete when its first chunk was used up: one that came whole is     *)
(* returned however late it is.  And it ends the wait: once it has passed, *)
(* payload_of takes at most the first bytes of a frame and one             *)
(* continuation (payload_of and DeadlineWatchedReader::fill_buf).          *)
DeadlineIsForTheRestOfAFrame ==
  /\ outcome = "UnfinishedByDeadline" => late /\ pieces >= 2
  /\ watched => lateRefills <= 2

(* The inductive invariant behind the theorem of FramingProofs: a frame    *)
(* that has started has come in at least one piece; once its deadline has  *)
(* passed one piece may come, which starts it, and no other; and nothing   *)
(* is done after an error.                                                 *)
DeadlineInvariant ==
  /\ late \in BOOLEAN /\ watched \in BOOLEAN /\ frameStarted \in BOOLEAN
  /\ pieces \in Nat /\ lateRefills \in Nat
  /\ outcome # "none" => pc = "ended"
  /\ outcome = "UnfinishedByDeadline" => late /\ pieces >= 2
  /\ frameStarted => pieces >= 1
  /\ watched /\ pc # "ended" => lateRefills <= 1 /\ (lateRefills = 1 => frameStarted)
  /\ watched => lateRefills <= 2

(* Where the frame begins that is being read, counted back from what has   *)
(* been consumed.                                                          *)
Consumed == Len(script) - Len(wire) - Len(buffer)

FrameStart ==
  CASE pc = "line" -> Consumed + 1 - (MaxHeader - remaining)
    [] pc = "body" -> Consumed + 1 - (MaxHeader - remaining) - Len(payload)
    [] OTHER -> Consumed + 1

LineStart == Consumed + 1 - Len(line)

(* No byte is lost or doubled on its way.                                  *)
BytesInPlace ==
  /\ script \in Seq(Bytes) /\ wire \in Seq(Bytes) /\ buffer \in Seq(Bytes)
  /\ Len(wire) + Len(buffer) <= Len(script)
  /\ \A i \in 1..Len(buffer) : buffer[i] = script[Consumed + i]
  /\ \A i \in 1..Len(wire) : wire[i] = script[Consumed + Len(buffer) + i]

(* The lines so far are those of the header, and do not end it.            *)
LineInPlace ==
  /\ line \in Seq(Bytes) /\ remaining \in 0..MaxHeader
  /\ 1 <= FrameStart /\ FrameStart <= LineStart
  /\ \A i \in 1..Len(line) : line[i] = script[LineStart + i - 1] /\ line[i] # "n"
  /\ LineStart \in LineStarts(script, FrameStart)
  /\ \A q \in LineStarts(script, FrameStart) :
       q < LineStart => ~IsLast(script, FrameStart, q)
  /\ LET lengths == Lengths(script, FrameStart, LineStart)
     IN  length = IF lengths = {} THEN <<>> ELSE <<Announced[script[Min(lengths)]]>>
  /\ headerStarted <=> LineStart > FrameStart
  /\ payload = <<>>

(* The payload so far follows the header.                                  *)
BodyInPlace ==
  LET header == Header(script, FrameStart) IN
  /\ payload \in Seq(Bytes) /\ remaining \in 0..MaxHeader
  /\ 1 <= FrameStart
  /\ header.error = "none" /\ header.length <= MaxPayload
  /\ length = <<header.length>>
  /\ header.next = Consumed + 1 - Len(payload)
  /\ Len(payload) <= header.length
  /\ \A i \in 1..Len(payload) : payload[i] = script[header.next + i - 1]

(* What has been read and what the rest means, from the present frame on,  *)
(* is what the whole means.                                                *)
ReadInPlace ==
  LET whole == Meaning(script)
      rest == Meanings(script)[FrameStart]
  IN  /\ read \in Seq(Seq(Bytes))
      /\ pc # "ended" => /\ outcome = "none"
                         /\ whole.payloads = read \o rest.payloads
                         /\ whole.error = rest.error
      /\ pc = "ended" => IsPrefix(read, whole.payloads)
      /\ outcome \notin {"none", "Read", "UnfinishedByDeadline"} =>
           read = whole.payloads /\ outcome = whole.error

(* The inductive invariant behind ReadsWhatWasSent.                        *)
FramesInvariant ==
  /\ pc \in {"idle", "line", "body", "ended"}
  /\ \E tail \in Tails : sent \in Seq(Texts) /\ script = Wire(sent, tail)
  /\ BytesInPlace
  /\ pc = "line" => LineInPlace
  /\ pc = "body" => BodyInPlace
  /\ ReadInPlace

=============================================================================
