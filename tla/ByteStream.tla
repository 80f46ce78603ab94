----------------------------- MODULE ByteStream -----------------------------
(***************************************************************************)
(* What one direction of the conversation promises to the connection and   *)
(* to the server: bytes come out in the order they were put in, none is    *)
(* lost or doubled in the middle, a sender is told "done" only of bytes    *)
(* that have left its own process, nothing is done after a write that      *)
(* failed, and a receiver hears of the end only after the last byte.       *)
(***************************************************************************)
EXTENDS Naturals, Sequences

VARIABLES
  written,   \* the bytes the sender offered, in order
  arrived,   \* those that were handed over: a prefix of them
  confirmed, \* how many the sender was told are done
  broken,    \* a write has failed
  taken,     \* what the receiver has got: a prefix of what was handed over
  over       \* what the receiver was told of the end: "no", "ended" or "failed"

stream == <<written, arrived, confirmed, broken, taken, over>>

Prefix(s, t) == Len(s) <= Len(t) /\ SubSeq(t, 1, Len(s)) = s

Init ==
  /\ written = <<>> /\ arrived = <<>> /\ taken = <<>>
  /\ confirmed = 0 /\ broken = FALSE /\ over = "no"

Offer ==
  /\ over # "ended"
  /\ Prefix(written, written') /\ written' # written
  /\ UNCHANGED <<arrived, confirmed, broken, taken, over>>

Arrive ==
  /\ Prefix(arrived, arrived') /\ Prefix(arrived', written) /\ arrived' # arrived
  /\ UNCHANGED <<written, confirmed, broken, taken, over>>

(* The sender is told of success, never again after a failure.             *)
Confirm ==
  /\ ~broken
  /\ confirmed' > confirmed /\ confirmed' <= Len(arrived)
  /\ UNCHANGED <<written, arrived, broken, taken, over>>

Break ==
  /\ ~broken /\ broken' = TRUE
  /\ UNCHANGED <<written, arrived, confirmed, taken, over>>

Take ==
  /\ Prefix(taken, taken') /\ Prefix(taken', arrived) /\ taken' # taken
  /\ over = "no"
  /\ UNCHANGED <<written, arrived, confirmed, broken, over>>

(* The end is told after everything that was written.                      *)
End ==
  /\ over = "no" /\ over' = "ended"
  /\ taken = written
  /\ UNCHANGED <<written, arrived, confirmed, broken, taken>>

Fail ==
  /\ over = "no" /\ over' = "failed"
  /\ taken = arrived
  /\ UNCHANGED <<written, arrived, confirmed, broken, taken>>

Next == Offer \/ Arrive \/ Confirm \/ Break \/ Take \/ End \/ Fail

Spec == Init /\ [][Next]_stream
=============================================================================
