------------------------------ MODULE CommEcho ------------------------------
(***************************************************************************)
(* A session of comm_init, comm_handle_data and comm_cleanup of            *)
(* src/internal/libsocket.c: every read is answered by "Echo: " and what   *)
(* was read, until one starts with "quit" or the peer ends.  The peer and  *)
(* the caller, which calls the three one after another, are external.      *)
(*                                                                         *)
(* A cell is a byte: "q" and "t" are the four of "quit", "0" is a NUL.     *)
(***************************************************************************)
EXTENDS Naturals, SequencesExt

CONSTANTS
  Bytes,       \* the bytes the peer sends
  BUFFER_SIZE,
  PREFIX,      \* the length of "Echo: "
  SPARE,       \* what a response has room for beyond BUFFER_SIZE
  MaxBytes     \* bound on the bytes the peer sends

ASSUME EchoAssumption ==
  BUFFER_SIZE \in Nat \ {0, 1} /\ PREFIX \in Nat /\ SPARE \in Nat /\ MaxBytes \in Nat

VARIABLES
  at,      \* "read", "reply", "done", "closed" or "killed"
  input,   \* the bytes that arrived and were not read
  took,    \* the reads so far; the last one is in the buffer
  replies, \* the bodies written back
  ended    \* the peer closed the connection

vars == <<at, input, took, replies, ended>>

Init ==
  /\ at = "read"
  /\ input = <<>> /\ took = <<>> /\ replies = <<>>
  /\ ended = FALSE

Smaller(a, b) == IF a < b THEN a ELSE b

QUIT == <<"q", "t">>

\* Mutant: a read may fill the buffer.
ReadFills ==
  /\ at = "read"
  /\ \E n \in 1..Smaller(BUFFER_SIZE, Len(input)) :
       /\ took' = Append(took, SubSeq(input, 1, n))
       /\ input' = SubSeq(input, n + 1, Len(input))
  /\ at' = IF IsPrefix(QUIT, Last(took')) THEN "done" ELSE "reply"
  /\ UNCHANGED <<replies, ended>>

\* At most BUFFER_SIZE - 1 of what arrived.
Read ==
  /\ at = "read"
  /\ \E n \in 1..Smaller(BUFFER_SIZE - 1, Len(input)) :
       /\ took' = Append(took, SubSeq(input, 1, n))
       /\ input' = SubSeq(input, n + 1, Len(input))
  /\ at' = IF IsPrefix(QUIT, Last(took')) THEN "done" ELSE "reply"
  /\ UNCHANGED <<replies, ended>>

\* Mutant: the end is not told from no data.
OnlyErrorEnds ==
  /\ at = "read" /\ ~ended
  /\ at' = "done"
  /\ UNCHANGED <<input, took, replies, ended>>

\* The end, or an error.
ReadEnds ==
  /\ at = "read"
  /\ at' = "done"
  /\ UNCHANGED <<input, took, replies, ended>>

\* The string in a buffer ends with its first NUL.
Text(s) == IF Contains(s, "0") THEN SubSeq(s, 1, SelectInSeq(s, LAMBDA b : b = "0") - 1) ELSE s

\* Mutant: the response has the size of the buffer.
TightResponse(s) == SubSeq(s, 1, Smaller(Len(s), BUFFER_SIZE - 1 - PREFIX))

\* snprintf into BUFFER_SIZE + SPARE, the NUL included.
Response(s) == SubSeq(s, 1, Smaller(Len(s), BUFFER_SIZE + SPARE - 1 - PREFIX))

Write ==
  /\ at = "reply"
  /\ replies' = Append(replies, Response(Text(Last(took))))
  /\ at' = "read"
  /\ UNCHANGED <<input, took, ended>>

\* An error; SIGPIPE kills the process that writes to a peer that is gone.
WriteFails ==
  /\ at = "reply"
  /\ at' \in {"done"} \cup (IF ended THEN {"killed"} ELSE {})
  /\ UNCHANGED <<input, took, replies, ended>>

comm_cleanup ==
  /\ at = "done"
  /\ at' = "closed"
  /\ UNCHANGED <<input, took, replies, ended>>

Session == Read \/ ReadEnds \/ Write \/ WriteFails \/ comm_cleanup

PeerSends ==
  /\ ~ended
  /\ Len(FlattenSeq(took) \o input) < MaxBytes
  /\ \E b \in Bytes : input' = Append(input, b)
  /\ UNCHANGED <<at, took, replies, ended>>

PeerEnds ==
  /\ ~ended
  /\ ended' = TRUE
  /\ UNCHANGED <<at, input, took, replies>>

Next == Session \/ PeerSends \/ PeerEnds

\* The session runs; the peer does what it likes.
Spec == Init /\ [][Next]_vars /\ WF_vars(Session)

-----------------------------------------------------------------------------
(* What a session does.                                                    *)

\* Besides the types: what a read took leaves room for its NUL.
TypeOK ==
  /\ at \in {"read", "reply", "done", "closed", "killed"}
  /\ input \in Seq(Bytes) /\ took \in Seq(Seq(Bytes)) /\ replies \in Seq(Seq(Bytes))
  /\ ended \in BOOLEAN
  /\ \A i \in DOMAIN took : Len(took[i]) < BUFFER_SIZE

\* Reads are answered one by one, but for the last when it is still to be
\* answered, asks to quit or could not be answered; and however the bytes were
\* cut into reads, no reply is short of a byte of a read without a NUL.
EchoesAll ==
  /\ \/ Len(replies) = Len(took)
     \/ at # "read" /\ Len(replies) = Len(took) - 1
  /\ \A i \in DOMAIN replies : ~Contains(took[i], "0") => replies[i] = took[i]

\* Once the peer has ended, so does the session.
SessionEnds == ended ~> at \in {"closed", "killed"}
=============================================================================
