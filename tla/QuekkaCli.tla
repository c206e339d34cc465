----------------------------- MODULE QuekkaCli ------------------------------
(***************************************************************************)
(* The command line client of src/cli/quekka-cli.cpp: one connection, one  *)
(* callback that takes frames off it.  The peer is external: it writes     *)
(* frames as Quekka_message.h lays them out, they arrive in any pieces,    *)
(* and it may end anywhere, also within a frame.                           *)
(*                                                                         *)
(* A frame is H cells of header (the topic, topic_len, payload_len, seq    *)
(* and flags) and P of payload, zero after the text.  A cell is what its   *)
(* bytes are as a number: Huge, more than is ever sent, if they are text;  *)
(* flags and each byte of the payload have one of their own.               *)
(*                                                                         *)
(* The callback reads descriptor 0, whatever socket() returned: that is    *)
(* the connection if the program was started without stdin, and otherwise  *)
(* no socket (a stdin that is one is left out).                            *)
(***************************************************************************)
EXTENDS Naturals, Sequences

CONSTANTS
  P,         \* QUEKKA_PAYLOAD_MAX
  CLEARED,   \* sizeof(pBodyBuffer) + 1, the bytes of a body that are cleared
  Lens,      \* the values of payload_len of the frames sent
  MaxFrames, \* bound on the frames sent
  Faults     \* what may fail: "start", "wait", "recv"

ASSUME CliAssumption ==
  /\ P \in Nat \ {0, 1} /\ CLEARED \in Nat \ {0}
  /\ Lens \subseteq Nat /\ MaxFrames \in Nat

VARIABLES
  stdin,       \* whether the program was started with stdin
  at,          \* "start", "wait", "header", "body", "exited" or "undefined"
  open,        \* the connection is open, and registered with epoll
  payload_len, \* that field of headerBuffer
  texts,       \* the bodies given to processQuekkaData: cells of the stream,
               \* and whether the byte after them is a NUL
  read,        \* cells taken off the connection
  sent,        \* the frames the peer writes
  arrived,     \* cells that arrived so far
  ended        \* whether the peer's end arrived

cli == <<stdin, at, open, payload_len, texts, read>>
vars == <<cli, sent, arrived, ended>>

H == 5
LenCell == 3
Huge == MaxFrames * (H + P) + 2

Smaller(a, b) == IF a < b THEN a ELSE b

\* The number in the n-th cell of the stream.
Cell(n) ==
  LET f == ((n - 1) \div (H + P)) + 1
      i == ((n - 1) % (H + P)) + 1
  IN  CASE i = 1 -> Huge
        [] i = 2 -> 1
        [] i = LenCell -> sent[f].len
        [] i = 4 -> f - 1
        [] i = H -> sent[f].flags
        [] i > H -> IF i - H <= Smaller(sent[f].len, P - 1) THEN Huge ELSE 0

Init ==
  /\ stdin \in BOOLEAN
  /\ at = "start" /\ open = FALSE
  /\ payload_len = 0 /\ texts = <<>> /\ read = 0
  /\ sent = <<>> /\ arrived = 0 /\ ended = FALSE

-----------------------------------------------------------------------------
(* The client.                                                             *)

Exits ==
  /\ at' = "exited" /\ open' = FALSE
  /\ UNCHANGED <<stdin, payload_len, texts, read>>

Connects ==
  /\ at = "start"
  /\ at' = "wait" /\ open' = TRUE
  /\ UNCHANGED <<stdin, payload_len, texts, read>>

\* The arguments, the socket, epoll or connect.
StartFails == at = "start" /\ "start" \in Faults /\ Exits

\* Level-triggered, and no timeout; the header buffer of a callback is zero.
epoll_handler_wait ==
  /\ at = "wait" /\ open
  /\ arrived > read \/ ended
  /\ at' = "header" /\ payload_len' = 0
  /\ UNCHANGED <<stdin, open, texts, read>>

\* epoll_wait fails, as with EINTR: main returns.
Interrupted == at = "wait" /\ "wait" \in Faults /\ Exits

\* Removes the connection from epoll and closes it; main waits for nothing then.
Disconnected ==
  /\ at' = "wait" /\ open' = FALSE
  /\ UNCHANGED <<stdin, payload_len, texts, read>>

\* Descriptor 0 is no socket.
RecvStdin == at = "header" /\ stdin /\ Exits

\* An error of either recv, as after a reset, or a malloc that fails.
RecvFails == at \in {"header", "body"} /\ "recv" \in Faults /\ Exits

\* Without waiting: the end, or the error of a connection without data.
RecvNoHeader ==
  /\ at = "header" /\ ~stdin /\ arrived = read
  /\ \/ ended /\ Disconnected
     \/ ~ended /\ Exits

\* Mutant: the header is taken to have arrived whole.
HeaderWhole ==
  /\ at = "header" /\ ~stdin /\ arrived > read
  /\ payload_len' = Cell(read + LenCell)
  /\ read' = read + H - 1 /\ at' = "body"
  /\ UNCHANGED <<stdin, open, texts>>

\* At most sizeof(Quekka_header) - 1 bytes, without waiting.  A short read
\* leaves the rest of the buffer as the header before it had it.
RecvHeader ==
  LET n == Smaller(H - 1, arrived - read)
  IN  /\ at = "header" /\ ~stdin /\ n > 0
      /\ payload_len' = IF n >= LenCell THEN Cell(read + LenCell) ELSE payload_len
      /\ read' = read + n /\ at' = "body"
      /\ UNCHANGED <<stdin, open, texts>>

\* The n cells received are a string, and the buffer has room for its NUL, but
\* past what was cleared there is what malloc found.
Take(n) ==
  /\ \E nul \in (IF n < CLEARED THEN {TRUE} ELSE BOOLEAN) :
       texts' = Append(texts, [from |-> read + 1, cells |-> n, nul |-> nul])
  /\ read' = read + n /\ at' = "header"
  /\ UNCHANGED <<stdin, open, payload_len>>

\* Mutants of RecvBody: all of payload_len is read; the end is not looked for.
BodyWhole ==
  LET n == Smaller(payload_len, arrived - read)
  IN  /\ at = "body" /\ payload_len > 1
      /\ n = payload_len \/ ended
      /\ IF n = 0 THEN Disconnected ELSE Take(n)
BodyWaits ==
  LET n == payload_len - 1
  IN  at = "body" /\ payload_len > 1 /\ arrived - read >= n /\ Take(n)

\* MSG_WAITALL: payload_len - 1 bytes, or what there is at the end.
RecvBody ==
  LET n == Smaller(payload_len - 1, arrived - read)
  IN  /\ at = "body" /\ payload_len > 1
      /\ n = payload_len - 1 \/ ended
      /\ IF n = 0 THEN Disconnected ELSE Take(n)

\* A recv of 0 bytes returns 0, which is taken for the end.
RecvNothing == at = "body" /\ payload_len = 1 /\ Disconnected

\* A recv of SIZE_MAX bytes into a buffer of one.
RecvOverflows ==
  /\ at = "body" /\ payload_len = 0
  /\ at' = "undefined"
  /\ UNCHANGED <<stdin, open, payload_len, texts, read>>

Cli ==
  /\ \/ Connects \/ epoll_handler_wait
     \/ RecvStdin \/ RecvNoHeader \/ RecvHeader
     \/ RecvBody \/ RecvNothing \/ RecvOverflows
  /\ UNCHANGED <<sent, arrived, ended>>

Failing ==
  /\ StartFails \/ Interrupted \/ RecvFails
  /\ UNCHANGED <<sent, arrived, ended>>

-----------------------------------------------------------------------------
(* The peer.                                                               *)

PeerSends ==
  /\ Len(sent) < MaxFrames
  /\ \E len \in Lens, flags \in {0, 1} : sent' = Append(sent, [len |-> len, flags |-> flags])
  /\ UNCHANGED <<cli, arrived, ended>>

Arrives ==
  /\ ~ended /\ open
  /\ arrived' \in (arrived + 1)..(Len(sent) * (H + P))
  /\ UNCHANGED <<cli, sent, ended>>

PeerEnds ==
  /\ ~ended /\ open
  /\ ended' = TRUE
  /\ UNCHANGED <<cli, sent, arrived>>

Next == Cli \/ Failing \/ PeerSends \/ Arrives \/ PeerEnds

\* The client runs; what the peer does is up to it, and nothing need fail.
Spec == Init /\ [][Next]_vars /\ WF_vars(Cli)

-----------------------------------------------------------------------------
(* What the client does with what it is sent.                              *)

Frame == [len : Lens, flags : {0, 1}]
Body == [from : Nat \ {0}, cells : Nat \ {0}, nul : BOOLEAN]

\* Besides the types: no more is taken off the connection than arrived.
TypeOK ==
  /\ stdin \in BOOLEAN /\ open \in BOOLEAN /\ ended \in BOOLEAN
  /\ at \in {"start", "wait", "header", "body", "exited", "undefined"}
  /\ payload_len \in Nat
  /\ sent \in Seq(Frame) /\ texts \in Seq(Body)
  /\ read \in 0..arrived
  /\ arrived \in 0..(Len(sent) * (H + P))

\* What "%s" prints of the cells of a body: those up to the first zero.
Shown(text) ==
  {n \in text.from..(text.from + text.cells - 1) : \A m \in text.from..n : Cell(m) # 0}

\* "%s" finds no end in them, and goes on with memory nobody wrote.
RunsOn(text) ==
  ~text.nul /\ Shown(text) = text.from..(text.from + text.cells - 1)

\* The first body shows flags and the payload but its last byte, or as much of
\* that as there is, and nothing from past the text of its own frame, however
\* large payload_len is.  It shows nothing if flags is 0 (MORE), or if the
\* header came in two pieces.  It runs on only when what was cleared is full,
\* and its frame is.
FirstText ==
  texts # <<>> =>
    LET text == texts[1]
        last == H + Smaller(sent[1].len - 2, P - 1)
    IN  /\ Shown(text) =
             {n \in H..last : text.from = H /\ sent[1].flags = 1 /\ n <= arrived}
        /\ RunsOn(text) => sent[1].flags = 1 /\ text.cells \in CLEARED..P

\* The end of the peer is noticed, wherever in a frame it comes.
EndIsNoticed == (open /\ ended) ~> (~open \/ at = "undefined")

\* When nothing fails, the client leaves the connection only because quekka
\* ended it, or because it never had it as descriptor 0.
LeavesOnEnd == at \notin {"start", "undefined"} /\ ~open => ended \/ stdin
=============================================================================
