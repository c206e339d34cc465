--------------------------- MODULE QuekkaCliProofs --------------------------
(***************************************************************************)
(* Proofs about the command line client: how much it takes off the         *)
(* connection, and what the first body shows, for every size of a frame,   *)
(* of the cleared part of the buffer, and every way the bytes may arrive.  *)
(***************************************************************************)
EXTENDS QuekkaCli, SequenceTheorems, TLAPS

\* What is known of the first body: it starts at the flags, or at the cell
\* before them if the header came in two pieces, and is all that the header
\* announced but one, or what there was when the peer had ended.
FirstTook ==
  LET len  == sent[1].len
      from == texts[1].from
      n    == texts[1].cells
  IN  /\ sent # <<>> /\ from \in {4, H}
      /\ n <= len - 1 /\ from - 1 + n <= arrived
      /\ n = len - 1 \/ (ended /\ n = arrived - (from - 1))
      /\ n < CLEARED => texts[1].nul

\* Until there is a body, the client is in the first header or right after it.
FirstInv ==
  /\ at = "start" \/ (at = "wait" /\ open) => texts = <<>> /\ read = 0
  /\ at = "header" /\ texts = <<>> => read = 0 /\ payload_len = 0
  /\ at = "body" /\ texts = <<>> =>
       /\ sent # <<>> /\ read \in 1..(H - 1)
       /\ payload_len = IF read >= LenCell THEN sent[1].len ELSE 0
  /\ texts # <<>> => FirstTook

IInv == TypeOK /\ FirstInv

-----------------------------------------------------------------------------
(* The cells of the stream.                                                *)

LEMMA SmallerOf ==
  ASSUME NEW a \in Int, NEW b \in Int
  PROVE  /\ Smaller(a, b) \in Int /\ Smaller(a, b) <= a /\ Smaller(a, b) <= b
         /\ Smaller(a, b) = a \/ Smaller(a, b) = b
  BY DEF Smaller

LEMMA FrameSize == P \in Nat /\ P >= 2 /\ H = 5 /\ H + P \in Nat /\ H + P > 0
  BY CliAssumption DEF H

LEMMA Types ==
  ASSUME TypeOK
  PROVE  /\ read \in Nat /\ arrived \in Nat /\ read <= arrived /\ payload_len \in Nat
         /\ sent \in Seq(Frame) /\ Len(sent) \in Nat
         /\ Len(sent) * (H + P) \in Nat /\ arrived <= Len(sent) * (H + P)
         /\ \A i \in 1..Len(sent) : sent[i].len \in Nat /\ sent[i].flags \in {0, 1}
         /\ sent # <<>> => 1 \in 1..Len(sent)
         /\ texts \in Seq(Body)
         /\ texts # <<>> => texts[1].from \in Nat \ {0} /\ texts[1].cells \in Nat \ {0}
  <1>1. sent \in Seq(Frame) /\ Len(sent) \in Nat /\ texts \in Seq(Body) /\ payload_len \in Nat
    BY DEF TypeOK
  <1>2. Len(sent) * (H + P) \in Nat
    BY <1>1, FrameSize
  <1>3. arrived \in Nat /\ arrived <= Len(sent) * (H + P)
    BY <1>2 DEF TypeOK
  <1>4. read \in Nat /\ read <= arrived
    BY <1>3 DEF TypeOK
  <1>5. ASSUME NEW i \in 1..Len(sent)
        PROVE  sent[i].len \in Nat /\ sent[i].flags \in {0, 1}
    <2>1. sent[i] \in Frame
      BY <1>1
    <2>2. sent[i].len \in Lens /\ sent[i].flags \in {0, 1}
      BY <2>1 DEF Frame
    <2> QED
      BY <2>2, CliAssumption
  <1>6. sent # <<>> => 1 \in 1..Len(sent)
    BY <1>1, EmptySeq
  <1>7. texts # <<>> => texts[1] \in Body
    BY <1>1
  <1> QED
    BY <1>1, <1>2, <1>3, <1>4, <1>5, <1>6, <1>7 DEF Body

\* In which frame a cell is, and where in it.
LEMMA InFrame ==
  ASSUME NEW k \in Nat, NEW n \in 1..(k * (H + P))
  PROVE  /\ ((n - 1) \div (H + P)) + 1 \in 1..k
         /\ ((n - 1) % (H + P)) + 1 \in 1..(H + P)
  <1> DEFINE d == H + P
             x == n - 1
             q == x \div d
  <1>1. d \in Nat /\ d > 0
    BY FrameSize
  <1> HIDE DEF d
  <1>2. x \in Nat /\ x < k * d
    BY <1>1 DEF d
  <1> HIDE DEF x
  <1>3. x = d * q + (x % d) /\ x % d \in 0..(d - 1) /\ q \in Nat
    BY <1>1, <1>2
  <1> HIDE DEF q
  <1>4. q < k
    <2>1. SUFFICES ASSUME q >= k PROVE FALSE
      BY <1>3
    <2>2. PICK e \in Nat : q = k + e
      BY <1>3, <2>1
    <2>3. d * q = k * d + d * e /\ d * e >= 0
      BY <1>1, <2>2
    <2> QED
      BY <1>1, <1>2, <1>3, <2>3
  <1> QED
    BY <1>1, <1>3, <1>4 DEF q, x, d

\* A cell that was sent is a number.
LEMMA CellType ==
  ASSUME TypeOK, NEW n \in 1..arrived
  PROVE  Cell(n) \in Nat
  <1> DEFINE f == ((n - 1) \div (H + P)) + 1
             i == ((n - 1) % (H + P)) + 1
  <1>1. Len(sent) \in Nat
    BY Types
  <1>2. n \in 1..(Len(sent) * (H + P))
    BY Types
  <1>3. f \in 1..Len(sent) /\ i \in 1..(H + P)
    BY <1>1, <1>2, InFrame
  <1> HIDE DEF f, i
  <1>4. sent[f].len \in Nat /\ sent[f].flags \in Nat
    BY <1>3, Types
  <1>5. Huge \in Nat
    <2>1. MaxFrames * (H + P) \in Nat
      BY CliAssumption, FrameSize
    <2> QED
      BY <2>1 DEF Huge
  <1>6. Cell(n) = CASE i = 1 -> Huge
                    [] i = 2 -> 1
                    [] i = LenCell -> sent[f].len
                    [] i = 4 -> f - 1
                    [] i = H -> sent[f].flags
                    [] i > H -> IF i - H <= Smaller(sent[f].len, P - 1) THEN Huge ELSE 0
    BY DEF Cell, f, i
  <1>7. i = 1 \/ i = 2 \/ i = LenCell \/ i = 4 \/ i = H \/ i > H
    BY <1>3, FrameSize DEF LenCell
  <1> QED
    BY <1>3, <1>4, <1>5, <1>6, <1>7, FrameSize DEF LenCell

\* The cells of the first frame that the client looks at.
LEMMA FirstCells ==
  ASSUME TypeOK, sent # <<>>
  PROVE  /\ Cell(LenCell) = sent[1].len
         /\ Cell(4) = 0 /\ Cell(H) = sent[1].flags /\ Cell(H + P) = 0
         /\ \A n \in (H + 1)..(H + P) : n - H <= sent[1].len /\ n - H <= P - 1 => Cell(n) # 0
  <1> DEFINE d == H + P
  <1>1. d \in Nat /\ d >= 7
    BY FrameSize
  <1>2. ASSUME NEW n \in 1..d
        PROVE  /\ ((n - 1) \div d) + 1 = 1
               /\ ((n - 1) % d) + 1 = n
    <2> DEFINE x == n - 1
    <2>1. x \in 0..(d - 1)
      BY <1>1
    <2> HIDE DEF x, d
    <2>2. x \div d = 0 /\ x % d = x
      BY <1>1, <2>1
    <2> QED
      BY <2>1, <2>2 DEF x
  <1>3. ASSUME NEW n \in 1..d
        PROVE  Cell(n) = CASE n = 1 -> Huge
                           [] n = 2 -> 1
                           [] n = LenCell -> sent[1].len
                           [] n = 4 -> 0
                           [] n = H -> sent[1].flags
                           [] n > H -> IF n - H <= Smaller(sent[1].len, P - 1) THEN Huge ELSE 0
    <2> DEFINE f == ((n - 1) \div d) + 1
               i == ((n - 1) % d) + 1
    <2>1. f = 1 /\ i = n
      BY <1>2
    <2>2. Cell(n) = CASE i = 1 -> Huge
                      [] i = 2 -> 1
                      [] i = LenCell -> sent[f].len
                      [] i = 4 -> f - 1
                      [] i = H -> sent[f].flags
                      [] i > H -> IF i - H <= Smaller(sent[f].len, P - 1) THEN Huge ELSE 0
      BY DEF Cell
    <2> HIDE DEF f, i
    <2>3. f - 1 = 0
      BY <2>1
    <2> QED
      BY <2>1, <2>2, <2>3
  <1> HIDE DEF d
  <1>4. Huge > 0
    <2>1. MaxFrames * (H + P) \in Nat
      BY CliAssumption, FrameSize
    <2> QED
      BY <2>1 DEF Huge
  <1>5. Cell(LenCell) = sent[1].len
    BY <1>1, <1>3, FrameSize DEF LenCell
  <1>6. Cell(H) = sent[1].flags /\ Cell(4) = 0
    BY <1>1, <1>3, FrameSize DEF LenCell
  <1>7. ASSUME NEW n \in (H + 1)..(H + P), n - H <= sent[1].len, n - H <= P - 1
        PROVE  Cell(n) # 0
    <2>1. n - H <= Smaller(sent[1].len, P - 1)
      BY <1>7 DEF Smaller
    <2> QED
      BY <1>1, <1>3, <1>4, <2>1, FrameSize DEF LenCell, d
  <1>8. Cell(H + P) = 0
    <2>1. sent[1].len \in Int /\ P - 1 \in Int
      BY Types, FrameSize
    <2>2. ~(H + P - H <= Smaller(sent[1].len, P - 1))
      <3>1. Smaller(sent[1].len, P - 1) \in Int /\ Smaller(sent[1].len, P - 1) <= P - 1
        BY <2>1, SmallerOf
      <3> QED
        BY <3>1, FrameSize
    <2> QED
      BY <1>1, <1>3, <2>2, FrameSize DEF LenCell, d
  <1> QED
    BY <1>5, <1>6, <1>7, <1>8

-----------------------------------------------------------------------------
(* The invariant.                                                          *)

LEMMA Initially == Init => IInv
  <1> SUFFICES ASSUME Init PROVE IInv
    OBVIOUS
  <1>1. <<>> \in Seq(Frame) /\ <<>> \in Seq(Body)
    BY EmptySeq
  <1>2. TypeOK
    <2>1. SUFFICES ASSUME sent = <<>>, arrived = 0, read = 0
                   PROVE  read \in 0..arrived /\ arrived \in 0..(Len(sent) * (H + P))
      BY <1>1 DEF Init, TypeOK
    <2>2. Len(sent) = 0
      BY <2>1
    <2>3. Len(sent) * (H + P) = 0
      BY <2>2, FrameSize
    <2> QED
      BY <2>1, <2>3
  <1>3. FirstInv
    BY DEF Init, FirstInv
  <1> QED
    BY <1>2, <1>3 DEF IInv

\* A first header, or none, before the first body.
LEMMA HeaderStep ==
  ASSUME IInv, RecvHeader, UNCHANGED <<sent, arrived, ended>>
  PROVE  IInv'
  <1> DEFINE n == Smaller(H - 1, arrived - read)
  <1>1. /\ at = "header" /\ n > 0 /\ read' = read + n /\ at' = "body"
        /\ payload_len' = IF n >= LenCell THEN Cell(read + LenCell) ELSE payload_len
        /\ UNCHANGED <<stdin, open, texts>>
    BY DEF RecvHeader
  <1>2. /\ read \in Nat /\ arrived \in Nat /\ read <= arrived /\ payload_len \in Nat
        /\ arrived <= Len(sent) * (H + P)
    BY Types DEF IInv
  <1>3. n \in 1..(H - 1) /\ n <= arrived - read
    <2>1. H - 1 \in Int /\ arrived - read \in Int
      BY <1>2, FrameSize
    <2>2. n \in Int /\ n <= H - 1 /\ n <= arrived - read
      BY <2>1, SmallerOf
    <2> HIDE DEF n
    <2> QED
      BY <1>1, <2>2, FrameSize
  <1> HIDE DEF n
  <1>4. read' \in 0..arrived /\ read' >= 1
    BY <1>1, <1>2, <1>3, FrameSize
  <1>5. n >= LenCell => read + LenCell \in 1..arrived
    BY <1>2, <1>3, FrameSize DEF LenCell
  <1>6. payload_len' \in Nat
    BY <1>1, <1>2, <1>5, CellType DEF IInv
  <1>7. TypeOK'
    BY <1>1, <1>4, <1>6 DEF IInv, TypeOK
  <1>8. sent # <<>>
    BY <1>2, <1>4, FrameSize
  <1>9. texts = <<>> => read = 0 /\ payload_len = 0
    BY <1>1 DEF IInv, FirstInv
  <1>10. texts = <<>> => payload_len' = IF read' >= LenCell THEN sent[1].len ELSE 0
    <2>1. Cell(LenCell) = sent[1].len
      BY <1>8, FirstCells DEF IInv
    <2> QED
      BY <1>1, <1>3, <1>9, <2>1, FrameSize DEF LenCell
  <1>11. texts = <<>> => read' \in 1..(H - 1)
    BY <1>1, <1>3, <1>9, FrameSize
  <1>12. FirstTook => FirstTook'
    BY <1>1 DEF FirstTook
  <1> QED
    BY <1>1, <1>7, <1>8, <1>10, <1>11, <1>12 DEF IInv, FirstInv

LEMMA BodyStep ==
  ASSUME IInv, RecvBody, UNCHANGED <<sent, arrived, ended>>
  PROVE  IInv'
  <1> DEFINE n == Smaller(payload_len - 1, arrived - read)
  <1>1. /\ at = "body" /\ payload_len > 1
        /\ n = payload_len - 1 \/ ended
        /\ n = 0 => Disconnected
        /\ n # 0 => Take(n)
    BY DEF RecvBody
  <1>2. read \in Nat /\ arrived \in Nat /\ read <= arrived /\ payload_len \in Nat
    BY Types DEF IInv
  <1>3. /\ n \in Nat /\ n <= payload_len - 1 /\ n <= arrived - read
        /\ n = payload_len - 1 \/ n = arrived - read
    <2>1. payload_len - 1 \in Nat /\ arrived - read \in Nat
      BY <1>1, <1>2
    <2>2. payload_len - 1 \in Int /\ arrived - read \in Int
      BY <2>1
    <2>3. /\ n <= payload_len - 1 /\ n <= arrived - read
          /\ n = payload_len - 1 \/ n = arrived - read
      BY <2>2, SmallerOf
    <2> QED
      BY <2>1, <2>3
  <1> HIDE DEF n
  <1>4. CASE n = 0
    BY <1>1, <1>4 DEF Disconnected, IInv, TypeOK, FirstInv, FirstTook
  <1>5. CASE n # 0
    <2>0. PICK nul \in BOOLEAN :
            /\ n < CLEARED => nul
            /\ texts' = Append(texts, [from |-> read + 1, cells |-> n, nul |-> nul])
            /\ read' = read + n /\ at' = "header"
            /\ UNCHANGED <<stdin, open, payload_len>>
      BY <1>1, <1>5 DEF Take
    <2> DEFINE t == [from |-> read + 1, cells |-> n, nul |-> nul]
    <2>1. /\ texts' = Append(texts, t) /\ read' = read + n /\ at' = "header"
          /\ UNCHANGED <<stdin, open, payload_len>>
      BY <2>0
    <2>2. /\ t \in Body
          /\ t.from = read + 1 /\ t.cells = n /\ (n < CLEARED => t.nul)
      BY <1>2, <1>3, <1>5, <2>0 DEF Body
    <2> HIDE DEF t
    <2>3. texts \in Seq(Body)
      BY DEF IInv, TypeOK
    <2>4. /\ texts' \in Seq(Body) /\ texts' # <<>>
          /\ texts = <<>> => texts'[1] = t
          /\ texts # <<>> => texts'[1] = texts[1]
      BY <2>1, <2>2, <2>3, AppendProperties
    <2>5. TypeOK'
      BY <1>2, <1>3, <2>1, <2>4 DEF IInv, TypeOK
    <2>6. ASSUME texts = <<>>
          PROVE  FirstTook'
      <3>1. /\ sent # <<>> /\ read \in 1..(H - 1)
            /\ payload_len = IF read >= LenCell THEN sent[1].len ELSE 0
        BY <1>1, <2>6 DEF IInv, FirstInv
      <3>2. read \in {3, 4} /\ payload_len = sent[1].len
        BY <1>1, <3>1, FrameSize DEF LenCell
      <3>3. /\ texts'[1].from = read + 1 /\ texts'[1].cells = n
            /\ n < CLEARED => texts'[1].nul
        BY <2>2, <2>4, <2>6
      <3> QED
        BY <1>1, <1>2, <1>3, <2>1, <3>1, <3>2, <3>3, FrameSize DEF FirstTook
    <2>7. ASSUME texts # <<>>
          PROVE  FirstTook'
      BY <2>4, <2>7 DEF IInv, FirstInv, FirstTook
    <2> QED
      BY <2>1, <2>4, <2>5, <2>6, <2>7 DEF IInv, FirstInv
  <1> QED
    BY <1>4, <1>5

LEMMA PeerStep ==
  ASSUME IInv, PeerSends \/ Arrives \/ PeerEnds
  PROVE  IInv'
  <1>1. /\ sent \in Seq(Frame) /\ Len(sent) \in Nat
        /\ read \in Nat /\ arrived \in Nat /\ read <= arrived
        /\ Len(sent) * (H + P) \in Nat /\ arrived <= Len(sent) * (H + P)
    BY Types DEF IInv
  <1>2. CASE PeerSends
    <2>1. PICK r \in Frame :
            sent' = Append(sent, r) /\ UNCHANGED <<cli, arrived, ended>>
      BY <1>2 DEF PeerSends, Frame
    <2>2. /\ sent' \in Seq(Frame) /\ Len(sent') = Len(sent) + 1
          /\ sent # <<>> => sent'[1] = sent[1] /\ sent' # <<>>
      BY <1>1, <2>1, AppendProperties
    <2>3. Len(sent') * (H + P) = Len(sent) * (H + P) + (H + P)
      BY <1>1, <2>2, FrameSize
    <2>4. arrived' \in 0..(Len(sent') * (H + P))
      BY <1>1, <2>1, <2>3, FrameSize
    <2>5. TypeOK'
      BY <2>1, <2>2, <2>4 DEF IInv, TypeOK, cli
    <2> QED
      BY <2>1, <2>2, <2>5 DEF IInv, FirstInv, FirstTook, cli
  <1>3. CASE Arrives
    <2>1. /\ ~ended /\ arrived' \in (arrived + 1)..(Len(sent) * (H + P))
          /\ UNCHANGED <<cli, sent, ended>>
      BY <1>3 DEF Arrives
    <2>2. arrived' \in Nat /\ arrived <= arrived' /\ arrived' <= Len(sent) * (H + P)
      BY <1>1, <2>1
    <2>3. TypeOK'
      BY <1>1, <2>1, <2>2 DEF IInv, TypeOK, cli
    <2>4. ASSUME texts # <<>>
          PROVE  FirstTook'
      <3>1. FirstTook /\ texts' = texts
        BY <2>1, <2>4 DEF IInv, FirstInv, cli
      <3>2. texts[1].cells \in Nat
        BY <2>4, Types DEF IInv
      <3> QED
        BY <1>1, <2>1, <2>2, <3>1, <3>2, FrameSize DEF FirstTook
    <2> QED
      BY <2>1, <2>3, <2>4 DEF IInv, FirstInv, cli
  <1>4. CASE PeerEnds
    BY <1>4 DEF PeerEnds, IInv, TypeOK, FirstInv, FirstTook, cli
  <1> QED
    BY <1>2, <1>3, <1>4

LEMMA Invariance == Spec => []IInv
  <1>1. ASSUME IInv, [Next]_vars
        PROVE  IInv'
    <2> USE <1>1
    <2>1. CASE /\ UNCHANGED <<sent, arrived, ended>>
               /\ \/ Connects \/ epoll_handler_wait
                  \/ RecvStdin \/ RecvNoHeader \/ RecvNothing \/ RecvOverflows
                  \/ StartFails \/ Interrupted \/ RecvFails
      <3>1. /\ texts' = texts /\ read' = read /\ stdin' = stdin
            /\ payload_len' \in {0, payload_len}
            /\ open' = open \/ open' = TRUE \/ open' = FALSE
            /\ at' \in {"wait", "header", "exited", "undefined"}
            /\ at' = "wait" /\ open' => at = "start"
            /\ at' = "header" => at = "wait" /\ open /\ payload_len' = 0
        BY <2>1 DEF Connects, epoll_handler_wait, RecvStdin, RecvNoHeader, RecvNothing,
                    RecvOverflows, StartFails, Interrupted, RecvFails, Disconnected, Exits
      <3>2. TypeOK'
        <4>1. payload_len' \in Nat
          BY <3>1 DEF IInv, TypeOK
        <4>2. open' \in BOOLEAN
          BY <3>1 DEF IInv, TypeOK
        <4> QED
          BY <2>1, <3>1, <4>1, <4>2 DEF IInv, TypeOK
      <3>3. FirstInv'
        BY <2>1, <3>1 DEF IInv, FirstInv, FirstTook
      <3> QED
        BY <3>2, <3>3 DEF IInv
    <2>2. CASE UNCHANGED vars
      BY <2>2 DEF vars, cli, IInv, TypeOK, FirstInv, FirstTook
    <2> QED
      BY <2>1, <2>2, HeaderStep, BodyStep, PeerStep DEF Next, Cli, Failing
  <1> QED
    BY <1>1, Initially, PTL DEF Spec

\* Every variable keeps its type, and however the frames are cut up the client
\* never takes more off the connection than arrived.
THEOREM TypeCorrect == Spec => []TypeOK
  <1>1. IInv => TypeOK
    BY DEF IInv
  <1> QED
    BY <1>1, Invariance, PTL

\* The first body shows the flags and the payload of the first frame but its
\* last byte, or as much of that as arrived, and nothing past that frame's text;
\* nothing at all if the frame is marked MORE or its header came in two pieces;
\* and "%s" runs on only if it fills both the cleared bytes and the frame.
THEOREM FirstFrameShown == Spec => []FirstText
  <1>1. ASSUME IInv, texts # <<>>
        PROVE  LET text == texts[1]
                   last == H + Smaller(sent[1].len - 2, P - 1)
               IN  /\ Shown(text) = {n \in H..last :
                        text.from = H /\ sent[1].flags = 1 /\ n <= arrived}
                   /\ RunsOn(text) => sent[1].flags = 1 /\ text.cells \in CLEARED..P
    <2> DEFINE len  == sent[1].len
               from == texts[1].from
               k    == texts[1].cells
               top  == Smaller(len - 2, P - 1)
    <2>1. /\ sent # <<>> /\ from \in {4, H} /\ k <= len - 1 /\ from - 1 + k <= arrived
          /\ k = len - 1 \/ k = arrived - (from - 1)
          /\ k < CLEARED => texts[1].nul
      BY <1>1 DEF IInv, FirstInv, FirstTook
    <2>2. len \in Nat /\ sent[1].flags \in {0, 1} /\ k \in Nat \ {0} /\ arrived \in Nat
      BY <1>1, <2>1, Types DEF IInv
    <2>3. top \in Int /\ top <= len - 2 /\ top <= P - 1 /\ (top = len - 2 \/ top = P - 1)
      <3>1. len - 2 \in Int /\ P - 1 \in Int
        BY <2>2, FrameSize
      <3> QED
        BY <3>1, SmallerOf
    <2>4. /\ Cell(4) = 0 /\ Cell(H) = sent[1].flags /\ Cell(H + P) = 0
          /\ \A n \in (H + 1)..(H + P) : n - H <= len /\ n - H <= P - 1 => Cell(n) # 0
      BY <1>1, <2>1, FirstCells DEF IInv
    <2>5. /\ Shown(texts[1]) = {n \in from..(from + k - 1) : \A m \in from..n : Cell(m) # 0}
          /\ RunsOn(texts[1]) => ~texts[1].nul /\ Shown(texts[1]) = from..(from + k - 1)
      BY DEF Shown, RunsOn
    <2>6. from \in from..(from + k - 1)
      BY <2>1, <2>2, FrameSize
    <2> SUFFICES /\ Shown(texts[1]) =
                      {n \in H..(H + top) : from = H /\ sent[1].flags = 1 /\ n <= arrived}
                 /\ RunsOn(texts[1]) => sent[1].flags = 1 /\ k \in CLEARED..P
      OBVIOUS
    <2> HIDE DEF len, from, k, top
    <2>7. CASE from = 4 \/ sent[1].flags = 0
      <3>1. Cell(from) = 0
        BY <2>1, <2>4, <2>7
      <3>2. \A n \in from..(from + k - 1) : from \in from..n
        BY <2>1, <2>2, FrameSize
      <3>3. Shown(texts[1]) = {}
        BY <2>5, <3>1, <3>2
      <3>4. ~RunsOn(texts[1])
        BY <2>5, <2>6, <3>3
      <3>5. {n \in H..(H + top) : from = H /\ sent[1].flags = 1 /\ n <= arrived} = {}
        BY <2>7, FrameSize
      <3> QED
        BY <3>3, <3>4, <3>5
    <2>8. CASE from = H /\ sent[1].flags = 1
      <3>1. ASSUME NEW n \in H..(H + k - 1), n <= H + P - 1, NEW m \in H..n
            PROVE  Cell(m) # 0
        <4>1. CASE m = H
          BY <2>4, <2>8, <4>1
        <4>2. CASE m # H
          <5>1. m \in (H + 1)..(H + P) /\ m - H <= len /\ m - H <= P - 1
            BY <2>1, <2>2, <3>1, <4>2, FrameSize
          <5> QED
            BY <2>4, <5>1
        <4> QED
          BY <4>1, <4>2
      <3>2. ASSUME NEW n \in H..(H + k - 1), n > H + P - 1
            PROVE  H + P \in H..n
        BY <2>2, <3>2, FrameSize
      <3>3. Shown(texts[1]) = {n \in H..(H + k - 1) : n <= H + P - 1}
        <4>1. ASSUME NEW n \in H..(H + k - 1)
              PROVE  (\A m \in H..n : Cell(m) # 0) <=> n <= H + P - 1
          <5>1. n \in Int /\ H + P - 1 \in Int
            BY <2>2, FrameSize
          <5>2. CASE n <= H + P - 1
            BY <3>1, <5>2
          <5>3. CASE n > H + P - 1
            <6>1. ~(n <= H + P - 1)
              BY <5>1, <5>3
            <6> QED
              BY <2>4, <3>2, <5>3, <6>1
          <5> QED
            BY <5>1, <5>2, <5>3
        <4> QED
          BY <2>5, <2>8, <4>1
      <3>4. ASSUME NEW n \in Int
            PROVE  n <= H + k - 1 /\ n <= H + P - 1 <=> n <= H + top /\ n <= arrived
        BY <2>1, <2>2, <2>3, <2>8, FrameSize
      <3>5. {n \in H..(H + k - 1) : n <= H + P - 1} = {n \in H..(H + top) : n <= arrived}
        <4>1. H \in Int /\ H + k - 1 \in Int /\ H + top \in Int
          BY <2>2, <2>3, FrameSize
        <4> QED
          BY <3>4, <4>1
      <3>6. ASSUME RunsOn(texts[1])
            PROVE  k \in CLEARED..P
        <4>1. k >= CLEARED
          BY <2>1, <2>2, <2>5, <3>6, CliAssumption
        <4>2. H + k - 1 \in {n \in H..(H + k - 1) : n <= H + P - 1}
          <5>1. H + k - 1 \in H..(H + k - 1)
            BY <2>2, FrameSize
          <5> QED
            BY <2>5, <2>8, <3>3, <3>6, <5>1
        <4>3. k <= P
          BY <2>2, <4>2, FrameSize
        <4> QED
          BY <2>2, <4>1, <4>3, CliAssumption
      <3> QED
        BY <2>8, <3>3, <3>5, <3>6
    <2> QED
      BY <2>1, <2>2, <2>7, <2>8
  <1>2. IInv => FirstText
    BY <1>1 DEF FirstText
  <1> QED
    BY <1>2, Invariance, PTL
=============================================================================
