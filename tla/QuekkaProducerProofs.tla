------------------------ MODULE QuekkaProducerProofs ------------------------
(***************************************************************************)
(* Proofs about the producer: every variable keeps its type, the loop of   *)
(* Quekka_publish reads the payload where it should, frames follow each    *)
(* other in order on a connection, and a complete publish lost exactly the *)
(* last byte of each full chunk.  Each for every number of threads, calls  *)
(* and bytes of a payload.                                                 *)
(***************************************************************************)
EXTENDS QuekkaProducer, SequenceTheorems, TLAPS

-----------------------------------------------------------------------------
(* The invariant.                                                          *)

\* A thread is in no call, or in the one after the last that returned; what
\* remains of a payload is part of it.
CallInv ==
  \A t \in Threads : LET c == call[t] IN
    /\ c.n = 0 => c = Idle
    /\ c.n # 0 => c.n = result[t].of.n + 1
    /\ c.length \in PayloadLens \cup {0}
    /\ c.remaining <= c.length

\* The chunk to come lies in the payload, also when seq has wrapped; if it
\* cannot wrap, the chunk is where the last one ended.
OffsetInv ==
  \A t \in Threads : LET c == call[t] IN
    c.remaining > 0 =>
      /\ c.seq * PAYLOAD_MAX + c.remaining <= c.length
      /\ Countable(c) => c.seq * PAYLOAD_MAX + c.remaining = c.length

\* The number of the call the thread is in, or of its last one.
Latest(t) == IF call[t].n # 0 THEN call[t].n ELSE result[t].of.n

\* Every frame on the wire is of a call made so far and carries something of
\* its payload; one of the call under way carries no more than what does not
\* remain.
FrameInv ==
  \A t \in Threads : \A i \in DOMAIN wire[t] : LET f == wire[t][i].frame IN
    /\ f.from = f.seq * PAYLOAD_MAX
    /\ f.from < f.to /\ f.to <= f.length
    /\ f.call <= Latest(t)
    /\ f.call = call[t].n =>
         /\ f.length = call[t].length
         /\ Countable(call[t]) => f.to <= call[t].length - call[t].remaining

\* The positions a connection s carried for call n.
CarriedOf(s, n) ==
  UNION {w.frame.from..(w.frame.to - 1) :
           w \in {s[i] : i \in {j \in DOMAIN s : s[j].frame.call = n}}}

\* The first n positions of a payload but the last of each full chunk.
Kept(n) == {i \in 0..(n - 1) : i % PAYLOAD_MAX # PAYLOAD_MAX - 1}

\* OnlyBoundaryLost for the call under way: of what does not remain.
CoverInv ==
  \A t \in Threads : LET c == call[t] IN
    c.n # 0 /\ ~c.short /\ Countable(c) =>
      CarriedOf(wire[t], c.n) = Kept(c.length - c.remaining)

IInv ==
  TypeOK /\ CallInv /\ OffsetInv /\ FrameInv /\ CoverInv /\ OnlyBoundaryLost

-----------------------------------------------------------------------------
(* Lemmas about the operators.                                             *)

\* A uint16_t that does not overflow is the number itself, and never more.
LEMMA Wraps ==
  ASSUME NEW n \in Nat
  PROVE  /\ UInt16(n) \in 0..UINT16_MAX
         /\ UInt16(n) <= n
         /\ n <= UINT16_MAX => UInt16(n) = n
  <1> DEFINE m == UINT16_MAX + 1
  <1>1. m \in Nat \ {0}
    BY ProducerAssumption
  <1> HIDE DEF m
  <1>2. n % m \in 0..(m - 1) /\ n % m <= n /\ (n < m => n % m = n)
    BY <1>1
  <1> QED
    BY <1>2, ProducerAssumption DEF UInt16, m

LEMMA SmallerOf ==
  ASSUME NEW a \in Nat, NEW b \in Nat
  PROVE  /\ Smaller(a, b) \in Nat
         /\ Smaller(a, b) <= a /\ Smaller(a, b) <= b
         /\ Smaller(a, b) = a \/ Smaller(a, b) = b
  BY DEF Smaller

\* Chunks are in the order of their numbers.
LEMMA ChunkOrder ==
  ASSUME NEW a \in Nat, NEW b \in Nat
  PROVE  /\ a * PAYLOAD_MAX \in Nat
         /\ (a + 1) * PAYLOAD_MAX = a * PAYLOAD_MAX + PAYLOAD_MAX
         /\ a <= b => a * PAYLOAD_MAX <= b * PAYLOAD_MAX
         /\ a * PAYLOAD_MAX < b * PAYLOAD_MAX => a < b
  <1>1. PAYLOAD_MAX \in Nat \ {0, 1}
    BY ProducerAssumption
  <1>2. ASSUME NEW x \in Nat, NEW y \in Nat, x <= y
        PROVE  x * PAYLOAD_MAX <= y * PAYLOAD_MAX
    <2>1. PICK d \in Nat : y = x + d
      BY <1>2
    <2>2. y * PAYLOAD_MAX = x * PAYLOAD_MAX + d * PAYLOAD_MAX /\ d * PAYLOAD_MAX >= 0
      BY <2>1, <1>1
    <2> QED
      BY <2>2, <1>1
  <1>3. a * PAYLOAD_MAX \in Nat /\ b * PAYLOAD_MAX \in Nat
    BY <1>1
  <1>4. (a + 1) * PAYLOAD_MAX = a * PAYLOAD_MAX + PAYLOAD_MAX
    BY <1>1
  <1>5. a * PAYLOAD_MAX < b * PAYLOAD_MAX => a < b
    BY <1>2, <1>3
  <1> QED
    BY <1>2, <1>3, <1>4, <1>5

\* Position r of chunk k of a payload.
LEMMA InChunk ==
  ASSUME NEW k \in Nat, NEW r \in 0..(PAYLOAD_MAX - 1)
  PROVE  (k * PAYLOAD_MAX + r) % PAYLOAD_MAX = r
  <1>1. PAYLOAD_MAX \in Nat \ {0, 1}
    BY ProducerAssumption
  <1> DEFINE x == k * PAYLOAD_MAX + r
             q == x \div PAYLOAD_MAX
  <1>2. x \in Nat
    BY <1>1
  <1>3. q \in Nat /\ x = PAYLOAD_MAX * q + (x % PAYLOAD_MAX) /\ x % PAYLOAD_MAX \in 0..(PAYLOAD_MAX - 1)
    <2> HIDE DEF x
    <2> QED
      BY <1>1, <1>2
  <1>4. q * PAYLOAD_MAX < (k + 1) * PAYLOAD_MAX /\ k * PAYLOAD_MAX < (q + 1) * PAYLOAD_MAX
    BY <1>1, <1>2, <1>3, ChunkOrder
  <1> HIDE DEF q
  <1>5. q < k + 1 /\ k < q + 1
    BY <1>3, <1>4, ChunkOrder
  <1>6. q = k
    BY <1>3, <1>5
  <1> QED
    BY <1>1, <1>3, <1>6

\* htons keeps a port in its range.
LEMMA Swapped ==
  ASSUME NEW n \in 0..(BYTE * BYTE - 1)
  PROVE  htons(n) \in 0..(BYTE * BYTE - 1)
  <1>1. BYTE \in Nat \ {0, 1}
    BY ConfigAssumption
  <1> DEFINE low == n % BYTE
             high == n \div BYTE
  <1>2. n = BYTE * high + low /\ low \in 0..(BYTE - 1) /\ high \in Nat
    BY <1>1
  <1> HIDE DEF low, high
  <1>3. high <= BYTE - 1
    <2>1. SUFFICES ASSUME high >= BYTE PROVE FALSE
      BY <1>1, <1>2
    <2>2. PICK d \in Nat : high = BYTE + d
      BY <1>1, <1>2, <2>1
    <2>3. BYTE * high = BYTE * BYTE + BYTE * d /\ BYTE * d >= 0 /\ BYTE * BYTE \in Nat
      BY <1>1, <2>2
    <2> QED
      BY <1>1, <1>2, <2>3
  <1>4. htons(n) = low * BYTE + high
    BY DEF htons, low, high
  <1>5. ASSUME NEW a \in 0..(BYTE - 1), NEW b \in 0..(BYTE - 1)
        PROVE  a * BYTE + b \in 0..(BYTE * BYTE - 1)
    <2>1. PICK d \in Nat : BYTE = a + 1 + d
      BY <1>1
    <2>2. BYTE * BYTE = a * BYTE + BYTE + d * BYTE /\ d * BYTE >= 0 /\ a * BYTE >= 0
      BY <1>1, <2>1
    <2> QED
      BY <1>1, <2>2
  <1> QED
    BY <1>1, <1>2, <1>3, <1>4, <1>5

\* What a connection carried of a call, frame by frame.
LEMMA CarriedBy ==
  ASSUME NEW s, NEW n, NEW x
  PROVE  x \in CarriedOf(s, n) <=>
           \E i \in DOMAIN s : /\ s[i].frame.call = n
                             /\ x \in s[i].frame.from..(s[i].frame.to - 1)
  BY DEF CarriedOf

LEMMA CarriedAppend ==
  ASSUME NEW S, NEW s \in Seq(S), NEW w \in S, NEW n
  PROVE  /\ w.frame.call = n =>
              CarriedOf(Append(s, w), n) = CarriedOf(s, n) \cup w.frame.from..(w.frame.to - 1)
         /\ w.frame.call # n => CarriedOf(Append(s, w), n) = CarriedOf(s, n)
  <1> DEFINE z == Append(s, w)
  <1>1. /\ Len(s) \in Nat /\ DOMAIN s = 1..Len(s)
        /\ DOMAIN z = 1..(Len(s) + 1)
        /\ \A i \in 1..Len(s) : z[i] = s[i]
        /\ z[Len(s) + 1] = w
    BY AppendProperties, LenProperties
  <1> HIDE DEF z
  <1>2. DOMAIN z = DOMAIN s \cup {Len(s) + 1}
    BY <1>1
  <1>3. ASSUME NEW x
        PROVE  x \in CarriedOf(z, n) <=>
                 \/ x \in CarriedOf(s, n)
                 \/ w.frame.call = n /\ x \in w.frame.from..(w.frame.to - 1)
    <2> DEFINE In(u) == u.frame.call = n /\ x \in u.frame.from..(u.frame.to - 1)
    <2>1. x \in CarriedOf(z, n) <=> \E i \in DOMAIN z : In(z[i])
      BY CarriedBy
    <2>2. x \in CarriedOf(s, n) <=> \E i \in DOMAIN s : In(s[i])
      BY CarriedBy
    <2> HIDE DEF In
    <2>3. (\E i \in DOMAIN z : In(z[i])) <=> (\E i \in DOMAIN s : In(z[i])) \/ In(z[Len(s) + 1])
      BY <1>2
    <2>4. \A i \in DOMAIN s : z[i] = s[i]
      BY <1>1
    <2>5. (\E i \in DOMAIN s : In(z[i])) <=> (\E i \in DOMAIN s : In(s[i]))
      BY <2>4
    <2>6. In(z[Len(s) + 1]) <=> In(w)
      BY <1>1
    <2> QED
      BY <2>1, <2>2, <2>3, <2>5, <2>6 DEF In
  <1> QED
    BY <1>3 DEF z

\* The positions a chunk adds to those kept so far: all of its own, but for
\* the last one if it is full.
LEMMA KeptGrows ==
  ASSUME NEW k \in Nat, NEW m \in Nat, m > 0
  PROVE  Kept(k * PAYLOAD_MAX) \cup
           (k * PAYLOAD_MAX)..(k * PAYLOAD_MAX + Smaller(m, PAYLOAD_MAX - 1) - 1)
         = Kept(k * PAYLOAD_MAX + Smaller(m, PAYLOAD_MAX))
  <1>1. PAYLOAD_MAX \in Nat \ {0, 1}
    BY ProducerAssumption
  <1> DEFINE b == k * PAYLOAD_MAX
  <1>2. b \in Nat
    BY ChunkOrder
  <1>3. \A r \in 0..(PAYLOAD_MAX - 1) : (b + r) % PAYLOAD_MAX = r
    BY InChunk
  <1> HIDE DEF b
  <1>4. ASSUME NEW x \in b..(b + PAYLOAD_MAX - 1)
        PROVE  x % PAYLOAD_MAX = x - b
    <2>1. PICK r \in 0..(PAYLOAD_MAX - 1) : x = b + r
      <3>1. x - b \in 0..(PAYLOAD_MAX - 1) /\ x = b + (x - b)
        BY <1>1, <1>2
      <3> QED
        BY <3>1
    <2>2. (b + r) % PAYLOAD_MAX = r
      BY <1>3
    <2> QED
      BY <1>1, <1>2, <2>1, <2>2
  <1>5. ASSUME NEW x \in b..(b + Smaller(m, PAYLOAD_MAX - 1) - 1)
        PROVE  x \in Kept(b + Smaller(m, PAYLOAD_MAX))
    <2>1. x \in 0..(b + Smaller(m, PAYLOAD_MAX) - 1) /\ x \in b..(b + PAYLOAD_MAX - 1)
          /\ x - b < PAYLOAD_MAX - 1
      BY <1>1, <1>2 DEF Smaller
    <2>2. x % PAYLOAD_MAX = x - b
      BY <1>4, <2>1
    <2>3. x % PAYLOAD_MAX # PAYLOAD_MAX - 1
      BY <1>1, <1>2, <2>1, <2>2
    <2> DEFINE n == b + Smaller(m, PAYLOAD_MAX)
    <2>4. x \in 0..(n - 1)
      BY <1>1, <1>2, <2>1 DEF Smaller
    <2> HIDE DEF n
    <2>5. x \in Kept(n)
      BY <2>3, <2>4 DEF Kept
    <2> QED
      BY <2>5 DEF n
  <1>6. ASSUME NEW x \in Kept(b)
        PROVE  x \in Kept(b + Smaller(m, PAYLOAD_MAX))
    BY <1>1, <1>2 DEF Kept, Smaller
  <1>7. ASSUME NEW x \in Kept(b + Smaller(m, PAYLOAD_MAX))
        PROVE  x \in Kept(b) \/ x \in b..(b + Smaller(m, PAYLOAD_MAX - 1) - 1)
    <2>1. CASE x < b
      BY <1>1, <1>2, <2>1 DEF Kept, Smaller
    <2>2. CASE x >= b
      <3>1. x \in b..(b + PAYLOAD_MAX - 1) /\ x < b + m /\ x % PAYLOAD_MAX # PAYLOAD_MAX - 1
        BY <1>1, <1>2, <2>2 DEF Kept, Smaller
      <3>2. x - b # PAYLOAD_MAX - 1
        BY <1>4, <3>1
      <3> QED
        BY <1>1, <1>2, <3>1, <3>2 DEF Smaller
    <2> QED
      BY <1>1, <1>2, <2>1, <2>2 DEF Kept, Smaller
  <1>8. ASSUME NEW x
        PROVE  x \in Kept(b) \cup b..(b + Smaller(m, PAYLOAD_MAX - 1) - 1)
                 <=> x \in Kept(b + Smaller(m, PAYLOAD_MAX))
    BY <1>5, <1>6, <1>7
  <1> QED
    BY <1>8 DEF b

-----------------------------------------------------------------------------
(* One turn of the loop of Quekka_publish, of a call c.                    *)

InLoop(c) ==
  /\ c \in CallRecord
  /\ c.n \in 1..MaxCalls
  /\ c.remaining > 0 /\ c.remaining <= c.length
  /\ c.seq * PAYLOAD_MAX + c.remaining <= c.length
  /\ Countable(c) => c.seq * PAYLOAD_MAX + c.remaining = c.length

\* What the turn leaves of the call.
LEMMA TurnLeaves ==
  ASSUME NEW c, InLoop(c)
  PROVE  LET d == NextChunk(c) IN
         /\ d \in CallRecord
         /\ d.n = c.n /\ d.length = c.length /\ d.short = c.short
         /\ d.remaining = c.remaining - Smaller(c.remaining, PAYLOAD_MAX)
         /\ d.remaining > 0 =>
              /\ d.seq * PAYLOAD_MAX + d.remaining <= c.length
              /\ Countable(c) => d.seq * PAYLOAD_MAX + d.remaining = c.length
  <1>1. PAYLOAD_MAX \in Nat \ {0, 1} /\ UINT16_MAX \in Nat \ {0}
    BY ProducerAssumption
  <1>2. /\ c.seq \in 0..UINT16_MAX /\ c.remaining \in Nat /\ c.length \in Nat
        /\ c.n \in 0..MaxCalls /\ c.short \in BOOLEAN
    BY DEF InLoop, CallRecord
  <1> DEFINE d == NextChunk(c)
  <1>3. Smaller(c.remaining, PAYLOAD_MAX) \in Nat /\ Smaller(c.remaining, PAYLOAD_MAX) <= c.remaining
    BY <1>1, <1>2, SmallerOf
  <1>4. UInt16(c.seq + 1) \in 0..UINT16_MAX /\ UInt16(c.seq + 1) <= c.seq + 1
    BY <1>1, <1>2, Wraps
  <1>5. /\ d.n = c.n /\ d.length = c.length /\ d.short = c.short
        /\ d.remaining = c.remaining - Smaller(c.remaining, PAYLOAD_MAX)
        /\ d.seq = UInt16(c.seq + 1)
    BY DEF NextChunk, InLoop, CallRecord
  <1>6. d \in CallRecord
    <2>1. ASSUME NEW m \in Nat, NEW q \in 0..UINT16_MAX
          PROVE  [c EXCEPT !.remaining = m, !.seq = q] \in CallRecord
      BY DEF InLoop, CallRecord
    <2>2. d = [c EXCEPT !.remaining = c.remaining - Smaller(c.remaining, PAYLOAD_MAX),
                        !.seq = UInt16(c.seq + 1)]
      BY DEF NextChunk
    <2> HIDE DEF d
    <2>3. c.remaining - Smaller(c.remaining, PAYLOAD_MAX) \in Nat
      BY <1>2, <1>3
    <2> QED
      BY <1>4, <2>1, <2>2, <2>3
  <1>7. ASSUME d.remaining > 0
        PROVE  /\ d.seq * PAYLOAD_MAX + d.remaining <= c.length
               /\ Countable(c) => d.seq * PAYLOAD_MAX + d.remaining = c.length
    <2>1. d.remaining = c.remaining - PAYLOAD_MAX
      BY <1>1, <1>2, <1>5, <1>7 DEF Smaller
    <2>2. /\ c.seq * PAYLOAD_MAX \in Nat
          /\ (c.seq + 1) * PAYLOAD_MAX = c.seq * PAYLOAD_MAX + PAYLOAD_MAX
      BY <1>2, ChunkOrder
    <2>3. d.seq \in Nat /\ d.seq * PAYLOAD_MAX \in Nat
          /\ d.seq * PAYLOAD_MAX <= (c.seq + 1) * PAYLOAD_MAX
      BY <1>1, <1>2, <1>4, <1>5, ChunkOrder
    <2>4. ASSUME Countable(c)
          PROVE  d.seq = c.seq + 1
      <3>1. c.length <= (UINT16_MAX + 1) * PAYLOAD_MAX
        BY <1>1, <2>4 DEF Countable
      <3>2. (c.seq + 1) * PAYLOAD_MAX < c.length
        BY <1>1, <1>2, <1>7, <2>1, <2>2, <2>4 DEF InLoop
      <3>3. (c.seq + 1) * PAYLOAD_MAX < (UINT16_MAX + 1) * PAYLOAD_MAX
        <4>1. (UINT16_MAX + 1) * PAYLOAD_MAX \in Nat
          BY <1>1
        <4> QED
          BY <1>1, <1>2, <2>2, <3>1, <3>2, <4>1
      <3>4. c.seq + 1 < UINT16_MAX + 1
        BY <1>1, <1>2, <3>3, ChunkOrder
      <3> QED
        BY <1>1, <1>2, <1>5, <3>4, Wraps
    <2> QED
      BY <1>1, <1>2, <1>7, <2>1, <2>2, <2>3, <2>4 DEF InLoop
  <1> QED
    BY <1>5, <1>6, <1>7

\* The frame it sends.
LEMMA TurnSends ==
  ASSUME NEW c, InLoop(c)
  PROVE  LET f == message_assemble(c) IN
         /\ f \in Frame
         /\ f.call = c.n
         /\ f.from = c.seq * PAYLOAD_MAX
         /\ f.from < f.to /\ f.to <= f.length /\ f.length = c.length
         /\ Countable(c) =>
              /\ f.from = c.length - c.remaining
              /\ f.to = f.from + Smaller(c.remaining, PAYLOAD_MAX - 1)
              /\ f.to <= c.length - NextChunk(c).remaining
  <1>1. PAYLOAD_MAX \in Nat \ {0, 1} /\ UINT16_MAX \in Nat \ {0} /\ TOPIC_KEPT \in Nat \ {0}
    BY ProducerAssumption
  <1>2. /\ c.seq \in 0..UINT16_MAX /\ c.remaining \in Nat /\ c.length \in Nat
        /\ c.n \in 1..MaxCalls /\ c.topic \in Nat
        /\ c.remaining > 0 /\ c.remaining <= c.length
    BY DEF InLoop, CallRecord
  <1> DEFINE from == c.seq * PAYLOAD_MAX
             rest == c.length - from
             f == message_assemble(c)
  <1>3. from \in Nat
    BY <1>1, <1>2, ChunkOrder
  <1>4. /\ f.call = c.n /\ f.from = from /\ f.to = from + Smaller(rest, PAYLOAD_MAX - 1)
        /\ f.length = c.length
        /\ f = [header |-> header_assemble(c.topic), call |-> c.n, length |-> c.length,
                payload_len |-> UInt16(rest), seq |-> c.seq, flags |-> MORE,
                from |-> from, to |-> from + Smaller(rest, PAYLOAD_MAX - 1)]
    BY DEF message_assemble
  <1>5. from + c.remaining <= c.length /\ (Countable(c) => from + c.remaining = c.length)
    BY DEF InLoop
  <1> HIDE DEF f, from
  <1>6. rest \in Nat /\ rest > 0
    BY <1>2, <1>3, <1>5
  <1> HIDE DEF rest
  <1>7. Smaller(rest, PAYLOAD_MAX - 1) \in Nat \ {0} /\ Smaller(rest, PAYLOAD_MAX - 1) <= rest
    BY <1>1, <1>6 DEF Smaller
  <1>8. header_assemble(c.topic) \in [topic : 0..TOPIC_KEPT, topic_len : 0..UINT16_MAX]
    <2>1. UInt16(c.topic) \in 0..UINT16_MAX
      BY <1>2, Wraps
    <2>2. Smaller(c.topic, TOPIC_KEPT) \in 0..TOPIC_KEPT
      BY <1>1, <1>2 DEF Smaller
    <2> QED
      BY <2>1, <2>2 DEF header_assemble
  <1>9. UInt16(rest) \in 0..UINT16_MAX
    BY <1>6, Wraps
  <1>10. from + Smaller(rest, PAYLOAD_MAX - 1) \in Nat
    BY <1>3, <1>7
  <1>11. f \in Frame
    BY <1>2, <1>3, <1>4, <1>8, <1>9, <1>10 DEF Frame, MORE
  <1>12. f.from < f.to /\ f.to <= f.length
    <2>1. from + rest = c.length
      BY <1>2, <1>3, <1>6 DEF rest
    <2> QED
      BY <1>2, <1>3, <1>4, <1>6, <1>7, <2>1
  <1>13. ASSUME Countable(c)
         PROVE  /\ f.from = c.length - c.remaining
                /\ f.to = f.from + Smaller(c.remaining, PAYLOAD_MAX - 1)
                /\ f.to <= c.length - NextChunk(c).remaining
    <2>1. rest = c.remaining
      BY <1>2, <1>3, <1>5, <1>13 DEF rest
    <2>2. NextChunk(c).remaining = c.remaining - Smaller(c.remaining, PAYLOAD_MAX)
      BY TurnLeaves
    <2>3. Smaller(c.remaining, PAYLOAD_MAX - 1) <= Smaller(c.remaining, PAYLOAD_MAX)
          /\ Smaller(c.remaining, PAYLOAD_MAX - 1) \in Nat
          /\ Smaller(c.remaining, PAYLOAD_MAX) \in Nat
      BY <1>1, <1>2 DEF Smaller
    <2> QED
      BY <1>2, <1>3, <1>4, <1>5, <1>13, <2>1, <2>2, <2>3
  <1> QED
    BY <1>4, <1>11, <1>12, <1>13 DEF from, f

-----------------------------------------------------------------------------
(* Type correctness.                                                       *)

WireRecord == [frame : Frame, sent : {1, 2}]

LEMMA NewCall ==
  ASSUME NEW n \in 0..MaxCalls, NEW topic \in Nat, NEW length \in Nat, NEW size \in Nat
  PROVE  Call(n, topic, length, size) \in CallRecord
  BY ProducerAssumption DEF Call, CallRecord

LEMMA IdleIsCall ==
  Idle \in CallRecord /\ Idle.n = 0 /\ Idle.remaining = 0 /\ Idle.length = 0
  BY ProducerAssumption DEF Idle, Call, CallRecord

\* A call with bytes left is in the loop.
LEMMA LoopEntered ==
  ASSUME TypeOK, CallInv, OffsetInv, NEW t \in Threads, call[t].remaining > 0
  PROVE  InLoop(call[t])
  <1> DEFINE c == call[t]
  <1>1. c \in CallRecord
    BY DEF TypeOK
  <1>2. /\ c.n = 0 => c = Idle
        /\ c.remaining <= c.length
    BY DEF CallInv
  <1>3. /\ c.seq * PAYLOAD_MAX + c.remaining <= c.length
        /\ Countable(c) => c.seq * PAYLOAD_MAX + c.remaining = c.length
    BY DEF OffsetInv
  <1> HIDE DEF c
  <1>4. c.n \in 1..MaxCalls
    <2>1. c.n # 0
      BY <1>2, IdleIsCall DEF c
    <2> QED
      BY <1>1, <2>1, ProducerAssumption DEF CallRecord
  <1> QED
    BY <1>1, <1>2, <1>3, <1>4 DEF InLoop, c

\* A turn of the loop, for the thread and for its connection.
LEMMA ChunkStep ==
  ASSUME TypeOK, CallInv, OffsetInv, NEW t \in Threads, PublishChunk(t)
  PROVE  \E sent \in 0..2, d \in CallRecord :
           /\ d = AfterSend(call[t], sent)
           /\ call' = [call EXCEPT ![t] = d]
           /\ room' = [room EXCEPT ![t] = @ - sent] /\ room[t] - sent \in 0..SocketRoom
           /\ sent = 0 => wire' = wire
           /\ sent # 0 =>
                LET w == [frame |-> message_assemble(call[t]), sent |-> sent]
                IN  w \in WireRecord /\ wire' = [wire EXCEPT ![t] = Append(wire[t], w)]
  <1> DEFINE sent == Smaller(2, room[t])
             d == AfterSend(call[t], sent)
             w == [frame |-> message_assemble(call[t]), sent |-> sent]
  <1>1. InLoop(call[t])
    BY LoopEntered DEF PublishChunk
  <1>2. room[t] \in 0..SocketRoom
    BY DEF TypeOK
  <1>3. sent \in 0..2 /\ room[t] - sent \in 0..SocketRoom
    BY <1>2, ProducerAssumption DEF Smaller
  <1>4. /\ room' = [room EXCEPT ![t] = @ - sent]
        /\ wire' = IF sent = 0 THEN wire ELSE [wire EXCEPT ![t] = Append(wire[t], w)]
        /\ call' = [call EXCEPT ![t] = d]
    <2>1. room' = [room EXCEPT ![t] = @ - sent]
      BY DEF PublishChunk
    <2>2. wire' = IF sent = 0 THEN wire ELSE [wire EXCEPT ![t] = Append(wire[t], w)]
      BY DEF PublishChunk
    <2>3. call' = [call EXCEPT ![t] = d]
      BY DEF PublishChunk
    <2> QED
      BY <2>1, <2>2, <2>3
  <1> HIDE DEF sent
  <1>5. d \in CallRecord
    <2>1. ASSUME NEW e \in CallRecord, NEW b \in BOOLEAN
          PROVE  [e EXCEPT !.short = @ \/ b] \in CallRecord
      BY DEF CallRecord
    <2>2. NextChunk(call[t]) \in CallRecord
      BY <1>1, TurnLeaves
    <2> QED
      BY <2>1, <2>2, Zenon DEF AfterSend
  <1>6. sent # 0 => w \in WireRecord
    <2>1. message_assemble(call[t]) \in Frame
      BY <1>1, TurnSends
    <2>2. sent # 0 => sent \in {1, 2}
      BY <1>3
    <2> QED
      BY <2>1, <2>2 DEF WireRecord
  <1> QED
    BY <1>3, <1>4, <1>5, <1>6

-----------------------------------------------------------------------------
(* Configuring.                                                            *)

\* What the fields of a configuration may be.
ConfigRecord == [_ip : Seq(Nat), _port : 0..(BYTE * BYTE - 1)]

\* A string written over another keeps the rest of a longer one.
LEMMA Overwritten ==
  ASSUME NEW ip \in Seq(Nat), NEW old \in Seq(Nat)
  PROVE  LET z == ip \o SubSeq(old, Len(ip) + 1, Len(old)) IN
         /\ z \in Seq(Nat)
         /\ Len(z) = IF Len(old) > Len(ip) THEN Len(old) ELSE Len(ip)
  <1> DEFINE rest == SubSeq(old, Len(ip) + 1, Len(old))
             z == ip \o rest
  <1>1. Len(ip) \in Nat /\ Len(old) \in Nat
    BY LenProperties
  <1>2. \A i \in (Len(ip) + 1)..Len(old) : old[i] \in Nat
    BY <1>1, ElementOfSeq
  <1>3. /\ rest \in Seq(Nat)
        /\ Len(rest) = IF Len(ip) + 1 <= Len(old) THEN Len(old) - (Len(ip) + 1) + 1 ELSE 0
    BY <1>1, <1>2, SubSeqProperties
  <1> HIDE DEF rest
  <1>4. z \in Seq(Nat) /\ Len(z) = Len(ip) + Len(rest)
    BY <1>3, ConcatProperties
  <1> QED
    BY <1>1, <1>3, <1>4 DEF rest

LEMMA PortsAreShort ==
  BYTE * BYTE - 1 \in Nat /\ \A port \in Ports \cup {0} : port \in 0..(BYTE * BYTE - 1)
  <1>1. BYTE * BYTE \in Nat /\ BYTE * BYTE >= 1
    <2>1. BYTE \in Nat /\ BYTE >= 1
      BY ConfigAssumption
    <2>2. PICK d \in Nat : BYTE = 1 + d
      BY <2>1
    <2>3. BYTE * BYTE = BYTE + d * BYTE /\ d * BYTE \in Nat
      BY <2>1, <2>2
    <2> QED
      BY <2>1, <2>3
  <1> QED
    BY <1>1, ConfigAssumption

\* Whatever a thread sets, the field _ip holds, unless the copy runs over it.
LEMMA ConfigureStep ==
  ASSUME TypeOK, NEW t \in Threads, Configure(t)
  PROVE  \/ process' = "undefined" /\ UNCHANGED configVars
         \/ \E value \in ConfigRecord :
              /\ Len(value._ip) <= ADDRSTRLEN
              /\ config' = [config EXCEPT ![t] = value]
              /\ settings' = [settings EXCEPT ![t] = @ + 1]
              /\ process' = process
  <1> DEFINE old == config[t]
  <1>1. /\ old \in ConfigRecord
        /\ old._ip \in Seq(Nat) /\ Len(old._ip) \in Nat /\ Len(old._ip) <= ADDRSTRLEN
    <2>1. old \in ConfigRecord /\ Len(old._ip) <= ADDRSTRLEN
      BY DEF TypeOK, ConfigRecord
    <2>2. old._ip \in Seq(Nat)
      BY <2>1 DEF ConfigRecord
    <2> QED
      BY <2>1, <2>2, LenProperties
  <1>2. PICK ip \in Hosts, port \in Ports :
          \/ Fits(ip) /\ Set(t, Quekka_config_set_address(old, ip, port))
          \/ Overruns(ip)
          \/ Set(t, Quekka_config_set_ip(old, ip))
          \/ Set(t, Quekka_config_set_port(old, port))
    BY DEF Configure
  <1>3. /\ ip \in Seq(Nat) /\ Len(ip) \in Nat /\ port \in 0..(BYTE * BYTE - 1)
        /\ ADDRSTRLEN \in Nat
    BY ConfigAssumption, LenProperties, PortsAreShort
  <1> HIDE DEF old
  <1>4. CASE Fits(ip) /\ Set(t, Quekka_config_set_address(old, ip, port))
    <2> DEFINE z == ip \o SubSeq(old._ip, Len(ip) + 1, Len(old._ip))
               value == [_ip |-> z, _port |-> port]
    <2>1. /\ z \in Seq(Nat)
          /\ Len(z) = IF Len(old._ip) > Len(ip) THEN Len(old._ip) ELSE Len(ip)
      BY <1>1, <1>3, Overwritten
    <2>2. /\ config' = [config EXCEPT ![t] = value]
          /\ settings' = [settings EXCEPT ![t] = @ + 1] /\ process' = process
      BY <1>4 DEF Set, Quekka_config_set_address
    <2> HIDE DEF z
    <2>3. value \in ConfigRecord
      BY <1>3, <2>1 DEF ConfigRecord
    <2>4. Len(value._ip) <= ADDRSTRLEN
      BY <1>1, <1>3, <1>4, <2>1 DEF Fits
    <2> QED
      BY <2>2, <2>3, <2>4
  <1>5. CASE Set(t, Quekka_config_set_ip(old, ip))
    <2> DEFINE kept == IF Fits(ip) THEN ip ELSE SubSeq(ip, 1, ADDRSTRLEN)
               value == [old EXCEPT !._ip = kept]
    <2>1. /\ config' = [config EXCEPT ![t] = value]
          /\ settings' = [settings EXCEPT ![t] = @ + 1] /\ process' = process
      BY <1>5 DEF Set, Quekka_config_set_ip
    <2>2. kept \in Seq(Nat) /\ Len(kept) <= ADDRSTRLEN
      <3>1. CASE Fits(ip)
        BY <1>3, <3>1 DEF Fits
      <3>2. CASE ~Fits(ip)
        <4>1. \A i \in 1..ADDRSTRLEN : ip[i] \in Nat
          BY <1>3, <3>2, ElementOfSeq DEF Fits
        <4>2. /\ SubSeq(ip, 1, ADDRSTRLEN) \in Seq(Nat)
              /\ Len(SubSeq(ip, 1, ADDRSTRLEN)) = IF 1 <= ADDRSTRLEN THEN ADDRSTRLEN - 1 + 1 ELSE 0
          BY <1>3, <4>1, SubSeqProperties
        <4> QED
          BY <1>3, <3>2, <4>2
      <3> QED
        BY <3>1, <3>2
    <2> HIDE DEF kept
    <2>3. value \in ConfigRecord /\ value._ip = kept
      BY <1>1, <2>2 DEF ConfigRecord
    <2> QED
      BY <2>1, <2>2, <2>3
  <1>6. CASE Set(t, Quekka_config_set_port(old, port))
    <2> DEFINE value == [old EXCEPT !._port = htons(port)]
    <2>1. /\ config' = [config EXCEPT ![t] = value]
          /\ settings' = [settings EXCEPT ![t] = @ + 1] /\ process' = process
      BY <1>6 DEF Set, Quekka_config_set_port
    <2>2. value \in ConfigRecord /\ value._ip = old._ip
      BY <1>1, <1>3, Swapped DEF ConfigRecord
    <2> QED
      BY <1>1, <2>1, <2>2
  <1> QED
    BY <1>2, <1>4, <1>5, <1>6 DEF Overruns

LEMMA TypeInit ==
  Init => TypeOK
  <1>1. Quekka_config_init \in [_ip : Seq(Nat), _port : 0..(BYTE * BYTE - 1)]
    BY PortsAreShort, EmptySeq DEF Quekka_config_init
  <1>2. 0 \in 0..MaxConfigs
    BY ProducerAssumption
  <1>3. << >> \in Seq([frame : Frame, sent : {1, 2}])
    BY EmptySeq
  <1>4. Len(Quekka_config_init._ip) <= ADDRSTRLEN
    BY EmptySeq, ConfigAssumption DEF Quekka_config_init
  <1> QED
    BY <1>1, <1>2, <1>3, <1>4, IdleIsCall, ProducerAssumption DEF Init, TypeOK

-----------------------------------------------------------------------------
(* Every step preserves the invariant.                                     *)

\* The call a thread makes when it is in none.
Made(t, c) ==
  \E topic \in TopicLens, length, size \in PayloadLens :
    c = Call(result[t].of.n + 1, topic, length, size)

LEMMA MadeIsCall ==
  ASSUME NEW t \in Threads, NEW c, Made(t, c), c.n \in 1..MaxCalls
  PROVE  /\ c \in CallRecord
         /\ c.n = result[t].of.n + 1
         /\ c.length \in PayloadLens /\ c.length \in Nat
         /\ c.remaining = c.length /\ c.seq = 0 /\ c.short = FALSE
  <1>1. PICK topic \in TopicLens, length \in PayloadLens, size \in PayloadLens :
          c = Call(result[t].of.n + 1, topic, length, size)
    BY DEF Made
  <1>2. topic \in Nat /\ length \in Nat /\ size \in Nat
    BY ProducerAssumption
  <1>3. c.n = result[t].of.n + 1
    BY <1>1 DEF Call
  <1>4. c \in CallRecord
    <2>1. c.n \in 0..MaxCalls
      BY ProducerAssumption
    <2> QED
      BY <1>1, <1>2, <1>3, <2>1, NewCall
  <1> QED
    BY <1>1, <1>2, <1>3, <1>4 DEF Call

\* The steps that concern calls and connections.
LEMMA PublishSteps ==
  ASSUME [Next]_vars
  PROVE  \/ UNCHANGED <<call, result, wire>>
         \/ \E t \in Threads :
              \/ PublishChunk(t)
              \/ PublishReturns(t)
              \/ \E c : Made(t, c) /\ (PublishRejected(t, c) \/ PublishStarts(t, c))
  <1>1. CASE UNCHANGED vars
    BY <1>1 DEF vars
  <1>2. CASE Next
    <2>1. PICK t \in Threads : Configure(t) \/ Quekka_producer_init(t) \/ Publishing(t)
      BY <1>2 DEF Next
    <2>2. CASE Configure(t) \/ Quekka_producer_init(t)
      BY <2>2 DEF Configure, Quekka_producer_init
    <2>3. CASE Publishing(t)
      <3>1. CASE \E topic \in TopicLens, length, size \in PayloadLens :
                   LET c == Call(result[t].of.n + 1, topic, length, size)
                   IN  PublishRejected(t, c) \/ PublishStarts(t, c)
        BY <3>1 DEF Made
      <3>2. CASE PublishCrashes(t) \/ Drain(t)
        BY <3>2 DEF PublishCrashes, Drain
      <3> QED
        BY <2>3, <3>1, <3>2 DEF Publishing
    <2> QED
      BY <2>1, <2>2, <2>3
  <1> QED
    BY <1>1, <1>2

LEMMA TypeNext ==
  ASSUME TypeOK, CallInv, OffsetInv, [Next]_vars
  PROVE  TypeOK'
  <1> USE DEF TypeOK
  <1>1. CASE UNCHANGED vars
    BY <1>1 DEF vars, configVars
  <1>2. ASSUME NEW t \in Threads, Configure(t)
        PROVE  TypeOK'
    <2>1. CASE process' = "undefined" /\ UNCHANGED configVars
      BY <1>2, <2>1 DEF Configure, configVars
    <2>2. CASE \E value \in ConfigRecord :
                 /\ Len(value._ip) <= ADDRSTRLEN
                 /\ config' = [config EXCEPT ![t] = value]
                 /\ settings' = [settings EXCEPT ![t] = @ + 1]
                 /\ process' = process
      <3>1. PICK value \in ConfigRecord :
              /\ Len(value._ip) <= ADDRSTRLEN
              /\ config' = [config EXCEPT ![t] = value]
              /\ settings' = [settings EXCEPT ![t] = @ + 1]
              /\ process' = process
        BY <2>2
      <3>2. /\ config' \in [Threads -> [_ip : Seq(Nat), _port : 0..(BYTE * BYTE - 1)]]
            /\ settings' \in [Threads -> 0..MaxConfigs]
        <4>1. settings[t] + 1 \in 0..MaxConfigs
          BY <1>2, ProducerAssumption DEF Configure
        <4> QED
          BY <3>1, <4>1 DEF ConfigRecord
      <3>3. \A u \in Threads : Len(config'[u]._ip) <= ADDRSTRLEN
        BY <3>1
      <3> QED
        BY <1>2, <3>1, <3>2, <3>3 DEF Configure
    <2> QED
      BY <1>2, <2>1, <2>2, ConfigureStep
  <1>3. ASSUME NEW t \in Threads, Quekka_producer_init(t)
        PROVE  TypeOK'
    <2>1. CASE Connected(t)
      BY <1>3, <2>1 DEF Quekka_producer_init, Connected, configVars
    <2>2. CASE InitFails(t)
      BY <1>3, <2>2 DEF Quekka_producer_init, InitFails, configVars
    <2>3. CASE ConnectExits(t)
      BY <1>3, <2>3 DEF Quekka_producer_init, ConnectExits, configVars
    <2> QED
      BY <1>3, <2>1, <2>2, <2>3 DEF Quekka_producer_init
  <1>4. ASSUME NEW t \in Threads, NEW c, Made(t, c),
               PublishRejected(t, c) \/ PublishStarts(t, c), UNCHANGED configVars
        PROVE  TypeOK'
    <2>1. c \in CallRecord
      BY <1>4, MadeIsCall DEF PublishRejected, PublishStarts, Publish
    <2>2. CASE PublishRejected(t, c)
      BY <1>4, <2>1, <2>2 DEF PublishRejected, configVars
    <2>3. CASE PublishStarts(t, c)
      BY <1>4, <2>1, <2>3 DEF PublishStarts, configVars
    <2> QED
      BY <1>4, <2>2, <2>3
  <1>5. ASSUME NEW t \in Threads, PublishChunk(t), UNCHANGED configVars
        PROVE  TypeOK'
    <2>1. PICK sent \in 0..2, d \in CallRecord :
           /\ call' = [call EXCEPT ![t] = d]
           /\ room' = [room EXCEPT ![t] = @ - sent] /\ room[t] - sent \in 0..SocketRoom
           /\ sent = 0 => wire' = wire
           /\ sent # 0 =>
                LET w == [frame |-> message_assemble(call[t]), sent |-> sent]
                IN  w \in WireRecord /\ wire' = [wire EXCEPT ![t] = Append(wire[t], w)]
      BY <1>5, ChunkStep
    <2>2. wire' \in [Threads -> Seq(WireRecord)]
      <3>1. CASE sent = 0
        BY <2>1, <3>1 DEF WireRecord
      <3>2. CASE sent # 0
        <4>1. PICK w \in WireRecord : wire' = [wire EXCEPT ![t] = Append(wire[t], w)]
          BY <2>1, <3>2
        <4>2. wire[t] \in Seq(WireRecord)
          BY DEF WireRecord
        <4>3. Append(wire[t], w) \in Seq(WireRecord)
          BY <4>2, AppendProperties
        <4> QED
          BY <4>1, <4>3 DEF WireRecord
      <3> QED
        BY <3>1, <3>2
    <2>3. room' \in [Threads -> 0..SocketRoom]
      BY <2>1
    <2>4. call' \in [Threads -> CallRecord]
      BY <2>1
    <2>5. UNCHANGED <<config, settings, g_producer, quecode, result, process>>
      BY <1>5 DEF PublishChunk, configVars
    <2> QED
      BY <2>2, <2>3, <2>4, <2>5 DEF WireRecord
  <1>6. ASSUME NEW t \in Threads, PublishCrashes(t), UNCHANGED configVars
        PROVE  TypeOK'
    BY <1>6 DEF PublishCrashes, configVars
  <1>7. ASSUME NEW t \in Threads, PublishReturns(t), UNCHANGED configVars
        PROVE  TypeOK'
    BY <1>7, IdleIsCall DEF PublishReturns, configVars
  <1>8. ASSUME NEW t \in Threads, Drain(t), UNCHANGED configVars
        PROVE  TypeOK'
    <2>1. room[t] + 1 \in 0..SocketRoom
      BY <1>8, ProducerAssumption DEF Drain
    <2> QED
      BY <1>8, <2>1 DEF Drain, configVars
  <1>9. ASSUME NEW t \in Threads, Publishing(t), UNCHANGED configVars
        PROVE  TypeOK'
    <2>1. CASE \E topic \in TopicLens, length, size \in PayloadLens :
                 LET c == Call(result[t].of.n + 1, topic, length, size)
                 IN  PublishRejected(t, c) \/ PublishStarts(t, c)
      <3>1. PICK topic \in TopicLens, length \in PayloadLens, size \in PayloadLens :
              LET c == Call(result[t].of.n + 1, topic, length, size)
              IN  PublishRejected(t, c) \/ PublishStarts(t, c)
        BY <2>1
      <3> DEFINE c == Call(result[t].of.n + 1, topic, length, size)
      <3>2. Made(t, c)
        BY DEF Made
      <3> QED
        BY <1>4, <1>9, <3>1, <3>2
    <2> QED
      BY <1>5, <1>6, <1>7, <1>8, <1>9, <2>1 DEF Publishing
  <1> QED
    BY <1>1, <1>2, <1>3, <1>9 DEF Next

\* The parts of the invariant about one thread, of the values it has.
CallOf(c, res) ==
  /\ c.n = 0 => c = Idle
  /\ c.n # 0 => c.n = res.of.n + 1
  /\ c.length \in PayloadLens \cup {0}
  /\ c.remaining <= c.length
  /\ c.remaining > 0 =>
       /\ c.seq * PAYLOAD_MAX + c.remaining <= c.length
       /\ Countable(c) => c.seq * PAYLOAD_MAX + c.remaining = c.length

LEMMA LoopNext ==
  ASSUME TypeOK, CallInv, OffsetInv, [Next]_vars
  PROVE  CallInv' /\ OffsetInv'
  <1>1. SUFFICES ASSUME NEW u \in Threads
                 PROVE  CallOf(call'[u], result'[u])
    BY DEF CallInv, OffsetInv, CallOf, Countable
  <1>2. CallOf(call[u], result[u])
    BY DEF CallInv, OffsetInv, CallOf
  <1>3. call \in [Threads -> CallRecord]
    BY DEF TypeOK
  <1>4. result \in [Threads -> [value : {-1, 0}, of : CallRecord]]
    BY DEF TypeOK
  <1>5. CASE UNCHANGED <<call, result, wire>>
    BY <1>2, <1>5
  <1>6. ASSUME NEW t \in Threads, PublishChunk(t)
        PROVE  CallOf(call'[u], result'[u])
    <2>1. PICK sent \in 0..2, d \in CallRecord :
            d = AfterSend(call[t], sent) /\ call' = [call EXCEPT ![t] = d]
      <3>1. PICK sent \in 0..2, d \in CallRecord :
              /\ d = AfterSend(call[t], sent)
              /\ call' = [call EXCEPT ![t] = d]
              /\ room' = [room EXCEPT ![t] = @ - sent] /\ room[t] - sent \in 0..SocketRoom
        BY <1>6, ChunkStep
      <3> QED
        BY <3>1
    <2>2. result' = result
      BY <1>6 DEF PublishChunk
    <2>3. CASE u # t
      BY <1>2, <1>3, <2>1, <2>2, <2>3
    <2>4. CASE u = t
      <3> DEFINE c == call[t]
                 e == NextChunk(c)
      <3>1. InLoop(c)
        BY <1>6, LoopEntered DEF PublishChunk
      <3>2. /\ e \in CallRecord
            /\ e.n = c.n /\ e.length = c.length
            /\ e.remaining = c.remaining - Smaller(c.remaining, PAYLOAD_MAX)
            /\ e.remaining > 0 =>
                 /\ e.seq * PAYLOAD_MAX + e.remaining <= c.length
                 /\ Countable(c) => e.seq * PAYLOAD_MAX + e.remaining = c.length
        BY <3>1, TurnLeaves
      <3>3. CallOf(c, result[t])
        BY <1>2, <2>4
      <3>4. d.n = e.n /\ d.length = e.length /\ d.remaining = e.remaining /\ d.seq = e.seq
        BY <2>1, <3>2 DEF AfterSend, CallRecord
      <3>5. call'[u] = d /\ result'[u] = result[t]
        BY <1>3, <2>1, <2>2, <2>4
      <3> HIDE DEF c, e
      <3>6. c.n # 0 /\ c.remaining \in Nat /\ c.length \in Nat /\ c.remaining <= c.length
        BY <3>1, ProducerAssumption DEF InLoop, CallRecord
      <3>7. Smaller(c.remaining, PAYLOAD_MAX) \in Nat
        BY <3>6, SmallerOf, ProducerAssumption
      <3> QED
        BY <3>2, <3>3, <3>4, <3>5, <3>6, <3>7 DEF CallOf, Countable
    <2> QED
      BY <2>3, <2>4
  <1>7. ASSUME NEW t \in Threads, PublishReturns(t)
        PROVE  CallOf(call'[u], result'[u])
    <2>1. CASE u # t
      BY <1>2, <1>3, <1>4, <1>7, <2>1 DEF PublishReturns
    <2>2. CASE u = t
      BY <1>3, <1>7, <2>2, IdleIsCall DEF PublishReturns, CallOf
    <2> QED
      BY <2>1, <2>2
  <1>8. ASSUME NEW t \in Threads, NEW c, Made(t, c), PublishRejected(t, c)
        PROVE  CallOf(call'[u], result'[u])
    <2>1. CASE u # t
      BY <1>2, <1>4, <1>8, <2>1 DEF PublishRejected
    <2>2. CASE u = t
      BY <1>2, <1>8, <2>2 DEF PublishRejected, Publish, CallOf
    <2> QED
      BY <2>1, <2>2
  <1>9. ASSUME NEW t \in Threads, NEW c, Made(t, c), PublishStarts(t, c)
        PROVE  CallOf(call'[u], result'[u])
    <2>1. CASE u # t
      BY <1>2, <1>3, <1>9, <2>1 DEF PublishStarts
    <2>2. CASE u = t
      <3>1. call'[u] = c /\ result'[u] = result[t]
        BY <1>3, <1>9, <2>2 DEF PublishStarts
      <3>2. /\ c.n = result[t].of.n + 1 /\ c.n \in 1..MaxCalls
            /\ c.length \in PayloadLens /\ c.length \in Nat
            /\ c.remaining = c.length /\ c.seq = 0
        BY <1>9, MadeIsCall DEF PublishStarts, Publish
      <3>3. 0 * PAYLOAD_MAX = 0
        BY ProducerAssumption
      <3> QED
        BY <3>1, <3>2, <3>3, ProducerAssumption DEF CallOf
    <2> QED
      BY <2>1, <2>2
  <1> QED
    BY <1>5, <1>6, <1>7, <1>8, <1>9, PublishSteps

\* The same for a connection w, during or after call c.
FramesOf(w, c, res) ==
  \A i \in DOMAIN w : LET f == w[i].frame IN
    /\ f.from = f.seq * PAYLOAD_MAX
    /\ f.from < f.to /\ f.to <= f.length
    /\ f.call <= IF c.n # 0 THEN c.n ELSE res.of.n
    /\ f.call = c.n =>
         /\ f.length = c.length
         /\ Countable(c) => f.to <= c.length - c.remaining

CoverOf(w, c) ==
  c.n # 0 /\ ~c.short /\ Countable(c) => CarriedOf(w, c.n) = Kept(c.length - c.remaining)

LossOf(w, res) ==
  res.of.n > 0 /\ res.value = 0 /\ ~res.of.short /\ Countable(res.of) =>
    CarriedOf(w, res.of.n) = Kept(res.of.length)

WireOf(w, c, res) == FramesOf(w, c, res) /\ CoverOf(w, c) /\ LossOf(w, res)

LEMMA WireByThread ==
  /\ FrameInv /\ CoverInv /\ OnlyBoundaryLost
       <=> \A t \in Threads : WireOf(wire[t], call[t], result[t])
  /\ (FrameInv /\ CoverInv /\ OnlyBoundaryLost)'
       <=> \A t \in Threads : WireOf(wire'[t], call'[t], result'[t])
  BY DEF FrameInv, CoverInv, OnlyBoundaryLost, Latest, Complete, Carried, CarriedOf, Kept,
         Countable, WireOf, FramesOf, CoverOf, LossOf

\* A turn of the loop, for a connection that carried what is not left of it.
LEMMA WireTurn ==
  ASSUME TypeOK, CallInv, OffsetInv, NEW t \in Threads, PublishChunk(t),
         WireOf(wire[t], call[t], result[t])
  PROVE  WireOf(wire'[t], call'[t], result'[t])
  <1> DEFINE c == call[t]
             f == message_assemble(c)
  <1>1. PICK sent \in 0..2, d \in CallRecord :
          /\ d = AfterSend(c, sent)
          /\ call' = [call EXCEPT ![t] = d]
          /\ room' = [room EXCEPT ![t] = @ - sent] /\ room[t] - sent \in 0..SocketRoom
          /\ sent = 0 => wire' = wire
          /\ sent # 0 =>
               LET w == [frame |-> f, sent |-> sent]
               IN  w \in WireRecord /\ wire' = [wire EXCEPT ![t] = Append(wire[t], w)]
    BY ChunkStep
  <1>2. InLoop(c)
    BY LoopEntered DEF PublishChunk
  <1>3. /\ c \in CallRecord /\ c.n \in Nat /\ c.n # 0 /\ c.length \in Nat /\ c.remaining \in Nat
        /\ c.n = result[t].of.n + 1 /\ result[t].of.n \in Nat
        /\ c.seq \in Nat
    <2>1. c \in CallRecord /\ c.n \in 1..MaxCalls
      BY <1>2 DEF InLoop
    <2>2. c.n # 0 => c.n = result[t].of.n + 1
      BY DEF CallInv
    <2>3. result[t] \in [value : {-1, 0}, of : CallRecord]
      BY DEF TypeOK
    <2> HIDE DEF c
    <2> QED
      BY <2>1, <2>2, <2>3, ProducerAssumption DEF CallRecord
  <1>4. /\ d.n = c.n /\ d.length = c.length /\ d.remaining \in Nat
        /\ d.remaining = c.remaining - Smaller(c.remaining, PAYLOAD_MAX)
        /\ d.short = FALSE => c.short = FALSE /\ sent = 2
    <2>1. /\ NextChunk(c) \in CallRecord
          /\ NextChunk(c).n = c.n /\ NextChunk(c).length = c.length /\ NextChunk(c).short = c.short
          /\ NextChunk(c).remaining = c.remaining - Smaller(c.remaining, PAYLOAD_MAX)
      BY <1>2, TurnLeaves
    <2>2. d.n = NextChunk(c).n /\ d.length = NextChunk(c).length
          /\ d.remaining = NextChunk(c).remaining
      BY <1>1, <2>1 DEF AfterSend, CallRecord
    <2>3. d.short = (NextChunk(c).short \/ sent < 2)
      BY <1>1, <2>1 DEF AfterSend, CallRecord
    <2>4. d.short = FALSE => ~(sent < 2) /\ c.short = FALSE
      BY <1>3, <2>1, <2>3 DEF CallRecord
    <2>5. ~(sent < 2) => sent = 2
      BY <1>1
    <2>6. d.remaining \in Nat
      BY <1>1 DEF CallRecord
    <2> QED
      BY <2>1, <2>2, <2>4, <2>5, <2>6
  <1>5. /\ f \in Frame /\ f.call = c.n
        /\ f.from = c.seq * PAYLOAD_MAX /\ f.from < f.to
        /\ f.to <= f.length /\ f.length = c.length
        /\ Countable(c) =>
             /\ f.from = c.length - c.remaining
             /\ f.to = f.from + Smaller(c.remaining, PAYLOAD_MAX - 1)
             /\ f.to <= c.length - d.remaining
    <2>1. NextChunk(c).remaining = c.remaining - Smaller(c.remaining, PAYLOAD_MAX)
      BY <1>2, TurnLeaves
    <2> QED
      BY <1>2, <1>4, <2>1, TurnSends
  <1>6. f.seq = c.seq
    BY DEF message_assemble
  <1>7. call'[t] = d /\ result'[t] = result[t]
    BY <1>1 DEF TypeOK, PublishChunk
  <1>8. wire[t] \in Seq(WireRecord)
    BY DEF TypeOK, WireRecord
  <1>9. /\ Smaller(c.remaining, PAYLOAD_MAX) \in Nat
        /\ Smaller(c.remaining, PAYLOAD_MAX) <= c.remaining
        /\ d.remaining <= c.remaining
    <2>1. PAYLOAD_MAX \in Nat
      BY ProducerAssumption
    <2>2. Smaller(c.remaining, PAYLOAD_MAX) \in Nat /\ Smaller(c.remaining, PAYLOAD_MAX) <= c.remaining
      BY <1>3, <2>1 DEF Smaller
    <2> QED
      BY <1>3, <1>4, <2>2
  <1> HIDE DEF c, f
  <1>10. \A i \in DOMAIN wire[t] : wire[t][i].frame.to \in Nat
    <2>1. \A i \in DOMAIN wire[t] : wire[t][i] \in WireRecord
      BY <1>8, LenProperties
    <2> QED
      BY <2>1 DEF WireRecord, Frame
  <1>11. FramesOf(wire[t], d, result[t])
    <2>1. FramesOf(wire[t], c, result[t])
      BY DEF WireOf, c
    <2> QED
      BY <1>3, <1>4, <1>9, <1>10, <2>1 DEF FramesOf, Countable
  <1>12. CASE sent = 0
    <2>1. wire'[t] = wire[t]
      BY <1>1, <1>12
    <2>2. CoverOf(wire[t], d)
      BY <1>4, <1>12 DEF CoverOf
    <2> QED
      BY <1>7, <1>11, <2>1, <2>2 DEF WireOf
  <1>13. CASE sent # 0
    <2> DEFINE w == [frame |-> f, sent |-> sent]
               z == Append(wire[t], w)
    <2>1. w \in WireRecord /\ wire'[t] = z /\ w.frame = f
      BY <1>1, <1>13 DEF TypeOK
    <2>2. /\ DOMAIN z = DOMAIN wire[t] \cup {Len(wire[t]) + 1}
          /\ \A i \in DOMAIN wire[t] : z[i] = wire[t][i]
          /\ z[Len(wire[t]) + 1] = w
      BY <1>8, <2>1, AppendProperties, LenProperties
    <2>3. /\ w.frame.call = c.n =>
               CarriedOf(z, c.n) = CarriedOf(wire[t], c.n) \cup w.frame.from..(w.frame.to - 1)
          /\ w.frame.call # result[t].of.n =>
               CarriedOf(z, result[t].of.n) = CarriedOf(wire[t], result[t].of.n)
      BY <1>8, <2>1, CarriedAppend
    <2> HIDE DEF w, z
    <2>4. FramesOf(z, d, result[t])
      <3>1. SUFFICES ASSUME NEW i \in DOMAIN z
                     PROVE  /\ z[i].frame.from = z[i].frame.seq * PAYLOAD_MAX
                            /\ z[i].frame.from < z[i].frame.to
                            /\ z[i].frame.to <= z[i].frame.length
                            /\ z[i].frame.call <= IF d.n # 0 THEN d.n ELSE result[t].of.n
                            /\ z[i].frame.call = d.n =>
                                 /\ z[i].frame.length = d.length
                                 /\ Countable(d) => z[i].frame.to <= d.length - d.remaining
        BY DEF FramesOf
      <3>2. CASE i \in DOMAIN wire[t]
        BY <1>11, <2>2, <3>2 DEF FramesOf
      <3>3. CASE z[i] = w
        BY <1>3, <1>4, <1>5, <1>6, <2>1, <3>3 DEF Countable
      <3> QED
        BY <2>2, <3>2, <3>3
    <2>5. CoverOf(z, d)
      <3>1. SUFFICES ASSUME ~d.short, Countable(d)
                     PROVE  CarriedOf(z, d.n) = Kept(d.length - d.remaining)
        BY DEF CoverOf
      <3>2. Countable(c) /\ d.short = FALSE
        BY <1>1, <1>4, <3>1 DEF Countable, CallRecord
      <3>3. CarriedOf(wire[t], c.n) = Kept(c.length - c.remaining)
        BY <1>3, <1>4, <3>2 DEF WireOf, CoverOf, c
      <3>4. CarriedOf(z, c.n) = CarriedOf(wire[t], c.n) \cup f.from..(f.to - 1)
        BY <1>5, <2>1, <2>3
      <3>5. c.remaining > 0
        BY <1>2 DEF InLoop
      <3>6. Kept(c.seq * PAYLOAD_MAX) \cup
              (c.seq * PAYLOAD_MAX)..(c.seq * PAYLOAD_MAX + Smaller(c.remaining, PAYLOAD_MAX - 1) - 1)
            = Kept(c.seq * PAYLOAD_MAX + Smaller(c.remaining, PAYLOAD_MAX))
        BY <1>3, <3>5, KeptGrows
      <3>7. /\ c.length - c.remaining = c.seq * PAYLOAD_MAX
            /\ f.to = c.seq * PAYLOAD_MAX + Smaller(c.remaining, PAYLOAD_MAX - 1)
        BY <1>5, <3>2
      <3>8. d.length - d.remaining = c.seq * PAYLOAD_MAX + Smaller(c.remaining, PAYLOAD_MAX)
        <4>1. c.seq * PAYLOAD_MAX \in Nat
          BY <1>3, ChunkOrder
        <4> QED
          BY <1>3, <1>4, <1>9, <3>7, <4>1
      <3>9. CarriedOf(z, c.n) = Kept(c.seq * PAYLOAD_MAX) \cup
              (c.seq * PAYLOAD_MAX)..(c.seq * PAYLOAD_MAX + Smaller(c.remaining, PAYLOAD_MAX - 1) - 1)
        <4>1. Kept(c.length - c.remaining) = Kept(c.seq * PAYLOAD_MAX)
          BY <3>7
        <4>2. f.from = c.seq * PAYLOAD_MAX
          BY <1>5
        <4>3. f.from..(f.to - 1) =
                (c.seq * PAYLOAD_MAX)..(c.seq * PAYLOAD_MAX + Smaller(c.remaining, PAYLOAD_MAX - 1) - 1)
          <5>1. c.seq * PAYLOAD_MAX \in Nat
            BY <1>3, ChunkOrder
          <5>2. Smaller(c.remaining, PAYLOAD_MAX - 1) \in Nat
            BY <1>3, ProducerAssumption DEF Smaller
          <5> QED
            BY <3>7, <4>2, <5>1, <5>2
        <4> QED
          BY <3>3, <3>4, <4>1, <4>3
      <3> QED
        BY <1>4, <3>6, <3>8, <3>9
    <2>6. LossOf(z, result[t])
      <3>1. w.frame.call # result[t].of.n
        BY <1>3, <1>5, <2>1
      <3> QED
        BY <2>3, <3>1 DEF WireOf, LossOf
    <2> QED
      BY <1>7, <2>1, <2>4, <2>5, <2>6 DEF WireOf
  <1> QED
    BY <1>12, <1>13

\* A call that starts carried nothing yet.
LEMMA NothingYet ==
  ASSUME NEW w, NEW n, \A i \in DOMAIN w : w[i].frame.call # n
  PROVE  CarriedOf(w, n) = Kept(0)
  <1>1. \A x : x \notin CarriedOf(w, n)
    BY CarriedBy
  <1>2. \A x : x \notin Kept(0)
    BY DEF Kept
  <1> QED
    BY <1>1, <1>2

LEMMA WireNext ==
  ASSUME TypeOK, CallInv, OffsetInv, FrameInv, CoverInv, OnlyBoundaryLost, [Next]_vars
  PROVE  (FrameInv /\ CoverInv /\ OnlyBoundaryLost)'
  <1>1. SUFFICES ASSUME NEW u \in Threads
                 PROVE  WireOf(wire'[u], call'[u], result'[u])
    BY WireByThread
  <1>2. WireOf(wire[u], call[u], result[u])
    BY WireByThread
  <1>3. /\ wire \in [Threads -> Seq(WireRecord)]
        /\ call \in [Threads -> CallRecord]
        /\ result \in [Threads -> [value : {-1, 0}, of : CallRecord]]
        /\ result[u].of.n \in Nat
    <2>1. wire \in [Threads -> Seq(WireRecord)]
      BY DEF TypeOK, WireRecord
    <2>2. call \in [Threads -> CallRecord]
      BY DEF TypeOK
    <2>3. result \in [Threads -> [value : {-1, 0}, of : CallRecord]]
      BY DEF TypeOK
    <2>4. result[u].of \in CallRecord
      BY <2>3
    <2>5. result[u].of.n \in 0..MaxCalls
      BY <2>4 DEF CallRecord
    <2> QED
      BY <2>1, <2>2, <2>3, <2>5, ProducerAssumption
  <1>4. \A i \in DOMAIN wire[u] : wire[u][i].frame.call \in Nat \ {0}
    <2>1. \A i \in DOMAIN wire[u] : wire[u][i] \in WireRecord
      BY <1>3, LenProperties
    <2> QED
      BY <2>1, ProducerAssumption DEF WireRecord, Frame
  <1>5. CASE UNCHANGED <<call, result, wire>>
    BY <1>2, <1>5
  <1>6. ASSUME NEW t \in Threads, PublishChunk(t)
        PROVE  WireOf(wire'[u], call'[u], result'[u])
    <2>1. CASE u # t
      BY <1>2, <1>3, <1>6, <2>1 DEF PublishChunk
    <2>2. CASE u = t
      BY <1>2, <1>6, <2>2, WireTurn
    <2> QED
      BY <2>1, <2>2
  <1>7. ASSUME NEW t \in Threads, PublishReturns(t)
        PROVE  WireOf(wire'[u], call'[u], result'[u])
    <2>1. CASE u # t
      BY <1>2, <1>3, <1>7, <2>1 DEF PublishReturns
    <2>2. CASE u = t
      <3> DEFINE c == call[t]
                 res == [value |-> 0, of |-> c]
      <3>1. wire'[u] = wire[u] /\ call'[u] = Idle /\ result'[u] = res
        BY <1>3, <1>7, <2>2 DEF PublishReturns
      <3>2. c.n # 0 /\ c.remaining = 0 /\ c.length \in Nat
        BY <1>3, <1>7 DEF PublishReturns, CallRecord
      <3>3. WireOf(wire[u], c, result[u])
        BY <1>2, <2>2
      <3> HIDE DEF c
      <3>4. FramesOf(wire[u], Idle, res)
        BY <1>4, <3>2, <3>3, IdleIsCall DEF FramesOf, WireOf
      <3>5. CoverOf(wire[u], Idle)
        BY IdleIsCall DEF CoverOf
      <3>6. LossOf(wire[u], res)
        <4>1. c.length - c.remaining = c.length
          BY <3>2
        <4> QED
          BY <3>2, <3>3, <4>1 DEF WireOf, CoverOf, LossOf
      <3> QED
        BY <3>1, <3>4, <3>5, <3>6 DEF WireOf
    <2> QED
      BY <2>1, <2>2
  <1>8. ASSUME NEW t \in Threads, NEW c, Made(t, c), PublishRejected(t, c)
        PROVE  WireOf(wire'[u], call'[u], result'[u])
    <2>1. CASE u # t
      BY <1>2, <1>3, <1>8, <2>1 DEF PublishRejected
    <2>2. CASE u = t
      <3> DEFINE res == [value |-> -1, of |-> c]
      <3>1. wire'[u] = wire[u] /\ call'[u] = call[u] /\ result'[u] = res
        BY <1>3, <1>8, <2>2 DEF PublishRejected
      <3>2. c.n = result[u].of.n + 1 /\ call[u].n = 0
        BY <1>8, <2>2, MadeIsCall DEF PublishRejected, Publish
      <3>3. FramesOf(wire[u], call[u], res)
        BY <1>2, <1>3, <1>4, <3>2 DEF FramesOf, WireOf
      <3>4. LossOf(wire[u], res)
        BY DEF LossOf
      <3> QED
        BY <1>2, <3>1, <3>3, <3>4 DEF WireOf
    <2> QED
      BY <2>1, <2>2
  <1>9. ASSUME NEW t \in Threads, NEW c, Made(t, c), PublishStarts(t, c)
        PROVE  WireOf(wire'[u], call'[u], result'[u])
    <2>1. CASE u # t
      BY <1>2, <1>3, <1>9, <2>1 DEF PublishStarts
    <2>2. CASE u = t
      <3>1. wire'[u] = wire[u] /\ call'[u] = c /\ result'[u] = result[u]
        BY <1>3, <1>9, <2>2 DEF PublishStarts
      <3>2. c.n = result[u].of.n + 1 /\ call[u].n = 0 /\ c.n # 0
            /\ c.length - c.remaining = 0
        <4>1. /\ c.n = result[u].of.n + 1 /\ c.n \in 1..MaxCalls
              /\ c.length \in Nat /\ c.remaining = c.length
          BY <1>9, <2>2, MadeIsCall DEF PublishStarts, Publish
        <4>2. call[u].n = 0
          BY <1>9, <2>2 DEF PublishStarts, Publish
        <4> QED
          BY <4>1, <4>2
      <3>3. \A i \in DOMAIN wire[u] : wire[u][i].frame.call <= result[u].of.n
        BY <1>2, <3>2 DEF WireOf, FramesOf
      <3>4. \A i \in DOMAIN wire[u] : wire[u][i].frame.call < c.n
        BY <1>3, <1>4, <3>2, <3>3
      <3>5. FramesOf(wire[u], c, result[u])
        BY <1>2, <1>3, <1>4, <3>2, <3>4 DEF FramesOf, WireOf
      <3>6. CoverOf(wire[u], c)
        <4>1. \A i \in DOMAIN wire[u] : wire[u][i].frame.call # c.n
          BY <1>3, <1>4, <3>2, <3>4
        <4>2. CarriedOf(wire[u], c.n) = Kept(0)
          BY <4>1, NothingYet
        <4> QED
          BY <3>2, <4>2 DEF CoverOf
      <3> QED
        BY <1>2, <3>1, <3>5, <3>6 DEF WireOf
    <2> QED
      BY <2>1, <2>2
  <1> QED
    BY <1>5, <1>6, <1>7, <1>8, <1>9, PublishSteps

-----------------------------------------------------------------------------
(* The theorems.                                                           *)

LEMMA Inductive ==
  /\ Init => IInv
  /\ IInv /\ [Next]_vars => IInv'
  <1>1. ASSUME Init
        PROVE  IInv
    <2>1. TypeOK
      BY <1>1, TypeInit
    <2>2. \A t \in Threads : CallOf(call[t], result[t])
      BY <1>1, IdleIsCall DEF Init, CallOf
    <2>3. \A t \in Threads : WireOf(wire[t], call[t], result[t])
      BY <1>1, IdleIsCall DEF Init, WireOf, FramesOf, CoverOf, LossOf
    <2>4. CallInv /\ OffsetInv
      BY <2>2 DEF CallInv, OffsetInv, CallOf
    <2> QED
      BY <2>1, <2>3, <2>4, WireByThread DEF IInv
  <1>2. ASSUME IInv, [Next]_vars
        PROVE  IInv'
    BY <1>2, TypeNext, LoopNext, WireNext DEF IInv
  <1> QED
    BY <1>1, <1>2

LEMMA Invariance == Spec => []IInv
  BY Inductive, PTL DEF Spec

\* Every variable has its type in every reachable state: seq and the lengths
\* of a frame fit their two bytes, and the socket buffer is never overdrawn.
THEOREM TypeCorrect == Spec => []TypeOK
  <1>1. IInv => TypeOK
    BY DEF IInv
  <1> QED
    BY <1>1, Invariance, PTL

\* In the loop of Quekka_publish, payload + seq * QUEKKA_PAYLOAD_MAX is the
\* start of what remains, whatever the sends return.
THEOREM ChunksAreWhereTheyShould == Spec => []ChunkOffset
  <1>1. IInv => ChunkOffset
    BY DEF IInv, OffsetInv, ChunkOffset
  <1> QED
    BY <1>1, Invariance, PTL

\* A publish that returned 0 with no short send lost exactly the last byte of
\* each full chunk, for any payload seq can count.
THEOREM ExactLoss == Spec => []OnlyBoundaryLost
  <1>1. IInv => OnlyBoundaryLost
    BY DEF IInv
  <1> QED
    BY <1>1, Invariance, PTL

\* InOrder of one connection w: of each frame, and of frame b and one before it.
Inside(b) == b.from < b.to /\ b.to <= b.length

Follows(a, b) ==
  \/ a.call < b.call
  \/ a.call = b.call /\ (Countable(b) => a.seq < b.seq /\ a.to <= b.from)

OrderOf(w) ==
  \A i \in DOMAIN w :
    Inside(w[i].frame) /\ \A j \in 1..(i - 1) : Follows(w[j].frame, w[i].frame)

LEMMA OrderNext ==
  ASSUME IInv, InOrder, [Next]_vars
  PROVE  InOrder'
  <1>1. SUFFICES ASSUME NEW u \in Threads
                 PROVE  OrderOf(wire'[u])
    BY DEF InOrder, OrderOf, Inside, Follows, Countable
  <1>2. OrderOf(wire[u])
    BY DEF InOrder, OrderOf, Inside, Follows
  <1>3. TypeOK /\ CallInv /\ OffsetInv /\ FrameInv
    BY DEF IInv
  <1>4. wire \in [Threads -> Seq(WireRecord)] /\ wire[u] \in Seq(WireRecord)
    BY <1>3 DEF TypeOK, WireRecord
  <1>5. CASE UNCHANGED wire
    BY <1>2, <1>5
  <1>6. ASSUME NEW t \in Threads, PublishChunk(t)
        PROVE  OrderOf(wire'[u])
    <2> DEFINE c == call[t]
               f == message_assemble(c)
    <2>1. PICK sent \in 0..2, d \in CallRecord :
            /\ d = AfterSend(c, sent)
            /\ call' = [call EXCEPT ![t] = d]
            /\ room' = [room EXCEPT ![t] = @ - sent] /\ room[t] - sent \in 0..SocketRoom
            /\ sent = 0 => wire' = wire
            /\ sent # 0 =>
                 LET w == [frame |-> f, sent |-> sent]
                 IN  w \in WireRecord /\ wire' = [wire EXCEPT ![t] = Append(wire[t], w)]
      BY <1>3, <1>6, ChunkStep
    <2>2. CASE u # t
      BY <1>2, <1>4, <1>6, <2>2 DEF PublishChunk
    <2>3. CASE u = t /\ sent # 0
      <3> DEFINE w == [frame |-> f, sent |-> sent]
                 z == Append(wire[u], w)
      <3>1. w \in WireRecord /\ wire'[u] = z /\ w.frame = f
        BY <1>4, <2>1, <2>3
      <3>2. /\ Len(wire[u]) \in Nat /\ DOMAIN wire[u] = 1..Len(wire[u])
            /\ DOMAIN z = 1..(Len(wire[u]) + 1)
            /\ \A i \in 1..Len(wire[u]) : z[i] = wire[u][i] /\ wire[u][i] \in WireRecord
            /\ z[Len(wire[u]) + 1] = w
        BY <1>4, <3>1, AppendProperties, LenProperties
      <3>3. InLoop(c)
        BY <1>3, <1>6, LoopEntered DEF PublishChunk
      <3>4. f.length = c.length /\ (Countable(f) <=> Countable(c))
        BY <3>3, TurnSends DEF Countable
      <3>5. /\ f.call = c.n /\ f.from = c.seq * PAYLOAD_MAX
            /\ Inside(f)
            /\ Countable(c) => f.from = c.length - c.remaining
        BY <3>3, TurnSends DEF Inside
      <3>6. f.seq = c.seq
        BY DEF message_assemble
      <3>7. c.n # 0 /\ c.seq \in Nat /\ c.n \in Nat
        BY <3>3, ProducerAssumption DEF InLoop, CallRecord
      <3>8. ASSUME NEW i \in 1..Len(wire[u])
            PROVE  Follows(wire[u][i].frame, f)
        <4> DEFINE a == wire[u][i].frame
        <4>1. /\ a.from = a.seq * PAYLOAD_MAX /\ a.from < a.to
              /\ a.call <= c.n
              /\ a.call = c.n /\ Countable(c) => a.to <= c.length - c.remaining
          BY <1>3, <2>3, <3>2, <3>7 DEF FrameInv, Latest
        <4>2. a.call \in Nat /\ a.seq \in Nat /\ a.to \in Nat
          <5>1. a \in Frame
            BY <3>2 DEF WireRecord
          <5> HIDE DEF a
          <5>2. a.call \in 1..MaxCalls /\ a.seq \in 0..UINT16_MAX /\ a.to \in Nat
            BY <5>1 DEF Frame
          <5> QED
            BY <5>2, ProducerAssumption
        <4> HIDE DEF a, c, f
        <4>3. CASE a.call = c.n /\ Countable(c)
          <5>1. a.to <= f.from
            BY <3>5, <4>1, <4>3
          <5>2. a.seq * PAYLOAD_MAX < c.seq * PAYLOAD_MAX
            <6>1. a.seq * PAYLOAD_MAX \in Nat /\ c.seq * PAYLOAD_MAX \in Nat
              BY <3>7, <4>2, ChunkOrder
            <6> QED
              BY <3>5, <4>1, <4>2, <5>1, <6>1
          <5>3. a.seq < c.seq
            BY <3>7, <4>2, <5>2, ChunkOrder
          <5> QED
            BY <3>5, <3>6, <4>3, <5>1, <5>3 DEF Follows, a
        <4>4. CASE a.call = c.n /\ ~Countable(c)
          BY <3>4, <3>5, <4>4 DEF Follows, a
        <4>5. CASE a.call # c.n
          BY <3>5, <3>7, <4>1, <4>2, <4>5 DEF Follows, a
        <4> QED
          BY <4>3, <4>4, <4>5
      <3> HIDE DEF z, w, f
      <3>9. OrderOf(z)
        <4>1. SUFFICES ASSUME NEW i \in DOMAIN z
                       PROVE  /\ Inside(z[i].frame)
                              /\ \A j \in 1..(i - 1) : Follows(z[j].frame, z[i].frame)
          BY DEF OrderOf
        <4>2. CASE i \in 1..Len(wire[u])
          <5>1. z[i] = wire[u][i] /\ \A j \in 1..(i - 1) : z[j] = wire[u][j]
            BY <3>2, <4>2
          <5> QED
            BY <1>2, <3>2, <4>2, <5>1 DEF OrderOf
        <4>3. CASE i = Len(wire[u]) + 1
          <5>1. z[i].frame = f /\ 1..(i - 1) = 1..Len(wire[u])
            BY <3>1, <3>2, <4>3
          <5>2. \A j \in 1..Len(wire[u]) : z[j] = wire[u][j]
            BY <3>2
          <5> QED
            BY <3>5, <3>8, <5>1, <5>2
        <4>4. i \in 1..(Len(wire[u]) + 1)
          BY <3>2
        <4>5. i \in 1..Len(wire[u]) \/ i = Len(wire[u]) + 1
          BY <3>2, <4>4
        <4> QED
          BY <4>2, <4>3, <4>5
      <3> QED
        BY <3>1, <3>9
    <2>4. CASE sent = 0
      BY <1>5, <2>1, <2>4
    <2> QED
      BY <2>2, <2>3, <2>4
  <1>7. UNCHANGED wire \/ \E t \in Threads : PublishChunk(t)
    BY PublishSteps DEF PublishReturns, PublishRejected, PublishStarts
  <1> QED
    BY <1>5, <1>6, <1>7

\* Every frame carries a piece of its payload, also when seq wraps, and on one
\* connection frames follow each other in the order of the calls and, as far as
\* seq can count, of the payload, none over another.
THEOREM FramesInOrder == Spec => []InOrder
  <1>1. Init => InOrder
    BY DEF Init, InOrder
  <1>2. IInv /\ InOrder /\ [Next]_vars => InOrder'
    BY OrderNext
  <1> QED
    BY <1>1, <1>2, Invariance, PTL DEF Spec
=============================================================================
