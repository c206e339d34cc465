--------------------------- MODULE CommEchoProofs ---------------------------
(***************************************************************************)
(* Proofs about an echo session: the buffer is never filled, and replies   *)
(* are the reads they answer, for every size of the buffer and any bytes.  *)
(***************************************************************************)
EXTENDS CommEcho, WellFoundedInduction, SequenceTheorems, TLAPS

\* A session about to reply has one reply less than reads, one about to read
\* has as many.
ReplyInv ==
  /\ at = "read" => Len(replies) = Len(took)
  /\ at = "reply" => Len(replies) = Len(took) - 1

TakenInv == TypeOK /\ ReplyInv

-----------------------------------------------------------------------------
(* What a reply has of a read.                                             *)

LEMMA SmallerOf ==
  ASSUME NEW a \in Int, NEW b \in Int
  PROVE  /\ Smaller(a, b) \in Int /\ Smaller(a, b) <= a /\ Smaller(a, b) <= b
         /\ a <= b => Smaller(a, b) = a
  BY DEF Smaller

\* A set of numbers has a smallest, which Min chooses.
LEMMA Smallest ==
  ASSUME NEW S \in SUBSET Nat, S # {}
  PROVE  Min(S) \in S /\ \A n \in S : Min(S) <= n
  <1> DEFINE R == OpToRel(<, Nat)
  <1>1. IsWellFoundedOn(R, Nat)
    BY NatLessThanWellFounded
  <1>2. \A a, b \in Nat : a < b => <<a, b>> \in R
    BY DEF OpToRel
  <1> HIDE DEF R
  <1>3. PICK m \in S : \A n \in S : <<n, m>> \notin R
    BY <1>1, WFMin
  <1>4. ASSUME NEW n \in S
        PROVE  m <= n
    <2>1. m \in Nat /\ n \in Nat
      OBVIOUS
    <2>2. ~(n < m)
      BY <1>2, <1>3, <2>1
    <2> QED
      BY <2>1, <2>2
  <1> QED
    BY <1>3, <1>4 DEF Min

\* The beginning of a sequence.
LEMMA Beginning ==
  ASSUME NEW S, NEW s \in Seq(S), NEW n \in Int, n <= Len(s)
  PROVE  SubSeq(s, 1, n) \in Seq(S) /\ Len(SubSeq(s, 1, n)) <= Len(s)
  <1>1. \A i \in 1..n : s[i] \in S
    OBVIOUS
  <1>2. /\ SubSeq(s, 1, n) \in Seq(S)
        /\ Len(SubSeq(s, 1, n)) = IF 1 <= n THEN n - 1 + 1 ELSE 0
    BY <1>1, SubSeqProperties
  <1> QED
    BY <1>2

LEMMA TextOf ==
  ASSUME NEW s \in Seq(Bytes)
  PROVE  /\ Text(s) \in Seq(Bytes)
         /\ ~Contains(s, "0") => Text(s) = s
  <1> DEFINE I == {i \in 1..Len(s) : s[i] = "0"}
             k == SelectInSeq(s, LAMBDA b : b = "0")
  <1>1. CASE Contains(s, "0")
    <2>1. I # {} /\ I \in SUBSET Nat
      BY <1>1 DEF Contains
    <2>2. k = Min(I)
      BY <2>1 DEF SelectInSeq
    <2>3. k \in 1..Len(s)
      BY <2>1, <2>2, Smallest
    <2>4. Text(s) = SubSeq(s, 1, k - 1)
      BY <1>1 DEF Text
    <2> HIDE DEF k
    <2>5. k - 1 \in Int /\ k - 1 <= Len(s)
      BY <2>3
    <2> QED
      BY <1>1, <2>4, <2>5, Beginning
  <1>2. CASE ~Contains(s, "0")
    BY <1>2 DEF Text
  <1> QED
    BY <1>1, <1>2

LEMMA ResponseOf ==
  ASSUME NEW s \in Seq(Bytes)
  PROVE  /\ Response(s) \in Seq(Bytes)
         /\ PREFIX <= SPARE /\ Len(s) < BUFFER_SIZE => Response(s) = s
  <1> DEFINE room == BUFFER_SIZE + SPARE - 1 - PREFIX
             n == Smaller(Len(s), room)
  <1>1. Len(s) \in Nat /\ room \in Int
    BY EchoAssumption
  <1>2. Response(s) = SubSeq(s, 1, n)
    BY DEF Response
  <1>3. n \in Int /\ n <= Len(s) /\ (Len(s) <= room => n = Len(s))
    <2> HIDE DEF room
    <2>1. Len(s) \in Int
      BY <1>1
    <2> QED
      BY <1>1, <2>1, SmallerOf
  <1> HIDE DEF n
  <1>4. PREFIX <= SPARE /\ Len(s) < BUFFER_SIZE => Len(s) <= room
    BY <1>1, EchoAssumption
  <1> QED
    BY <1>2, <1>3, <1>4, Beginning, SubSeqFull

-----------------------------------------------------------------------------
(* The invariant.                                                          *)

\* What a read takes off the input, and what it leaves.
LEMMA ReadTakes ==
  ASSUME TypeOK, Read
  PROVE  \E s \in Seq(Bytes) :
           /\ took' = Append(took, s) /\ Len(s) < BUFFER_SIZE
           /\ input' \in Seq(Bytes)
  <1>1. PICK n \in 1..Smaller(BUFFER_SIZE - 1, Len(input)) :
               /\ took' = Append(took, SubSeq(input, 1, n))
               /\ input' = SubSeq(input, n + 1, Len(input))
    BY DEF Read
  <1>2. input \in Seq(Bytes) /\ Len(input) \in Nat
    BY DEF TypeOK
  <1>3. n \in Nat /\ n >= 1 /\ n <= BUFFER_SIZE - 1 /\ n <= Len(input)
    <2>1. Smaller(BUFFER_SIZE - 1, Len(input)) <= BUFFER_SIZE - 1
          /\ Smaller(BUFFER_SIZE - 1, Len(input)) <= Len(input)
          /\ Smaller(BUFFER_SIZE - 1, Len(input)) \in Int
      BY <1>2, EchoAssumption, SmallerOf
    <2> QED
      BY <1>2, <2>1, EchoAssumption
  <1>4. \A i \in 1..Len(input) : input[i] \in Bytes
    BY <1>2
  <1>5. SubSeq(input, 1, n) \in Seq(Bytes) /\ Len(SubSeq(input, 1, n)) = n
    BY <1>2, <1>3, <1>4, SubSeqProperties
  <1>6. SubSeq(input, n + 1, Len(input)) \in Seq(Bytes)
    BY <1>2, <1>3, <1>4, SubSeqProperties
  <1>7. Len(SubSeq(input, 1, n)) < BUFFER_SIZE
    BY <1>3, <1>5, EchoAssumption
  <1> USE <1>5
  <1> WITNESS SubSeq(input, 1, n) \in Seq(Bytes)
  <1> QED
    BY <1>1, <1>6, <1>7

\* What a write answers.
LEMMA WriteAnswers ==
  ASSUME TakenInv, Write
  PROVE  /\ Len(took) \in 1..Len(took) /\ took[Len(took)] \in Seq(Bytes)
         /\ Len(took[Len(took)]) < BUFFER_SIZE
         /\ Text(took[Len(took)]) \in Seq(Bytes)
         /\ replies' = Append(replies, Response(Text(took[Len(took)])))
         /\ Response(Text(took[Len(took)])) \in Seq(Bytes)
  <1>1. /\ took \in Seq(Seq(Bytes)) /\ replies \in Seq(Seq(Bytes))
        /\ Len(replies) = Len(took) - 1
        /\ \A i \in DOMAIN took : Len(took[i]) < BUFFER_SIZE
    BY DEF TakenInv, TypeOK, ReplyInv, Write
  <1>2. Len(took) \in 1..Len(took)
    BY <1>1
  <1>3. took[Len(took)] \in Seq(Bytes) /\ Len(took[Len(took)]) < BUFFER_SIZE
    BY <1>1, <1>2
  <1> QED
    BY <1>2, <1>3, TextOf, ResponseOf DEF Write, Last

LEMMA Invariance == Spec => []TakenInv
  <1>1. Init => TakenInv
    <2>1. <<>> \in Seq(Bytes) /\ <<>> \in Seq(Seq(Bytes)) /\ DOMAIN <<>> = {}
      BY EmptySeq
    <2>2. ASSUME Init
          PROVE  \A i \in DOMAIN took : Len(took[i]) < BUFFER_SIZE
      BY <2>1, <2>2 DEF Init
    <2> QED
      BY <2>1, <2>2 DEF Init, TakenInv, TypeOK, ReplyInv
  <1>2. ASSUME TakenInv, [Next]_vars
        PROVE  TakenInv'
    <2> USE <1>2 DEF TakenInv, TypeOK, ReplyInv
    <2>1. CASE Read
      <3>1. PICK s \in Seq(Bytes) : /\ took' = Append(took, s) /\ Len(s) < BUFFER_SIZE
                                    /\ input' \in Seq(Bytes)
        BY <2>1, ReadTakes
      <3>2. /\ took' \in Seq(Seq(Bytes)) /\ Len(took') = Len(took) + 1
            /\ \A i \in DOMAIN took' : Len(took'[i]) < BUFFER_SIZE
        BY <3>1, AppendProperties
      <3>3. at' \in {"done", "reply"} /\ replies' = replies /\ ended' = ended
        BY <2>1 DEF Read
      <3>4. Len(replies') = Len(took') - 1
        BY <3>2, <3>3, <2>1 DEF Read
      <3> QED
        BY <3>1, <3>2, <3>3, <3>4
    <2>2. CASE Write
      BY <2>2, WriteAnswers, AppendProperties DEF Write
    <2>3. CASE ReadEnds \/ WriteFails \/ comm_cleanup
      BY <2>3 DEF ReadEnds, WriteFails, comm_cleanup
    <2>4. CASE PeerSends
      BY <2>4, AppendProperties DEF PeerSends
    <2>5. CASE PeerEnds
      BY <2>5 DEF PeerEnds
    <2>6. CASE UNCHANGED vars
      BY <2>6 DEF vars
    <2> QED
      BY <2>1, <2>2, <2>3, <2>4, <2>5, <2>6 DEF Next, Session
  <1> QED
    BY <1>1, <1>2, PTL DEF Spec

\* No read fills the buffer: there is room for the NUL that comm_handle_data
\* puts after what it read.
THEOREM TypeCorrect == Spec => []TypeOK
  <1>1. TakenInv => TypeOK
    BY DEF TakenInv
  <1> QED
    BY <1>1, Invariance, PTL

\* When a response has as much room beyond the buffer as "Echo: " takes, every
\* read without a NUL is answered with all its bytes, in the order of reads.
THEOREM RepliesAreReads ==
  ASSUME PREFIX <= SPARE
  PROVE  Spec => []EchoesAll
  <1>1. Init => EchoesAll
    BY DEF Init, EchoesAll
  <1>2. ASSUME TakenInv, TakenInv', EchoesAll, [Next]_vars
        PROVE  EchoesAll'
    <2>1. /\ took \in Seq(Seq(Bytes)) /\ replies \in Seq(Seq(Bytes))
          /\ at = "reply" => Len(replies) = Len(took) - 1
      BY <1>2 DEF TakenInv, TypeOK, ReplyInv
    <2>2. Len(replies) <= Len(took) /\ DOMAIN replies = 1..Len(replies)
      BY <1>2, <2>1 DEF EchoesAll
    <2>3. CASE Read
      <3>1. PICK s \in Seq(Bytes) : took' = Append(took, s)
        BY <1>2, <2>3, ReadTakes DEF TakenInv
      <3>2. Len(took') = Len(took) + 1 /\ \A i \in 1..Len(took) : took'[i] = took[i]
        BY <2>1, <3>1, AppendProperties
      <3>3. Len(replies) = Len(took) /\ replies' = replies /\ at' # "read"
        BY <1>2, <2>1, <2>3 DEF Read, EchoesAll
      <3>4. \A i \in DOMAIN replies' : took'[i] = took[i]
        BY <2>1, <2>2, <3>2, <3>3
      <3>5. Len(replies') = Len(took') - 1
        BY <2>1, <3>2, <3>3
      <3> QED
        BY <1>2, <3>3, <3>4, <3>5 DEF EchoesAll
    <2>4. CASE Write
      <3> DEFINE s == took[Len(took)]
      <3>1. /\ s \in Seq(Bytes) /\ Len(s) < BUFFER_SIZE
            /\ replies' = Append(replies, Response(Text(s)))
            /\ Response(Text(s)) \in Seq(Bytes)
            /\ took' = took /\ Len(replies) = Len(took) - 1
        BY <1>2, <2>1, <2>4, WriteAnswers DEF Write
      <3>2. ~Contains(s, "0") => Response(Text(s)) = s
        BY <3>1, TextOf, ResponseOf
      <3>3. /\ Len(replies') = Len(took) /\ DOMAIN replies' = 1..Len(took)
            /\ \A i \in 1..Len(replies) : replies'[i] = replies[i]
            /\ replies'[Len(took)] = Response(Text(s))
        BY <2>1, <3>1, AppendProperties
      <3>4. ASSUME NEW i \in DOMAIN replies', ~Contains(took'[i], "0")
            PROVE  replies'[i] = took'[i]
        <4>1. CASE i = Len(took)
          BY <3>1, <3>2, <3>3, <3>4, <4>1
        <4>2. CASE i # Len(took)
          <5>1. i \in 1..Len(replies)
            BY <2>1, <3>1, <3>3, <3>4, <4>2
          <5> QED
            BY <1>2, <2>2, <3>1, <3>3, <3>4, <5>1 DEF EchoesAll
        <4> QED
          BY <4>1, <4>2
      <3> QED
        BY <3>1, <3>3, <3>4 DEF EchoesAll
    <2>5. CASE ReadEnds \/ WriteFails \/ comm_cleanup
      BY <1>2, <2>1, <2>5 DEF ReadEnds, WriteFails, comm_cleanup, EchoesAll
    <2>6. CASE PeerSends \/ PeerEnds \/ UNCHANGED vars
      BY <1>2, <2>6 DEF PeerSends, PeerEnds, vars, EchoesAll
    <2> QED
      BY <1>2, <2>3, <2>4, <2>5, <2>6 DEF Next, Session
  <1> QED
    BY <1>1, <1>2, Invariance, PTL DEF Spec
=============================================================================
