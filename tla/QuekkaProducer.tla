--------------------------- MODULE QuekkaProducer ---------------------------
(***************************************************************************)
(* The producer API of src/quekka/Quekka_producer.c: each thread has its   *)
(* own producer and its own connection (g_producer is _Thread_local), and  *)
(* Quekka_publish cuts a payload into frames of one fixed size, sent one   *)
(* by one without waiting.  A frame is what its 4096 bytes say: header     *)
(* fields and the positions of the payload whose bytes it carries, with    *)
(* the call it is of and the length of that payload.                       *)
(*                                                                         *)
(* Before it connects, a thread sets its configuration.                    *)
(*                                                                         *)
(* The socket is external: it has room for some half frames, takes what    *)
(* fits of a send, and the reader makes room at any time.                  *)
(***************************************************************************)
EXTENDS Integers, FiniteSets, QuekkaConfig

CONSTANTS
  Threads,     \* the threads of the producing process
  TopicLens,   \* the lengths of topics the callers use
  PayloadLens, \* the lengths of payloads the callers use, and the sizes they pass
  Faults,      \* calls of Quekka_producer_init that may fail: "socket", "connect", "calloc"
  PAYLOAD_MAX, \* QUEKKA_PAYLOAD_MAX
  TOPIC_KEPT,  \* sizeof(QUEKKA_TOPIC_MAX-1), the size of an int
  UINT16_MAX,  \* the largest uint16_t
  SocketRoom,  \* send buffer of a socket, in half frames
  MaxCalls,    \* bound on the calls of Quekka_publish of a thread
  MaxConfigs   \* bound on the calls that set its configuration

ASSUME ProducerAssumption ==
  /\ TopicLens \subseteq Nat /\ PayloadLens \subseteq Nat
  /\ PAYLOAD_MAX \in Nat \ {0, 1}
  /\ TOPIC_KEPT \in Nat \ {0}
  /\ UINT16_MAX \in Nat \ {0}
  /\ SocketRoom \in Nat \ {0} /\ MaxCalls \in Nat /\ MaxConfigs \in Nat

VARIABLES
  config,     \* the configuration the thread sets
  settings,   \* how often it has set it
  g_producer, \* whether the thread has a producer, connected
  quecode,    \* the thread's error code
  call,       \* the call of Quekka_publish the thread is in
  result,     \* what its last call returned
  wire,       \* what the thread's connection carried: a frame and how much of it
  room,       \* free half frames of the send buffer
  process     \* "running", "exited", "crashed" or "undefined"

configVars == <<config, settings>>
vars == <<configVars, g_producer, quecode, call, result, wire, room, process>>

UInt16(n) == n % (UINT16_MAX + 1)

Smaller(a, b) == IF a < b THEN a ELSE b

MORE == 0
LAST == 1

\* A call of Quekka_publish: its number, arguments and loop variables, and
\* whether a send of it was short.
Call(n, topic, length, size) ==
  [n |-> n, topic |-> topic, length |-> length, size |-> size,
   remaining |-> length, seq |-> 0, short |-> FALSE]

Idle == Call(0, 0, 0, 0)

Init ==
  /\ config = [t \in Threads |-> Quekka_config_init]
  /\ settings = [t \in Threads |-> 0]
  /\ g_producer = [t \in Threads |-> FALSE]
  /\ quecode = [t \in Threads |-> "SUCCESS"]
  /\ call = [t \in Threads |-> Idle]
  /\ result = [t \in Threads |-> [value |-> 0, of |-> Idle]]
  /\ wire = [t \in Threads |-> <<>>]
  /\ room = [t \in Threads |-> SocketRoom]
  /\ process = "running"

-----------------------------------------------------------------------------
(* The configuration, and Quekka_producer_init.                            *)

Set(t, value) ==
  /\ config' = [config EXCEPT ![t] = value]
  /\ settings' = [settings EXCEPT ![t] = @ + 1]
  /\ UNCHANGED process

\* The memcpy of set_address writes past the field, and past the structure.
Overruns(ip) ==
  /\ ~Fits(ip)
  /\ process' = "undefined"
  /\ UNCHANGED configVars

Configure(t) ==
  /\ process = "running"
  /\ ~g_producer[t] /\ settings[t] < MaxConfigs
  /\ \E ip \in Hosts, port \in Ports :
       \/ Fits(ip) /\ Set(t, Quekka_config_set_address(config[t], ip, port))
       \/ Overruns(ip)
       \/ Set(t, Quekka_config_set_ip(config[t], ip))
       \/ Set(t, Quekka_config_set_port(config[t], port))
  /\ UNCHANGED <<g_producer, quecode, call, result, wire, room>>

\* Connected, to whatever config says.  A second call of the thread returns
\* the producer it has.
Connected(t) ==
  /\ g_producer' = [g_producer EXCEPT ![t] = TRUE]
  /\ UNCHANGED <<configVars, quecode, process>>

\* socket returned 0, taken for a failure, or calloc failed.
InitFails(t) ==
  /\ ~g_producer[t]
  /\ Faults \cap {"socket", "calloc"} # {}
  /\ quecode' = [quecode EXCEPT ![t] = "FAILURE"]
  /\ UNCHANGED <<configVars, g_producer, process>>

\* socket_connect exits the process, also when socket returned -1.
ConnectExits(t) ==
  /\ ~g_producer[t]
  /\ "connect" \in Faults
  /\ process' = "exited"
  /\ UNCHANGED <<configVars, g_producer, quecode>>

Quekka_producer_init(t) ==
  /\ process = "running"
  /\ call[t].n = 0
  /\ Connected(t) \/ InitFails(t) \/ ConnectExits(t)
  /\ UNCHANGED <<call, result, wire, room>>

-----------------------------------------------------------------------------
(* Quekka_publish.                                                         *)

Publish(t, c) ==
  /\ process = "running"
  /\ call[t].n = 0
  /\ c.n \in 1..MaxCalls

Acceptable(c) == c.topic \in 1..(UINT16_MAX - 1) /\ c.length = c.size

PublishRejected(t, c) ==
  /\ Publish(t, c)
  /\ ~Acceptable(c)
  /\ quecode' = [quecode EXCEPT ![t] = "FAILURE"]
  /\ result' = [result EXCEPT ![t] = [value |-> -1, of |-> c]]
  /\ UNCHANGED <<g_producer, call, wire, room, process>>

PublishStarts(t, c) ==
  /\ Publish(t, c)
  /\ Acceptable(c)
  /\ call' = [call EXCEPT ![t] = c]
  /\ UNCHANGED <<g_producer, quecode, result, wire, room, process>>

\* strncpy with the size of an int.
header_assemble(topic) ==
  [topic |-> Smaller(topic, TOPIC_KEPT), topic_len |-> UInt16(topic)]

\* Mutants of message_assemble: the copy is not bounded; the stride is that
\* of the copy.
AssembleUnbounded(c) ==
  [header |-> header_assemble(c.topic), call |-> c.n, length |-> c.length,
   payload_len |-> UInt16(c.length - c.seq * PAYLOAD_MAX), seq |-> c.seq,
   flags |-> MORE, from |-> c.seq * PAYLOAD_MAX, to |-> c.length]
AssembleStride(c) ==
  LET from == c.seq * (PAYLOAD_MAX - 1)
      rest == c.length - from
  IN  [header |-> header_assemble(c.topic), call |-> c.n, length |-> c.length,
       payload_len |-> UInt16(rest), seq |-> c.seq, flags |-> MORE,
       from |-> from, to |-> from + Smaller(rest, PAYLOAD_MAX - 1)]

\* The frame at payload + seq * PAYLOAD_MAX.  The copy of the header leaves out
\* its last byte, flags, so the zero of the message stays (MORE); the copy of
\* the payload leaves out the last byte for a NUL.
message_assemble(c) ==
  LET from == c.seq * PAYLOAD_MAX
      rest == c.length - from
  IN  [header |-> header_assemble(c.topic), call |-> c.n, length |-> c.length,
       payload_len |-> UInt16(rest), seq |-> c.seq, flags |-> MORE,
       from |-> from, to |-> from + Smaller(rest, PAYLOAD_MAX - 1)]

\* Mutants of NextChunk: what was copied is subtracted; seq is no uint16_t.
NextByCopied(c) ==
  [c EXCEPT !.remaining = @ - Smaller(@, PAYLOAD_MAX - 1), !.seq = UInt16(@ + 1)]
NextUnwrapped(c) ==
  [c EXCEPT !.remaining = @ - Smaller(@, PAYLOAD_MAX), !.seq = @ + 1]

NextChunk(c) ==
  [c EXCEPT !.remaining = @ - Smaller(@, PAYLOAD_MAX), !.seq = UInt16(@ + 1)]

\* The result of send, all of the frame, half of it or nothing, is not looked at.
AfterSend(c, sent) == [NextChunk(c) EXCEPT !.short = @ \/ sent < 2]

\* One turn of the loop.
PublishChunk(t) ==
  LET sent == Smaller(2, room[t])
  IN  /\ process = "running"
      /\ call[t].remaining > 0
      /\ g_producer[t]
      /\ room' = [room EXCEPT ![t] = @ - sent]
      /\ wire' = IF sent = 0 THEN wire
                 ELSE [wire EXCEPT ![t] =
                         Append(@, [frame |-> message_assemble(call[t]), sent |-> sent])]
      /\ call' = [call EXCEPT ![t] = AfterSend(@, sent)]
      /\ UNCHANGED <<g_producer, quecode, result, process>>

\* g_producer is NULL in a thread that did not call Quekka_producer_init.
PublishCrashes(t) ==
  /\ process = "running"
  /\ call[t].remaining > 0
  /\ ~g_producer[t]
  /\ process' = "crashed"
  /\ UNCHANGED <<g_producer, quecode, call, result, wire, room>>

PublishReturns(t) ==
  /\ process = "running"
  /\ call[t].n # 0
  /\ call[t].remaining = 0
  /\ result' = [result EXCEPT ![t] = [value |-> 0, of |-> call[t]]]
  /\ call' = [call EXCEPT ![t] = Idle]
  /\ UNCHANGED <<g_producer, quecode, wire, room, process>>

\* The reader of the connection takes half a frame.
Drain(t) ==
  /\ room[t] < SocketRoom
  /\ room' = [room EXCEPT ![t] = @ + 1]
  /\ UNCHANGED <<g_producer, quecode, call, result, wire, process>>

Publishing(t) ==
  \/ \E topic \in TopicLens, length, size \in PayloadLens :
       LET c == Call(result[t].of.n + 1, topic, length, size)
       IN  PublishRejected(t, c) \/ PublishStarts(t, c)
  \/ PublishChunk(t)
  \/ PublishCrashes(t)
  \/ PublishReturns(t)
  \/ Drain(t)

Next ==
  \E t \in Threads :
    \/ Configure(t)
    \/ Quekka_producer_init(t)
    \/ Publishing(t) /\ UNCHANGED configVars

Spec == Init /\ [][Next]_vars

-----------------------------------------------------------------------------
(* What configuring and publishing promise.                                *)

CallRecord == [n : 0..MaxCalls, topic : Nat, length : Nat, size : Nat, remaining : Nat,
               seq : 0..UINT16_MAX, short : BOOLEAN]

Frame == [header : [topic : 0..TOPIC_KEPT, topic_len : 0..UINT16_MAX], call : 1..MaxCalls,
          payload_len : 0..UINT16_MAX, seq : 0..UINT16_MAX, flags : {MORE, LAST},
          from : Nat, to : Nat, length : Nat]

TypeOK ==
  /\ config \in [Threads -> [_ip : Seq(Nat), _port : 0..(BYTE * BYTE - 1)]]
  /\ \A t \in Threads : Len(config[t]._ip) <= ADDRSTRLEN
  /\ settings \in [Threads -> 0..MaxConfigs]
  /\ g_producer \in [Threads -> BOOLEAN]
  /\ quecode \in [Threads -> {"SUCCESS", "FAILURE"}]
  /\ call \in [Threads -> CallRecord]
  /\ result \in [Threads -> [value : {-1, 0}, of : CallRecord]]
  /\ wire \in [Threads -> Seq([frame : Frame, sent : {1, 2}])]
  /\ room \in [Threads -> 0..SocketRoom]
  /\ process \in {"running", "exited", "crashed", "undefined"}

\* seq counts the frames of a payload as long as it does not wrap.
Countable(c) == c.length <= PAYLOAD_MAX * (UINT16_MAX + 1)

\* In the loop, payload + seq * PAYLOAD_MAX is the start of what remains: no
\* chunk starts past the payload, and none is sent twice.
ChunkOffset ==
  \A t \in Threads : LET c == call[t] IN
    c.remaining > 0 /\ Countable(c) => c.seq * PAYLOAD_MAX + c.remaining = c.length

\* Every frame carries something of its payload and nothing from past its end,
\* also when seq has wrapped, and on one connection frames follow each other in
\* the order of the calls and, as far as seq can count, of the payload: lost
\* bytes leave gaps, but none comes late or twice.
InOrder ==
  \A t \in Threads : \A i \in DOMAIN wire[t] :
    LET b == wire[t][i].frame
    IN  /\ b.from < b.to /\ b.to <= b.length
        /\ \A j \in 1..(i - 1) :
             LET a == wire[t][j].frame
             IN  \/ a.call < b.call
                 \/ a.call = b.call /\ (Countable(b) => a.seq < b.seq /\ a.to <= b.from)

\* The payload positions that reached the connection in the thread's last call.
Carried(t) ==
  UNION {w.frame.from..(w.frame.to - 1) :
           w \in {wire[t][i] : i \in {j \in DOMAIN wire[t] :
                                        wire[t][j].frame.call = result[t].of.n}}}

Complete(t) == result[t].of.n > 0 /\ result[t].value = 0 /\ ~result[t].of.short

\* When no send was short, a publish that returned 0 lost exactly the last
\* byte of each full chunk, and nothing else.
OnlyBoundaryLost ==
  \A t \in Threads : LET c == result[t].of IN
    Complete(t) /\ Countable(c) =>
      Carried(t) = {i \in 0..(c.length - 1) : i % PAYLOAD_MAX # PAYLOAD_MAX - 1}
=============================================================================
