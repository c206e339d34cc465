---------------------------- MODULE SocketServer ----------------------------
(***************************************************************************)
(* The callback server of src/internal/libsocket.c: one thread that waits  *)
(* in epoll (libepoll.c), accepts connections, receives from them and      *)
(* calls the application back, with the client manager that keeps one node *)
(* per connection.  The application calls socket_server_disconnect and     *)
(* socket_server_stop; the peers connect, send, close and reset at any     *)
(* time, between any two system calls of the server.                       *)
(*                                                                         *)
(* The kernel side (accept queue, descriptor table, epoll lists) is        *)
(* modelled from how the code uses it: accept returns the lowest free      *)
(* descriptor, an EPOLLET event is queued once per arrival, and close      *)
(* takes a descriptor out of epoll.                                        *)
(***************************************************************************)
EXTENDS Naturals, Sequences, FiniteSets, SequencesExt

CONSTANTS
  Conns,          \* the connections peers may open, each at most once
  Fds,            \* the descriptors accept may return (the process limit)
  ListenFd,       \* the listening descriptor
  EventArg,       \* EventArg[f]: what the callback gets as fd for an event on f
  ListenNonblock, \* whether the listening descriptor is O_NONBLOCK
  Faults,         \* which calls may fail: "accept", "setup", "signal"
  AppUses,        \* what the application does: "close_self", "close_other", "stop"
  MaxClients,     \* CLIENT_MAX_CLIENTS
  MaxEvents,      \* EPOLL_MAX_EVENTS
  MaxInbox,       \* bound on the unread chunks of one connection
  NoConn,         \* a free descriptor
  NoNode          \* the null client_info_t*

ASSUME ServerAssumption ==
  /\ Fds \subseteq Nat /\ ListenFd \in Nat \ Fds
  /\ EventArg \in [Fds \cup {ListenFd} -> Nat]
  /\ ListenNonblock \in BOOLEAN
  /\ MaxClients \in Nat \ {0} /\ MaxEvents \in Nat \ {0} /\ MaxInbox \in Nat \ {0}
  /\ NoConn \notin Conns
  /\ NoNode \notin [fd : Fds, conn : Conns]

VARIABLES
  peer,      \* the peer's side of each connection
  inbox,     \* received chunks the server has not read
  backlog,   \* established connections waiting for accept
  file,      \* the descriptor table: file[f] is the connection open at f
  interest,  \* descriptors registered in epoll
  ready,     \* registered descriptors with an event not yet returned
  mgr,       \* the client_manager_t
  app,       \* what the application knows of each connection
  pc,        \* where the event loop is
  batch,     \* handler->events still to be dispatched
  cur,       \* the node handle_accept or handle_client is working on
  running    \* server->running

network == <<peer, inbox, backlog>>
kernel  == <<file, interest, ready>>
loop    == <<pc, batch, cur, running>>
vars    == <<network, kernel, mgr, app, loop>>

Nodes == [fd : Fds, conn : Conns]

Callbacks == {"on_connection", "on_received", "on_disconnected"}

-----------------------------------------------------------------------------
(* The client manager: a singly linked list, its head first, and a count.  *)

\* The first node of list s that carries descriptor f is at position i.
IsFirst(s, i, f) ==
  /\ i \in DOMAIN s
  /\ s[i].fd = f
  /\ \A j \in 1..(i - 1) : s[j].fd # f

HasFd(s, f) == \E i \in DOMAIN s : IsFirst(s, i, f)

First(s, f) == CHOOSE i \in DOMAIN s : IsFirst(s, i, f)

client_manager_create == [clients |-> <<>>, client_count |-> 0]

\* All nodes are freed, the pointers the application holds with them.
client_manager_destroy == client_manager_create

\* Mutants of client_manager_add: insertion at the tail; no client_count++.
AddAtTail(m, n) ==
  [clients |-> Append(m.clients, n), client_count |-> m.client_count + 1]
AddUncounted(m, n) == [m EXCEPT !.clients = <<n>> \o @]

client_manager_add(m, n) ==
  [clients |-> <<n>> \o m.clients, client_count |-> m.client_count + 1]

client_manager_find(m, f) ==
  IF HasFd(m.clients, f) THEN m.clients[First(m.clients, f)] ELSE NoNode

\* Mutant of client_manager_remove: the last node with the descriptor goes.
RemoveLast(m, f) ==
  LET Matches == {i \in DOMAIN m.clients : m.clients[i].fd = f}
  IN  IF Matches = {} THEN m
      ELSE [clients      |-> RemoveAt(m.clients, Max(Matches)),
            client_count |-> m.client_count - 1]

client_manager_remove(m, f) ==
  IF HasFd(m.clients, f)
  THEN [clients      |-> RemoveAt(m.clients, First(m.clients, f)),
        client_count |-> m.client_count - 1]
  ELSE m

-----------------------------------------------------------------------------
(* The kernel, as the server's calls see it.                               *)

HasInput(f) ==
  IF f = ListenFd
  THEN backlog # <<>>
  ELSE \E c \in Conns : file[f] = c /\ (inbox[c] > 0 \/ peer[c] \in {"closed", "reset"})

\* Something arrived for connection c: its descriptor, if registered, is ready.
Arrival(c) == ready' = ready \cup {f \in interest \cap Fds : file[f] = c}

\* EPOLL_CTL_ADD with EPOLLIN | EPOLLET: what is there already is an event.
epoll_handler_add(f, due) ==
  /\ interest' = interest \cup {f}
  /\ ready' = IF due THEN ready \cup {f} ELSE ready

epoll_handler_destroy == interest' = {} /\ ready' = {}

\* accept takes the lowest free descriptor.
LowestFree(f) ==
  /\ file[f] = NoConn
  /\ \A g \in Fds : file[g] = NoConn => f <= g

\* The server's side of the connections in C is closed; what was unread is lost.
HangUp(C) ==
  /\ peer' = [c \in Conns |-> IF c \in C THEN "over" ELSE peer[c]]
  /\ inbox' = [c \in Conns |-> IF c \in C THEN 0 ELSE inbox[c]]

\* close(f); on a descriptor that is not open it is EBADF and changes nothing.
Close(f) ==
  /\ file' = [file EXCEPT ![f] = NoConn]
  /\ interest' = interest \ {f}
  /\ ready' = ready \ {f}
  /\ HangUp({file[f]})

-----------------------------------------------------------------------------
(* The peers.                                                              *)

Connect(c) ==
  /\ peer[c] = "idle"
  /\ pc # "destroyed"
  /\ peer' = [peer EXCEPT ![c] = "open"]
  /\ backlog' = Append(backlog, c)
  /\ ready' = ready \cup {ListenFd}
  /\ UNCHANGED <<inbox, file, interest, mgr, app, loop>>

PeerSend(c) ==
  /\ peer[c] = "open"
  /\ inbox[c] < MaxInbox
  /\ inbox' = [inbox EXCEPT ![c] = @ + 1]
  /\ Arrival(c)
  /\ UNCHANGED <<peer, backlog, file, interest, mgr, app, loop>>

PeerEnd(c) ==
  /\ peer[c] = "open"
  /\ \E how \in {"closed", "reset"} : peer' = [peer EXCEPT ![c] = how]
  /\ Arrival(c)
  /\ UNCHANGED <<inbox, backlog, file, interest, mgr, app, loop>>

Peers == \E c \in Conns : Connect(c) \/ PeerSend(c) \/ PeerEnd(c)

-----------------------------------------------------------------------------
(* The event loop.                                                         *)

\* A server that was stopped may be started again.
socket_server_start ==
  /\ pc \in {"created", "stopped"}
  /\ running' = TRUE
  /\ pc' = "loop"
  /\ UNCHANGED <<network, kernel, mgr, app, batch, cur>>

\* Mutant of LoopTest: running is not looked at.
LoopForever ==
  /\ pc = "loop"
  /\ pc' = "wait"
  /\ UNCHANGED <<network, kernel, mgr, app, batch, cur, running>>

LoopTest ==
  /\ pc = "loop"
  /\ pc' = IF running THEN "wait" ELSE "stopped"
  /\ UNCHANGED <<network, kernel, mgr, app, batch, cur, running>>

epoll_handler_wait ==
  LET due == {f \in ready : HasInput(f)}
  IN  /\ pc = "wait"
      /\ \E S \in SUBSET due :
           /\ S # {}
           /\ S = due \/ Cardinality(S) = MaxEvents
           /\ Cardinality(S) <= MaxEvents
           /\ batch' = S
           /\ ready' = ready \ S
      /\ pc' = "dispatch"
      /\ UNCHANGED <<network, file, interest, mgr, app, cur, running>>

\* A signal: epoll_wait returns -1 with EINTR and the loop goes round.  Events
\* that are there are returned first.
WaitInterrupted ==
  /\ pc = "wait"
  /\ \A f \in ready : ~HasInput(f)
  /\ "signal" \in Faults
  /\ pc' = "loop"
  /\ UNCHANGED <<network, kernel, mgr, app, batch, cur, running>>

epoll_event_callback ==
  /\ pc = "dispatch"
  /\ \E f \in batch :
       LET fd == EventArg[f]
       IN  /\ batch' = batch \ {f}
           /\ \/ /\ fd = ListenFd
                 /\ pc' = "accept"
                 /\ UNCHANGED cur
              \/ /\ fd # ListenFd
                 /\ cur' = client_manager_find(mgr, fd)
                 /\ pc' = IF cur' = NoNode THEN "dispatch" ELSE "client"
  /\ UNCHANGED <<network, kernel, mgr, app, running>>

BatchDone ==
  /\ pc = "dispatch"
  /\ batch = {}
  /\ pc' = "loop"
  /\ UNCHANGED <<network, kernel, mgr, app, batch, cur, running>>

-----------------------------------------------------------------------------
(* handle_accept: one accept call of its loop per step.                    *)

\* The accept call with nobody waiting: where a blocking listener rests.
Resting == pc = "accept" /\ backlog = <<>>

\* EAGAIN; on a blocking descriptor the call does not return instead.
AcceptEmpty ==
  /\ Resting
  /\ ListenNonblock
  /\ pc' = "dispatch"
  /\ UNCHANGED <<network, kernel, mgr, app, batch, cur, running>>

\* A signal ends the rest of a blocking listener: EINTR, the loop is left.
AcceptInterrupted ==
  /\ Resting
  /\ ~ListenNonblock /\ "signal" \in Faults
  /\ pc' = "dispatch"
  /\ UNCHANGED <<network, kernel, mgr, app, batch, cur, running>>

\* EMFILE, which comes before anything is looked at, or another failure of an
\* accept that had a connection to return: the loop is left, whatever waits.
AcceptFails ==
  /\ pc = "accept"
  /\ \/ "accept" \in Faults /\ backlog # <<>>
     \/ \A f \in Fds : file[f] # NoConn
  /\ pc' = "dispatch"
  /\ UNCHANGED <<network, kernel, mgr, app, batch, cur, running>>

\* accept returned descriptor f for connection c.
Accepted(f, c) ==
  /\ pc = "accept"
  /\ backlog # <<>>
  /\ c = Head(backlog)
  /\ LowestFree(f)
  /\ backlog' = Tail(backlog)

\* The accepted descriptor is closed again before anyone heard of it.
Refuse(c) ==
  /\ HangUp({c})
  /\ UNCHANGED <<kernel, app, loop>>

\* fcntl or malloc failed, or there are already CLIENT_MAX_CLIENTS nodes.
AcceptRefused ==
  \E f \in Fds, c \in Conns :
    /\ Accepted(f, c)
    /\ "setup" \in Faults \/ mgr.client_count >= MaxClients
    /\ Refuse(c)
    /\ UNCHANGED mgr

\* Mutant of AcceptUnregistered: the descriptor is not closed.
UnregisteredStaysOpen ==
  \E f \in Fds, c \in Conns :
    /\ Accepted(f, c)
    /\ "setup" \in Faults /\ mgr.client_count < MaxClients
    /\ file' = [file EXCEPT ![f] = c]
    /\ UNCHANGED <<peer, inbox, interest, ready, mgr, app, loop>>

\* epoll_handler_add failed: the node just added is removed again.
AcceptUnregistered ==
  \E f \in Fds, c \in Conns :
    /\ Accepted(f, c)
    /\ "setup" \in Faults /\ mgr.client_count < MaxClients
    /\ mgr' = client_manager_remove(client_manager_add(mgr, [fd |-> f, conn |-> c]), f)
    /\ Refuse(c)

\* The node is added, the descriptor registered, on_connection called.
AcceptRegistered ==
  \E f \in Fds, c \in Conns :
    LET node == [fd |-> f, conn |-> c]
    IN  /\ Accepted(f, c)
        /\ mgr.client_count < MaxClients
        /\ file' = [file EXCEPT ![f] = c]
        /\ mgr' = client_manager_add(mgr, node)
        /\ epoll_handler_add(f, inbox[c] > 0 \/ peer[c] # "open")
        /\ app' = [app EXCEPT ![c] = "connected"]
        /\ cur' = node
        /\ pc' = "on_connection"
        /\ UNCHANGED <<peer, inbox, batch, running>>

\* Mutant of ConnectionCallbackReturns: one accept per event.
OneAcceptPerEvent ==
  /\ pc = "on_connection"
  /\ pc' = "dispatch"
  /\ cur' = NoNode
  /\ UNCHANGED <<network, kernel, mgr, app, batch, running>>

ConnectionCallbackReturns ==
  /\ pc = "on_connection"
  /\ pc' = "accept"
  /\ cur' = NoNode
  /\ UNCHANGED <<network, kernel, mgr, app, batch, running>>

-----------------------------------------------------------------------------
(* handle_client: one recv call of its loop per step.                      *)

RecvData ==
  /\ pc = "client"
  /\ \E c \in Conns :
       /\ file[cur.fd] = c
       /\ inbox[c] > 0
       /\ inbox' = [inbox EXCEPT ![c] = @ - 1]
  /\ pc' = "on_received"
  /\ UNCHANGED <<peer, backlog, kernel, mgr, app, batch, cur, running>>

\* Mutant of ReceivedCallbackReturns: one recv per event.
OneRecvPerEvent ==
  /\ pc = "on_received"
  /\ pc' = "dispatch"
  /\ cur' = NoNode
  /\ UNCHANGED <<network, kernel, mgr, app, batch, running>>

ReceivedCallbackReturns ==
  /\ pc = "on_received"
  /\ pc' = "client"
  /\ UNCHANGED <<network, kernel, mgr, app, batch, cur, running>>

\* EAGAIN: everything that arrived has been read.
RecvEmpty ==
  /\ pc = "client"
  /\ file[cur.fd] # NoConn
  /\ ~HasInput(cur.fd)
  /\ pc' = "dispatch"
  /\ cur' = NoNode
  /\ UNCHANGED <<network, kernel, mgr, app, batch, running>>

\* recv returned 0, or an error: ECONNRESET, or EBADF when the application
\* has closed the descriptor.  Both branches call on_disconnected first.
RecvEnd ==
  /\ pc = "client"
  /\ \/ file[cur.fd] = NoConn
     \/ \E c \in Conns :
          file[cur.fd] = c /\ inbox[c] = 0 /\ peer[c] \in {"closed", "reset"}
  /\ app' = [app EXCEPT ![cur.conn] = "gone"]
  /\ pc' = "on_disconnected"
  /\ UNCHANGED <<network, kernel, mgr, batch, cur, running>>

\* Mutants of ReleaseClient: no client_manager_remove; no break.
ReleaseKeepsNode ==
  /\ pc = "on_disconnected"
  /\ Close(cur.fd)
  /\ pc' = "dispatch"
  /\ cur' = NoNode
  /\ UNCHANGED <<backlog, mgr, app, batch, running>>
ReleaseWithoutBreak ==
  /\ pc = "on_disconnected"
  /\ Close(cur.fd)
  /\ mgr' = client_manager_remove(mgr, cur.fd)
  /\ pc' = "client"
  /\ UNCHANGED <<backlog, app, batch, cur, running>>

\* on_disconnected returns: epoll_handler_remove, close, client_manager_remove.
ReleaseClient ==
  /\ pc = "on_disconnected"
  /\ Close(cur.fd)
  /\ mgr' = client_manager_remove(mgr, cur.fd)
  /\ pc' = "dispatch"
  /\ cur' = NoNode
  /\ UNCHANGED <<backlog, app, batch, running>>

-----------------------------------------------------------------------------
(* The application, from inside a callback.                                *)

MayDisconnect(c) ==
  IF pc = "on_received" /\ c = cur.conn
  THEN "close_self" \in AppUses
  ELSE "close_other" \in AppUses

\* The descriptor of a connection the application holds is closed; neither
\* the node nor, explicitly, the epoll registration is touched.
socket_server_disconnect ==
  /\ pc \in Callbacks
  /\ \E i \in DOMAIN mgr.clients :
       LET client == mgr.clients[i]
       IN  /\ app[client.conn] = "connected"
           /\ MayDisconnect(client.conn)
           /\ Close(client.fd)
           /\ app' = [app EXCEPT ![client.conn] = "closing"]
  /\ UNCHANGED <<backlog, mgr, loop>>

\* From a callback, a signal handler or another thread.
socket_server_stop ==
  /\ "stop" \in AppUses
  /\ running
  /\ running' = FALSE
  /\ UNCHANGED <<network, kernel, mgr, app, pc, batch, cur>>

\* The nodes are freed and the listener and epoll closed; the descriptors of
\* the connections that are still open are not.
socket_server_destroy ==
  /\ pc \in {"created", "stopped"}
  /\ pc' = "destroyed"
  /\ mgr' = client_manager_destroy
  /\ epoll_handler_destroy
  /\ backlog' = <<>>
  /\ HangUp(ToSet(backlog))
  /\ UNCHANGED <<file, app, batch, cur, running>>

-----------------------------------------------------------------------------

\* socket_server_create: the listener is registered before the loop runs.
Init ==
  /\ peer = [c \in Conns |-> "idle"]
  /\ inbox = [c \in Conns |-> 0]
  /\ backlog = <<>>
  /\ file = [f \in Fds |-> NoConn]
  /\ interest = {ListenFd}
  /\ ready = {}
  /\ mgr = client_manager_create
  /\ app = [c \in Conns |-> "none"]
  /\ pc = "created"
  /\ batch = {}
  /\ cur = NoNode
  /\ running = FALSE

handle_accept ==
  \/ AcceptEmpty
  \/ AcceptFails
  \/ AcceptRefused
  \/ AcceptUnregistered
  \/ AcceptRegistered
  \/ ConnectionCallbackReturns

handle_client ==
  \/ RecvData
  \/ ReceivedCallbackReturns
  \/ RecvEmpty
  \/ RecvEnd
  \/ ReleaseClient

EventLoop ==
  \/ LoopTest
  \/ epoll_handler_wait
  \/ epoll_event_callback
  \/ BatchDone
  \/ handle_accept
  \/ handle_client

Signals == WaitInterrupted \/ AcceptInterrupted

Application ==
  \/ socket_server_start
  \/ socket_server_disconnect
  \/ socket_server_stop
  \/ socket_server_destroy

Next == Peers \/ EventLoop \/ Signals \/ Application

Spec == Init /\ [][Next]_vars

\* The server's thread keeps running; it is started when it can be.  Nothing
\* is assumed of the peers, of signals, nor of the application's other calls.
FairSpec ==
  Spec /\ WF_vars(EventLoop) /\ WF_vars(pc = "created" /\ socket_server_start)

-----------------------------------------------------------------------------
(* What the server promises.                                               *)

TypeOK ==
  /\ peer \in [Conns -> {"idle", "open", "closed", "reset", "over"}]
  /\ inbox \in [Conns -> 0..MaxInbox]
  /\ backlog \in Seq(Conns)
  /\ file \in [Fds -> Conns \cup {NoConn}]
  /\ interest \subseteq Fds \cup {ListenFd}
  /\ ready \subseteq Fds \cup {ListenFd}
  /\ mgr \in [clients : Seq(Nodes), client_count : 0..MaxClients]
  /\ app \in [Conns -> {"none", "connected", "closing", "gone"}]
  /\ pc \in {"created", "loop", "wait", "dispatch", "accept", "client",
             "stopped", "destroyed"} \cup Callbacks
  /\ batch \subseteq Fds \cup {ListenFd}
  /\ cur \in Nodes \cup {NoNode}
  /\ running \in BOOLEAN

\* A client_info_t* the application got from on_connection and neither
\* disconnected nor saw disconnected carries the descriptor of its own peer:
\* socket_server_send and socket_server_disconnect reach no one else.
HandleOwnsFd ==
  pc # "destroyed" =>
    \A c \in Conns : app[c] = "connected" =>
      \E n \in ToSet(mgr.clients) : n.conn = c /\ file[n.fd] = c

\* Until on_disconnected has been called for it, the client_info_t* the
\* application holds is a node that has not been freed.
HandleAlive ==
  pc # "destroyed" =>
    \A c \in Conns : app[c] \in {"connected", "closing"} =>
      \E n \in ToSet(mgr.clients) : n.conn = c

\* The bytes recv returns in handle_client are passed to on_received with
\* the client they came from, whatever became of the descriptor since the
\* event was queued.
NoMisdelivery ==
  pc \in {"client", "on_received"} => file[cur.fd] \in {cur.conn, NoConn}

\* Every descriptor accept returned and nobody closed is watched by epoll
\* and is found in the client manager as the connection it belongs to: no
\* error path of handle_accept leaks one, no stale node hides one.
OpenIsManaged ==
  pc # "destroyed" =>
    \A f \in Fds : file[f] # NoConn =>
      /\ f \in interest
      /\ client_manager_find(mgr, f) = [fd |-> f, conn |-> file[f]]

\* Under EPOLLET an event is reported once: as long as a client has unread
\* input or an unread end, its event is queued, in the batch, or being read.
NoLostEdge ==
  pc # "destroyed" =>
    \A f \in Fds : HasInput(f) =>
      \/ f \in ready \cup batch
      \/ pc \in {"client", "on_received", "on_disconnected"} /\ cur.fd = f

\* The same of the listening descriptor.
BacklogAnnounced ==
  pc # "destroyed" /\ backlog # <<>> =>
    ListenFd \in ready \cup batch \/ pc \in {"accept", "on_connection"}

\* Every node counted is an open connection, or one that the application
\* disconnected and whose on_disconnected has not been called: whatever fails
\* or is reused, no node is counted twice, forgotten, or kept after its end.
CountExplained ==
  pc \notin {"on_disconnected", "destroyed"} =>
    mgr.client_count = Cardinality({f \in Fds : file[f] # NoConn})
                     + Cardinality({c \in Conns : app[c] = "closing"})

\* A node leaves the manager, while the server lives, only after its
\* application was told by on_disconnected.
FreedAfterNotice ==
  [][\A n \in ToSet(mgr.clients) :
       n \in ToSet(mgr'.clients) \/ pc' = "destroyed" \/ app[n.conn] = "gone"]_vars

\* on_disconnected is called once for a client, and only after on_connection.
NotifiedOnce ==
  [][pc' = "on_disconnected" /\ pc # "on_disconnected"
       => app[cur.conn] \in {"connected", "closing"}]_vars

\* No peer sends for ever: handle_client reads until EAGAIN, so one that
\* does keeps the loop for itself.
Quiet == \A c \in Conns : <>[][~PeerSend(c)]_vars

\* The loop is not left in accept for ever.  With the blocking listener of
\* socket_init that takes another peer, a signal or EMFILE each time.
AcceptReturns == []<>~Resting

\* A connection that waits to be accepted is accepted, unless the server is
\* stopped, with a blocking listener too.
ConnectionAccepted ==
  Quiet => \A c \in Conns :
    (running /\ c \in ToSet(backlog)) ~> (~running \/ c \notin ToSet(backlog))

\* What a connected client sent is read, unless the loop stays in accept.
DataRead ==
  Quiet /\ AcceptReturns => \A c \in Conns :
    (running /\ app[c] = "connected" /\ inbox[c] > 0) ~> (~running \/ inbox[c] = 0)

\* The end of a connection is reported by on_disconnected, unless the
\* application has closed it from another client's callback, or the loop stays
\* in accept.
EndReported ==
  Quiet /\ AcceptReturns => \A c \in Conns :
    (running /\ app[c] = "connected" /\ peer[c] \in {"closed", "reset"})
      ~> (~running \/ app[c] \in {"closing", "gone"})

\* socket_server_stop called from a callback ends socket_server_start, unless
\* the loop stays in accept.
StopFromCallback ==
  Quiet /\ AcceptReturns => (pc \in Callbacks /\ ~running) ~> (pc = "stopped")

\* handle_accept comes to its end once all waiting connections are handled.
AcceptEnds == Resting ~> ~Resting

\* socket_server_stop ends socket_server_start, whoever calls it.
StopIsHeard == Quiet => (pc = "wait" /\ ~running) ~> (pc = "stopped")
=============================================================================
