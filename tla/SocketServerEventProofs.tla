----------------------- MODULE SocketServerEventProofs -----------------------
(***************************************************************************)
(* More about SocketServer, for every value of its constants: that no open *)
(* descriptor is left out of epoll or of the client manager, that no       *)
(* edge-triggered event is lost, that client_manager_count is the number   *)
(* it promises, and what a step may never do to a node.                    *)
(***************************************************************************)
EXTENDS SocketServerProofs, FiniteSetTheorems

-----------------------------------------------------------------------------
(* What is added to the inductive invariant.                               *)

\* Open descriptors are registered: close is the only way out of epoll.
WatchedInv ==
  pc # "destroyed" => \A f \in Fds : file[f] # NoConn => f \in interest

\* The application was told of every open connection, and has not closed it.
OpenInv ==
  pc # "destroyed" =>
    \A f \in Fds : file[f] # NoConn =>
      \/ app[file[f]] = "connected"
      \/ pc = "on_disconnected" /\ file[f] = cur.conn

\* epoll_wait is not called before the last batch was dispatched.
BatchInv == pc \in {"created", "loop", "wait", "stopped"} => batch = {}

EventInv == WatchedInv /\ OpenInv /\ BatchInv
-----------------------------------------------------------------------------
(* Lemmas.                                                                 *)

\* No connection is open at two descriptors.
LEMMA OneFdPerConn ==
  ASSUME IInv, pc # "destroyed",
         NEW f \in Fds, NEW g \in Fds, file[f] = file[g], file[f] # NoConn
  PROVE  f = g
  <1>1. PICK i \in DOMAIN mgr.clients :
          IsFirst(mgr.clients, i, f) /\ mgr.clients[i].conn = file[f]
    BY DEF IInv, OwnerInv
  <1>2. PICK j \in DOMAIN mgr.clients :
          IsFirst(mgr.clients, j, g) /\ mgr.clients[j].conn = file[g]
    BY DEF IInv, OwnerInv
  <1>3. i = j
    BY <1>1, <1>2 DEF IInv, ListInv
  <1> QED BY <1>1, <1>2, <1>3 DEF IsFirst

\* client_manager_find finds every open connection by its descriptor.
LEMMA OpenIsFound ==
  ASSUME IInv, pc # "destroyed", NEW f \in Fds, file[f] # NoConn
  PROVE  /\ client_manager_find(mgr, f) = [fd |-> f, conn |-> file[f]]
         /\ client_manager_find(mgr, f) # NoNode
  <1>1. PICK i \in DOMAIN mgr.clients :
          IsFirst(mgr.clients, i, f) /\ mgr.clients[i].conn = file[f]
    BY DEF IInv, OwnerInv
  <1>2. client_manager_find(mgr, f) = mgr.clients[i]
    BY <1>1, FirstIsFirst DEF IInv, TypeOK, client_manager_find
  <1>3. mgr.clients[i] \in Nodes /\ mgr.clients[i].fd = f
    BY <1>1, NodeAt DEF IInv, IsFirst
  <1>4. mgr.clients[i] = [fd |-> f, conn |-> file[f]]
    BY <1>1, <1>3 DEF Nodes
  <1>5. NoNode \notin Nodes
    BY ServerAssumption DEF Nodes
  <1> QED BY <1>2, <1>3, <1>4, <1>5

\* The application closes the descriptor of its own connection.
LEMMA DisconnectFacts ==
  ASSUME IInv, socket_server_disconnect
  PROVE  \E f \in Fds :
           /\ pc \in Callbacks /\ file[f] # NoConn
           /\ Close(f)
           /\ app[file[f]] = "connected"
           /\ app' = [app EXCEPT ![file[f]] = "closing"]
           /\ UNCHANGED <<backlog, mgr, pc, batch, cur, running>>
  <1>1. PICK i \in DOMAIN mgr.clients :
          /\ pc \in Callbacks
          /\ app[mgr.clients[i].conn] = "connected"
          /\ Close(mgr.clients[i].fd)
          /\ app' = [app EXCEPT ![mgr.clients[i].conn] = "closing"]
          /\ UNCHANGED <<backlog, mgr, pc, batch, cur, running>>
    BY DEF socket_server_disconnect, loop
  <1>2. mgr.clients[i].fd \in Fds /\ mgr.clients[i].conn \in Conns
    BY NodeAt DEF IInv
  <1>3. PICK j \in DOMAIN mgr.clients :
          /\ mgr.clients[j].conn = mgr.clients[i].conn
          /\ file[mgr.clients[j].fd] = mgr.clients[i].conn
    BY <1>1, <1>2 DEF IInv, HandleInv, Callbacks
  <1>4. j = i
    BY <1>3 DEF IInv, ListInv
  <1> QED BY <1>1, <1>2, <1>3, <1>4, ServerAssumption

-----------------------------------------------------------------------------
(* The added parts are inductive as well.                                  *)

LEMMA EventInit == Init => EventInv
  BY DEF Init, EventInv, WatchedInv, OpenInv, BatchInv

\* Descriptors that stay open, stay registered and keep their connection, in
\* a step that changes neither what the application knows nor the batch.
LEMMA EventQuiet ==
  ASSUME EventInv, UNCHANGED <<file, interest, app>>,
         pc = "destroyed" => pc' = "destroyed",
         pc = "on_disconnected" => pc' = pc /\ cur' = cur,
         BatchInv'
  PROVE  EventInv'
  BY DEF EventInv, WatchedInv, OpenInv

\* A step that neither opens nor closes a descriptor, tells the application
\* nothing, and is not one of those that fill the batch.
StillStep ==
  \/ \E c \in Conns : Connect(c) \/ PeerSend(c) \/ PeerEnd(c)
  \/ socket_server_start \/ socket_server_stop
  \/ LoopTest \/ epoll_handler_wait \/ WaitInterrupted
  \/ epoll_event_callback \/ BatchDone
  \/ AcceptEmpty \/ AcceptInterrupted \/ AcceptFails \/ AcceptRefused
  \/ ConnectionCallbackReturns
  \/ RecvData \/ ReceivedCallbackReturns \/ RecvEmpty

LEMMA StillFacts ==
  ASSUME StillStep
  PROVE  /\ UNCHANGED <<file, interest, app, mgr>>
         /\ pc = "destroyed" => pc' = "destroyed"
         /\ pc = "on_disconnected" => pc' = pc /\ cur' = cur
         /\ BatchInv => BatchInv'
  <1> USE DEF network, kernel, loop, BatchInv
  <1>1. CASE \E c \in Conns : Connect(c) \/ PeerSend(c) \/ PeerEnd(c)
    BY <1>1 DEF Connect, PeerSend, PeerEnd
  <1>2. CASE socket_server_start \/ socket_server_stop \/ LoopTest
    BY <1>2 DEF socket_server_start, socket_server_stop, LoopTest
  <1>3. CASE epoll_handler_wait
    BY <1>3 DEF epoll_handler_wait
  <1>4. CASE WaitInterrupted \/ BatchDone
    BY <1>4 DEF WaitInterrupted, BatchDone
  <1>5. CASE epoll_event_callback
    BY <1>5 DEF epoll_event_callback
  <1>6. CASE AcceptEmpty \/ AcceptInterrupted \/ AcceptFails
    BY <1>6 DEF AcceptEmpty, AcceptInterrupted, AcceptFails, Resting
  <1>7. CASE AcceptRefused
    BY <1>7 DEF AcceptRefused, Accepted, Refuse
  <1>8. CASE ConnectionCallbackReturns \/ RecvData
    BY <1>8 DEF ConnectionCallbackReturns, RecvData
  <1>9. CASE ReceivedCallbackReturns \/ RecvEmpty
    BY <1>9 DEF ReceivedCallbackReturns, RecvEmpty
  <1> QED BY <1>1, <1>2, <1>3, <1>4, <1>5, <1>6, <1>7, <1>8, <1>9 DEF StillStep

\* The remaining steps.
LEMMA StepKinds ==
  ASSUME [Next]_vars
  PROVE  \/ StillStep
         \/ AcceptUnregistered \/ AcceptRegistered
         \/ RecvEnd \/ ReleaseClient
         \/ socket_server_disconnect \/ socket_server_destroy
         \/ UNCHANGED vars
  BY DEF Next, Peers, EventLoop, Signals, Application, handle_accept, handle_client, StillStep

\* handle_accept takes back a node it could not register.
LEMMA UnregisteredFacts ==
  ASSUME IInv, AcceptUnregistered
  PROVE  /\ UNCHANGED <<file, interest, ready, mgr, app, pc, batch, cur>>
         /\ \E c \in Conns : HangUp({c})
  <1>1. PICK f \in Fds, c \in Conns :
          /\ mgr' = client_manager_remove(client_manager_add(mgr, [fd |-> f, conn |-> c]), f)
          /\ Refuse(c)
    BY DEF AcceptUnregistered
  <1>2. [fd |-> f, conn |-> c] \in Nodes /\ mgr \in [clients : Seq(Nodes), client_count : Nat]
    BY DEF Nodes, IInv, TypeOK
  <1>3. mgr' = mgr
    BY <1>1, <1>2, AddThenRemove
  <1> QED BY <1>1, <1>3 DEF Refuse, kernel, loop

\* handle_accept registers a connection the application never heard of.
LEMMA RegisteredFacts ==
  ASSUME IInv, AcceptRegistered
  PROVE  \E f \in Fds, c \in Conns :
           /\ pc = "accept" /\ pc' = "on_connection"
           /\ file' = [file EXCEPT ![f] = c]
           /\ interest' = interest \cup {f}
           /\ ready' = IF inbox[c] > 0 \/ peer[c] # "open" THEN ready \cup {f} ELSE ready
           /\ app' = [app EXCEPT ![c] = "connected"]
           /\ mgr' = client_manager_add(mgr, [fd |-> f, conn |-> c])
           /\ UNCHANGED <<peer, inbox, batch>>
  BY DEF AcceptRegistered, Accepted, epoll_handler_add

\* The node on_disconnected was called for goes; its descriptor is closed.
LEMMA ReleaseClosesItsOwn ==
  ASSUME IInv, ReleaseClient
  PROVE  /\ cur.fd \in Fds /\ cur.conn \in Conns
         /\ \A g \in Fds : file[g] = cur.conn => g = cur.fd
         /\ \A g \in Fds : file'[g] = IF g = cur.fd THEN NoConn ELSE file[g]
  <1>1. /\ pc = "on_disconnected" /\ Close(cur.fd)
    BY DEF ReleaseClient
  <1>2. cur.fd \in Fds /\ cur.conn \in Conns
    BY <1>1 DEF IInv, CurInv, Callbacks, Nodes
  <1>3. PICK i \in DOMAIN mgr.clients :
          IsFirst(mgr.clients, i, cur.fd) /\ mgr.clients[i] = cur
    BY <1>1 DEF IInv, CurInv, Callbacks
  <1>4. ASSUME NEW g \in Fds, file[g] = cur.conn PROVE g = cur.fd
    <2>1. PICK j \in DOMAIN mgr.clients :
            IsFirst(mgr.clients, j, g) /\ mgr.clients[j].conn = cur.conn
      BY <1>1, <1>2, <1>4, ServerAssumption DEF IInv, OwnerInv
    <2>2. j = i
      BY <1>3, <2>1 DEF IInv, ListInv
    <2> QED BY <1>3, <2>1, <2>2 DEF IsFirst
  <1> QED BY <1>1, <1>2, <1>4 DEF Close, IInv, TypeOK

\* Every step keeps the added parts.
LEMMA EventStep == IInv /\ EventInv /\ [Next]_vars => EventInv'
  <1> SUFFICES ASSUME IInv, EventInv, [Next]_vars PROVE EventInv'
    OBVIOUS
  <1>1. CASE StillStep
    BY <1>1, StillFacts, EventQuiet DEF EventInv
  <1>2. CASE AcceptUnregistered
    BY <1>2, UnregisteredFacts, EventQuiet DEF EventInv, BatchInv
  <1>3. CASE UNCHANGED vars
    BY <1>3, EventQuiet DEF EventInv, BatchInv, vars, kernel, loop
  <1>4. CASE AcceptRegistered
    <2>1. PICK f \in Fds, c \in Conns :
           /\ pc = "accept" /\ pc' = "on_connection"
           /\ file' = [file EXCEPT ![f] = c]
           /\ interest' = interest \cup {f}
           /\ app' = [app EXCEPT ![c] = "connected"]
      BY <1>4, RegisteredFacts
    <2>2. \A g \in Fds : file'[g] = IF g = f THEN c ELSE file[g]
      BY <2>1 DEF IInv, TypeOK
    <2>3. \A d \in Conns : app'[d] = IF d = c THEN "connected" ELSE app[d]
      BY <2>1 DEF IInv, TypeOK
    <2>4. WatchedInv'
      BY <2>1, <2>2 DEF EventInv, WatchedInv
    <2>5. OpenInv'
      <3>1. \A g \in Fds : file[g] # NoConn => file[g] \in Conns
        BY DEF IInv, TypeOK
      <3> QED BY <2>1, <2>2, <2>3, <3>1 DEF EventInv, OpenInv
    <2>6. BatchInv'
      BY <2>1 DEF BatchInv
    <2> QED BY <2>4, <2>5, <2>6 DEF EventInv
  <1>5. CASE RecvEnd
    <2>1. /\ UNCHANGED <<file, interest, batch, cur>>
          /\ pc = "client" /\ pc' = "on_disconnected"
          /\ app' = [app EXCEPT ![cur.conn] = "gone"]
      BY <1>5 DEF RecvEnd, kernel
    <2>2. \A g \in Fds : file[g] # NoConn => file[g] \in Conns
      BY DEF IInv, TypeOK
    <2>3. \A d \in Conns : d # cur.conn => app'[d] = app[d]
      BY <2>1 DEF IInv, TypeOK
    <2> QED BY <2>1, <2>2, <2>3 DEF EventInv, WatchedInv, OpenInv, BatchInv
  <1>6. CASE ReleaseClient
    <2>1. /\ pc = "on_disconnected" /\ pc' = "dispatch"
          /\ interest' = interest \ {cur.fd} /\ app' = app
      BY <1>6 DEF ReleaseClient, Close
    <2>2. /\ \A g \in Fds : file[g] = cur.conn => g = cur.fd
          /\ \A g \in Fds : file'[g] = IF g = cur.fd THEN NoConn ELSE file[g]
      BY <1>6, ReleaseClosesItsOwn
    <2> QED BY <2>1, <2>2 DEF EventInv, WatchedInv, OpenInv, BatchInv
  <1>7. CASE socket_server_disconnect
    <2>1. PICK f \in Fds :
            /\ pc \in Callbacks /\ file[f] # NoConn /\ Close(f)
            /\ app' = [app EXCEPT ![file[f]] = "closing"]
            /\ UNCHANGED <<backlog, mgr, pc, batch, cur, running>>
      BY <1>7, DisconnectFacts
    <2>2. /\ \A g \in Fds : file'[g] = IF g = f THEN NoConn ELSE file[g]
          /\ interest' = interest \ {f}
      BY <2>1 DEF Close, IInv, TypeOK
    <2>3. \A d \in Conns : d # file[f] => app'[d] = app[d]
      BY <2>1 DEF IInv, TypeOK
    <2>4. \A g \in Fds : g # f /\ file[g] # NoConn => file[g] # file[f] /\ file[g] \in Conns
      BY <2>1, OneFdPerConn DEF Callbacks, IInv, TypeOK
    <2> QED BY <2>1, <2>2, <2>3, <2>4 DEF EventInv, WatchedInv, OpenInv, BatchInv
  <1>8. CASE socket_server_destroy
    BY <1>8 DEF socket_server_destroy, EventInv, WatchedInv, OpenInv, BatchInv
  <1> QED BY <1>1, <1>2, <1>3, <1>4, <1>5, <1>6, <1>7, <1>8, StepKinds

LEMMA EventInvariance == Spec => [](IInv /\ EventInv)
  <1>1. Init => IInv /\ EventInv
    BY InvInit, EventInit
  <1>2. IInv /\ EventInv /\ [Next]_vars => (IInv /\ EventInv)'
    BY InvStep, EventStep
  <1> QED BY <1>1, <1>2, PTL DEF Spec

-----------------------------------------------------------------------------
(* The theorems.                                                           *)

\* Every descriptor accept returned and nobody closed is watched by epoll and
\* found in the client manager as the connection it belongs to, whichever
\* calls of handle_accept fail and whatever is closed and reused.
THEOREM NothingLeaks == Spec => []OpenIsManaged
  <1>1. IInv /\ EventInv => OpenIsManaged
    BY OpenIsFound DEF OpenIsManaged, EventInv, WatchedInv
  <1> QED BY <1>1, EventInvariance, PTL
-----------------------------------------------------------------------------
(* Edge-triggered events.                                                  *)

\* The event of a client leads to its handler, as the handler is written for.
\* The code passes data.ptr, which is NULL (libsocket.c:318, :448); then no
\* client is accepted, as a run shows, and there is no edge to lose.
EventCarriesFd == \A f \in Fds : EventArg[f] = f

\* handle_client is reading descriptor f.
Reading(f) == pc \in {"client", "on_received", "on_disconnected"} /\ cur.fd = f

\* No step that brings no input loses an event it had.
LEMMA EdgeQuiet ==
  ASSUME NoLostEdge,
         pc = "destroyed" => pc' = "destroyed",
         \A f \in Fds : HasInput(f)' =>
           /\ HasInput(f)
           /\ f \in ready \cup batch => f \in ready' \cup batch' \/ Reading(f)'
           /\ Reading(f) => Reading(f)'
  PROVE  NoLostEdge'
  BY DEF NoLostEdge, Reading

\* A descriptor of a connection whose side of the peer is closed, or of
\* another one, has no input it had not before.
LEMMA HangUpQuiet ==
  ASSUME NEW C, HangUp(C), NEW f \in Fds, file'[f] \in {file[f], NoConn}, HasInput(f)'
  PROVE  HasInput(f)
  BY ServerAssumption DEF HangUp, HasInput

\* Every step keeps NoLostEdge.
LEMMA EdgeStep ==
  ASSUME EventCarriesFd, IInv, EventInv, NoLostEdge, [Next]_vars
  PROVE  NoLostEdge'
  <1> USE DEF network, kernel, loop
  <1>1. ASSUME NEW c \in Conns, Connect(c) PROVE NoLostEdge'
    <2>1. /\ UNCHANGED <<inbox, file, batch, pc, cur>>
          /\ ready' = ready \cup {ListenFd}
          /\ \A d \in Conns : peer'[d] \in {peer[d], "open"}
      BY <1>1 DEF Connect
    <2>2. \A f \in Fds : HasInput(f)' => HasInput(f)
      BY <2>1, ServerAssumption DEF HasInput
    <2> QED BY <2>1, <2>2, EdgeQuiet DEF Reading
  <1>2. ASSUME NEW c \in Conns, PeerSend(c) \/ PeerEnd(c) PROVE NoLostEdge'
    <2>1. /\ UNCHANGED <<file, interest, batch, pc, cur>>
          /\ ready' = ready \cup {f \in interest \cap Fds : file[f] = c}
          /\ \A d \in Conns : d # c => peer'[d] = peer[d] /\ inbox'[d] = inbox[d]
      BY <1>2 DEF PeerSend, PeerEnd, Arrival, IInv, TypeOK
    <2>2. ASSUME NEW f \in Fds, pc' # "destroyed", HasInput(f)'
          PROVE  f \in ready' \/ HasInput(f)
      <3>1. PICK d \in Conns :
              /\ file'[f] = d
              /\ inbox'[d] > 0 \/ peer'[d] \in {"closed", "reset"}
        BY <2>2, ServerAssumption DEF HasInput
      <3>2. CASE d = c
        BY <2>1, <2>2, <3>1, <3>2, ServerAssumption DEF EventInv, WatchedInv
      <3>3. CASE d # c
        BY <2>1, <3>1, <3>3, ServerAssumption DEF HasInput
      <3> QED BY <3>2, <3>3
    <2> QED BY <2>1, <2>2 DEF NoLostEdge
  <1>3. CASE \/ socket_server_start \/ socket_server_stop \/ LoopTest
             \/ WaitInterrupted \/ BatchDone
             \/ AcceptEmpty \/ AcceptInterrupted \/ AcceptFails
             \/ ConnectionCallbackReturns
    <2>1. /\ UNCHANGED <<network, kernel, batch>>
          /\ pc \notin {"client", "on_received", "on_disconnected"} \/ UNCHANGED <<pc, cur>>
          /\ pc = "destroyed" => pc' = "destroyed"
      <3>1. CASE socket_server_start \/ socket_server_stop
        BY <3>1 DEF socket_server_start, socket_server_stop
      <3>2. CASE LoopTest \/ WaitInterrupted \/ BatchDone
        BY <3>2 DEF LoopTest, WaitInterrupted, BatchDone
      <3>3. CASE AcceptEmpty \/ AcceptInterrupted \/ AcceptFails \/ ConnectionCallbackReturns
        BY <3>3 DEF AcceptEmpty, AcceptInterrupted, AcceptFails, Resting, ConnectionCallbackReturns
      <3> QED BY <1>3, <3>1, <3>2, <3>3
    <2>2. \A f \in Fds : HasInput(f)' => HasInput(f)
      BY <2>1 DEF HasInput
    <2> QED BY <2>1, <2>2, EdgeQuiet DEF Reading
  <1>4. CASE epoll_handler_wait
    <2>1. PICK S \in SUBSET ready :
            batch' = S /\ ready' = ready \ S /\ pc = "wait"
      BY <1>4 DEF epoll_handler_wait
    <2>2. batch = {} /\ UNCHANGED <<network, file>>
      BY <1>4, <2>1 DEF epoll_handler_wait, EventInv, BatchInv
    <2>3. \A f \in Fds : HasInput(f)' => HasInput(f)
      BY <2>2 DEF HasInput
    <2> QED BY <2>1, <2>2, <2>3, EdgeQuiet DEF Reading
  <1>5. CASE epoll_event_callback
    <2>1. /\ UNCHANGED <<network, kernel, mgr>>
          /\ pc = "dispatch"
      BY <1>5 DEF epoll_event_callback
    <2>2. PICK g \in batch :
            /\ batch' = batch \ {g}
            /\ g # ListenFd =>
                 /\ cur' = client_manager_find(mgr, g)
                 /\ pc' = IF cur' = NoNode THEN "dispatch" ELSE "client"
      BY <1>5 DEF epoll_event_callback, EventCarriesFd, IInv, TypeOK
    <2>3. \A f \in Fds : HasInput(f)' => HasInput(f)
      BY <2>1 DEF HasInput
    <2>4. ASSUME g \in Fds, HasInput(g) PROVE Reading(g)'
      <3>1. file[g] # NoConn /\ g # ListenFd
        BY <2>4, ServerAssumption DEF HasInput
      <3>2. cur' = [fd |-> g, conn |-> file[g]] /\ cur' # NoNode
        BY <2>1, <2>2, <2>4, <3>1, OpenIsFound
      <3> QED BY <2>2, <3>1, <3>2 DEF Reading
    <2> QED BY <2>1, <2>2, <2>3, <2>4, EdgeQuiet DEF Reading
  <1>6. CASE AcceptRefused \/ AcceptUnregistered
    <2>1. /\ UNCHANGED <<kernel, batch, pc, cur>>
          /\ \E c \in Conns : HangUp({c})
      <3>1. CASE AcceptRefused
        BY <3>1 DEF AcceptRefused, Refuse
      <3>2. CASE AcceptUnregistered
        BY <3>2, UnregisteredFacts
      <3> QED BY <1>6, <3>1, <3>2
    <2>2. \A f \in Fds : HasInput(f)' => HasInput(f)
      BY <2>1, HangUpQuiet
    <2> QED BY <2>1, <2>2, EdgeQuiet DEF Reading
  <1>7. CASE AcceptRegistered
    <2>1. PICK f \in Fds, c \in Conns :
           /\ pc = "accept" /\ pc' = "on_connection"
           /\ file' = [file EXCEPT ![f] = c]
           /\ ready' = IF inbox[c] > 0 \/ peer[c] # "open" THEN ready \cup {f} ELSE ready
           /\ UNCHANGED <<peer, inbox, batch>>
      BY <1>7, RegisteredFacts
    <2>2. \A g \in Fds : file'[g] = IF g = f THEN c ELSE file[g]
      BY <2>1 DEF IInv, TypeOK
    <2>3. ASSUME NEW g \in Fds, HasInput(g)' PROVE g \in ready' \cup batch'
      <3>1. PICK d \in Conns :
              /\ file'[g] = d
              /\ inbox[d] > 0 \/ peer[d] \in {"closed", "reset"}
        BY <2>1, <2>3, ServerAssumption DEF HasInput
      <3>2. CASE g = f
        BY <2>1, <2>2, <3>1, <3>2
      <3>3. CASE g # f
        <4>1. HasInput(g)
          BY <2>2, <3>1, <3>3, ServerAssumption DEF HasInput
        <4> QED BY <2>1, <4>1 DEF NoLostEdge
      <3> QED BY <3>2, <3>3
    <2> QED BY <2>3 DEF NoLostEdge
  <1>8. CASE RecvData
    <2>1. /\ UNCHANGED <<peer, kernel, batch, cur>>
          /\ pc = "client" /\ pc' = "on_received"
          /\ \A d \in Conns : inbox'[d] \in {inbox[d], inbox[d] - 1}
      BY <1>8 DEF RecvData, IInv, TypeOK
    <2>2. \A d \in Conns : inbox[d] \in Nat
      BY DEF IInv, TypeOK
    <2>3. \A f \in Fds : HasInput(f)' => HasInput(f)
      BY <2>1, <2>2, ServerAssumption DEF HasInput
    <2> QED BY <2>1, <2>3, EdgeQuiet DEF Reading
  <1>9. CASE ReceivedCallbackReturns \/ RecvEnd
    <2>1. /\ UNCHANGED <<network, kernel, batch, cur>>
          /\ pc \in {"on_received", "client"}
          /\ pc' \in {"client", "on_disconnected"}
      BY <1>9 DEF ReceivedCallbackReturns, RecvEnd
    <2>2. \A f \in Fds : HasInput(f)' => HasInput(f)
      BY <2>1 DEF HasInput
    <2> QED BY <2>1, <2>2, EdgeQuiet DEF Reading
  <1>10. CASE RecvEmpty
    <2>1. UNCHANGED <<network, kernel, batch>> /\ pc = "client" /\ ~HasInput(cur.fd)
      BY <1>10 DEF RecvEmpty
    <2>2. \A f \in Fds : HasInput(f)' => HasInput(f)
      BY <2>1 DEF HasInput
    <2> QED BY <2>1, <2>2, EdgeQuiet DEF Reading
  <1>11. CASE ReleaseClient
    <2>1. /\ pc = "on_disconnected" /\ batch' = batch
          /\ ready' = ready \ {cur.fd} /\ HangUp({file[cur.fd]})
      BY <1>11 DEF ReleaseClient, Close
    <2>2. \A f \in Fds : file'[f] = IF f = cur.fd THEN NoConn ELSE file[f]
      BY <1>11, ReleaseClosesItsOwn
    <2>3. ASSUME NEW f \in Fds, HasInput(f)' PROVE f # cur.fd /\ HasInput(f)
      BY <2>1, <2>2, <2>3, HangUpQuiet, ServerAssumption DEF HasInput
    <2> QED BY <2>1, <2>3, EdgeQuiet DEF Reading
  <1>12. CASE socket_server_disconnect
    <2>1. PICK g \in Fds :
            /\ pc \in Callbacks /\ Close(g)
            /\ UNCHANGED <<pc, batch, cur>>
      BY <1>12, DisconnectFacts
    <2>2. \A f \in Fds : file'[f] = IF f = g THEN NoConn ELSE file[f]
      BY <2>1 DEF Close, IInv, TypeOK
    <2>3. ready' = ready \ {g} /\ HangUp({file[g]})
      BY <2>1 DEF Close
    <2>4. ASSUME NEW f \in Fds, HasInput(f)' PROVE f # g /\ HasInput(f)
      BY <2>2, <2>3, <2>4, HangUpQuiet, ServerAssumption DEF HasInput
    <2> QED BY <2>1, <2>3, <2>4, EdgeQuiet DEF Reading
  <1>13. CASE socket_server_destroy
    BY <1>13 DEF socket_server_destroy, NoLostEdge
  <1>14. CASE UNCHANGED vars
    BY <1>14, EdgeQuiet DEF vars, Reading, HasInput
  <1> QED
    BY <1>1, <1>2, <1>3, <1>4, <1>5, <1>6, <1>7, <1>8, <1>9, <1>10, <1>11, <1>12,
       <1>13, <1>14 DEF Next, Peers, EventLoop, Signals, Application, handle_accept, handle_client

\* Under EPOLLET, what a client sent and the end of its connection are always
\* announced to the loop, in the batch it dispatches, or being read, whatever
\* descriptors are closed and reused while the batch is dispatched.
THEOREM NoEdgeIsLost ==
  ASSUME EventCarriesFd
  PROVE  Spec => []NoLostEdge
  <1>1. Init => NoLostEdge
    BY ServerAssumption DEF Init, NoLostEdge, HasInput
  <1>2. IInv /\ EventInv /\ NoLostEdge /\ [Next]_vars => NoLostEdge'
    BY EdgeStep
  <1> QED BY <1>1, <1>2, EventInvariance, PTL DEF Spec

-----------------------------------------------------------------------------
(* The count.                                                              *)

\* Sets that correspond one to one have the same number of members.
LEMMA SameSize ==
  ASSUME NEW S, NEW T, IsFiniteSet(S), NEW h \in [S -> T],
         \A x, y \in S : h[x] = h[y] => x = y,
         \A t \in T : \E x \in S : h[x] = t
  PROVE  IsFiniteSet(T) /\ Cardinality(T) = Cardinality(S)
  <1>1. h \in Bijection(S, T)
    BY DEF Bijection, Injection, Surjection, IsInjective
  <1> QED BY <1>1, FS_Bijection DEF ExistsBijection

Connected == {c \in Conns : app[c] = "connected"}
Closing == {c \in Conns : app[c] = "closing"}
Open == {f \in Fds : file[f] # NoConn}

\* The nodes are those of the connected and the closing clients.
LEMMA CountNodes ==
  ASSUME IInv, pc \notin {"on_disconnected", "destroyed"}
  PROVE  /\ IsFiniteSet(Connected) /\ IsFiniteSet(Closing)
         /\ mgr.client_count = Cardinality(Connected) + Cardinality(Closing)
  <1> DEFINE s == mgr.clients
             n == Len(mgr.clients)
             h == [i \in 1..n |-> s[i].conn]
             T == Connected \cup Closing
  <1>1. s \in Seq(Nodes) /\ n \in Nat /\ DOMAIN s = 1..n /\ mgr.client_count = n
    BY DEF IInv, TypeOK, ListInv
  <1>2. IsFiniteSet(1..n) /\ Cardinality(1..n) = n
    <2>1. IsFiniteSet(1..n) /\ Cardinality(1..n) = IF 1 > n THEN 0 ELSE n - 1 + 1
      BY <1>1, FS_Interval
    <2> QED BY <1>1, <2>1
  <1>3. h \in [1..n -> T]
    <2>1. ASSUME NEW i \in 1..n PROVE s[i].conn \in T
      <3>1. s[i].conn \in Conns /\ i \in DOMAIN s
        BY <1>1, NodeAt DEF IInv
      <3>2. app[s[i].conn] \notin {"none", "gone"}
        BY <3>1 DEF IInv, KnownInv
      <3>3. app[s[i].conn] \in {"none", "connected", "closing", "gone"}
        BY <3>1 DEF IInv, TypeOK
      <3> QED BY <3>1, <3>2, <3>3 DEF Connected, Closing
    <2> QED BY <2>1
  <1>4. \A x, y \in 1..n : h[x] = h[y] => x = y
    BY <1>1 DEF IInv, ListInv
  <1>5. \A c \in T : \E x \in 1..n : h[x] = c
    BY <1>1 DEF IInv, HandleInv, Connected, Closing
  <1>6. IsFiniteSet(T) /\ Cardinality(T) = n
    <2> HIDE DEF h, T, n
    <2> QED BY <1>2, <1>3, <1>4, <1>5, SameSize
  <1>7. /\ IsFiniteSet(Connected) /\ IsFiniteSet(Closing)
        /\ Cardinality(Connected) \in Nat /\ Cardinality(Closing) \in Nat
    <2>1. IsFiniteSet(Connected)
      BY <1>6, FS_Subset
    <2>2. IsFiniteSet(Closing)
      BY <1>6, FS_Subset
    <2> QED BY <2>1, <2>2, FS_CardinalityType
  <1>8. Connected \cap Closing = {}
    BY DEF Connected, Closing
  <1>9. Cardinality(T) = Cardinality(Connected) + Cardinality(Closing) - Cardinality({})
    BY <1>7, <1>8, FS_Union
  <1>10. Cardinality({}) = 0
    BY FS_EmptySet
  <1> QED BY <1>1, <1>6, <1>7, <1>9, <1>10

\* The connected clients are those of the open descriptors.
LEMMA CountOpen ==
  ASSUME IInv, EventInv, pc \notin {"on_disconnected", "destroyed"},
         IsFiniteSet(Connected)
  PROVE  Cardinality(Open) = Cardinality(Connected)
  <1> DEFINE At(c) == CHOOSE f \in Fds : file[f] = c
             h == [c \in Connected |-> At(c)]
  <1>1. ASSUME NEW c \in Connected
        PROVE  h[c] \in Open /\ file[h[c]] = c
    <2>1. PICK i \in DOMAIN mgr.clients : file[mgr.clients[i].fd] = c
      BY DEF Connected, IInv, HandleInv
    <2>2. \E f \in Fds : file[f] = c
      BY <2>1, NodeAt DEF IInv
    <2>3. At(c) \in Fds /\ file[At(c)] = c
      BY <2>2
    <2> QED BY <2>3, ServerAssumption DEF Connected, Open
  <1>2. h \in [Connected -> Open]
    BY <1>1
  <1>3. \A x, y \in Connected : h[x] = h[y] => x = y
    BY <1>1
  <1>4. ASSUME NEW f \in Open PROVE \E c \in Connected : h[c] = f
    <2>1. file[f] \in Connected
      BY DEF Open, Connected, EventInv, OpenInv, IInv, TypeOK
    <2>2. h[file[f]] = f
      BY <1>1, <2>1, OneFdPerConn DEF Open
    <2> QED BY <2>1, <2>2
  <1> HIDE DEF h
  <1> QED BY <1>2, <1>3, <1>4, SameSize

\* client_manager_count counts the open connections and those the application
\* closed and has not seen disconnected, and nothing else.
THEOREM EveryNodeCounts == Spec => []CountExplained
  <1>1. IInv /\ EventInv => CountExplained
    BY CountNodes, CountOpen DEF CountExplained, Open, Closing
  <1> QED BY <1>1, EventInvariance, PTL

-----------------------------------------------------------------------------
(* What a step may not do.                                                 *)

\* A node is freed, while the server lives, only after on_disconnected was
\* called for it, and not before it returned.
THEOREM FreedOnlyAfterNotice == Spec => FreedAfterNotice
  <1> DEFINE A == \A n \in ToSet(mgr.clients) :
                    n \in ToSet(mgr'.clients) \/ pc' = "destroyed" \/ app[n.conn] = "gone"
  <1>1. ASSUME IInv, [Next]_vars PROVE A
    <2>1. CASE StillStep
      BY <2>1, StillFacts
    <2>2. CASE AcceptUnregistered
      BY <1>1, <2>2, UnregisteredFacts
    <2>3. CASE UNCHANGED vars
      BY <2>3 DEF vars
    <2>4. CASE AcceptRegistered
      <3>1. PICK n \in Nodes : mgr' = client_manager_add(mgr, n)
        BY <1>1, <2>4, RegisteredFacts DEF Nodes
      <3>2. mgr \in [clients : Seq(Nodes), client_count : Nat]
        BY <1>1 DEF IInv, TypeOK
      <3>3. /\ DOMAIN mgr'.clients = 1..(Len(mgr.clients) + 1)
            /\ \A i \in 2..(Len(mgr.clients) + 1) : mgr'.clients[i] = mgr.clients[i - 1]
            /\ DOMAIN mgr.clients = 1..Len(mgr.clients) /\ Len(mgr.clients) \in Nat
        BY <3>1, <3>2, AddFacts
      <3>4. \A i \in DOMAIN mgr.clients :
              i + 1 \in DOMAIN mgr'.clients /\ mgr'.clients[i + 1] = mgr.clients[i]
        BY <3>3
      <3> QED BY <3>4 DEF ToSet
    <2>5. CASE RecvEnd
      BY <2>5 DEF RecvEnd
    <2>6. CASE ReleaseClient
      <3>1. pc = "on_disconnected" /\ mgr' = client_manager_remove(mgr, cur.fd)
        BY <2>6 DEF ReleaseClient
      <3>2. PICK p \in DOMAIN mgr.clients :
              /\ mgr.clients[p] = cur
              /\ mgr' = [clients |-> RemoveAt(mgr.clients, p),
                         client_count |-> mgr.client_count - 1]
        BY <1>1, <3>1, ReleaseFacts DEF IInv
      <3>3. mgr.clients \in Seq(Nodes) /\ mgr'.clients = RemoveAt(mgr.clients, p)
        BY <1>1, <3>2 DEF IInv, TypeOK
      <3>4. \A i \in DOMAIN mgr.clients \ {p} :
              /\ After(p, i) \in DOMAIN mgr'.clients
              /\ mgr'.clients[After(p, i)] = mgr.clients[i]
        BY <3>3, RemoveKeepsFirst
      <3>5. app[cur.conn] = "gone"
        BY <1>1, <3>1 DEF IInv, CurInv, Callbacks
      <3> QED BY <3>2, <3>4, <3>5 DEF ToSet
    <2>7. CASE socket_server_disconnect
      BY <2>7 DEF socket_server_disconnect
    <2>8. CASE socket_server_destroy
      BY <2>8 DEF socket_server_destroy
    <2> QED BY <1>1, <2>1, <2>2, <2>3, <2>4, <2>5, <2>6, <2>7, <2>8, StepKinds
  <1> HIDE DEF A
  <1>2. Spec => [][A]_vars
    BY <1>1, Invariance, PTL DEF Spec
  <1> QED BY <1>2 DEF FreedAfterNotice, A

\* on_disconnected is called once for a client, and only for one on_connection
\* was called for.
THEOREM NotifiedOnlyOnce == Spec => NotifiedOnce
  <1> DEFINE A == pc' = "on_disconnected" /\ pc # "on_disconnected"
                    => app[cur.conn] \in {"connected", "closing"}
  <1>1. ASSUME IInv, [Next]_vars PROVE A
    <2>1. CASE RecvEnd
      <3>1. pc = "client"
        BY <2>1 DEF RecvEnd
      <3>2. PICK i \in DOMAIN mgr.clients : mgr.clients[i] = cur
        BY <1>1, <3>1 DEF IInv, CurInv
      <3>3. cur.conn \in Conns
        BY <1>1, <3>2, NodeAt DEF IInv
      <3>4. app[cur.conn] # "none" /\ app[cur.conn] # "gone"
        BY <1>1, <3>1, <3>2 DEF IInv, KnownInv
      <3> QED BY <1>1, <3>3, <3>4 DEF IInv, TypeOK
    <2>2. CASE ~RecvEnd
      <3>1. CASE StillStep
        <4>1. CASE \E c \in Conns : Connect(c) \/ PeerSend(c) \/ PeerEnd(c)
          BY <4>1 DEF Connect, PeerSend, PeerEnd, loop
        <4>2. CASE socket_server_start \/ socket_server_stop \/ LoopTest
          BY <4>2 DEF socket_server_start, socket_server_stop, LoopTest
        <4>3. CASE epoll_handler_wait \/ WaitInterrupted \/ BatchDone
          BY <4>3 DEF epoll_handler_wait, WaitInterrupted, BatchDone
        <4>4. CASE epoll_event_callback
          BY <4>4 DEF epoll_event_callback
        <4>5. CASE AcceptEmpty \/ AcceptInterrupted \/ AcceptFails \/ AcceptRefused
          BY <4>5 DEF AcceptEmpty, AcceptInterrupted, Resting, AcceptFails, AcceptRefused, Refuse, loop
        <4>6. CASE ConnectionCallbackReturns \/ RecvData
          BY <4>6 DEF ConnectionCallbackReturns, RecvData
        <4>7. CASE ReceivedCallbackReturns \/ RecvEmpty
          BY <4>7 DEF ReceivedCallbackReturns, RecvEmpty
        <4> QED BY <3>1, <4>1, <4>2, <4>3, <4>4, <4>5, <4>6, <4>7 DEF StillStep
      <3>2. CASE AcceptUnregistered \/ UNCHANGED vars
        BY <1>1, <3>2, UnregisteredFacts DEF vars, loop
      <3>3. CASE AcceptRegistered \/ ReleaseClient
        BY <3>3 DEF AcceptRegistered, ReleaseClient
      <3>4. CASE socket_server_disconnect \/ socket_server_destroy
        BY <3>4 DEF socket_server_disconnect, socket_server_destroy, loop
      <3> QED BY <1>1, <2>2, <3>1, <3>2, <3>3, <3>4, StepKinds
    <2> QED BY <2>1, <2>2
  <1> HIDE DEF A
  <1>2. Spec => [][A]_vars
    BY <1>1, Invariance, PTL DEF Spec
  <1> QED BY <1>2 DEF NotifiedOnce, A
=============================================================================
