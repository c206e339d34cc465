------------------------- MODULE SocketServerProofs -------------------------
(***************************************************************************)
(* Proofs about SocketServer, for every value of its constants: whatever   *)
(* descriptor the epoll callback is given, whichever calls fail, and       *)
(* whatever the application closes.                                        *)
(***************************************************************************)
EXTENDS SocketServer, SequenceTheorems, TLAPS

-----------------------------------------------------------------------------
(* The inductive invariant.                                                *)

\* The node list has one node per connection, and the count is its length.
ListInv ==
  /\ mgr.client_count = Len(mgr.clients)
  /\ \A i, j \in DOMAIN mgr.clients :
       mgr.clients[i].conn = mgr.clients[j].conn => i = j

\* What the application knows of a connection fits where it is.
KnownInv ==
  /\ \A i, j \in DOMAIN backlog : backlog[i] = backlog[j] => i = j
  /\ \A i \in DOMAIN backlog :
       app[backlog[i]] = "none" /\ peer[backlog[i]] # "idle"
  /\ \A c \in Conns : peer[c] = "idle" => app[c] = "none"
  /\ \A i \in DOMAIN mgr.clients :
       /\ app[mgr.clients[i].conn] # "none"
       /\ app[mgr.clients[i].conn] = "gone" =>
            pc = "on_disconnected" /\ mgr.clients[i] = cur

\* The first node with an open descriptor is that of its connection.
OwnerInv ==
  pc # "destroyed" =>
    \A f \in Fds : file[f] # NoConn =>
      \E i \in DOMAIN mgr.clients :
        IsFirst(mgr.clients, i, f) /\ mgr.clients[i].conn = file[f]

\* Handles the application may use are nodes; open ones are their own.
HandleInv ==
  pc # "destroyed" =>
    /\ \A c \in Conns : app[c] = "connected" =>
         \E i \in DOMAIN mgr.clients :
           mgr.clients[i].conn = c /\ file[mgr.clients[i].fd] = c
    /\ \A c \in Conns : app[c] = "closing" =>
         \E i \in DOMAIN mgr.clients : mgr.clients[i].conn = c

\* handle_client works on the node client_manager_find returned for its
\* descriptor, and would find it again.
CurInv ==
  pc \in {"client"} \cup Callbacks =>
    /\ cur \in Nodes
    /\ \E i \in DOMAIN mgr.clients :
         IsFirst(mgr.clients, i, cur.fd) /\ mgr.clients[i] = cur
    /\ pc = "on_disconnected" => app[cur.conn] = "gone"

IInv == TypeOK /\ ListInv /\ KnownInv /\ OwnerInv /\ HandleInv /\ CurInv

-----------------------------------------------------------------------------
(* The client manager.                                                     *)

\* client_manager_add puts the node in front and keeps the others in order.
LEMMA AddFacts ==
  ASSUME NEW m \in [clients : Seq(Nodes), client_count : Nat], NEW n \in Nodes,
         NEW a, a = client_manager_add(m, n).clients
  PROVE  /\ a \in Seq(Nodes)
         /\ DOMAIN a = 1..(Len(m.clients) + 1)
         /\ a[1] = n
         /\ \A i \in 2..(Len(m.clients) + 1) : a[i] = m.clients[i - 1]
  BY DEF client_manager_add

\* RemoveAt closes the gap and keeps the others in order.
LEMMA RemoveAtFacts ==
  ASSUME NEW s \in Seq(Nodes), NEW p \in 1..Len(s)
  PROVE  /\ RemoveAt(s, p) \in Seq(Nodes)
         /\ Len(RemoveAt(s, p)) = Len(s) - 1
         /\ \A i \in 1..(Len(s) - 1) :
              RemoveAt(s, p)[i] = IF i < p THEN s[i] ELSE s[i + 1]
  <1> DEFINE a == SubSeq(s, 1, p - 1)
             b == SubSeq(s, p + 1, Len(s))
  <1>1. a \in Seq(Nodes) /\ Len(a) = p - 1 /\ \A i \in 1..(p - 1) : a[i] = s[i]
    OBVIOUS
  <1>2. b \in Seq(Nodes) /\ Len(b) = Len(s) - p /\ \A i \in 1..(Len(s) - p) : b[i] = s[p + i]
    OBVIOUS
  <1> HIDE DEF a, b
  <1>3. /\ a \o b \in Seq(Nodes) /\ Len(a \o b) = Len(s) - 1
        /\ \A i \in 1..(Len(s) - 1) : (a \o b)[i] = IF i < p THEN a[i] ELSE b[i - (p - 1)]
    <2>1. /\ a \o b \in Seq(Nodes) /\ Len(a \o b) = Len(a) + Len(b)
          /\ \A i \in 1..(Len(a) + Len(b)) :
               (a \o b)[i] = IF i <= Len(a) THEN a[i] ELSE b[i - Len(a)]
      BY <1>1, <1>2, ConcatProperties
    <2> QED BY <1>1, <1>2, <2>1
  <1>4. ASSUME NEW i \in 1..(Len(s) - 1)
        PROVE  (a \o b)[i] = IF i < p THEN s[i] ELSE s[i + 1]
    <2>1. CASE i < p
      BY <1>1, <1>3, <2>1
    <2>2. CASE ~(i < p)
      <3>1. i - (p - 1) \in 1..(Len(s) - p) /\ p + (i - (p - 1)) = i + 1
        BY <2>2
      <3> QED BY <1>2, <1>3, <2>2, <3>1
    <2> QED BY <2>1, <2>2
  <1> QED BY <1>3, <1>4 DEF RemoveAt, a, b

\* The first node with a descriptor is the only one that is first.
LEMMA FirstIsFirst ==
  ASSUME NEW s \in Seq(Nodes), NEW f, NEW i \in DOMAIN s, IsFirst(s, i, f)
  PROVE  /\ HasFd(s, f)
         /\ First(s, f) = i
         /\ \A j \in DOMAIN s : IsFirst(s, j, f) => j = i
  <1>1. \A j \in DOMAIN s : IsFirst(s, j, f) => j = i
    BY DEF IsFirst
  <1>2. HasFd(s, f)
    BY DEF HasFd
  <1> QED BY <1>1, <1>2 DEF First

\* Adding a node makes it the first with its descriptor, and leaves first
\* what was first with another one.
LEMMA AddKeepsFirst ==
  ASSUME NEW m \in [clients : Seq(Nodes), client_count : Nat], NEW n \in Nodes,
         NEW a, a = client_manager_add(m, n).clients
  PROVE  /\ IsFirst(a, 1, n.fd)
         /\ \A g : \A i \in DOMAIN m.clients :
              g # n.fd /\ IsFirst(m.clients, i, g) => IsFirst(a, i + 1, g)
  <1> USE AddFacts
  <1>1. IsFirst(a, 1, n.fd)
    BY DEF IsFirst
  <1>2. ASSUME NEW g, NEW i \in DOMAIN m.clients, g # n.fd, IsFirst(m.clients, i, g)
        PROVE  IsFirst(a, i + 1, g)
    <2>1. i + 1 \in DOMAIN a /\ a[i + 1].fd = g
      BY <1>2 DEF IsFirst
    <2>2. ASSUME NEW j \in 1..i PROVE a[j].fd # g
      <3>1. CASE j = 1
        BY <1>2, <3>1
      <3>2. CASE j # 1
        <4>1. j \in 2..(Len(m.clients) + 1) /\ j - 1 \in 1..(i - 1)
          BY <3>2
        <4>2. a[j] = m.clients[j - 1]
          BY <4>1
        <4> QED BY <1>2, <4>1, <4>2 DEF IsFirst
      <3> QED BY <3>1, <3>2
    <2> QED BY <2>1, <2>2 DEF IsFirst
  <1> QED BY <1>1, <1>2

\* Where the node at i is when the one at p is gone.
After(p, i) == IF i < p THEN i ELSE i - 1

\* Removing one node keeps every other, and what was first with another
\* descriptor stays first.
LEMMA RemoveKeepsFirst ==
  ASSUME NEW s \in Seq(Nodes), NEW p \in DOMAIN s, NEW r, r = RemoveAt(s, p)
  PROVE  /\ \A i \in DOMAIN s \ {p} :
              After(p, i) \in DOMAIN r /\ r[After(p, i)] = s[i]
         /\ \A k \in DOMAIN r : \E i \in DOMAIN s \ {p} : k = After(p, i)
         /\ \A i, j \in DOMAIN s \ {p} : After(p, i) = After(p, j) => i = j
         /\ \A g : \A i \in DOMAIN s \ {p} :
              g # s[p].fd /\ IsFirst(s, i, g) => IsFirst(r, After(p, i), g)
  <1>1. /\ r \in Seq(Nodes) /\ DOMAIN r = 1..(Len(s) - 1) /\ DOMAIN s = 1..Len(s)
        /\ \A i \in 1..(Len(s) - 1) : r[i] = IF i < p THEN s[i] ELSE s[i + 1]
        /\ Len(s) \in Nat
    <2>1. p \in 1..Len(s)
      OBVIOUS
    <2>2. /\ r \in Seq(Nodes) /\ Len(r) = Len(s) - 1
          /\ \A i \in 1..(Len(s) - 1) : r[i] = IF i < p THEN s[i] ELSE s[i + 1]
      BY <2>1, RemoveAtFacts
    <2> QED BY <2>2
  <1>2. \A i \in DOMAIN s \ {p} : After(p, i) \in DOMAIN r /\ r[After(p, i)] = s[i]
    BY <1>1 DEF After
  <1>3. ASSUME NEW k \in DOMAIN r PROVE \E i \in DOMAIN s \ {p} : k = After(p, i)
    <2>1. CASE k < p
      BY <1>1, <2>1 DEF After
    <2>2. CASE ~(k < p)
      <3>1. k + 1 \in DOMAIN s \ {p} /\ k = After(p, k + 1)
        BY <1>1, <2>2 DEF After
      <3> QED BY <3>1
    <2> QED BY <2>1, <2>2
  <1>4. \A i, j \in DOMAIN s \ {p} : After(p, i) = After(p, j) => i = j
    BY <1>1 DEF After
  <1>5. ASSUME NEW g, NEW i \in DOMAIN s \ {p}, g # s[p].fd, IsFirst(s, i, g)
        PROVE  IsFirst(r, After(p, i), g)
    <2>1. After(p, i) \in DOMAIN r /\ r[After(p, i)].fd = g
      BY <1>2, <1>5 DEF IsFirst
    <2>2. ASSUME NEW k \in 1..(After(p, i) - 1) PROVE r[k].fd # g
      <3>1. k \in 1..(Len(s) - 1)
        BY <1>1, <2>1
      <3>2. CASE k < p
        BY <1>1, <1>5, <2>1, <3>1, <3>2 DEF IsFirst, After
      <3>3. CASE ~(k < p)
        <4>1. r[k] = s[k + 1] /\ k + 1 \in 1..(i - 1)
          BY <1>1, <3>1, <3>3 DEF After
        <4> QED BY <1>5, <4>1 DEF IsFirst
      <3> QED BY <3>2, <3>3
    <2> QED BY <2>1, <2>2 DEF IsFirst
  <1> QED BY <1>2, <1>3, <1>4, <1>5

\* Removing what was just added gives back the manager.
LEMMA AddThenRemove ==
  ASSUME NEW m \in [clients : Seq(Nodes), client_count : Nat], NEW n \in Nodes
  PROVE  client_manager_remove(client_manager_add(m, n), n.fd) = m
  <1> DEFINE am == client_manager_add(m, n)
             a == am.clients
             r == RemoveAt(a, 1)
  <1>1. /\ a \in Seq(Nodes) /\ Len(a) = Len(m.clients) + 1
        /\ \A i \in 2..(Len(m.clients) + 1) : a[i] = m.clients[i - 1]
        /\ am.client_count = m.client_count + 1
    BY AddFacts DEF client_manager_add
  <1>2. IsFirst(a, 1, n.fd)
    BY AddKeepsFirst
  <1>3. HasFd(a, n.fd) /\ First(a, n.fd) = 1
    BY <1>1, <1>2, FirstIsFirst
  <1>4. r = m.clients
    <2>1. /\ r \in Seq(Nodes) /\ Len(r) = Len(m.clients)
          /\ \A i \in 1..(Len(a) - 1) : r[i] = IF i < 1 THEN a[i] ELSE a[i + 1]
      <3>1. 1 \in 1..Len(a) /\ Len(a) - 1 = Len(m.clients)
        BY <1>1
      <3>2. a \in Seq(Nodes)
        BY <1>1
      <3> HIDE DEF a
      <3> QED BY <3>1, <3>2, RemoveAtFacts
    <2> HIDE DEF r, a
    <2>2. ASSUME NEW i \in 1..Len(r) PROVE r[i] = m.clients[i]
      <3>1. i \in 1..(Len(a) - 1) /\ i + 1 \in 2..(Len(m.clients) + 1)
        BY <1>1, <2>1
      <3>2. r[i] = a[i + 1]
        BY <2>1, <3>1
      <3>3. a[i + 1] = m.clients[(i + 1) - 1]
        BY <1>1, <3>1
      <3> QED BY <3>1, <3>2, <3>3
    <2> QED BY <2>1, <2>2, SeqEqual
  <1>5. am.client_count - 1 = m.client_count
    BY <1>1
  <1> QED
    BY <1>3, <1>4, <1>5 DEF client_manager_remove

-----------------------------------------------------------------------------
(* Type correctness of a step.                                             *)

\* What client_manager_find returns is a node or NULL.
LEMMA FindType ==
  ASSUME TypeOK, NEW f
  PROVE  /\ client_manager_find(mgr, f) \in Nodes \cup {NoNode}
         /\ client_manager_find(mgr, f) # NoNode =>
              \E i \in DOMAIN mgr.clients :
                IsFirst(mgr.clients, i, f) /\ mgr.clients[i] = client_manager_find(mgr, f)
  <1>1. mgr.clients \in Seq(Nodes)
    BY DEF TypeOK
  <1>2. CASE HasFd(mgr.clients, f)
    <2>1. PICK i \in DOMAIN mgr.clients : IsFirst(mgr.clients, i, f)
      BY <1>2 DEF HasFd
    <2>2. First(mgr.clients, f) = i
      BY <1>1, <2>1, FirstIsFirst
    <2>3. client_manager_find(mgr, f) = mgr.clients[i]
      BY <1>2, <2>2 DEF client_manager_find
    <2> QED BY <1>1, <2>1, <2>3
  <1>3. CASE ~HasFd(mgr.clients, f)
    BY <1>3 DEF client_manager_find
  <1> QED BY <1>2, <1>3

\* Under the invariant ReleaseClient removes the node it works on.
LEMMA ReleaseFacts ==
  ASSUME TypeOK, ListInv, CurInv, pc = "on_disconnected"
  PROVE  \E p \in DOMAIN mgr.clients :
           /\ IsFirst(mgr.clients, p, cur.fd) /\ mgr.clients[p] = cur
           /\ client_manager_remove(mgr, cur.fd) =
                [clients |-> RemoveAt(mgr.clients, p),
                 client_count |-> mgr.client_count - 1]
           /\ RemoveAt(mgr.clients, p) \in Seq(Nodes)
           /\ Len(RemoveAt(mgr.clients, p)) = mgr.client_count - 1
           /\ mgr.client_count - 1 \in Nat
  <1>1. mgr.clients \in Seq(Nodes) /\ mgr.client_count = Len(mgr.clients)
    BY DEF TypeOK, ListInv
  <1>2. PICK p \in DOMAIN mgr.clients :
          IsFirst(mgr.clients, p, cur.fd) /\ mgr.clients[p] = cur
    BY DEF CurInv, Callbacks
  <1>3. HasFd(mgr.clients, cur.fd) /\ First(mgr.clients, cur.fd) = p
    BY <1>1, <1>2, FirstIsFirst
  <1>4. p \in 1..Len(mgr.clients)
    BY <1>1
  <1>5. /\ RemoveAt(mgr.clients, p) \in Seq(Nodes)
        /\ Len(RemoveAt(mgr.clients, p)) = Len(mgr.clients) - 1
    BY <1>1, <1>4, RemoveAtFacts
  <1>6. Len(mgr.clients) - 1 \in Nat
    BY <1>1, <1>4
  <1> QED BY <1>1, <1>2, <1>3, <1>5, <1>6 DEF client_manager_remove

\* A member of the list is a node.
LEMMA NodeAt ==
  ASSUME TypeOK, NEW i \in DOMAIN mgr.clients
  PROVE  /\ mgr.clients[i] \in Nodes
         /\ mgr.clients[i].fd \in Fds
         /\ mgr.clients[i].conn \in Conns
  <1>1. mgr.clients \in Seq(Nodes)
    BY DEF TypeOK
  <1>2. mgr.clients[i] \in Nodes
    BY <1>1
  <1> QED BY <1>2 DEF Nodes

\* Closing a descriptor keeps the types of what it changes.
LEMMA CloseType ==
  ASSUME TypeOK, NEW f \in Fds, Close(f)
  PROVE  /\ peer' \in [Conns -> {"idle", "open", "closed", "reset", "over"}]
         /\ inbox' \in [Conns -> 0..MaxInbox]
         /\ file' \in [Fds -> Conns \cup {NoConn}]
         /\ interest' \subseteq Fds \cup {ListenFd}
         /\ ready' \subseteq Fds \cup {ListenFd}
  <1> USE ServerAssumption
  <1>1. /\ peer' \in [Conns -> {"idle", "open", "closed", "reset", "over"}]
        /\ inbox' \in [Conns -> 0..MaxInbox]
    BY DEF TypeOK, Close, HangUp
  <1> QED BY <1>1 DEF TypeOK, Close

\* Every step keeps the types, given that the count is the list's length and
\* that the node being released is in the list.
LEMMA TypeStep ==
  ASSUME TypeOK, ListInv, CurInv, [Next]_vars
  PROVE  TypeOK'
  <1> USE ServerAssumption DEF TypeOK, network, kernel, loop, Callbacks
  <1>1. ASSUME NEW c \in Conns, Connect(c) PROVE TypeOK'
    <2>1. backlog' \in Seq(Conns)
      BY <1>1 DEF Connect
    <2>2. peer' \in [Conns -> {"idle", "open", "closed", "reset", "over"}]
      BY <1>1 DEF Connect
    <2> QED BY <1>1, <2>1, <2>2 DEF Connect
  <1>2. ASSUME NEW c \in Conns, PeerSend(c) PROVE TypeOK'
    <2>1. inbox[c] \in 0..MaxInbox /\ inbox[c] < MaxInbox
      BY <1>2 DEF PeerSend
    <2>2. inbox[c] + 1 \in 0..MaxInbox
      BY <2>1
    <2>3. inbox' \in [Conns -> 0..MaxInbox]
      BY <1>2, <2>2 DEF PeerSend
    <2> QED BY <1>2, <2>3 DEF PeerSend, Arrival
  <1>3. ASSUME NEW c \in Conns, PeerEnd(c) PROVE TypeOK'
    BY <1>3 DEF PeerEnd, Arrival
  <1>4. CASE socket_server_start
    BY <1>4 DEF socket_server_start
  <1>5. CASE LoopTest
    BY <1>5 DEF LoopTest
  <1>6. CASE epoll_handler_wait
    BY <1>6 DEF epoll_handler_wait
  <1>7. CASE WaitInterrupted
    BY <1>7 DEF WaitInterrupted
  <1>8. CASE epoll_event_callback
    <2>1. PICK f \in batch :
            /\ batch' = batch \ {f}
            /\ cur' \in {cur, client_manager_find(mgr, EventArg[f])}
            /\ pc' \in {"accept", "dispatch", "client"}
      BY <1>8 DEF epoll_event_callback
    <2>2. cur' \in Nodes \cup {NoNode}
      BY <2>1, FindType
    <2> QED BY <1>8, <2>1, <2>2 DEF epoll_event_callback
  <1>9. CASE BatchDone
    BY <1>9 DEF BatchDone
  <1>10. CASE AcceptEmpty \/ AcceptInterrupted
    BY <1>10 DEF AcceptEmpty, AcceptInterrupted, Resting
  <1>11. CASE AcceptFails
    BY <1>11 DEF AcceptFails
  <1>12. CASE AcceptRefused
    BY <1>12 DEF AcceptRefused, Accepted, Refuse, HangUp
  <1>13. CASE AcceptUnregistered
    <2>1. PICK f \in Fds, c \in Conns :
            /\ Accepted(f, c)
            /\ mgr' = client_manager_remove(client_manager_add(mgr, [fd |-> f, conn |-> c]), f)
            /\ Refuse(c)
      BY <1>13 DEF AcceptUnregistered
    <2>2. [fd |-> f, conn |-> c] \in Nodes
      BY DEF Nodes
    <2>3. mgr' = mgr
      BY <2>1, <2>2, AddThenRemove
    <2> QED BY <2>1, <2>3 DEF Accepted, Refuse, HangUp
  <1>14. CASE AcceptRegistered
    <2>1. PICK f \in Fds, c \in Conns :
            /\ Accepted(f, c)
            /\ mgr.client_count < MaxClients
            /\ file' = [file EXCEPT ![f] = c]
            /\ mgr' = client_manager_add(mgr, [fd |-> f, conn |-> c])
            /\ interest' = interest \cup {f}
            /\ ready' \in {ready \cup {f}, ready}
            /\ app' = [app EXCEPT ![c] = "connected"]
            /\ cur' = [fd |-> f, conn |-> c]
            /\ pc' = "on_connection"
            /\ UNCHANGED <<peer, inbox, batch, running>>
      BY <1>14 DEF AcceptRegistered, epoll_handler_add
    <2>2. cur' \in Nodes
      BY <2>1 DEF Nodes
    <2>3. mgr'.clients \in Seq(Nodes)
      <3>1. mgr \in [clients : Seq(Nodes), client_count : Nat]
        OBVIOUS
      <3> HIDE DEF TypeOK
      <3> QED BY <2>1, <2>2, <3>1, AddFacts
    <2>4. mgr' \in [clients : Seq(Nodes), client_count : 0..MaxClients]
      <3>1. mgr.client_count + 1 \in 0..MaxClients
        BY <2>1
      <3> QED BY <2>1, <2>3, <3>1 DEF client_manager_add
    <2>5. backlog' \in Seq(Conns)
      BY <2>1 DEF Accepted
    <2>6. file' \in [Fds -> Conns \cup {NoConn}]
      BY <2>1
    <2>7. app' \in [Conns -> {"none", "connected", "closing", "gone"}]
      BY <2>1
    <2> QED BY <2>1, <2>2, <2>4, <2>5, <2>6, <2>7
  <1>15. CASE ConnectionCallbackReturns
    BY <1>15 DEF ConnectionCallbackReturns
  <1>16. CASE RecvData
    BY <1>16 DEF RecvData
  <1>17. CASE ReceivedCallbackReturns
    BY <1>17 DEF ReceivedCallbackReturns
  <1>18. CASE RecvEmpty
    BY <1>18 DEF RecvEmpty
  <1>19. CASE RecvEnd
    BY <1>19 DEF RecvEnd
  <1>20. CASE ReleaseClient
    <2>1. mgr' \in [clients : Seq(Nodes), client_count : 0..MaxClients]
      <3>1. PICK p \in DOMAIN mgr.clients :
              /\ mgr' = [clients |-> RemoveAt(mgr.clients, p),
                         client_count |-> mgr.client_count - 1]
              /\ RemoveAt(mgr.clients, p) \in Seq(Nodes)
              /\ mgr.client_count - 1 \in Nat
        <4> HIDE DEF TypeOK
        <4> QED BY <1>20, ReleaseFacts DEF ReleaseClient
      <3>2. mgr.client_count - 1 \in 0..MaxClients
        BY <3>1
      <3> QED BY <3>1, <3>2
    <2>2. Close(cur.fd) /\ cur.fd \in Fds
      BY <1>20 DEF ReleaseClient, CurInv, Nodes
    <2>3. /\ peer' \in [Conns -> {"idle", "open", "closed", "reset", "over"}]
          /\ inbox' \in [Conns -> 0..MaxInbox]
          /\ file' \in [Fds -> Conns \cup {NoConn}]
          /\ interest' \subseteq Fds \cup {ListenFd}
          /\ ready' \subseteq Fds \cup {ListenFd}
      <3> HIDE DEF TypeOK
      <3> QED BY <2>2, CloseType
    <2> QED BY <1>20, <2>1, <2>3 DEF ReleaseClient
  <1>21. CASE socket_server_disconnect
    <2>1. PICK i \in DOMAIN mgr.clients :
            /\ Close(mgr.clients[i].fd)
            /\ app' = [app EXCEPT ![mgr.clients[i].conn] = "closing"]
      BY <1>21 DEF socket_server_disconnect
    <2>2. mgr.clients[i].fd \in Fds /\ mgr.clients[i].conn \in Conns
      <3> HIDE DEF TypeOK
      <3> QED BY NodeAt
    <2>3. /\ peer' \in [Conns -> {"idle", "open", "closed", "reset", "over"}]
          /\ inbox' \in [Conns -> 0..MaxInbox]
          /\ file' \in [Fds -> Conns \cup {NoConn}]
          /\ interest' \subseteq Fds \cup {ListenFd}
          /\ ready' \subseteq Fds \cup {ListenFd}
      <3> HIDE DEF TypeOK
      <3> QED BY <2>1, <2>2, CloseType
    <2>4. app' \in [Conns -> {"none", "connected", "closing", "gone"}]
      BY <2>1, <2>2
    <2> QED BY <1>21, <2>3, <2>4 DEF socket_server_disconnect
  <1>22. CASE socket_server_stop
    BY <1>22 DEF socket_server_stop
  <1>23. CASE socket_server_destroy
    <2>1. /\ peer' \in [Conns -> {"idle", "open", "closed", "reset", "over"}]
          /\ inbox' \in [Conns -> 0..MaxInbox]
      BY <1>23 DEF socket_server_destroy, HangUp, epoll_handler_destroy
    <2>2. mgr' \in [clients : Seq(Nodes), client_count : 0..MaxClients]
      BY <1>23 DEF socket_server_destroy, client_manager_destroy, client_manager_create
    <2> QED BY <1>23, <2>1, <2>2 DEF socket_server_destroy, epoll_handler_destroy
  <1>24. CASE UNCHANGED vars
    BY <1>24 DEF vars
  <1> QED
    BY <1>1, <1>2, <1>3, <1>4, <1>5, <1>6, <1>7, <1>8, <1>9, <1>10, <1>11, <1>12,
       <1>13, <1>14, <1>15, <1>16, <1>17, <1>18, <1>19, <1>20, <1>21, <1>22, <1>23,
       <1>24 DEF Next, Peers, EventLoop, Signals, Application, handle_accept, handle_client

-----------------------------------------------------------------------------
(* The invariant is inductive.                                             *)

\* Steps that leave the list, the descriptors, the application and the accept
\* queue alone keep the invariant if they keep CurInv.
LEMMA QuietStep ==
  ASSUME IInv, UNCHANGED <<mgr, file, app, backlog>>, CurInv',
         \A c \in Conns : peer'[c] = "idle" <=> peer[c] = "idle",
         pc = "destroyed" => pc' = "destroyed",
         pc = "on_disconnected" => pc' = pc /\ cur' = cur
  PROVE  (ListInv /\ KnownInv /\ OwnerInv /\ HandleInv)'
  <1> USE DEF IInv
  <1>1. ListInv'
    BY DEF ListInv
  <1>2. KnownInv'
    <2>1. \A i \in DOMAIN backlog : backlog[i] \in Conns
      BY DEF TypeOK
    <2> QED BY <2>1 DEF KnownInv
  <1>3. OwnerInv'
    BY DEF OwnerInv, IsFirst
  <1>4. HandleInv'
    BY DEF HandleInv
  <1> QED BY <1>1, <1>2, <1>3, <1>4

\* A connection that waits for accept is no node and owns no descriptor.
LEMMA HeadIsFresh ==
  ASSUME IInv, NEW f \in Fds, NEW c \in Conns, Accepted(f, c)
  PROVE  /\ app[c] = "none" /\ peer[c] # "idle" /\ file[f] = NoConn
         /\ \A i \in DOMAIN mgr.clients : mgr.clients[i].conn # c
         /\ backlog' \in Seq(Conns)
         /\ \A i \in DOMAIN backlog' :
              /\ i + 1 \in DOMAIN backlog
              /\ backlog'[i] = backlog[i + 1]
              /\ backlog'[i] # c
  <1>1. backlog \in Seq(Conns) /\ backlog # <<>> /\ c = Head(backlog)
        /\ backlog' = Tail(backlog)
    BY DEF Accepted, IInv, TypeOK
  <1>2. 1 \in DOMAIN backlog /\ c = backlog[1]
    BY <1>1
  <1>3. \A i \in DOMAIN backlog' :
          i + 1 \in DOMAIN backlog /\ backlog'[i] = backlog[i + 1] /\ i + 1 # 1
    BY <1>1
  <1>4. app[c] = "none" /\ peer[c] # "idle"
    BY <1>2 DEF IInv, KnownInv
  <1>5. \A i \in DOMAIN backlog' : backlog'[i] # c
    BY <1>2, <1>3 DEF IInv, KnownInv
  <1>6. \A i \in DOMAIN mgr.clients : mgr.clients[i].conn # c
    BY <1>4 DEF IInv, KnownInv
  <1> QED BY <1>1, <1>3, <1>4, <1>5, <1>6 DEF Accepted, LowestFree

\* handle_accept refuses a connection: it only leaves the queue.
LEMMA RefuseStep ==
  ASSUME IInv, NEW f \in Fds, NEW c \in Conns, Accepted(f, c), Refuse(c), mgr' = mgr
  PROVE  (ListInv /\ KnownInv /\ OwnerInv /\ HandleInv /\ CurInv)'
  <1> USE DEF IInv, Refuse, HangUp, kernel, loop
  <1>1. ListInv'
    BY DEF ListInv
  <1>2. KnownInv'
    <2>1. \A d \in Conns : peer'[d] = "idle" <=> peer[d] = "idle"
      BY HeadIsFresh DEF TypeOK
    <2>2. \A i \in DOMAIN backlog' : backlog'[i] \in Conns
      BY HeadIsFresh
    <2>3. \A i \in DOMAIN backlog' : app'[backlog'[i]] = "none" /\ peer'[backlog'[i]] # "idle"
      BY <2>1, <2>2, HeadIsFresh DEF KnownInv
    <2>4. \A i, j \in DOMAIN backlog' : backlog'[i] = backlog'[j] => i = j
      <3>1. \A i \in DOMAIN backlog' : i \in Nat
        BY HeadIsFresh
      <3> QED BY <3>1, HeadIsFresh DEF KnownInv
    <2>5. pc' = pc /\ cur' = cur /\ app' = app
      OBVIOUS
    <2> QED BY <2>1, <2>3, <2>4, <2>5 DEF KnownInv
  <1>3. OwnerInv'
    BY DEF OwnerInv, IsFirst
  <1>4. HandleInv'
    BY DEF HandleInv
  <1>5. CurInv'
    BY DEF CurInv, IsFirst
  <1> QED BY <1>1, <1>2, <1>3, <1>4, <1>5

\* handle_accept registers a connection: its node is in front of any stale node
\* with the descriptor it was given.
LEMMA RegisteredStep ==
  ASSUME IInv, AcceptRegistered
  PROVE  (ListInv /\ KnownInv /\ OwnerInv /\ HandleInv /\ CurInv)'
  <1> DEFINE s == mgr.clients
             a == mgr'.clients
  <1>1. PICK f \in Fds, c \in Conns :
          /\ Accepted(f, c)
          /\ file' = [file EXCEPT ![f] = c]
          /\ mgr' = client_manager_add(mgr, [fd |-> f, conn |-> c])
          /\ app' = [app EXCEPT ![c] = "connected"]
          /\ cur' = [fd |-> f, conn |-> c]
          /\ pc' = "on_connection"
          /\ peer' = peer
    BY DEF AcceptRegistered, epoll_handler_add
  <1> DEFINE n == [fd |-> f, conn |-> c]
  <1>2. n \in Nodes /\ mgr \in [clients : Seq(Nodes), client_count : Nat]
    BY DEF Nodes, IInv, TypeOK
  <1>3. /\ s \in Seq(Nodes) /\ DOMAIN s = 1..Len(s) /\ Len(s) \in Nat
        /\ a \in Seq(Nodes) /\ DOMAIN a = 1..(Len(s) + 1) /\ a[1] = n
        /\ \A i \in 2..(Len(s) + 1) : a[i] = s[i - 1]
    BY <1>1, <1>2, AddFacts
  <1>4. /\ IsFirst(a, 1, f)
        /\ \A g : \A i \in DOMAIN s : g # f /\ IsFirst(s, i, g) => IsFirst(a, i + 1, g)
    BY <1>1, <1>2, AddKeepsFirst
  <1>5. /\ app[c] = "none" /\ peer[c] # "idle" /\ file[f] = NoConn
        /\ \A i \in DOMAIN s : s[i].conn # c
        /\ \A i \in DOMAIN backlog' :
              /\ i \in Nat /\ i + 1 \in DOMAIN backlog
              /\ backlog'[i] = backlog[i + 1]
              /\ backlog'[i] # c /\ backlog'[i] \in Conns
    BY <1>1, HeadIsFresh
  <1>6. \A i \in DOMAIN s : i + 1 \in DOMAIN a /\ a[i + 1] = s[i]
    BY <1>3
  <1>7. \A k \in DOMAIN a : k = 1 \/ (k - 1 \in DOMAIN s /\ a[k] = s[k - 1] /\ k - 1 \in Nat)
    BY <1>3
  <1>8. pc = "accept"
    BY <1>1 DEF Accepted
  <1>9. \A d \in Conns : app'[d] = IF d = c THEN "connected" ELSE app[d]
    BY <1>1 DEF IInv, TypeOK
  <1>10. \A g \in Fds : file'[g] = IF g = f THEN c ELSE file[g]
    BY <1>1 DEF IInv, TypeOK
  <1>11. \A i \in DOMAIN s : s[i].fd \in Fds /\ s[i].conn \in Conns
    BY NodeAt DEF IInv
  <1>12. n.fd = f /\ n.conn = c
    OBVIOUS
  <1>13. ListInv'
    <2>1. mgr'.client_count = Len(a)
      BY <1>1, <1>3 DEF client_manager_add, IInv, ListInv
    <2>2. ASSUME NEW i \in DOMAIN a, NEW j \in DOMAIN a, a[i].conn = a[j].conn
          PROVE  i = j
      <3>1. \A k, l \in DOMAIN s : s[k].conn = s[l].conn => k = l
        BY DEF IInv, ListInv
      <3>2. \A k \in DOMAIN a : k # 1 => a[k].conn # c
        <4> HIDE DEF s, a
        <4> QED BY <1>5, <1>7
      <3>3. CASE i = 1 \/ j = 1
        <4>1. a[1].conn = c
          BY <1>3
        <4> HIDE DEF s, a
        <4> QED BY <2>2, <3>2, <3>3, <4>1
      <3>4. CASE i # 1 /\ j # 1
        <4> HIDE DEF s, a
        <4>1. i - 1 = j - 1
          BY <1>7, <2>2, <3>1, <3>4
        <4> QED BY <1>3, <4>1
      <3> QED BY <3>3, <3>4
    <2> QED BY <2>1, <2>2 DEF ListInv
  <1> HIDE DEF n, a, s
  <1>14. KnownInv'
    <2>1. \A i \in DOMAIN backlog' : app'[backlog'[i]] = "none" /\ peer'[backlog'[i]] # "idle"
      BY <1>1, <1>5, <1>9 DEF IInv, KnownInv
    <2>2. \A i, j \in DOMAIN backlog' : backlog'[i] = backlog'[j] => i = j
      BY <1>5 DEF IInv, KnownInv
    <2>3. \A d \in Conns : peer'[d] = "idle" => app'[d] = "none"
      BY <1>1, <1>5, <1>9 DEF IInv, KnownInv
    <2>4. \A k \in DOMAIN a : app'[a[k].conn] # "none" /\ app'[a[k].conn] # "gone"
      <3>1. \A i \in DOMAIN s : app[s[i].conn] # "none" /\ app[s[i].conn] # "gone"
        BY <1>8 DEF IInv, KnownInv, s
      <3> QED BY <1>3, <1>5, <1>7, <1>9, <1>11, <1>12, <3>1
    <2> QED BY <2>1, <2>2, <2>3, <2>4 DEF KnownInv, a
  <1>15. OwnerInv'
    <2>1. ASSUME NEW g \in Fds, file'[g] # NoConn
          PROVE  \E k \in DOMAIN a : IsFirst(a, k, g) /\ a[k].conn = file'[g]
      <3>1. CASE g = f
        BY <1>3, <1>4, <1>10, <1>12, <3>1
      <3>2. CASE g # f
        <4>1. PICK i \in DOMAIN s : IsFirst(s, i, g) /\ s[i].conn = file[g]
          BY <1>8, <1>10, <2>1, <3>2 DEF IInv, OwnerInv, s
        <4>2. IsFirst(a, i + 1, g)
          BY <1>4, <3>2, <4>1
        <4>3. i + 1 \in DOMAIN a /\ a[i + 1].conn = file'[g]
          BY <1>6, <1>10, <3>2, <4>1
        <4> QED BY <4>2, <4>3
      <3> QED BY <3>1, <3>2
    <2> QED BY <2>1 DEF OwnerInv, a
  <1>16. HandleInv'
    <2>1. ASSUME NEW d \in Conns, app'[d] = "connected"
          PROVE  \E k \in DOMAIN a : a[k].conn = d /\ file'[a[k].fd] = d
      <3>1. CASE d = c
        BY <1>3, <1>10, <1>12, <3>1
      <3>2. CASE d # c
        <4>1. PICK i \in DOMAIN s : s[i].conn = d /\ file[s[i].fd] = d
          BY <1>8, <1>9, <2>1, <3>2 DEF IInv, HandleInv, s
        <4>2. s[i].fd # f
          BY <1>5, <4>1, ServerAssumption
        <4> QED BY <1>6, <1>10, <1>11, <4>1, <4>2
      <3> QED BY <3>1, <3>2
    <2>2. ASSUME NEW d \in Conns, app'[d] = "closing"
          PROVE  \E k \in DOMAIN a : a[k].conn = d
      <3>1. PICK i \in DOMAIN s : s[i].conn = d
        BY <1>8, <1>9, <2>2 DEF IInv, HandleInv, s
      <3> QED BY <1>6, <3>1
    <2> QED BY <2>1, <2>2 DEF HandleInv, a
  <1>17. CurInv'
    BY <1>1, <1>2, <1>3, <1>4, <1>12 DEF CurInv, n, a
  <1> QED BY <1>13, <1>14, <1>15, <1>16, <1>17

\* on_disconnected is called for the node handle_client works on.
LEMMA RecvEndStep ==
  ASSUME IInv, RecvEnd
  PROVE  (ListInv /\ KnownInv /\ OwnerInv /\ HandleInv /\ CurInv)'
  <1>1. /\ UNCHANGED <<peer, backlog, file, mgr, cur>>
        /\ pc = "client" /\ pc' = "on_disconnected"
        /\ app' = [app EXCEPT ![cur.conn] = "gone"]
    BY DEF RecvEnd, network, kernel
  <1>2. PICK i \in DOMAIN mgr.clients :
          IsFirst(mgr.clients, i, cur.fd) /\ mgr.clients[i] = cur
    BY <1>1 DEF IInv, CurInv
  <1>3. cur \in Nodes /\ cur.conn \in Conns
    BY <1>1 DEF IInv, CurInv, Nodes
  <1>4. \A d \in Conns : app'[d] = IF d = cur.conn THEN "gone" ELSE app[d]
    BY <1>1 DEF IInv, TypeOK
  <1>5. \A j \in DOMAIN mgr.clients : mgr.clients[j].conn \in Conns
    BY NodeAt DEF IInv
  <1>6. ListInv'
    BY <1>1 DEF IInv, ListInv
  <1>7. KnownInv'
    <2>1. \A j \in DOMAIN backlog : backlog[j] \in Conns
      BY DEF IInv, TypeOK
    <2>2. app[cur.conn] # "none"
      BY <1>2 DEF IInv, KnownInv
    <2>3. \A j \in DOMAIN mgr.clients :
            /\ app'[mgr.clients[j].conn] # "none"
            /\ app'[mgr.clients[j].conn] = "gone" => mgr.clients[j] = cur
      BY <1>1, <1>2, <1>4, <1>5 DEF IInv, KnownInv, ListInv
    <2> QED BY <1>1, <1>3, <1>4, <2>1, <2>2, <2>3 DEF IInv, KnownInv
  <1>8. OwnerInv'
    BY <1>1 DEF IInv, OwnerInv, IsFirst
  <1>9. HandleInv'
    BY <1>1, <1>4 DEF IInv, HandleInv
  <1>10. CurInv'
    BY <1>1, <1>2, <1>3, <1>4 DEF CurInv, IsFirst
  <1> QED BY <1>6, <1>7, <1>8, <1>9, <1>10

\* The node handle_client releases is the one on_disconnected was called for;
\* a stale node with the same descriptor stays.
LEMMA ReleaseStep ==
  ASSUME IInv, ReleaseClient
  PROVE  (ListInv /\ KnownInv /\ OwnerInv /\ HandleInv /\ CurInv)'
  <1> DEFINE s == mgr.clients
             r == mgr'.clients
  <1>1. /\ pc = "on_disconnected" /\ pc' = "dispatch"
        /\ file' = [file EXCEPT ![cur.fd] = NoConn]
        /\ mgr' = client_manager_remove(mgr, cur.fd)
        /\ backlog' = backlog /\ app' = app
        /\ \A d \in Conns : peer'[d] \in {peer[d], "over"}
    BY DEF ReleaseClient, Close, HangUp
  <1>2. PICK p \in DOMAIN s :
          /\ IsFirst(s, p, cur.fd) /\ s[p] = cur
          /\ mgr' = [clients |-> RemoveAt(s, p), client_count |-> mgr.client_count - 1]
          /\ Len(RemoveAt(s, p)) = mgr.client_count - 1
    BY <1>1, ReleaseFacts DEF IInv
  <1>3. s \in Seq(Nodes) /\ r = RemoveAt(s, p)
    BY <1>2 DEF IInv, TypeOK
  <1>4. /\ \A i \in DOMAIN s \ {p} :
             After(p, i) \in DOMAIN r /\ r[After(p, i)] = s[i]
        /\ \A k \in DOMAIN r : \E i \in DOMAIN s \ {p} : k = After(p, i)
        /\ \A g : \A i \in DOMAIN s \ {p} :
             g # s[p].fd /\ IsFirst(s, i, g) => IsFirst(r, After(p, i), g)
    BY <1>3, RemoveKeepsFirst
  <1>5. /\ cur.fd \in Fds /\ cur.conn \in Conns
        /\ app[cur.conn] = "gone"
    BY <1>1 DEF IInv, CurInv, Callbacks, Nodes
  <1>6. \A g \in Fds : file'[g] = IF g = cur.fd THEN NoConn ELSE file[g]
    BY <1>1 DEF IInv, TypeOK
  <1>7. \A i \in DOMAIN s : s[i].fd \in Fds /\ s[i].conn \in Conns
    BY NodeAt DEF IInv
  <1>8. \A i, j \in DOMAIN s : s[i].conn = s[j].conn => i = j
    BY DEF IInv, ListInv
  <1>9. ListInv'
    <2>1. mgr'.client_count = Len(r)
      BY <1>2
    <2> HIDE DEF r, s
    <2>2. ASSUME NEW k \in DOMAIN r, NEW l \in DOMAIN r, r[k].conn = r[l].conn
          PROVE  k = l
      <3>1. PICK i \in DOMAIN s \ {p} : k = After(p, i)
        BY <1>4
      <3>2. PICK j \in DOMAIN s \ {p} : l = After(p, j)
        BY <1>4
      <3> QED BY <1>4, <1>8, <2>2, <3>1, <3>2
    <2> QED BY <2>1, <2>2 DEF ListInv, r
  <1> HIDE DEF s, r
  <1>10. KnownInv'
    <2>1. \A i \in DOMAIN backlog : backlog[i] \in Conns
      BY DEF IInv, TypeOK
    <2>2. \A i \in DOMAIN backlog : app[backlog[i]] = "none" /\ peer'[backlog[i]] # "idle"
      BY <1>1, <2>1 DEF IInv, KnownInv
    <2>3. \A d \in Conns : peer'[d] = "idle" => app[d] = "none"
      BY <1>1 DEF IInv, KnownInv
    <2>4. \A k \in DOMAIN r : app[r[k].conn] # "none" /\ app[r[k].conn] # "gone"
      <3>1. ASSUME NEW i \in DOMAIN s \ {p}
            PROVE  app[s[i].conn] # "none" /\ app[s[i].conn] # "gone"
        <4>1. /\ app[s[i].conn] # "none"
              /\ app[s[i].conn] = "gone" => s[i] = cur
          BY DEF IInv, KnownInv, s
        <4> QED BY <1>2, <1>8, <4>1
      <3> QED BY <1>4, <3>1
    <2> QED BY <1>1, <2>2, <2>3, <2>4 DEF IInv, KnownInv, r
  <1>11. OwnerInv'
    <2>1. ASSUME NEW g \in Fds, file'[g] # NoConn
          PROVE  \E k \in DOMAIN r : IsFirst(r, k, g) /\ r[k].conn = file'[g]
      <3>1. g # cur.fd /\ file'[g] = file[g]
        BY <1>6, <2>1
      <3>2. PICK i \in DOMAIN s : IsFirst(s, i, g) /\ s[i].conn = file[g]
        BY <1>1, <2>1, <3>1 DEF IInv, OwnerInv, s
      <3>3. i # p
        BY <1>2, <3>1, <3>2 DEF IsFirst
      <3>4. IsFirst(r, After(p, i), g)
        BY <1>2, <1>4, <3>1, <3>2, <3>3
      <3> QED BY <1>4, <3>1, <3>2, <3>3, <3>4
    <2> QED BY <2>1 DEF OwnerInv, r
  <1>12. HandleInv'
    <2>1. ASSUME NEW d \in Conns, app[d] = "connected"
          PROVE  \E k \in DOMAIN r : r[k].conn = d /\ file'[r[k].fd] = d
      <3>1. PICK i \in DOMAIN s : s[i].conn = d /\ file[s[i].fd] = d
        BY <1>1, <2>1 DEF IInv, HandleInv, s
      <3>2. i # p
        BY <1>2, <1>5, <2>1, <3>1
      <3>3. s[i].fd # cur.fd
        <4>1. SUFFICES ASSUME s[i].fd = cur.fd PROVE FALSE
          OBVIOUS
        <4>2. file[cur.fd] = d /\ d # NoConn
          BY <3>1, <4>1, ServerAssumption
        <4>3. PICK j \in DOMAIN s : IsFirst(s, j, cur.fd) /\ s[j].conn = d
          BY <1>1, <1>5, <4>2 DEF IInv, OwnerInv, s
        <4>4. j = p
          BY <1>2, <1>3, <4>3, FirstIsFirst
        <4> QED BY <1>8, <3>1, <3>2, <4>3, <4>4
      <3>4. file'[s[i].fd] = d
        BY <1>6, <1>7, <3>1, <3>3
      <3> QED BY <1>4, <3>1, <3>2, <3>4
    <2>2. ASSUME NEW d \in Conns, app[d] = "closing"
          PROVE  \E k \in DOMAIN r : r[k].conn = d
      <3>1. PICK i \in DOMAIN s : s[i].conn = d
        BY <1>1, <2>2 DEF IInv, HandleInv, s
      <3>2. i # p
        BY <1>2, <1>5, <2>2, <3>1
      <3> QED BY <1>4, <3>1, <3>2
    <2> QED BY <1>1, <2>1, <2>2 DEF HandleInv, r
  <1>13. CurInv'
    BY <1>1 DEF CurInv, Callbacks
  <1> QED BY <1>9, <1>10, <1>11, <1>12, <1>13

\* The application closes the descriptor of a connection it holds.
LEMMA DisconnectStep ==
  ASSUME IInv, socket_server_disconnect
  PROVE  (ListInv /\ KnownInv /\ OwnerInv /\ HandleInv /\ CurInv)'
  <1> DEFINE s == mgr.clients
  <1>1. PICK i \in DOMAIN s :
          /\ pc \in Callbacks
          /\ app[s[i].conn] = "connected"
          /\ Close(s[i].fd)
          /\ app' = [app EXCEPT ![s[i].conn] = "closing"]
          /\ UNCHANGED <<backlog, mgr, pc, cur>>
    BY DEF socket_server_disconnect, loop
  <1>2. \A j \in DOMAIN s : s[j].fd \in Fds /\ s[j].conn \in Conns
    BY NodeAt DEF IInv
  <1>3. \A g \in Fds : file'[g] = IF g = s[i].fd THEN NoConn ELSE file[g]
    BY <1>1, <1>2 DEF IInv, TypeOK, Close
  <1>4. \A d \in Conns : app'[d] = IF d = s[i].conn THEN "closing" ELSE app[d]
    BY <1>1, <1>2 DEF IInv, TypeOK
  <1>5. \A j, k \in DOMAIN s : s[j].conn = s[k].conn => j = k
    BY DEF IInv, ListInv
  <1>6. pc # "destroyed"
    BY <1>1 DEF Callbacks
  <1>7. file[s[i].fd] = s[i].conn
    BY <1>1, <1>2, <1>5, <1>6 DEF IInv, HandleInv
  <1>8. \A d \in Conns : peer'[d] \in {peer[d], "over"}
    BY <1>1 DEF Close, HangUp
  <1>9. ListInv'
    BY <1>1 DEF IInv, ListInv
  <1>10. KnownInv'
    <2>1. \A j \in DOMAIN backlog : backlog[j] \in Conns
      BY DEF IInv, TypeOK
    <2>2. \A j \in DOMAIN backlog : app'[backlog[j]] = "none" /\ peer'[backlog[j]] # "idle"
      BY <1>1, <1>4, <1>8, <2>1 DEF IInv, KnownInv
    <2>3. \A d \in Conns : peer'[d] = "idle" => app'[d] = "none"
      BY <1>1, <1>4, <1>8 DEF IInv, KnownInv
    <2>4. \A j \in DOMAIN s :
            /\ app'[s[j].conn] # "none"
            /\ app'[s[j].conn] = "gone" => pc = "on_disconnected" /\ s[j] = cur
      BY <1>2, <1>4 DEF IInv, KnownInv
    <2> QED BY <1>1, <2>2, <2>3, <2>4 DEF IInv, KnownInv
  <1>11. OwnerInv'
    BY <1>1, <1>3, <1>6 DEF IInv, OwnerInv, IsFirst
  <1>12. HandleInv'
    <2>1. ASSUME NEW d \in Conns, app'[d] = "connected"
          PROVE  \E j \in DOMAIN s : s[j].conn = d /\ file'[s[j].fd] = d
      <3>1. d # s[i].conn /\ app[d] = "connected"
        BY <1>4, <2>1
      <3>2. PICK j \in DOMAIN s : s[j].conn = d /\ file[s[j].fd] = d
        BY <1>6, <3>1 DEF IInv, HandleInv
      <3>3. s[j].fd # s[i].fd
        BY <1>7, <3>1, <3>2
      <3> QED BY <1>2, <1>3, <3>2, <3>3
    <2>2. ASSUME NEW d \in Conns, app'[d] = "closing"
          PROVE  \E j \in DOMAIN s : s[j].conn = d
      <3>1. CASE d = s[i].conn
        BY <3>1
      <3>2. CASE d # s[i].conn
        BY <1>4, <1>6, <2>2, <3>2 DEF IInv, HandleInv
      <3> QED BY <3>1, <3>2
    <2> QED BY <1>1, <2>1, <2>2 DEF HandleInv
  <1>13. CurInv'
    <2>1. cur \in Nodes => cur.conn \in Conns
      BY DEF Nodes
    <2>2. pc = "on_disconnected" => app'[cur.conn] = "gone"
      BY <1>1, <1>4, <2>1 DEF IInv, CurInv
    <2> QED BY <1>1, <2>2 DEF IInv, CurInv, IsFirst
  <1> QED BY <1>9, <1>10, <1>11, <1>12, <1>13

\* The nodes and the queue go with the server.
LEMMA DestroyStep ==
  ASSUME IInv, socket_server_destroy
  PROVE  (ListInv /\ KnownInv /\ OwnerInv /\ HandleInv /\ CurInv)'
  <1>1. /\ pc' = "destroyed" /\ backlog' = <<>> /\ app' = app
        /\ mgr' = [clients |-> <<>>, client_count |-> 0]
        /\ \A d \in Conns : peer'[d] \in {peer[d], "over"}
    BY DEF socket_server_destroy, HangUp, client_manager_destroy, client_manager_create, epoll_handler_destroy
  <1>2. ListInv'
    BY <1>1 DEF ListInv
  <1>3. KnownInv'
    BY <1>1 DEF IInv, KnownInv
  <1>4. OwnerInv' /\ HandleInv' /\ CurInv'
    BY <1>1 DEF OwnerInv, HandleInv, CurInv, Callbacks
  <1> QED BY <1>2, <1>3, <1>4

\* The initial state satisfies the invariant.
LEMMA InvInit == Init => IInv
  <1> SUFFICES ASSUME Init PROVE IInv
    OBVIOUS
  <1> USE ServerAssumption DEF Init, client_manager_create
  <1>1. TypeOK
    <2>1. backlog \in Seq(Conns) /\ mgr \in [clients : Seq(Nodes), client_count : 0..MaxClients]
      OBVIOUS
    <2>2. inbox \in [Conns -> 0..MaxInbox] /\ file \in [Fds -> Conns \cup {NoConn}]
      OBVIOUS
    <2> QED BY <2>1, <2>2 DEF TypeOK, Callbacks
  <1>2. ListInv /\ KnownInv /\ OwnerInv /\ HandleInv /\ CurInv
    BY DEF ListInv, KnownInv, OwnerInv, HandleInv, CurInv, Callbacks
  <1> QED BY <1>1, <1>2 DEF IInv

\* Every step keeps the invariant.
LEMMA InvStep == IInv /\ [Next]_vars => IInv'
  <1> SUFFICES ASSUME IInv, [Next]_vars PROVE IInv'
    OBVIOUS
  <1> DEFINE Rest == ListInv /\ KnownInv /\ OwnerInv /\ HandleInv /\ CurInv
  <1>1. TypeOK'
    BY TypeStep DEF IInv
  <1> SUFFICES Rest'
    BY <1>1 DEF IInv
  <1>2. ASSUME NEW c \in Conns, Connect(c) PROVE Rest'
    <2>1. /\ backlog' = Append(backlog, c) /\ peer[c] = "idle"
          /\ \A d \in Conns : peer'[d] = IF d = c THEN "open" ELSE peer[d]
          /\ UNCHANGED <<file, mgr, app, pc, cur>>
      BY <1>2 DEF Connect, loop, IInv, TypeOK
    <2>2. /\ backlog \in Seq(Conns)
          /\ \A i \in DOMAIN backlog : backlog[i] \in Conns /\ backlog[i] # c
      BY <2>1 DEF IInv, TypeOK, KnownInv
    <2>3. KnownInv'
      <3>1. /\ DOMAIN backlog' = 1..(Len(backlog) + 1)
            /\ DOMAIN backlog = 1..Len(backlog) /\ Len(backlog) \in Nat
            /\ backlog'[Len(backlog) + 1] = c
            /\ \A i \in DOMAIN backlog : backlog'[i] = backlog[i]
        BY <2>1, <2>2
      <3>2. \A i \in DOMAIN backlog' :
              \/ i \in DOMAIN backlog /\ backlog'[i] = backlog[i]
              \/ i = Len(backlog) + 1 /\ backlog'[i] = c
        BY <3>1
      <3>3. \A i, j \in DOMAIN backlog' : backlog'[i] = backlog'[j] => i = j
        BY <2>2, <3>2 DEF IInv, KnownInv
      <3>4. \A i \in DOMAIN backlog' :
              app'[backlog'[i]] = "none" /\ peer'[backlog'[i]] # "idle"
        BY <2>1, <2>2, <3>2 DEF IInv, KnownInv
      <3> QED BY <2>1, <3>3, <3>4 DEF IInv, KnownInv
    <2>4. (ListInv /\ OwnerInv /\ HandleInv /\ CurInv)'
      BY <2>1 DEF IInv, ListInv, OwnerInv, HandleInv, CurInv, IsFirst
    <2> QED BY <2>3, <2>4
  <1>3. ASSUME NEW c \in Conns, PeerSend(c) \/ PeerEnd(c) PROVE Rest'
    <2>1. /\ UNCHANGED <<mgr, file, app, backlog, pc, cur>>
          /\ \A d \in Conns : peer'[d] = "idle" <=> peer[d] = "idle"
      BY <1>3 DEF PeerSend, PeerEnd, loop, IInv, TypeOK
    <2>2. CurInv'
      BY <2>1 DEF IInv, CurInv, IsFirst
    <2> QED BY <2>1, <2>2, QuietStep
  <1>4. CASE socket_server_start
    <2>1. UNCHANGED <<mgr, file, app, backlog, peer>> /\ CurInv'
      BY <1>4 DEF socket_server_start, network, kernel, loop, IInv, CurInv, Callbacks, IsFirst
    <2> QED BY <1>4, <2>1, QuietStep DEF socket_server_start, network, kernel, loop
  <1>5. CASE LoopTest
    <2>1. UNCHANGED <<mgr, file, app, backlog, peer>> /\ CurInv'
      BY <1>5 DEF LoopTest, network, kernel, loop, IInv, CurInv, Callbacks, IsFirst
    <2> QED BY <1>5, <2>1, QuietStep DEF LoopTest, network, kernel, loop
  <1>6. CASE epoll_handler_wait
    <2>1. UNCHANGED <<mgr, file, app, backlog, peer>> /\ CurInv'
      BY <1>6 DEF epoll_handler_wait, network, kernel, loop, IInv, CurInv, Callbacks, IsFirst
    <2> QED BY <1>6, <2>1, QuietStep DEF epoll_handler_wait, network, kernel, loop
  <1>7. CASE WaitInterrupted
    <2>1. UNCHANGED <<mgr, file, app, backlog, peer>> /\ CurInv'
      BY <1>7 DEF WaitInterrupted, network, kernel, loop, IInv, CurInv, Callbacks, IsFirst
    <2> QED BY <1>7, <2>1, QuietStep DEF WaitInterrupted, network, kernel, loop
  <1>8. CASE BatchDone
    <2>1. UNCHANGED <<mgr, file, app, backlog, peer>> /\ CurInv'
      BY <1>8 DEF BatchDone, network, kernel, loop, IInv, CurInv, Callbacks, IsFirst
    <2> QED BY <1>8, <2>1, QuietStep DEF BatchDone, network, kernel, loop
  <1>9. CASE AcceptEmpty \/ AcceptInterrupted
    <2>1. UNCHANGED <<mgr, file, app, backlog, peer>> /\ CurInv'
      BY <1>9 DEF AcceptEmpty, AcceptInterrupted, Resting,
                  network, kernel, loop, IInv, CurInv, Callbacks, IsFirst
    <2>2. CASE AcceptEmpty
      BY <2>1, <2>2, QuietStep DEF AcceptEmpty, Resting, network, kernel, loop
    <2>3. CASE AcceptInterrupted
      BY <2>1, <2>3, QuietStep DEF AcceptInterrupted, Resting, network, kernel, loop
    <2> QED BY <1>9, <2>2, <2>3
  <1>10. CASE AcceptFails
    <2>1. UNCHANGED <<mgr, file, app, backlog, peer>> /\ CurInv'
      BY <1>10 DEF AcceptFails, network, kernel, loop, IInv, CurInv, Callbacks, IsFirst
    <2> QED BY <1>10, <2>1, QuietStep DEF AcceptFails, network, kernel, loop
  <1>11. CASE ConnectionCallbackReturns
    <2>1. UNCHANGED <<mgr, file, app, backlog, peer>> /\ CurInv'
      BY <1>11 DEF ConnectionCallbackReturns, network, kernel, loop, IInv, CurInv, Callbacks, IsFirst
    <2> QED BY <1>11, <2>1, QuietStep DEF ConnectionCallbackReturns, network, kernel, loop
  <1>12. CASE RecvData
    <2>1. UNCHANGED <<mgr, file, app, backlog, peer>> /\ CurInv'
      BY <1>12 DEF RecvData, network, kernel, loop, IInv, CurInv, Callbacks, IsFirst
    <2> QED BY <1>12, <2>1, QuietStep DEF RecvData, network, kernel, loop
  <1>13. CASE ReceivedCallbackReturns
    <2>1. UNCHANGED <<mgr, file, app, backlog, peer>> /\ CurInv'
      BY <1>13 DEF ReceivedCallbackReturns, network, kernel, loop, IInv, CurInv, Callbacks, IsFirst
    <2> QED BY <1>13, <2>1, QuietStep DEF ReceivedCallbackReturns, network, kernel, loop
  <1>14. CASE RecvEmpty
    <2>1. UNCHANGED <<mgr, file, app, backlog, peer>> /\ CurInv'
      BY <1>14 DEF RecvEmpty, network, kernel, loop, IInv, CurInv, Callbacks, IsFirst
    <2> QED BY <1>14, <2>1, QuietStep DEF RecvEmpty, network, kernel, loop
  <1>15. CASE socket_server_stop
    <2>1. UNCHANGED <<mgr, file, app, backlog, peer>> /\ CurInv'
      BY <1>15 DEF socket_server_stop, network, kernel, loop, IInv, CurInv, Callbacks, IsFirst
    <2> QED BY <1>15, <2>1, QuietStep DEF socket_server_stop, network, kernel, loop
  <1>16. CASE epoll_event_callback
    <2>1. UNCHANGED <<mgr, file, app, backlog, peer>> /\ pc = "dispatch"
      BY <1>16 DEF epoll_event_callback, network, kernel
    <2>2. PICK f \in batch :
            \/ pc' = "accept"
            \/ /\ cur' = client_manager_find(mgr, EventArg[f])
               /\ pc' = IF cur' = NoNode THEN "dispatch" ELSE "client"
      BY <1>16 DEF epoll_event_callback
    <2>3. CurInv'
      <3>1. CASE pc' \in {"accept", "dispatch"}
        BY <3>1 DEF CurInv, Callbacks
      <3>2. CASE pc' = "client"
        <4>1. cur' = client_manager_find(mgr, EventArg[f]) /\ cur' # NoNode
          BY <2>2, <3>2
        <4>2. PICK i \in DOMAIN mgr.clients :
                IsFirst(mgr.clients, i, EventArg[f]) /\ mgr.clients[i] = cur'
          BY <4>1, FindType DEF IInv
        <4>3. cur' \in Nodes /\ cur'.fd = EventArg[f]
          BY <4>2, NodeAt DEF IInv, IsFirst
        <4> QED BY <2>1, <3>2, <4>2, <4>3 DEF CurInv, IsFirst
      <3> QED BY <2>2, <3>1, <3>2
    <2> QED BY <2>1, <2>3, QuietStep
  <1>17. CASE AcceptRefused
    <2>1. PICK f \in Fds, c \in Conns : Accepted(f, c) /\ Refuse(c) /\ mgr' = mgr
      BY <1>17 DEF AcceptRefused
    <2> QED BY <2>1, RefuseStep
  <1>18. CASE AcceptUnregistered
    <2>1. PICK f \in Fds, c \in Conns :
            /\ Accepted(f, c)
            /\ mgr' = client_manager_remove(client_manager_add(mgr, [fd |-> f, conn |-> c]), f)
            /\ Refuse(c)
      BY <1>18 DEF AcceptUnregistered
    <2>2. [fd |-> f, conn |-> c] \in Nodes /\ mgr \in [clients : Seq(Nodes), client_count : Nat]
      BY DEF Nodes, IInv, TypeOK
    <2>3. mgr' = mgr
      BY <2>1, <2>2, AddThenRemove
    <2> QED BY <2>1, <2>3, RefuseStep
  <1>19. CASE AcceptRegistered
    BY <1>19, RegisteredStep
  <1>20. CASE RecvEnd
    BY <1>20, RecvEndStep
  <1>21. CASE ReleaseClient
    BY <1>21, ReleaseStep
  <1>22. CASE socket_server_disconnect
    BY <1>22, DisconnectStep
  <1>23. CASE socket_server_destroy
    BY <1>23, DestroyStep
  <1>24. CASE UNCHANGED vars
    <2>1. UNCHANGED <<mgr, file, app, backlog, peer, pc, cur>>
      BY <1>24 DEF vars, network, kernel, loop
    <2>2. CurInv'
      BY <2>1 DEF IInv, CurInv, IsFirst
    <2> QED BY <2>1, <2>2, QuietStep
  <1> QED
    BY <1>2, <1>3, <1>4, <1>5, <1>6, <1>7, <1>8, <1>9, <1>10, <1>11, <1>12, <1>13, <1>14, <1>15, <1>16, <1>17, <1>18, <1>19, <1>20, <1>21, <1>22, <1>23, <1>24
       DEF Next, Peers, EventLoop, Signals, Application, handle_accept, handle_client

-----------------------------------------------------------------------------
(* The theorems.                                                           *)

\* The invariant holds of every reachable state.
THEOREM Invariance == Spec => []IInv
  BY InvInit, InvStep, PTL DEF Spec

\* Every variable keeps its type: in particular client_count, an int, stays
\* within 0..CLIENT_MAX_CLIENTS.
THEOREM TypeCorrect == Spec => []TypeOK
  <1>1. IInv => TypeOK
    BY DEF IInv
  <1> QED BY <1>1, Invariance, PTL

\* A client_info_t* the application still holds carries the descriptor of its
\* own peer, whatever descriptors were reused: socket_server_send and
\* socket_server_disconnect reach no one else.
THEOREM HandlesOwnTheirFd == Spec => []HandleOwnsFd
  <1>1. IInv => HandleOwnsFd
    BY DEF IInv, HandleInv, HandleOwnsFd, ToSet
  <1> QED BY <1>1, Invariance, PTL

\* A client_info_t* is not freed before on_disconnected was called for it.
THEOREM HandlesAreAlive == Spec => []HandleAlive
  <1>1. IInv => HandleAlive
    BY DEF IInv, HandleInv, HandleAlive, ToSet
  <1> QED BY <1>1, Invariance, PTL

\* What handle_client reads is handed over with the client it came from.
THEOREM NeverMisdelivered == Spec => []NoMisdelivery
  <1>1. IInv => NoMisdelivery
    <2> SUFFICES ASSUME IInv, pc \in {"client", "on_received"}, file[cur.fd] # NoConn
                 PROVE  file[cur.fd] = cur.conn
      BY DEF NoMisdelivery
    <2>1. PICK i \in DOMAIN mgr.clients :
            IsFirst(mgr.clients, i, cur.fd) /\ mgr.clients[i] = cur
      BY DEF IInv, CurInv, Callbacks
    <2>2. cur.fd \in Fds
      BY <2>1, NodeAt DEF IInv
    <2>3. PICK j \in DOMAIN mgr.clients :
            IsFirst(mgr.clients, j, cur.fd) /\ mgr.clients[j].conn = file[cur.fd]
      BY <2>2 DEF IInv, OwnerInv
    <2>4. j = i
      BY <2>1, <2>3, FirstIsFirst DEF IInv, TypeOK
    <2> QED BY <2>1, <2>3, <2>4
  <1> QED BY <1>1, Invariance, PTL
=============================================================================
