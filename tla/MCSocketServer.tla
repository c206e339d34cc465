--------------------------- MODULE MCSocketServer ---------------------------
(***************************************************************************)
(* Small instances of SocketServer for TLC.                                *)
(***************************************************************************)
EXTENDS SocketServer, TLC

\* The callback gets the descriptor of the event, as handle_accept and
\* handle_client read it: the TODOs at libsocket.c:318 and :448 resolved.
EventFd == [f \in Fds \cup {ListenFd} |-> f]

\* What is committed: data.ptr is NULL, so the callback gets 0.
EventNull == [f \in Fds \cup {ListenFd} |-> 0]

ConnSymmetry == Permutations(Conns)
=============================================================================
