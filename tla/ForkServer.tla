----------------------------- MODULE ForkServer -----------------------------
(***************************************************************************)
(* socket_connect_with_client of src/internal/libsocket.c: the server that *)
(* forks a child for every connection, composed with the logger that the   *)
(* child gets a copy of.  The child only logs and exits, as the code has   *)
(* it: the program it was to run is not started.                           *)
(*                                                                         *)
(* Nobody waits for the children, so the processes there may be are used   *)
(* up by exited ones too: fork fails when none of Children is left.        *)
(***************************************************************************)
EXTENDS QuekkaLog

CONSTANTS
  MaxClients, \* bound on the connections accepted
  Faults      \* calls that may fail: "accept", "fork"

ASSUME ForkAssumption == MaxClients \in Nat

VARIABLES
  at,        \* where each process is
  clients,   \* connections accepted so far, and the last one
  holders,   \* the processes that have a connection open
  listening  \* the processes that have server_fd open

vars == <<logVars, at, clients, holders, listening>>

Clients == 1..MaxClients

Init ==
  /\ LogInit
  /\ at = [p \in Procs |-> IF p = Main THEN "accept" ELSE "unborn"]
  /\ clients = 0
  /\ holders = [k \in Clients |-> {}]
  /\ listening = {Main}

Goes(p, place) == at' = [at EXCEPT ![p] = place]

\* The process ends, and with it its descriptors.
Ends(p, how) ==
  /\ Goes(p, how)
  /\ holders' = [k \in Clients |-> holders[k] \ {p}]
  /\ listening' = listening \ {p}
  /\ UNCHANGED clients

Closes(p) == holders' = [holders EXCEPT ![clients] = @ \ {p}]

-----------------------------------------------------------------------------
(* The parent.                                                             *)

Accept ==
  /\ at[Main] = "accept"
  /\ clients < MaxClients
  /\ clients' = clients + 1
  /\ holders' = [holders EXCEPT ![clients'] = {Main}]
  /\ log_write(Main, INFO)
  /\ Goes(Main, "fork")
  /\ UNCHANGED listening

AcceptFails ==
  /\ at[Main] = "accept"
  /\ "accept" \in Faults
  /\ call[Main].line < MaxLines
  /\ log_write(Main, ERROR)
  /\ UNCHANGED <<at, clients, holders, listening>>

IsNext(c) == at[c] = "unborn" /\ \A d \in 1..(c - 1) : at[d] # "unborn"

\* The child gets a copy of the memory, the mutex and the FILE buffer as they
\* are included, and of the descriptors.
Fork(c) ==
  /\ at[Main] = "fork" /\ call[Main].phase = "out"
  /\ IsNext(c)
  /\ g_logger' = [g_logger EXCEPT ![c] = g_logger[Main]]
  /\ log_mutex' = [log_mutex EXCEPT ![c] = log_mutex[Main]]
  /\ stream' = [stream EXCEPT ![c] = stream[Main]]
  /\ at' = [at EXCEPT ![Main] = "parent", ![c] = "child"]
  /\ holders' = [k \in Clients |-> IF Main \in holders[k] THEN holders[k] \cup {c} ELSE holders[k]]
  /\ listening' = listening \cup {c}
  /\ UNCHANGED <<disk, call, admin, clients>>

ForkFails ==
  /\ at[Main] = "fork"
  /\ "fork" \in Faults \/ \A c \in Children : at[c] # "unborn"
  /\ log_write(Main, ERROR)
  /\ Goes(Main, "failed")
  /\ UNCHANGED <<clients, holders, listening>>

\* Mutant: the connection is not closed when fork failed.
FailedKeeps ==
  /\ at[Main] = "failed" /\ call[Main].phase = "out"
  /\ Goes(Main, "accept")
  /\ UNCHANGED <<logVars, clients, holders, listening>>

FailedCloses ==
  /\ at[Main] = "failed" /\ call[Main].phase = "out"
  /\ Closes(Main)
  /\ Goes(Main, "accept")
  /\ UNCHANGED <<logVars, clients, listening>>

\* Mutant: the parent keeps the connection of its child.
ParentKeeps ==
  /\ at[Main] = "parent"
  /\ log_write(Main, INFO)
  /\ Goes(Main, "accept")
  /\ UNCHANGED <<clients, holders, listening>>

ParentCloses ==
  /\ at[Main] = "parent"
  /\ Closes(Main)
  /\ log_write(Main, INFO)
  /\ Goes(Main, "accept")
  /\ UNCHANGED <<clients, listening>>

\* A line with arguments whose args were used up takes the process with it.
Crash(x) ==
  /\ call[x].phase = "text" /\ ArgsUsedUp(x)
  /\ Ends(ProcessOf(x), "crashed")
  /\ UNCHANGED logVars

-----------------------------------------------------------------------------
(* A child.                                                                *)

\* Mutant: server_fd is closed by exit only.
ChildLogsFirst(c) ==
  /\ at[c] = "child"
  /\ log_write(c, ERROR)
  /\ Goes(c, "exit")
  /\ UNCHANGED <<clients, holders, listening>>

ChildStarts(c) ==
  /\ at[c] = "child"
  /\ listening' = listening \ {c}
  /\ log_write(c, ERROR)
  /\ Goes(c, "exit")
  /\ UNCHANGED <<clients, holders>>

\* exit flushes what is in the FILE buffer.
ChildExits(c) ==
  /\ at[c] = "exit" /\ call[c].phase = "out"
  /\ Flush(c)
  /\ Ends(c, "exited")
  /\ UNCHANGED <<g_logger, log_mutex, call, admin>>

ServerVarsUnchanged == UNCHANGED <<at, clients, holders, listening>>

ChildSteps(c) ==
  \/ ChildStarts(c)
  \/ LogSteps(c) /\ ServerVarsUnchanged
  \/ ChildExits(c)

Running == at[Main] # "crashed"

Next ==
  \/ /\ Running
     /\ \/ Accept \/ AcceptFails \/ ForkFails \/ FailedCloses \/ ParentCloses
        \/ LogSteps(Main) /\ ServerVarsUnchanged
        \/ \E c \in Children : Fork(c)
        \/ \E x \in Threads : ThreadSteps(x) /\ ServerVarsUnchanged
        \/ \E x \in Threads \cup {Main} : Crash(x)
  \/ \E c \in Children : ChildSteps(c)

\* A running child goes on, and so does a parent about to close: neither waits
\* for anyone.  Nothing is assumed of the tasks that share the parent's mutex.
Fairness ==
  /\ \A c \in Children : WF_vars(ChildSteps(c))
  /\ WF_vars(ParentCloses)

Spec == Init /\ [][Next]_vars /\ Fairness

-----------------------------------------------------------------------------
(* What it promises.                                                       *)

TypeOK ==
  /\ LogTypeOK
  /\ at \in [Procs -> {"unborn", "accept", "fork", "failed", "parent",
                       "child", "exit", "exited", "crashed"}]
  /\ clients \in 0..MaxClients
  /\ holders \in [Clients -> SUBSET Procs]
  /\ listening \in SUBSET Procs

\* The child was forked while a thread of the parent held the mutex, which
\* nobody in the child will give back.
ForkedLocked(c) == log_mutex[c] \in Threads

\* Such a child waits for ever, unless its logger drops the line it logs.
Hangs(c) == ForkedLocked(c) /\ g_logger[c].level <= ERROR

WholeLine(w) ==
  /\ Len(w.pieces) = 2
  /\ w.pieces[1].of = w.pieces[2].of
  /\ w.pieces[1].is = "prefix" /\ w.pieces[2].is = "text"

Torn(c) == c \in Children /\ ForkedLocked(c) /\ ~Hangs(c)

\* Every write of the log file is one whole line, written once, whatever the
\* threads, the configuration and the children do: but for what exit writes in
\* a child that was forked within a line of another thread and whose own line
\* is dropped, log_write returning before it takes the mutex.
OnlyExitTears ==
  \A w \in DOMAIN disk :
    \/ Torn(w.by)
    \/ WholeLine(w) /\ disk[w] = 1
       /\ \A v \in DOMAIN disk \ {w} : Torn(v.by) \/ v.pieces[1].of # w.pieces[1].of

\* The parent has a connection open only until it is done with it, and a child
\* only the one it was forked for: a peer waits for one process at a time.
ClientsApart ==
  /\ \A k \in Clients : Main \in holders[k] => k = clients /\ at[Main] # "accept"
  /\ \A k \in Clients : \A c, d \in holders[k] \ {Main} : c = d
  /\ \A c \in Children : \A k, m \in Clients : c \in holders[k] /\ c \in holders[m] => k = m

\* A child that hangs keeps its own connection, but never the listening
\* socket: a server that is started again can bind.
HungOffListener ==
  \A c \in Children : Hangs(c) /\ call[c].phase = "lock" =>
    c \notin listening /\ at[c] = "exit" /\ \E k \in Clients : c \in holders[k]

\* The peer of every connection a child was forked for sees its end, unless
\* the child hangs.
PeerSeesEnd ==
  \A k \in Clients :
    (\E c \in Children : c \in holders[k] /\ ~Hangs(c)) ~> (holders[k] = {})
=============================================================================
