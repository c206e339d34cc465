-------------------------- MODULE ForkServerProofs --------------------------
(***************************************************************************)
(* Proofs about the server that forks, and the logger its processes share  *)
(* a file with: what is open in which process, and what a fork within a    *)
(* log line of another thread leads to.  Each for every number of threads, *)
(* children, connections and lines.                                        *)
(***************************************************************************)
EXTENDS ForkServer, SequenceTheorems, TLAPS

-----------------------------------------------------------------------------
(* The invariant.                                                          *)

\* The parent has the last connection open from accept to close, alone until
\* it forks; a child the one it was forked for, until it ends; and the
\* listening socket until it starts.
PlaceInv ==
  /\ \A k \in Clients : k > clients => holders[k] = {}
  /\ \A k \in Clients : Main \in holders[k] => k = clients
  /\ at[Main] \in {"fork", "failed", "parent"} => clients \in Clients /\ Main \in holders[clients]
  /\ at[Main] \in {"fork", "failed"} => holders[clients] = {Main}
  /\ at[Main] \in {"accept", "crashed"} => \A k \in Clients : Main \notin holders[k]
  /\ at[Main] \in {"accept", "fork", "failed", "parent", "crashed"}
  /\ \A c \in Children :
       /\ at[c] \in {"unborn", "child", "exit", "exited"}
       /\ at[c] = "unborn" => c \notin listening /\ \A k \in Clients : c \notin holders[k]
       /\ at[c] \in {"child", "exit"} => \E k \in Clients : c \in holders[k]
       /\ at[c] = "exit" => c \notin listening

\* Two children never have the same connection, nor a child two.
ApartInv ==
  /\ \A k \in Clients : \A c, d \in holders[k] \ {Main} : c = d
  /\ \A c \in Children : \A k, m \in Clients : c \in holders[k] /\ c \in holders[m] => k = m

Held == {"prefix", "text", "unlock", "admin"}

\* Who is within a line or a configuring call holds the mutex of its process;
\* the mutex of a child may be held by a thread that it does not have.
MutexInv ==
  /\ \A x \in Tasks : call[x].phase \in Held => log_mutex[ProcessOf(x)] = x
  /\ log_mutex[Main] # Free =>
       ProcessOf(log_mutex[Main]) = Main /\ call[log_mutex[Main]].phase \in Held
  /\ \A c \in Children :
       /\ log_mutex[c] \in {Free, c} \cup Threads
       /\ log_mutex[c] = c => call[c].phase \in Held
       /\ at[c] = "unborn" => log_mutex[c] = Free
       /\ at[c] # "exit" => call[c].phase = "out"
       /\ at[c] = "exit" /\ Hangs(c) => call[c].phase = "lock"

\* The pieces of the line task x is in when its call is r.
Piece(x, r, is) == [of |-> <<x, r.line>>, is |-> is]

\* What a FILE buffer s holds for the task that has the mutex.
Buffered(x, r, s) ==
  \/ s = <<>> /\ r.phase # "text"
  \/ s = <<Piece(x, r, "prefix")>> /\ r.phase = "text"
  \/ s = <<Piece(x, r, "prefix"), Piece(x, r, "text")>> /\ r.phase = "unlock"

StreamInv ==
  \A p \in Procs : LET x == log_mutex[p] IN
    /\ x = Free => stream[p] = <<>>
    /\ x \in Tasks /\ ProcessOf(x) = p => Buffered(x, call[x], stream[p])

\* A line in the file is of a task that is done with it, as its calls show.
Done(of, calls) ==
  \E x \in Tasks : \E n \in Nat :
    /\ of = <<x, n>>
    /\ n <= calls[x].line
    /\ n = calls[x].line => calls[x].phase \in {"out", "admin"}

DiskInv ==
  \A w \in DOMAIN disk : Torn(w.by) \/ (WholeLine(w) /\ Done(w.pieces[1].of, call))

IInv == TypeOK /\ PlaceInv /\ ApartInv /\ MutexInv /\ StreamInv /\ DiskInv /\ OnlyExitTears

-----------------------------------------------------------------------------
(* Processes and tasks.                                                    *)

LEMMA Processes ==
  /\ Main \in Procs /\ Main \in Tasks /\ Main \notin Children /\ Main \notin Threads
  /\ ProcessOf(Main) = Main
  /\ \A c \in Children : c \in Procs /\ c \in Tasks /\ c \notin Threads /\ c # Main /\ ProcessOf(c) = c
  /\ \A x \in Threads : x \in Tasks /\ x \notin Procs /\ ProcessOf(x) = Main
  /\ \A x \in Tasks : ProcessOf(x) \in Procs /\ x # Free
  /\ \A x \in Tasks : ProcessOf(x) = Main => x \in Threads \cup {Main}
  BY LogAssumption DEF Main, Children, Procs, Tasks, ProcessOf

\* The steps by what they do to processes and connections.
LEMMA ServerSteps ==
  ASSUME [Next]_vars
  PROVE  \/ UNCHANGED <<at, clients, holders, listening>>
         \/ Accept \/ ForkFails \/ FailedCloses \/ ParentCloses
         \/ Running /\ Ends(Main, "crashed")
         \/ \E c \in Children : Fork(c) \/ ChildStarts(c) \/ ChildExits(c)
  <1>1. CASE UNCHANGED vars
    BY <1>1 DEF vars
  <1>2. CASE Next
    BY <1>2, Processes DEF Next, AcceptFails, ServerVarsUnchanged, Crash, ChildSteps
  <1> QED
    BY <1>1, <1>2

\* What TypeOK says of the server's own variables.
ServerTypeOK ==
  /\ at \in [Procs -> {"unborn", "accept", "fork", "failed", "parent",
                       "child", "exit", "exited", "crashed"}]
  /\ clients \in 0..MaxClients
  /\ holders \in [Clients -> SUBSET Procs]
  /\ listening \in SUBSET Procs

LEMMA ServerTypeNext ==
  ASSUME ServerTypeOK, PlaceInv, [Next]_vars
  PROVE  ServerTypeOK'
  <1> USE Processes, ForkAssumption DEF ServerTypeOK
  <1>1. CASE UNCHANGED <<at, clients, holders, listening>>
    BY <1>1
  <1>2. CASE Accept
    <2>1. clients + 1 \in Clients
      BY <1>2 DEF Accept, Clients
    <2> QED
      BY <1>2, <2>1 DEF Accept, Goes, Clients
  <1>3. CASE ForkFails
    BY <1>3 DEF ForkFails, Goes
  <1>4. CASE FailedCloses
    BY <1>4 DEF FailedCloses, Goes, Closes
  <1>5. CASE ParentCloses
    BY <1>5 DEF ParentCloses, Goes, Closes
  <1>6. ASSUME NEW p \in Procs, NEW how \in {"crashed", "exited"}, Ends(p, how)
        PROVE  ServerTypeOK'
    BY <1>6 DEF Ends, Goes
  <1>7. ASSUME NEW c \in Children, Fork(c)
        PROVE  ServerTypeOK'
    BY <1>7 DEF Fork
  <1>8. ASSUME NEW c \in Children, ChildStarts(c)
        PROVE  ServerTypeOK'
    BY <1>8 DEF ChildStarts, Goes
  <1>9. ASSUME NEW c \in Children, ChildExits(c)
        PROVE  ServerTypeOK'
    BY <1>6, <1>9 DEF ChildExits
  <1> QED
    BY <1>1, <1>2, <1>3, <1>4, <1>5, <1>6, <1>7, <1>8, <1>9, ServerSteps

-----------------------------------------------------------------------------
(* Who has which connection open.                                          *)

LEMMA PlaceNext ==
  ASSUME ServerTypeOK, PlaceInv, ApartInv, [Next]_vars
  PROVE  PlaceInv' /\ ApartInv'
  <1> USE Processes, ForkAssumption DEF ServerTypeOK, PlaceInv, ApartInv
  <1>1. CASE UNCHANGED <<at, clients, holders, listening>>
    BY <1>1
  <1>2. CASE Accept
    <2>1. /\ at[Main] = "accept" /\ at' = [at EXCEPT ![Main] = "fork"]
          /\ clients' = clients + 1 /\ listening' = listening
          /\ holders' = [holders EXCEPT ![clients + 1] = {Main}]
      BY <1>2 DEF Accept, Goes
    <2>2. clients + 1 \in Clients /\ clients \in Nat /\ Clients \subseteq Nat
      BY <1>2 DEF Accept, Clients
    <2>3. \A k \in Clients : holders'[k] = IF k = clients + 1 THEN {Main} ELSE holders[k]
      BY <2>1
    <2>4. \A c \in Children : at'[c] = at[c]
      BY <2>1
    <2>5. \A c \in Children : \A k \in Clients : c \in holders'[k] <=> c \in holders[k]
      <3>1. holders[clients + 1] = {}
        BY <2>2
      <3> QED
        BY <2>3, <3>1
    <2>6. at'[Main] = "fork"
      BY <2>1
    <2>7. \A k \in Clients : Main \in holders'[k] <=> k = clients + 1
      BY <2>1, <2>3
    <2>8. \A k \in Clients : k > clients' => holders'[k] = {}
      BY <2>1, <2>2, <2>3
    <2>9. PlaceInv'
      BY <2>1, <2>2, <2>3, <2>4, <2>5, <2>6, <2>7, <2>8
    <2>10. \A k \in Clients : \A c, d \in holders'[k] \ {Main} : c = d
      BY <2>3
    <2>11. \A c \in Children : \A k, m \in Clients : c \in holders'[k] /\ c \in holders'[m] => k = m
      BY <2>5
    <2> QED
      BY <2>9, <2>10, <2>11
  <1>3. CASE ForkFails
    BY <1>3 DEF ForkFails, Goes
  <1>4. ASSUME clients \in Clients, Main \in holders[clients], Closes(Main), Goes(Main, "accept"),
               UNCHANGED <<clients, listening>>
        PROVE  PlaceInv' /\ ApartInv'
    <2>1. \A k \in Clients : /\ k = clients => holders'[k] = holders[k] \ {Main}
                             /\ k # clients => holders'[k] = holders[k]
      <3>1. holders' = [holders EXCEPT ![clients] = holders[clients] \ {Main}]
        BY <1>4 DEF Closes
      <3> QED
        BY <3>1
    <2>2. at'[Main] = "accept" /\ \A c \in Children : at'[c] = at[c]
      BY <1>4 DEF Goes
    <2>3. ASSUME NEW c \in Children, NEW k \in Clients
          PROVE  c \in holders'[k] <=> c \in holders[k]
      BY <2>1
    <2>4. \A k \in Clients : Main \notin holders'[k]
      BY <2>1
    <2>5. PlaceInv'
      BY <1>4, <2>1, <2>2, <2>3, <2>4
    <2>6. \A k \in Clients : \A c, d \in holders'[k] \ {Main} : c = d
      <3>1. \A k \in Clients : holders'[k] \ {Main} = holders[k] \ {Main}
        BY <2>1
      <3> QED
        BY <3>1
    <2>7. \A c \in Children : \A k, m \in Clients : c \in holders'[k] /\ c \in holders'[m] => k = m
      BY <2>3
    <2> QED
      BY <2>5, <2>6, <2>7
  <1>5. CASE FailedCloses
    BY <1>4, <1>5 DEF FailedCloses
  <1>6. CASE ParentCloses
    BY <1>4, <1>6 DEF ParentCloses
  <1>7. CASE Ends(Main, "crashed")
    <2>1. \A k \in Clients : holders'[k] = holders[k] \ {Main}
      BY <1>7 DEF Ends
    <2>2. at'[Main] = "crashed" /\ \A c \in Children : at'[c] = at[c]
      BY <1>7 DEF Ends, Goes
    <2>3. PlaceInv'
      BY <1>7, <2>1, <2>2 DEF Ends
    <2>4. ApartInv'
      BY <2>1
    <2> QED
      BY <2>3, <2>4
  <1>8. ASSUME NEW c \in Children, Fork(c)
        PROVE  PlaceInv' /\ ApartInv'
    <2>1. /\ at[Main] = "fork" /\ at[c] = "unborn"
          /\ clients' = clients /\ listening' = listening \cup {c}
          /\ at' = [at EXCEPT ![Main] = "parent", ![c] = "child"]
          /\ holders' = [k \in Clients |-> IF Main \in holders[k] THEN holders[k] \cup {c} ELSE holders[k]]
      BY <1>8 DEF Fork, IsNext
    <2>2. clients \in Clients /\ holders[clients] = {Main}
      BY <2>1
    <2>3. \A k \in Clients : holders'[k] = IF k = clients THEN {Main, c} ELSE holders[k]
      BY <2>1, <2>2
    <2>4. \A k \in Clients : k # clients => Main \notin holders[k] /\ c \notin holders[k]
      BY <2>1
    <2>5. /\ at'[Main] = "parent" /\ at'[c] = "child"
          /\ \A d \in Children \ {c} : at'[d] = at[d]
      BY <2>1
    <2>6. \A d \in Children \ {c} : \A k \in Clients : d \in holders'[k] <=> d \in holders[k]
      BY <2>2, <2>3
    <2>7. \A k \in Clients : k > clients' => holders'[k] = {}
      BY <2>1, <2>3 DEF Clients
    <2>8. \A k \in Clients : c \in holders'[k] <=> k = clients
      BY <2>3, <2>4
    <2>9. ASSUME NEW d \in Children \ {c}
          PROVE  /\ at'[d] \in {"unborn", "child", "exit", "exited"}
                 /\ at'[d] = "unborn" => d \notin listening' /\ \A k \in Clients : d \notin holders'[k]
                 /\ at'[d] \in {"child", "exit"} => \E k \in Clients : d \in holders'[k]
                 /\ at'[d] = "exit" => d \notin listening'
      BY <2>1, <2>5, <2>6
    <2>10. PlaceInv'
      BY <2>1, <2>2, <2>3, <2>4, <2>5, <2>7, <2>8, <2>9
    <2>11. ApartInv'
      <3>1. \A k \in Clients : \A d, e \in holders'[k] \ {Main} : d = e
        BY <2>3
      <3>2. \A d \in Children : \A k, m \in Clients : d \in holders'[k] /\ d \in holders'[m] => k = m
        BY <2>6, <2>8
      <3> QED
        BY <3>1, <3>2
    <2> QED
      BY <2>10, <2>11
  <1>9. ASSUME NEW c \in Children, ChildStarts(c)
        PROVE  PlaceInv' /\ ApartInv'
    <2>1. /\ at[c] = "child" /\ at' = [at EXCEPT ![c] = "exit"]
          /\ listening' = listening \ {c} /\ clients' = clients /\ holders' = holders
      BY <1>9 DEF ChildStarts, Goes
    <2>2. at'[c] = "exit" /\ \A p \in Procs \ {c} : at'[p] = at[p]
      BY <2>1
    <2> QED
      BY <2>1, <2>2
  <1>10. ASSUME NEW c \in Children, ChildExits(c)
         PROVE  PlaceInv' /\ ApartInv'
    <2>1. /\ at[c] = "exit" /\ at' = [at EXCEPT ![c] = "exited"]
          /\ listening' = listening \ {c} /\ clients' = clients
          /\ holders' = [k \in Clients |-> holders[k] \ {c}]
      BY <1>10 DEF ChildExits, Ends, Goes
    <2>2. at'[c] = "exited" /\ \A p \in Procs \ {c} : at'[p] = at[p]
      BY <2>1
    <2>3. \A k \in Clients : \A p \in Procs \ {c} : p \in holders'[k] <=> p \in holders[k]
      BY <2>1
    <2>4. \A k \in Clients : holders'[k] = holders[k] \ {c}
      BY <2>1
    <2>5. PlaceInv'
      <3>1. ASSUME NEW d \in Children
            PROVE  /\ at'[d] \in {"unborn", "child", "exit", "exited"}
                   /\ at'[d] = "unborn" => d \notin listening' /\ \A k \in Clients : d \notin holders'[k]
                   /\ at'[d] \in {"child", "exit"} => \E k \in Clients : d \in holders'[k]
                   /\ at'[d] = "exit" => d \notin listening'
        BY <2>1, <2>2, <2>3
      <3>2. at'[Main] \in {"fork", "failed"} => holders'[clients] = {Main}
        BY <2>2, <2>4
      <3> QED
        BY <2>1, <2>2, <2>3, <2>4, <3>1, <3>2
    <2>6. ApartInv'
      BY <2>3, <2>4
    <2> QED
      BY <2>5, <2>6
  <1> QED
    BY <1>1, <1>2, <1>3, <1>5, <1>6, <1>7, <1>8, <1>9, <1>10, ServerSteps

-----------------------------------------------------------------------------
(* The steps of the logger.                                                *)

ChildrenStay == \A c \in Children : at'[c] = at[c]

\* The steps by what they do to loggers.
LEMMA LoggerSteps ==
  ASSUME ServerTypeOK, [Next]_vars
  PROVE  \/ UNCHANGED logVars /\ ChildrenStay
         \/ \E x \in Threads \cup {Main}, level \in DEBUG..FATAL : log_write(x, level) /\ ChildrenStay
         \/ \E x \in Tasks : LogSteps(x) /\ ChildrenStay
         \/ \E x \in Threads : AdminSteps(x) /\ ChildrenStay
         \/ \E c \in Children : Fork(c) \/ ChildStarts(c) \/ ChildExits(c)
  <1> USE Processes
  <1>1. INFO \in DEBUG..FATAL /\ ERROR \in DEBUG..FATAL /\ FATAL \in DEBUG..FATAL
    BY DEF DEBUG, INFO, ERROR, FATAL
  <1>2. CASE UNCHANGED vars
    BY <1>2 DEF vars, ChildrenStay
  <1>3. ASSUME NEW place, Goes(Main, place)
        PROVE  ChildrenStay
    BY <1>3 DEF Goes, ChildrenStay, ServerTypeOK
  <1>4. CASE Accept \/ AcceptFails \/ ForkFails \/ ParentCloses
    BY <1>1, <1>3, <1>4 DEF Accept, AcceptFails, ForkFails, ParentCloses, ChildrenStay
  <1>5. CASE FailedCloses
    BY <1>3, <1>5 DEF FailedCloses
  <1>6. ASSUME NEW x \in Threads \cup {Main}, Crash(x)
        PROVE  UNCHANGED logVars /\ ChildrenStay
    BY <1>3, <1>6 DEF Crash, Ends
  <1>7. ASSUME NEW x \in Threads, ThreadSteps(x), ServerVarsUnchanged
        PROVE  \/ \E level \in DEBUG..FATAL : log_write(x, level) /\ ChildrenStay
               \/ LogSteps(x) /\ ChildrenStay
               \/ AdminSteps(x) /\ ChildrenStay
    BY <1>1, <1>7 DEF ThreadSteps, ServerVarsUnchanged, ChildrenStay
  <1>8. ASSUME NEW x \in Tasks, LogSteps(x), ServerVarsUnchanged
        PROVE  LogSteps(x) /\ ChildrenStay
    BY <1>8 DEF ServerVarsUnchanged, ChildrenStay
  <1>9. CASE Next
    <2>1. CASE Running /\ \E x \in Threads : ThreadSteps(x) /\ ServerVarsUnchanged
      BY <1>7, <2>1
    <2>2. CASE LogSteps(Main) /\ ServerVarsUnchanged
      BY <1>8, <2>2
    <2>3. CASE \E c \in Children : ChildSteps(c)
      BY <1>8, <2>3 DEF ChildSteps
    <2> QED
      BY <1>4, <1>5, <1>6, <1>9, <2>1, <2>2, <2>3 DEF Next
  <1> QED
    BY <1>2, <1>9

\* A call that configures the logger finds the FILE buffer empty.
LEMMA AdminStep ==
  ASSUME LogTypeOK, MutexInv, StreamInv, NEW x \in Threads, AdminSteps(x)
  PROVE  \/ AdminLocks(x)
         \/ \E logger \in Logger : Configure(x, logger) /\ UNCHANGED <<stream, disk>>
  <1> DEFINE old == g_logger[Main]
  <1>1. ProcessOf(x) = Main /\ x \in Tasks
    BY Processes
  <1>2. old \in Logger
    BY Processes DEF LogTypeOK
  <1>3. ASSUME call[x].phase = "admin"
        PROVE  stream[Main] = <<>>
    <2>1. log_mutex[Main] = x
      BY <1>1, <1>3 DEF MutexInv, Held
    <2> QED
      BY <1>1, <1>3, <2>1, Processes DEF StreamInv, Buffered
  <1>4. ASSUME call[x].phase = "admin", Flush(Main)
        PROVE  UNCHANGED <<stream, disk>>
    BY <1>3, <1>4, Processes DEF Flush, LogTypeOK
  <1>5. ASSUME NEW file \in BOOLEAN, NEW level \in DEBUG..FATAL, NEW console \in BOOLEAN,
               NEW output \in BOOLEAN
        PROVE  [file |-> file, level |-> level, console_output |-> console,
                file_output |-> output] \in Logger
    BY DEF Logger
  <1>6. /\ old = [file |-> old.file, level |-> old.level, console_output |-> old.console_output,
                  file_output |-> old.file_output]
        /\ old.file \in BOOLEAN /\ old.level \in DEBUG..FATAL
        /\ old.console_output \in BOOLEAN /\ old.file_output \in BOOLEAN
    BY <1>2 DEF Logger
  <1>7. INFO \in DEBUG..FATAL
    BY DEF DEBUG, INFO, FATAL
  <1>8. ASSUME NEW name \in {"none", "opens", "fails"}, logger_init(x, name, INFO)
        PROVE  \E logger \in Logger : Configure(x, logger) /\ UNCHANGED <<stream, disk>>
    <2> DEFINE logger == CASE name = "none"  -> [old EXCEPT !.file = FALSE, !.level = INFO]
                           [] name = "opens" -> [old EXCEPT !.file = TRUE, !.level = INFO]
                           [] name = "fails" -> [old EXCEPT !.file = FALSE, !.level = INFO,
                                                            !.file_output = FALSE]
    <2>1. logger \in Logger
      <3>1. /\ [old EXCEPT !.file = FALSE, !.level = INFO] \in Logger
            /\ [old EXCEPT !.file = TRUE, !.level = INFO] \in Logger
            /\ [old EXCEPT !.file = FALSE, !.level = INFO, !.file_output = FALSE] \in Logger
        BY <1>2, <1>7 DEF Logger
      <3> QED
        BY <3>1
    <2>2. Configure(x, logger) /\ IF old.file THEN Flush(Main) ELSE UNCHANGED <<stream, disk>>
      BY <1>1, <1>8 DEF logger_init
    <2> HIDE DEF logger
    <2>3. UNCHANGED <<stream, disk>>
      BY <1>4, <2>2 DEF Configure
    <2> QED
      BY <2>1, <2>2, <2>3
  <1>9. ASSUME NEW level \in SetLevels, logger_set_level(x, level)
        PROVE  \E logger \in Logger : Configure(x, logger) /\ UNCHANGED <<stream, disk>>
    <2>1. [old EXCEPT !.level = level] \in Logger
      BY <1>2, LogAssumption DEF Logger
    <2> QED
      BY <1>1, <1>9, <2>1 DEF logger_set_level
  <1>10. ASSUME logger_enable_console(x, ~old.console_output)
         PROVE  \E logger \in Logger : Configure(x, logger) /\ UNCHANGED <<stream, disk>>
    <2>1. [old EXCEPT !.console_output = ~old.console_output] \in Logger
      BY <1>2 DEF Logger
    <2> QED
      BY <1>1, <1>10, <2>1 DEF logger_enable_console
  <1>11. ASSUME logger_enable_file(x, ~old.file_output)
         PROVE  \E logger \in Logger : Configure(x, logger) /\ UNCHANGED <<stream, disk>>
    <2>1. [old EXCEPT !.file_output = ~old.file_output] \in Logger
      BY <1>2 DEF Logger
    <2> QED
      BY <1>1, <1>11, <2>1 DEF logger_enable_file
  <1>12. ASSUME logger_close(x)
         PROVE  \E logger \in Logger : Configure(x, logger) /\ UNCHANGED <<stream, disk>>
    <2>1. [old EXCEPT !.file = FALSE] \in Logger
      BY <1>2 DEF Logger
    <2>2. Configure(x, [old EXCEPT !.file = FALSE])
          /\ IF old.file THEN Flush(Main) ELSE UNCHANGED <<stream, disk>>
      BY <1>1, <1>12 DEF logger_close
    <2>3. UNCHANGED <<stream, disk>>
      BY <1>4, <2>2 DEF Configure
    <2> QED
      BY <2>1, <2>2, <2>3
  <1> QED
    BY <1>1, <1>8, <1>9, <1>10, <1>11, <1>12 DEF AdminSteps

-----------------------------------------------------------------------------
(* The log file.                                                           *)

LEMMA BagAdded ==
  ASSUME NEW B, NEW w
  PROVE  /\ DOMAIN BagAdd(B, w) = DOMAIN B \cup {w}
         /\ \A v \in DOMAIN B \ {w} : BagAdd(B, w)[v] = B[v]
         /\ w \notin DOMAIN B => BagAdd(B, w)[w] = 1
  BY DEF BagAdd

LEMMA Appended ==
  ASSUME NEW a, NEW b
  PROVE  /\ Append(<<>>, a) = <<a>> /\ Append(<<a>>, b) = <<a, b>>
         /\ Len(<<>>) = 0 /\ Len(<<a>>) = 1 /\ Len(<<a, b>>) = 2
  <1>1. Len(<<>>) = 0 /\ Len(<<a>>) = 1 /\ Len(<<a, b>>) = 2
    OBVIOUS
  <1>2. Append(<<>>, a) = <<a>>
    <2>1. <<>> \in Seq({a}) /\ a \in {a}
      BY EmptySeq
    <2> QED
      BY <2>1, HeadTailAppend, AppendIsConcat, ConcatEmptySeq
  <1>3. Append(<<a>>, b) = <<a, b>>
    <2>1. <<a>> \in Seq({a, b}) /\ <<a, b>> \in Seq({a, b})
      OBVIOUS
    <2>2. /\ Append(<<a>>, b) \in Seq({a, b}) /\ Len(Append(<<a>>, b)) = 2
          /\ Append(<<a>>, b)[1] = a /\ Append(<<a>>, b)[2] = b
      BY <1>1, <2>1, AppendProperties
    <2>3. \A i \in 1..2 : Append(<<a>>, b)[i] = <<a, b>>[i]
      BY <2>2
    <2> QED
      BY <1>1, <2>1, <2>2, <2>3, SeqEqual
  <1> QED
    BY <1>1, <1>2, <1>3

\* What becomes torn stays so, and what is done with stays done with.
TornStays == \A c \in Children : Torn(c) => Torn(c)'
DoneStays == \A of : Done(of, call) => Done(of, call')

LEMMA DiskKept ==
  ASSUME DiskInv, OnlyExitTears, TornStays, DoneStays, disk' = disk
  PROVE  DiskInv' /\ OnlyExitTears'
  <1>1. \A p : Torn(p) => Torn(p)'
    BY DEF TornStays, Torn
  <1>2. DiskInv'
    BY <1>1 DEF DiskInv, DoneStays, WholeLine
  <1>3. OnlyExitTears'
    BY <1>1 DEF OnlyExitTears, WholeLine
  <1> QED
    BY <1>2, <1>3

\* A child whose write is torn writes what it has in its buffer.
LEMMA DiskTorn ==
  ASSUME DiskInv, OnlyExitTears, TornStays, DoneStays, NEW w, Torn(w.by),
         disk' = BagAdd(disk, w)
  PROVE  DiskInv' /\ OnlyExitTears'
  <1>1. \A p : Torn(p) => Torn(p)'
    BY DEF TornStays, Torn
  <1>2. /\ DOMAIN disk' = DOMAIN disk \cup {w}
        /\ \A v \in DOMAIN disk \ {w} : disk'[v] = disk[v]
    BY BagAdded
  <1>3. DiskInv'
    BY <1>1, <1>2 DEF DiskInv, DoneStays, WholeLine
  <1>4. ASSUME NEW v \in DOMAIN disk'
        PROVE  \/ Torn(v.by)'
               \/ /\ WholeLine(v) /\ disk'[v] = 1
                  /\ \A u \in DOMAIN disk' \ {v} : Torn(u.by)' \/ u.pieces[1].of # v.pieces[1].of
    <2>1. CASE v = w
      BY <1>1, <2>1
    <2>2. CASE v # w
      BY <1>1, <1>2, <2>2 DEF OnlyExitTears
    <2> QED
      BY <2>1, <2>2
  <1>5. OnlyExitTears'
    BY <1>4 DEF OnlyExitTears, WholeLine
  <1> QED
    BY <1>3, <1>5

\* A task that unlocks writes its line, whole and for the first time.
LEMMA DiskLine ==
  ASSUME DiskInv, OnlyExitTears, TornStays, DoneStays, NEW x \in Tasks, NEW w,
         call[x].phase = "unlock", call[x].line \in Nat,
         w.pieces = <<Piece(x, call[x], "prefix"), Piece(x, call[x], "text")>>,
         call'[x].phase = "out", call'[x].line = call[x].line,
         disk' = BagAdd(disk, w)
  PROVE  DiskInv' /\ OnlyExitTears'
  <1> DEFINE line == <<x, call[x].line>>
  <1>1. \A p : Torn(p) => Torn(p)'
    BY DEF TornStays, Torn
  <1>2. WholeLine(w) /\ w.pieces[1].of = line
    BY DEF WholeLine, Piece
  <1>3. ~Done(line, call)
    BY DEF Done
  <1>4. Done(line, call')
    BY DEF Done
  <1>5. \A v \in DOMAIN disk : Torn(v.by) \/ v.pieces[1].of # line
    BY <1>3 DEF DiskInv
  <1>6. /\ DOMAIN disk' = DOMAIN disk \cup {w}
        /\ \A v \in DOMAIN disk \ {w} : disk'[v] = disk[v]
        /\ w \notin DOMAIN disk => disk'[w] = 1
    <2>1. /\ DOMAIN BagAdd(disk, w) = DOMAIN disk \cup {w}
          /\ \A v \in DOMAIN disk \ {w} : BagAdd(disk, w)[v] = disk[v]
          /\ w \notin DOMAIN disk => BagAdd(disk, w)[w] = 1
      BY BagAdded
    <2> QED
      BY <2>1
  <1> HIDE DEF line
  <1>7. DiskInv'
    BY <1>1, <1>2, <1>4, <1>6 DEF DiskInv, DoneStays, WholeLine
  <1>8. ASSUME NEW v \in DOMAIN disk'
        PROVE  \/ Torn(v.by)'
               \/ /\ WholeLine(v) /\ disk'[v] = 1
                  /\ \A u \in DOMAIN disk' \ {v} : Torn(u.by)' \/ u.pieces[1].of # v.pieces[1].of
    <2>1. CASE v = w
      BY <1>1, <1>2, <1>5, <1>6, <2>1
    <2>2. CASE v # w
      BY <1>1, <1>2, <1>5, <1>6, <2>2 DEF OnlyExitTears
    <2> QED
      BY <2>1, <2>2
  <1>9. OnlyExitTears'
    BY <1>8 DEF OnlyExitTears, WholeLine
  <1> QED
    BY <1>7, <1>9

-----------------------------------------------------------------------------
(* Every step of the logger preserves the invariant.                       *)

LogInv == LogTypeOK /\ MutexInv /\ StreamInv /\ DiskInv /\ OnlyExitTears

CallRecord == [phase : Phases, line : Nat]

\* The types of one step, of what it changes.
LEMMA LogTypes ==
  ASSUME LogTypeOK
  PROVE  /\ g_logger \in [Procs -> Logger]
         /\ log_mutex \in [Procs -> Tasks \cup {Free}]
         /\ stream \in [Procs -> Seq(Pieces)] /\ \A p \in Procs : Len(stream[p]) <= 2
         /\ call \in [Tasks -> CallRecord]
         /\ \A x \in Tasks : call[x] \in CallRecord /\ call[x].phase \in Phases /\ call[x].line \in Nat
  BY DEF LogTypeOK, CallRecord

LEMMA DiskTyped ==
  ASSUME LogTypeOK, NEW w \in [by : Procs, pieces : Seq(Pieces)], disk' = BagAdd(disk, w)
  PROVE  \A v \in DOMAIN disk' : v \in [by : Procs, pieces : Seq(Pieces)]
  <1>1. DOMAIN BagAdd(disk, w) = DOMAIN disk \cup {w}
    BY BagAdded
  <1>2. DOMAIN disk' = DOMAIN disk \cup {w}
    BY <1>1
  <1>3. \A v \in DOMAIN disk : v \in [by : Procs, pieces : Seq(Pieces)]
    BY DEF LogTypeOK
  <1> QED
    BY <1>2, <1>3

LEMMA QuietStep ==
  ASSUME LogInv, UNCHANGED logVars, ChildrenStay
  PROVE  LogInv'
  <1> USE DEF LogInv, logVars
  <1>1. LogTypeOK'
    BY DEF LogTypeOK
  <1>2. MutexInv'
    BY DEF MutexInv, ChildrenStay, Hangs, ForkedLocked
  <1>3. StreamInv'
    BY DEF StreamInv
  <1>4. TornStays /\ DoneStays
    BY DEF TornStays, DoneStays, Torn, Hangs, ForkedLocked
  <1>5. DiskInv' /\ OnlyExitTears'
    BY <1>4, DiskKept
  <1> QED
    BY <1>1, <1>2, <1>3, <1>5

\* A call of log_write, also the one with which a child starts.
LEMMA WriteStep ==
  ASSUME LogInv, NEW x \in Tasks, NEW level \in DEBUG..FATAL, log_write(x, level),
         \A c \in Children : \/ at'[c] = at[c]
                             \/ c = x /\ at[c] = "child" /\ at'[c] = "exit" /\ level = ERROR,
         x \in Children => at'[x] = "exit"
  PROVE  LogInv'
  <1> USE Processes DEF LogInv
  <1>1. /\ call[x].phase = "out" /\ call[x].line \in Nat
        /\ UNCHANGED <<g_logger, log_mutex, stream, disk, admin>>
    BY LogTypes DEF log_write
  <1>2. level < g_logger[ProcessOf(x)].level => call' = call
    BY DEF log_write
  <1>3. ~(level < g_logger[ProcessOf(x)].level) =>
          call' = [call EXCEPT ![x] = [phase |-> "lock", line |-> call[x].line + 1]]
    BY DEF log_write
  <1>4. \/ call' = call
        \/ call' = [call EXCEPT ![x] = [phase |-> "lock", line |-> call[x].line + 1]]
    BY <1>2, <1>3
  <1>5. \A y \in Tasks : y # x => call'[y] = call[y]
    BY <1>4, LogTypes
  <1>6. \/ call'[x] = call[x]
        \/ call'[x] = [phase |-> "lock", line |-> call[x].line + 1]
    BY <1>4, LogTypes
  <1>7. call'[x].phase \in {"out", "lock"} /\ call' \in [Tasks -> CallRecord]
    <2>1. [phase |-> "lock", line |-> call[x].line + 1] \in CallRecord
      BY <1>1 DEF CallRecord, Phases
    <2>2. call \in [Tasks -> CallRecord]
      BY LogTypes
    <2> QED
      BY <1>1, <1>4, <1>6, <2>1, <2>2
  <1>8. \A p \in Procs : log_mutex[p] \in Tasks /\ ProcessOf(log_mutex[p]) = p => log_mutex[p] # x
    <2>1. SUFFICES ASSUME NEW p \in Procs, log_mutex[p] = x, ProcessOf(x) = p
                   PROVE  FALSE
      OBVIOUS
    <2>2. call[x].phase \in Held
      BY <2>1 DEF MutexInv, Procs
    <2> QED
      BY <1>1, <2>2 DEF Held
  <1>9. LogTypeOK'
    BY <1>1, <1>7 DEF LogTypeOK, CallRecord
  <1>10. StreamInv'
    BY <1>1, <1>5, <1>8 DEF StreamInv
  <1>11. MutexInv'
    <2>1. \A y \in Tasks : call'[y].phase \in Held => log_mutex'[ProcessOf(y)] = y
      BY <1>1, <1>5, <1>7 DEF MutexInv, Held
    <2>2. log_mutex'[Main] # Free =>
            ProcessOf(log_mutex'[Main]) = Main /\ call'[log_mutex'[Main]].phase \in Held
      <3>1. SUFFICES ASSUME log_mutex[Main] # Free
                     PROVE  ProcessOf(log_mutex[Main]) = Main /\ call'[log_mutex[Main]].phase \in Held
        BY <1>1
      <3>2. log_mutex[Main] \in Tasks
        BY <3>1, LogTypes
      <3>3. ProcessOf(log_mutex[Main]) = Main /\ call[log_mutex[Main]].phase \in Held
        BY <3>1 DEF MutexInv
      <3> QED
        BY <1>5, <1>8, <3>2, <3>3
    <2>3. ASSUME NEW c \in Children
          PROVE  /\ log_mutex'[c] \in {Free, c} \cup Threads
                 /\ log_mutex'[c] = c => call'[c].phase \in Held
                 /\ at'[c] = "unborn" => log_mutex'[c] = Free
                 /\ at'[c] # "exit" => call'[c].phase = "out"
                 /\ at'[c] = "exit" /\ Hangs(c)' => call'[c].phase = "lock"
      <3>1. log_mutex'[c] = c => call'[c].phase \in Held
        BY <1>1, <1>5, <1>8 DEF MutexInv
      <3>2. at'[c] = "unborn" => log_mutex'[c] = Free
        BY <1>1 DEF MutexInv
      <3>3. at'[c] # "exit" => call'[c].phase = "out"
        BY <1>5 DEF MutexInv
      <3>4. Hangs(c)' <=> Hangs(c)
        BY <1>1 DEF Hangs, ForkedLocked
      <3>5. at'[c] = "exit" /\ Hangs(c)' => call'[c].phase = "lock"
        <4>1. CASE c # x
          BY <1>5, <3>4, <4>1 DEF MutexInv
        <4>2. CASE c = x /\ at'[c] = at[c]
          BY <1>1, <3>4, <4>2 DEF MutexInv
        <4>3. CASE c = x /\ level = ERROR
          <5>1. Hangs(c) => ~(level < g_logger[ProcessOf(x)].level)
            <6>1. g_logger[c].level \in DEBUG..FATAL
              BY LogTypes DEF Logger
            <6> QED
              BY <4>3, <6>1 DEF Hangs, ERROR, DEBUG, FATAL
          <5> QED
            BY <1>3, <3>4, <4>3, <5>1, LogTypes
        <4> QED
          BY <4>1, <4>2, <4>3
      <3> QED
        BY <1>1, <3>1, <3>2, <3>3, <3>5 DEF MutexInv
    <2> QED
      BY <2>1, <2>2, <2>3 DEF MutexInv
  <1>12. TornStays
    BY <1>1 DEF TornStays, Torn, Hangs, ForkedLocked
  <1>13. DoneStays
    <2>1. SUFFICES ASSUME NEW y \in Tasks, NEW n \in Nat, n <= call[y].line,
                          n = call[y].line => call[y].phase \in {"out", "admin"}
                   PROVE  /\ n <= call'[y].line
                          /\ n = call'[y].line => call'[y].phase \in {"out", "admin"}
      BY DEF DoneStays, Done
    <2>2. CASE y # x
      BY <1>5, <2>1, <2>2
    <2>3. CASE y = x
      BY <1>1, <1>6, <2>1, <2>3
    <2> QED
      BY <2>2, <2>3
  <1>14. DiskInv' /\ OnlyExitTears'
    BY <1>1, <1>12, <1>13, DiskKept
  <1> QED
    BY <1>9, <1>10, <1>11, <1>14

\* A step of task x within a line or a configuring call, and what it leaves.
TaskMoves(x, phase, mutex, s, logger) ==
  /\ call' = [call EXCEPT ![x].phase = phase]
  /\ log_mutex' = [log_mutex EXCEPT ![ProcessOf(x)] = mutex]
  /\ stream' = [stream EXCEPT ![ProcessOf(x)] = s]
  /\ g_logger' = [g_logger EXCEPT ![ProcessOf(x)] = logger]

MayMove(x, phase, mutex, s, logger) ==
  /\ x \in Children => at[x] = "exit" /\ logger = g_logger[x]
  /\ log_mutex[ProcessOf(x)] \in {Free, x}
  /\ \/ mutex = x /\ phase \in Held /\ Buffered(x, [call[x] EXCEPT !.phase = phase], s)
     \/ mutex = Free /\ phase = "out" /\ s = <<>>
  /\ s \in Seq(Pieces) /\ Len(s) <= 2
  /\ logger \in Logger
  /\ call[x].phase \in {"out", "admin"} => phase \in {"out", "admin"}

LEMMA TaskStep ==
  ASSUME LogInv, ChildrenStay, NEW x \in Tasks, NEW phase, NEW mutex, NEW s, NEW logger,
         TaskMoves(x, phase, mutex, s, logger), MayMove(x, phase, mutex, s, logger),
         \A w \in DOMAIN disk' : w \in [by : Procs, pieces : Seq(Pieces)],
         admin' \in 0..MaxAdmin
  PROVE  LogTypeOK' /\ MutexInv' /\ StreamInv' /\ TornStays /\ DoneStays
  <1> DEFINE p == ProcessOf(x)
  <1> USE Processes
  <1>1. p \in Procs
    OBVIOUS
  <1>2. /\ \A y \in Tasks : y # x => call'[y] = call[y]
        /\ call'[x] = [call[x] EXCEPT !.phase = phase]
        /\ call'[x].phase = phase /\ call'[x].line = call[x].line
    BY LogTypes DEF LogInv, TaskMoves, CallRecord
  <1>3. /\ \A q \in Procs : q # p => log_mutex'[q] = log_mutex[q] /\ stream'[q] = stream[q]
                                   /\ g_logger'[q] = g_logger[q]
        /\ log_mutex'[p] = mutex /\ stream'[p] = s /\ g_logger'[p] = logger
    BY <1>1, LogTypes DEF LogInv, TaskMoves
  <1>4. mutex \in {x, Free} /\ phase \in Phases /\ (mutex = x <=> phase \in Held)
    BY DEF MayMove, Phases, Held
  <1>5. LogTypeOK'
    <2>1. call' \in [Tasks -> CallRecord]
      <3>1. [call[x] EXCEPT !.phase = phase] \in CallRecord
        BY <1>4, LogTypes DEF LogInv, CallRecord
      <3>2. call \in [Tasks -> CallRecord]
        BY LogTypes DEF LogInv
      <3>3. call' = [call EXCEPT ![x] = [call[x] EXCEPT !.phase = phase]]
        BY DEF TaskMoves
      <3> QED
        BY <3>1, <3>2, <3>3
    <2>2. log_mutex' \in [Procs -> Tasks \cup {Free}]
      BY <1>1, <1>4, LogTypes DEF LogInv, TaskMoves
    <2>3. stream' \in [Procs -> Seq(Pieces)] /\ \A q \in Procs : Len(stream'[q]) <= 2
      BY <1>1, <1>3, LogTypes DEF LogInv, TaskMoves, MayMove
    <2>4. g_logger' \in [Procs -> Logger]
      BY <1>1, LogTypes DEF LogInv, TaskMoves, MayMove
    <2> QED
      BY <2>1, <2>2, <2>3, <2>4 DEF LogTypeOK, CallRecord
  <1>6. \A y \in Tasks : y # x /\ ProcessOf(y) = p => log_mutex[p] # y
    BY DEF MayMove
  <1>7. MutexInv'
    <2>1. \A y \in Tasks : call'[y].phase \in Held => log_mutex'[ProcessOf(y)] = y
      <3>1. SUFFICES ASSUME NEW y \in Tasks, call'[y].phase \in Held
                     PROVE  log_mutex'[ProcessOf(y)] = y
        OBVIOUS
      <3>2. CASE y = x
        BY <1>2, <1>3, <1>4, <3>1, <3>2
      <3>3. CASE y # x
        <4>1. log_mutex[ProcessOf(y)] = y
          BY <1>2, <3>1, <3>3 DEF LogInv, MutexInv
        <4> QED
          BY <1>3, <1>6, <3>3, <4>1
      <3> QED
        BY <3>2, <3>3
    <2>2. log_mutex'[Main] # Free =>
            ProcessOf(log_mutex'[Main]) = Main /\ call'[log_mutex'[Main]].phase \in Held
      <3>1. CASE p = Main
        BY <1>2, <1>3, <1>4, <3>1
      <3>2. CASE p # Main
        <4>1. log_mutex'[Main] = log_mutex[Main] /\ log_mutex[Main] \in Tasks \cup {Free}
          BY <1>3, <3>2, LogTypes DEF LogInv
        <4>2. log_mutex[Main] # Free =>
                ProcessOf(log_mutex[Main]) = Main /\ call[log_mutex[Main]].phase \in Held
          BY DEF LogInv, MutexInv
        <4> QED
          BY <1>2, <3>2, <4>1, <4>2
      <3> QED
        BY <3>1, <3>2
    <2>3. ASSUME NEW c \in Children
          PROVE  /\ log_mutex'[c] \in {Free, c} \cup Threads
                 /\ log_mutex'[c] = c => call'[c].phase \in Held
                 /\ at'[c] = "unborn" => log_mutex'[c] = Free
                 /\ at'[c] # "exit" => call'[c].phase = "out"
                 /\ at'[c] = "exit" /\ Hangs(c)' => call'[c].phase = "lock"
      <3>1. at'[c] = at[c]
        BY DEF ChildrenStay
      <3>2. CASE c = x
        <4>1. p = c /\ at[c] = "exit"
          BY <3>2 DEF MayMove
        <4>2. log_mutex'[c] \in {Free, c}
          BY <1>3, <1>4, <3>2, <4>1
        <4>3. ~Hangs(c)'
          BY <4>2 DEF Hangs, ForkedLocked
        <4> QED
          BY <1>2, <1>3, <1>4, <3>1, <3>2, <4>1, <4>2, <4>3
      <3>3. CASE c # x
        <4>1. p # c
          BY <3>3, Processes DEF ProcessOf
        <4>2. call'[c] = call[c] /\ log_mutex'[c] = log_mutex[c] /\ g_logger'[c] = g_logger[c]
          BY <1>2, <1>3, <3>3, <4>1
        <4>3. Hangs(c)' <=> Hangs(c)
          BY <4>2 DEF Hangs, ForkedLocked
        <4> QED
          BY <3>1, <4>2, <4>3 DEF LogInv, MutexInv
      <3> QED
        BY <3>2, <3>3
    <2> QED
      BY <2>1, <2>2, <2>3 DEF MutexInv
  <1>8. StreamInv'
    <2>1. SUFFICES ASSUME NEW q \in Procs
                   PROVE  /\ log_mutex'[q] = Free => stream'[q] = <<>>
                          /\ log_mutex'[q] \in Tasks /\ ProcessOf(log_mutex'[q]) = q =>
                               Buffered(log_mutex'[q], call'[log_mutex'[q]], stream'[q])
      BY DEF StreamInv
    <2>2. CASE q = p
      BY <1>2, <1>3, <2>2 DEF MayMove
    <2>3. CASE q # p
      BY <1>2, <1>3, <2>3 DEF LogInv, StreamInv
    <2> QED
      BY <2>2, <2>3
  <1>9. TornStays
    <2>1. SUFFICES ASSUME NEW c \in Children, Torn(c)
                   PROVE  Torn(c)'
      BY DEF TornStays
    <2>2. c # p
      BY <2>1, Processes DEF MayMove, Torn, ForkedLocked, ProcessOf
    <2> QED
      BY <1>3, <2>1, <2>2 DEF Torn, Hangs, ForkedLocked
  <1>10. DoneStays
    <2>1. SUFFICES ASSUME NEW y \in Tasks, NEW n \in Nat, n <= call[y].line,
                          n = call[y].line => call[y].phase \in {"out", "admin"}
                   PROVE  /\ n <= call'[y].line
                          /\ n = call'[y].line => call'[y].phase \in {"out", "admin"}
      BY DEF DoneStays, Done
    <2> QED
      BY <1>2, <2>1 DEF MayMove
  <1> QED
    BY <1>5, <1>7, <1>8, <1>9, <1>10

\* When the file does not change, the rest follows.
LEMMA MoveWithoutWrite ==
  ASSUME LogInv, ChildrenStay, NEW x \in Tasks, NEW phase, NEW mutex, NEW s, NEW logger,
         TaskMoves(x, phase, mutex, s, logger), MayMove(x, phase, mutex, s, logger),
         disk' = disk, admin' \in 0..MaxAdmin
  PROVE  LogInv'
  <1>1. LogTypeOK' /\ MutexInv' /\ StreamInv' /\ TornStays /\ DoneStays
    BY TaskStep DEF LogInv, LogTypeOK
  <1>2. DiskInv' /\ OnlyExitTears'
    BY <1>1, DiskKept DEF LogInv
  <1> QED
    BY <1>1, <1>2 DEF LogInv

\* A piece of the line a task is in.
LEMMA PieceType ==
  ASSUME LogInv, NEW x \in Tasks, NEW is \in {"prefix", "text"}
  PROVE  Piece(x, call[x], is) \in Pieces
  BY LogTypes DEF LogInv, Piece, Pieces

\* Who is in a line has the mutex, and the buffer holds what it put there.
LEMMA InLine ==
  ASSUME LogInv, NEW x \in Tasks, call[x].phase \in Held
  PROVE  /\ log_mutex[ProcessOf(x)] = x
         /\ Buffered(x, call[x], stream[ProcessOf(x)])
  BY Processes DEF LogInv, MutexInv, StreamInv

LEMMA LineStep ==
  ASSUME LogInv, ChildrenStay, NEW x \in Tasks, LogSteps(x)
  PROVE  LogInv'
  <1> DEFINE p == ProcessOf(x)
             r == call[x]
  <1>1. /\ p \in Procs /\ g_logger[p] \in Logger /\ stream[p] \in Seq(Pieces) /\ Len(stream[p]) <= 2
        /\ r \in CallRecord /\ r.line \in Nat
    BY Processes, LogTypes DEF LogInv
  <1>2. ASSUME r.phase # "out"
        PROVE  x \in Children => at[x] = "exit" /\ g_logger[p] = g_logger[x]
    BY <1>2, Processes DEF LogInv, MutexInv
  <1>3. ASSUME UNCHANGED g_logger
        PROVE  g_logger' = [g_logger EXCEPT ![p] = g_logger[p]]
    BY <1>1, <1>3, LogTypes DEF LogInv
  <1>4. ASSUME UNCHANGED log_mutex
        PROVE  log_mutex' = [log_mutex EXCEPT ![p] = log_mutex[p]]
    BY <1>1, <1>4, LogTypes DEF LogInv
  <1>5. ASSUME UNCHANGED stream
        PROVE  stream' = [stream EXCEPT ![p] = stream[p]]
    BY <1>1, <1>5, LogTypes DEF LogInv
  <1>6. admin \in 0..MaxAdmin
    BY DEF LogInv, LogTypeOK
  <1>7. <<>> \in Seq(Pieces) /\ Len(<<>>) = 0
    BY EmptySeq
  <1>8. ASSUME NEW phase
        PROVE  /\ [r EXCEPT !.phase = phase].phase = phase
               /\ [r EXCEPT !.phase = phase].line = r.line
               /\ Piece(x, [r EXCEPT !.phase = phase], "prefix") = Piece(x, r, "prefix")
               /\ Piece(x, [r EXCEPT !.phase = phase], "text") = Piece(x, r, "text")
    BY <1>1 DEF CallRecord, Piece
  <1>9. CASE LogLocks(x)
    <2>1. /\ r.phase = "lock" /\ log_mutex[p] = Free
          /\ UNCHANGED <<g_logger, stream, disk, admin>>
      BY <1>9 DEF LogLocks
    <2>2. TaskMoves(x, "prefix", x, stream[p], g_logger[p])
      BY <1>3, <1>5, <1>9, <2>1 DEF LogLocks, TaskMoves
    <2>3. stream[p] = <<>>
      BY <1>1, <2>1 DEF LogInv, StreamInv
    <2>4. MayMove(x, "prefix", x, stream[p], g_logger[p])
      BY <1>1, <1>2, <1>7, <1>8, <2>1, <2>3 DEF MayMove, Held, Buffered
    <2> QED
      BY <1>6, <2>1, <2>2, <2>4, MoveWithoutWrite
  <1>10. CASE LogPrefix(x)
    <2>1. r.phase = "prefix" /\ UNCHANGED <<g_logger, log_mutex, disk, admin>>
      BY <1>10 DEF LogPrefix
    <2>2. log_mutex[p] = x /\ stream[p] = <<>>
      BY <2>1, InLine DEF Held, Buffered
    <2>3. Piece(x, r, "prefix") \in Pieces
      BY PieceType
    <2>4. CASE ToFile(p)
      <3> DEFINE s == <<Piece(x, r, "prefix")>>
      <3>1. call' = [call EXCEPT ![x].phase = "text"] /\ Puts(x, "prefix")
        BY <1>10, <2>4 DEF LogPrefix
      <3>2. stream' = [stream EXCEPT ![p] = s]
        BY <2>2, <3>1, Appended DEF Puts, Piece
      <3>3. s \in Seq(Pieces) /\ Len(s) = 1
        BY <2>3
      <3>4. TaskMoves(x, "text", x, s, g_logger[p])
        BY <1>3, <1>4, <2>1, <2>2, <3>1, <3>2 DEF TaskMoves
      <3>5. MayMove(x, "text", x, s, g_logger[p])
        BY <1>1, <1>2, <1>8, <2>1, <2>2, <3>3 DEF MayMove, Held, Buffered
      <3> QED
        BY <1>6, <2>1, <3>4, <3>5, MoveWithoutWrite
    <2>5. CASE ~ToFile(p)
      <3>1. call' = [call EXCEPT ![x].phase = "unlock"] /\ UNCHANGED stream
        BY <1>10, <2>5 DEF LogPrefix
      <3>2. TaskMoves(x, "unlock", x, stream[p], g_logger[p])
        BY <1>3, <1>4, <1>5, <2>1, <2>2, <3>1 DEF TaskMoves
      <3>3. MayMove(x, "unlock", x, stream[p], g_logger[p])
        BY <1>1, <1>2, <1>7, <1>8, <2>1, <2>2 DEF MayMove, Held, Buffered
      <3> QED
        BY <1>6, <2>1, <3>2, <3>3, MoveWithoutWrite
    <2> QED
      BY <2>4, <2>5
  <1>11. CASE LogText(x)
    <2>1. /\ r.phase = "text" /\ UNCHANGED <<g_logger, log_mutex, disk, admin>>
          /\ call' = [call EXCEPT ![x].phase = "unlock"] /\ Puts(x, "text")
      BY <1>11 DEF LogText
    <2>2. log_mutex[p] = x /\ stream[p] = <<Piece(x, r, "prefix")>>
      BY <2>1, InLine DEF Held, Buffered
    <2> DEFINE s == <<Piece(x, r, "prefix"), Piece(x, r, "text")>>
    <2>3. stream' = [stream EXCEPT ![p] = s]
      BY <2>1, <2>2, Appended DEF Puts, Piece
    <2>4. s \in Seq(Pieces) /\ Len(s) = 2
      <3>1. Piece(x, r, "prefix") \in Pieces /\ Piece(x, r, "text") \in Pieces
        BY PieceType
      <3> QED
        BY <3>1
    <2>5. TaskMoves(x, "unlock", x, s, g_logger[p])
      BY <1>3, <1>4, <2>1, <2>2, <2>3 DEF TaskMoves
    <2>6. MayMove(x, "unlock", x, s, g_logger[p])
      BY <1>1, <1>2, <1>8, <2>1, <2>2, <2>4 DEF MayMove, Held, Buffered
    <2> QED
      BY <1>6, <2>1, <2>5, <2>6, MoveWithoutWrite
  <1>12. CASE LogUnlocks(x)
    <2>1. /\ r.phase = "unlock" /\ UNCHANGED <<g_logger, admin>>
          /\ log_mutex' = [log_mutex EXCEPT ![p] = Free]
          /\ call' = [call EXCEPT ![x].phase = "out"] /\ Flush(p)
      BY <1>12 DEF LogUnlocks
    <2>2. log_mutex[p] = x /\ Buffered(x, r, stream[p])
      BY <2>1, InLine DEF Held
    <2>3. TaskMoves(x, "out", Free, <<>>, g_logger[p])
      BY <1>3, <2>1 DEF TaskMoves, Flush
    <2>4. MayMove(x, "out", Free, <<>>, g_logger[p])
      BY <1>1, <1>2, <1>7, <2>1, <2>2 DEF MayMove
    <2>5. CASE stream[p] = <<>>
      BY <1>6, <2>1, <2>3, <2>4, <2>5, MoveWithoutWrite DEF Flush
    <2>6. CASE stream[p] # <<>>
      <3> DEFINE w == [by |-> p, pieces |-> stream[p]]
      <3>1. disk' = BagAdd(disk, w)
        BY <2>1, <2>6 DEF Flush
      <3>2. w.pieces = <<Piece(x, r, "prefix"), Piece(x, r, "text")>>
        BY <2>1, <2>2, <2>6 DEF Buffered
      <3>3. w \in [by : Procs, pieces : Seq(Pieces)]
        BY <1>1
      <3> HIDE DEF w
      <3>4. \A v \in DOMAIN disk' : v \in [by : Procs, pieces : Seq(Pieces)]
        BY <3>1, <3>3, DiskTyped DEF LogInv
      <3>5. LogTypeOK' /\ MutexInv' /\ StreamInv' /\ TornStays /\ DoneStays
        BY <1>6, <2>1, <2>3, <2>4, <3>4, TaskStep
      <3>6. call'[x].phase = "out" /\ call'[x].line = r.line
        BY <1>8, <2>1, LogTypes DEF LogInv
      <3>7. DiskInv' /\ OnlyExitTears'
        BY <1>1, <2>1, <3>1, <3>2, <3>5, <3>6, DiskLine DEF LogInv
      <3> QED
        BY <3>5, <3>7 DEF LogInv
    <2> QED
      BY <2>5, <2>6
  <1> QED
    BY <1>9, <1>10, <1>11, <1>12 DEF LogSteps

LEMMA ConfiguringStep ==
  ASSUME LogInv, ChildrenStay, NEW x \in Threads, AdminSteps(x)
  PROVE  LogInv'
  <1>1. /\ x \in Tasks /\ x \notin Children /\ ProcessOf(x) = Main /\ Main \in Procs
        /\ g_logger[Main] \in Logger /\ call[x] \in CallRecord
    BY Processes, LogTypes DEF LogInv, Procs
  <1>2. /\ <<>> \in Seq(Pieces) /\ Len(<<>>) = 0
        /\ admin \in 0..MaxAdmin
    BY EmptySeq DEF LogInv, LogTypeOK
  <1>3. stream[Main] = <<>> /\ UNCHANGED stream => stream' = [stream EXCEPT ![Main] = <<>>]
    BY <1>1, LogTypes DEF LogInv
  <1>4. CASE AdminLocks(x)
    <2>1. /\ call[x].phase = "out" /\ admin < MaxAdmin /\ admin' = admin + 1
          /\ log_mutex[Main] = Free /\ log_mutex' = [log_mutex EXCEPT ![Main] = x]
          /\ call' = [call EXCEPT ![x].phase = "admin"]
          /\ UNCHANGED <<g_logger, stream, disk>>
      BY <1>1, <1>4 DEF AdminLocks
    <2>2. stream[Main] = <<>>
      BY <1>1, <2>1 DEF LogInv, StreamInv
    <2>3. g_logger' = [g_logger EXCEPT ![Main] = g_logger[Main]]
      BY <2>1, LogTypes DEF LogInv
    <2>4. TaskMoves(x, "admin", x, <<>>, g_logger[Main])
      BY <1>1, <1>3, <2>1, <2>2, <2>3 DEF TaskMoves
    <2>5. [call[x] EXCEPT !.phase = "admin"].phase = "admin"
      BY <1>1 DEF CallRecord
    <2>6. MayMove(x, "admin", x, <<>>, g_logger[Main])
      BY <1>1, <1>2, <2>1, <2>5 DEF MayMove, Held, Buffered
    <2>7. admin' \in 0..MaxAdmin
      BY <1>2, <2>1, LogAssumption
    <2> QED
      BY <1>1, <2>1, <2>4, <2>6, <2>7, MoveWithoutWrite
  <1>5. ASSUME NEW logger \in Logger, Configure(x, logger), UNCHANGED <<stream, disk>>
        PROVE  LogInv'
    <2>1. /\ call[x].phase = "admin" /\ admin' = admin
          /\ log_mutex' = [log_mutex EXCEPT ![Main] = Free]
          /\ g_logger' = [g_logger EXCEPT ![Main] = logger]
          /\ call' = [call EXCEPT ![x].phase = "out"]
      BY <1>1, <1>5 DEF Configure
    <2>2. log_mutex[Main] = x /\ stream[Main] = <<>>
      BY <1>1, <2>1, InLine DEF Held, Buffered
    <2>3. TaskMoves(x, "out", Free, <<>>, logger)
      BY <1>1, <1>3, <1>5, <2>1, <2>2 DEF TaskMoves
    <2>4. MayMove(x, "out", Free, <<>>, logger)
      BY <1>1, <1>2, <2>1, <2>2 DEF MayMove
    <2> QED
      BY <1>1, <1>2, <1>5, <2>1, <2>3, <2>4, MoveWithoutWrite
  <1> QED
    BY <1>4, <1>5, AdminStep DEF LogInv

\* A fork copies a mutex that is free or held by a thread, and its buffer.
LEMMA ForkStep ==
  ASSUME LogInv, ServerTypeOK, NEW c \in Children, Fork(c)
  PROVE  LogInv'
  <1> USE Processes DEF LogInv
  <1>1. /\ call[Main].phase = "out" /\ at[Main] = "fork" /\ at[c] = "unborn"
        /\ UNCHANGED <<disk, call, admin>>
        /\ g_logger' = [g_logger EXCEPT ![c] = g_logger[Main]]
        /\ log_mutex' = [log_mutex EXCEPT ![c] = log_mutex[Main]]
        /\ stream' = [stream EXCEPT ![c] = stream[Main]]
        /\ at' = [at EXCEPT ![Main] = "parent", ![c] = "child"]
    BY DEF Fork, IsNext
  <1>2. /\ at'[c] = "child"
        /\ \A d \in Children : d # c => at'[d] = at[d]
    BY <1>1 DEF ServerTypeOK
  <1>3. /\ log_mutex'[c] = log_mutex[Main] /\ stream'[c] = stream[Main]
        /\ \A p \in Procs : p # c => /\ log_mutex'[p] = log_mutex[p] /\ stream'[p] = stream[p]
                                     /\ g_logger'[p] = g_logger[p]
    BY <1>1, LogTypes
  <1>4. log_mutex[Main] \in {Free} \cup Threads
    <2>1. SUFFICES ASSUME log_mutex[Main] # Free
                   PROVE  log_mutex[Main] \in Threads
      OBVIOUS
    <2>2. log_mutex[Main] \in Tasks
      BY <2>1, LogTypes
    <2>3. ProcessOf(log_mutex[Main]) = Main /\ call[log_mutex[Main]].phase \in Held
      BY <2>1 DEF MutexInv
    <2>4. log_mutex[Main] # Main
      BY <1>1, <2>3 DEF Held
    <2> QED
      BY <2>2, <2>3, <2>4
  <1>5. call[c].phase = "out" /\ log_mutex[c] = Free
    BY <1>1 DEF MutexInv
  <1>6. LogTypeOK'
    <2>1. g_logger' \in [Procs -> Logger] /\ log_mutex' \in [Procs -> Tasks \cup {Free}]
      BY <1>1, LogTypes
    <2>2. stream' \in [Procs -> Seq(Pieces)] /\ \A p \in Procs : Len(stream'[p]) <= 2
      BY <1>1, <1>3, LogTypes
    <2> QED
      BY <1>1, <2>1, <2>2 DEF LogTypeOK
  <1>7. MutexInv'
    <2>1. ASSUME NEW y \in Tasks, call'[y].phase \in Held
          PROVE  log_mutex'[ProcessOf(y)] = y
      <3>1. ProcessOf(y) \in Procs /\ log_mutex[ProcessOf(y)] = y
        BY <1>1, <2>1 DEF MutexInv
      <3>2. ProcessOf(y) # c
        BY <1>5, <3>1
      <3> QED
        BY <1>3, <3>1, <3>2
    <2>2. log_mutex'[Main] # Free =>
            ProcessOf(log_mutex'[Main]) = Main /\ call'[log_mutex'[Main]].phase \in Held
      BY <1>1, <1>3 DEF MutexInv
    <2>3. ASSUME NEW d \in Children
          PROVE  /\ log_mutex'[d] \in {Free, d} \cup Threads
                 /\ log_mutex'[d] = d => call'[d].phase \in Held
                 /\ at'[d] = "unborn" => log_mutex'[d] = Free
                 /\ at'[d] # "exit" => call'[d].phase = "out"
                 /\ at'[d] = "exit" /\ Hangs(d)' => call'[d].phase = "lock"
      <3>1. CASE d = c
        <4>1. log_mutex'[d] \in {Free} \cup Threads /\ log_mutex'[d] # d
          BY <1>3, <1>4, <3>1
        <4> QED
          BY <1>1, <1>2, <1>5, <3>1, <4>1
      <3>2. CASE d # c
        <4>1. log_mutex'[d] = log_mutex[d] /\ at'[d] = at[d] /\ call'[d] = call[d]
          BY <1>1, <1>2, <1>3, <3>2
        <4>2. Hangs(d)' <=> Hangs(d)
          BY <1>3, <3>2 DEF Hangs, ForkedLocked
        <4> QED
          BY <4>1, <4>2 DEF MutexInv
      <3> QED
        BY <3>1, <3>2
    <2> QED
      BY <2>1, <2>2, <2>3 DEF MutexInv
  <1>8. StreamInv'
    <2>1. SUFFICES ASSUME NEW p \in Procs
                   PROVE  /\ log_mutex'[p] = Free => stream'[p] = <<>>
                          /\ log_mutex'[p] \in Tasks /\ ProcessOf(log_mutex'[p]) = p =>
                               Buffered(log_mutex'[p], call'[log_mutex'[p]], stream'[p])
      BY DEF StreamInv
    <2>2. CASE p = c
      BY <1>3, <1>4, <2>2 DEF StreamInv
    <2>3. CASE p # c
      BY <1>1, <1>3, <2>3 DEF StreamInv
    <2> QED
      BY <2>2, <2>3
  <1>9. TornStays
    <2>1. SUFFICES ASSUME NEW d \in Children, Torn(d)
                   PROVE  Torn(d)'
      BY DEF TornStays
    <2>2. d # c
      BY <1>5, <2>1, LogAssumption DEF Torn, ForkedLocked, Tasks
    <2> QED
      BY <1>3, <2>1, <2>2 DEF Torn, Hangs, ForkedLocked
  <1>10. DoneStays
    BY <1>1 DEF DoneStays, Done
  <1>11. DiskInv' /\ OnlyExitTears'
    BY <1>1, <1>9, <1>10, DiskKept
  <1> QED
    BY <1>6, <1>7, <1>8, <1>11

\* What exit writes was in the buffer at the fork, or there is nothing.
LEMMA ExitStep ==
  ASSUME LogInv, ServerTypeOK, NEW c \in Children, ChildExits(c)
  PROVE  LogInv'
  <1> USE Processes DEF LogInv
  <1>1. /\ call[c].phase = "out" /\ at[c] = "exit"
        /\ UNCHANGED <<g_logger, log_mutex, call, admin>>
        /\ stream' = [stream EXCEPT ![c] = <<>>]
        /\ disk' = IF stream[c] = <<>> THEN disk ELSE BagAdd(disk, [by |-> c, pieces |-> stream[c]])
        /\ at' = [at EXCEPT ![c] = "exited"]
    BY DEF ChildExits, Flush, Ends, Goes
  <1>2. /\ at'[c] = "exited"
        /\ \A d \in Children : d # c => at'[d] = at[d]
    BY <1>1 DEF ServerTypeOK
  <1>3. /\ stream'[c] = <<>>
        /\ \A p \in Procs : p # c => stream'[p] = stream[p]
    BY <1>1, LogTypes
  <1>4. ~Hangs(c) /\ log_mutex[c] \in {Free} \cup Threads
    BY <1>1 DEF MutexInv, Held
  <1>5. stream[c] # <<>> => Torn(c)
    BY <1>4 DEF Torn, ForkedLocked, StreamInv
  <1>6. \A d \in Children : (Hangs(d)' <=> Hangs(d)) /\ (Torn(d)' <=> Torn(d))
    BY <1>1 DEF Torn, Hangs, ForkedLocked
  <1>7. TornStays /\ DoneStays
    <2>1. TornStays
      BY <1>6 DEF TornStays
    <2>2. DoneStays
      BY <1>1 DEF DoneStays, Done
    <2> QED
      BY <2>1, <2>2
  <1>8. MutexInv'
    <2>1. ASSUME NEW d \in Children
          PROVE  /\ log_mutex'[d] \in {Free, d} \cup Threads
                 /\ log_mutex'[d] = d => call'[d].phase \in Held
                 /\ at'[d] = "unborn" => log_mutex'[d] = Free
                 /\ at'[d] # "exit" => call'[d].phase = "out"
                 /\ at'[d] = "exit" /\ Hangs(d)' => call'[d].phase = "lock"
      <3>1. CASE d = c
        BY <1>1, <1>2, <3>1 DEF MutexInv
      <3>2. CASE d # c
        BY <1>1, <1>2, <1>6, <3>2 DEF MutexInv
      <3> QED
        BY <3>1, <3>2
    <2> QED
      BY <1>1, <2>1 DEF MutexInv
  <1>9. StreamInv'
    <2>1. SUFFICES ASSUME NEW p \in Procs
                   PROVE  /\ log_mutex'[p] = Free => stream'[p] = <<>>
                          /\ log_mutex'[p] \in Tasks /\ ProcessOf(log_mutex'[p]) = p =>
                               Buffered(log_mutex'[p], call'[log_mutex'[p]], stream'[p])
      BY DEF StreamInv
    <2>2. CASE p = c
      BY <1>1, <1>3, <1>4, <2>2 DEF StreamInv
    <2>3. CASE p # c
      BY <1>1, <1>3, <2>3 DEF StreamInv
    <2> QED
      BY <2>2, <2>3
  <1>10. /\ \A v \in DOMAIN disk' : v \in [by : Procs, pieces : Seq(Pieces)]
         /\ DiskInv' /\ OnlyExitTears'
    <2>1. CASE stream[c] = <<>>
      <3>1. disk' = disk
        BY <1>1, <2>1
      <3> QED
        BY <1>7, <3>1, DiskKept DEF LogTypeOK
    <2>2. CASE stream[c] # <<>>
      <3> DEFINE w == [by |-> c, pieces |-> stream[c]]
      <3>1. disk' = BagAdd(disk, w) /\ Torn(w.by)
        BY <1>1, <1>5, <2>2
      <3>2. w \in [by : Procs, pieces : Seq(Pieces)]
        BY LogTypes
      <3> HIDE DEF w
      <3> QED
        BY <1>7, <3>1, <3>2, DiskTorn, DiskTyped
    <2> QED
      BY <2>1, <2>2
  <1>11. LogTypeOK'
    <2>1. stream' \in [Procs -> Seq(Pieces)] /\ \A p \in Procs : Len(stream'[p]) <= 2
      <3>1. <<>> \in Seq(Pieces) /\ Len(<<>>) = 0
        BY EmptySeq
      <3> QED
        BY <1>1, <1>3, <3>1, LogTypes
    <2> QED
      BY <1>1, <1>10, <2>1 DEF LogTypeOK
  <1> QED
    BY <1>8, <1>9, <1>10, <1>11

LEMMA StartStep ==
  ASSUME LogInv, ServerTypeOK, NEW c \in Children, ChildStarts(c)
  PROVE  LogInv'
  <1>1. log_write(c, ERROR) /\ at[c] = "child" /\ at' = [at EXCEPT ![c] = "exit"]
    BY DEF ChildStarts, Goes
  <1>2. at'[c] = "exit" /\ \A d \in Children : d # c => at'[d] = at[d]
    BY <1>1, Processes DEF ServerTypeOK
  <1>3. c \in Tasks /\ ERROR \in DEBUG..FATAL
    BY Processes DEF DEBUG, ERROR, FATAL
  <1>4. \A d \in Children :
          \/ at'[d] = at[d]
          \/ d = c /\ at[d] = "child" /\ at'[d] = "exit" /\ ERROR = ERROR
    BY <1>1, <1>2
  <1> QED
    BY <1>1, <1>2, <1>3, <1>4, WriteStep

LEMMA LogNext ==
  ASSUME LogInv, ServerTypeOK, [Next]_vars
  PROVE  LogInv'
  <1>1. CASE UNCHANGED logVars /\ ChildrenStay
    BY <1>1, QuietStep
  <1>2. ASSUME NEW x \in Threads \cup {Main}, NEW level \in DEBUG..FATAL,
               log_write(x, level), ChildrenStay
        PROVE  LogInv'
    <2>1. x \in Tasks /\ x \notin Children
      BY Processes
    <2> QED
      BY <1>2, <2>1, WriteStep DEF ChildrenStay
  <1>3. ASSUME NEW x \in Tasks, LogSteps(x), ChildrenStay
        PROVE  LogInv'
    BY <1>3, LineStep
  <1>4. ASSUME NEW x \in Threads, AdminSteps(x), ChildrenStay
        PROVE  LogInv'
    BY <1>4, ConfiguringStep
  <1>5. ASSUME NEW c \in Children, Fork(c) \/ ChildStarts(c) \/ ChildExits(c)
        PROVE  LogInv'
    BY <1>5, ForkStep, StartStep, ExitStep
  <1> QED
    BY <1>1, <1>2, <1>3, <1>4, <1>5, LoggerSteps

-----------------------------------------------------------------------------
(* What follows for every run.                                             *)

LEMMA TypesSplit == TypeOK <=> LogTypeOK /\ ServerTypeOK
  BY DEF TypeOK, ServerTypeOK

LEMMA Initially == Init => IInv
  <1> SUFFICES ASSUME Init PROVE IInv
    OBVIOUS
  <1> USE Processes, LogAssumption, ForkAssumption DEF Init, LogInit
  <1>1. ServerTypeOK
    BY DEF ServerTypeOK
  <1>2. LogTypeOK
    <2>1. g_logger \in [Procs -> Logger]
      <3>1. [file |-> FALSE, level |-> INFO, console_output |-> TRUE, file_output |-> TRUE] \in Logger
        BY DEF Logger, INFO, DEBUG, FATAL
      <3> QED
        BY <3>1
    <2>2. stream \in [Procs -> Seq(Pieces)] /\ \A p \in Procs : Len(stream[p]) <= 2
      <3>1. <<>> \in Seq(Pieces) /\ Len(<<>>) = 0
        BY EmptySeq
      <3> QED
        BY <3>1
    <2>3. DOMAIN disk = {}
      OBVIOUS
    <2>4. call \in [Tasks -> [phase : Phases, line : Nat]]
      BY DEF Phases
    <2>5. log_mutex \in [Procs -> Tasks \cup {Free}]
      OBVIOUS
    <2>6. admin \in 0..MaxAdmin
      OBVIOUS
    <2> QED
      BY <2>1, <2>2, <2>3, <2>4, <2>5, <2>6 DEF LogTypeOK
  <1>3. PlaceInv
    <2>1. at[Main] = "accept" /\ \A c \in Children : at[c] = "unborn"
      OBVIOUS
    <2>2. \A k \in Clients : holders[k] = {}
      OBVIOUS
    <2>3. \A c \in Children : c \notin listening
      OBVIOUS
    <2> QED
      BY <2>1, <2>2, <2>3 DEF PlaceInv
  <1>4. ApartInv
    BY DEF ApartInv
  <1>5. \A x \in Tasks : call[x].phase = "out"
    OBVIOUS
  <1>6. \A p \in Procs : log_mutex[p] = Free /\ stream[p] = <<>>
    OBVIOUS
  <1>7. \A c \in Children : at[c] = "unborn"
    OBVIOUS
  <1>8. MutexInv
    BY <1>5, <1>6, <1>7 DEF MutexInv, Held
  <1>9. StreamInv
    BY <1>6 DEF StreamInv
  <1>10. DOMAIN disk = {}
    OBVIOUS
  <1>11. DiskInv /\ OnlyExitTears
    BY <1>10 DEF DiskInv, OnlyExitTears
  <1> QED
    BY <1>1, <1>2, <1>3, <1>4, <1>8, <1>9, <1>11, TypesSplit DEF IInv

LEMMA Invariance == Spec => []IInv
  <1>1. ASSUME IInv, [Next]_vars
        PROVE  IInv'
    <2>1. LogInv /\ ServerTypeOK /\ PlaceInv /\ ApartInv
      BY <1>1, TypesSplit DEF IInv, LogInv
    <2>2. LogInv'
      BY <1>1, <2>1, LogNext
    <2>3. ServerTypeOK' /\ PlaceInv' /\ ApartInv'
      BY <1>1, <2>1, ServerTypeNext, PlaceNext
    <2>4. TypeOK'
      BY <2>2, <2>3 DEF TypeOK, ServerTypeOK, LogInv
    <2> QED
      BY <2>2, <2>3, <2>4 DEF IInv, LogInv
  <1> QED
    BY <1>1, Initially, PTL DEF Spec

\* Every variable keeps its type, and no FILE buffer ever has more than one
\* line in it, forked copies included.
THEOREM TypeCorrect == Spec => []TypeOK
  <1>1. IInv => TypeOK
    BY DEF IInv
  <1> QED
    BY <1>1, Invariance, PTL

\* However many threads log and configure while however many children are
\* forked: every write of the log file is one whole line, once, but for what
\* exit flushes in a child that was forked within a line of a thread.
THEOREM LinesAreWhole == Spec => []OnlyExitTears
  <1>1. IInv => OnlyExitTears
    BY DEF IInv
  <1> QED
    BY <1>1, Invariance, PTL

\* The parent has open at most the last connection, and that only until it
\* accepts again; a connection is never open in two children, nor are two in
\* one child.
THEOREM OneChildPerClient == Spec => []ClientsApart
  <1>1. ASSUME IInv
        PROVE  ClientsApart
    BY <1>1 DEF IInv, PlaceInv, ApartInv, ClientsApart
  <1> QED
    BY <1>1, Invariance, PTL

\* A child that waits for a mutex nobody in it will give back has closed the
\* listening socket, and has its connection open.
THEOREM HungLetsBind == Spec => []HungOffListener
  <1>1. ASSUME IInv
        PROVE  HungOffListener
    BY <1>1 DEF IInv, HungOffListener, PlaceInv, MutexInv
  <1> QED
    BY <1>1, Invariance, PTL
=============================================================================
