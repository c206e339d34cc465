----------------------------- MODULE QuekkaLog ------------------------------
(***************************************************************************)
(* The logger of src/quekka/Quekka_log.c in a process that may have        *)
(* forked: every process has its own g_logger, log_mutex and FILE buffer,  *)
(* and all of them append to one log file.  A line is two pieces, the      *)
(* prefix and the text; the console gets no model of its own.              *)
(*                                                                         *)
(* The parent's tasks are Main and Threads; a child has one task, itself.  *)
(***************************************************************************)
EXTENDS Naturals, Sequences, BagsExt

CONSTANTS
  Threads,   \* the tasks of the parent but for the one that forks
  MaxChildren, \* the processes that may be forked
  Free,      \* log_mutex of a process nobody of which holds it
  SetLevels, \* the levels given to logger_set_level
  MaxLines,  \* bound on the lines a task logs by its own choice
  MaxAdmin   \* bound on the calls that configure the logger

VARIABLES
  g_logger,  \* the logger of each process
  log_mutex, \* who holds the mutex, in each process
  stream,    \* pieces in the FILE buffer of each process
  disk,      \* the log file: a bag of writes, each with the process that made it
  call,      \* where each task is in its call of the logger, and how many lines it logged
  admin      \* calls that configured the logger so far

\* Processes in the order they are created; Main is the parent, and its task
\* that forks.
Main == 0
Children == 1..MaxChildren
Procs == {Main} \cup Children
Tasks == Procs \cup Threads

\* LogLevel
DEBUG == 0
INFO  == 1
ERROR == 3
FATAL == 4

ASSUME LogAssumption ==
  /\ MaxChildren \in Nat /\ MaxLines \in Nat /\ MaxAdmin \in Nat
  /\ Threads \cap Procs = {} /\ Free \notin Tasks
  /\ SetLevels \subseteq DEBUG..FATAL

logVars == <<g_logger, log_mutex, stream, disk, call, admin>>

ProcessOf(x) == IF x \in Threads THEN Main ELSE x

Logger == [file : BOOLEAN, level : DEBUG..FATAL, console_output : BOOLEAN, file_output : BOOLEAN]

LogInit ==
  /\ g_logger = [p \in Procs |-> [file |-> FALSE, level |-> INFO,
                                  console_output |-> TRUE, file_output |-> TRUE]]
  /\ log_mutex = [p \in Procs |-> Free]
  /\ stream = [p \in Procs |-> <<>>]
  /\ disk = << >>
  /\ call = [x \in Tasks |-> [phase |-> "out", line |-> 0]]
  /\ admin = 0

\* What is buffered goes to the file in one write.
Flush(p) ==
  /\ stream' = [stream EXCEPT ![p] = <<>>]
  /\ disk' = IF stream[p] = <<>> THEN disk ELSE BagAdd(disk, [by |-> p, pieces |-> stream[p]])

-----------------------------------------------------------------------------
(* log_write, whose caller goes on when its phase is "out" again.          *)

\* The level is read without the mutex.
log_write(x, level) ==
  /\ call[x].phase = "out"
  /\ call' = IF level < g_logger[ProcessOf(x)].level THEN call
             ELSE [call EXCEPT ![x] = [phase |-> "lock", line |-> @.line + 1]]
  /\ UNCHANGED <<g_logger, log_mutex, stream, disk, admin>>

LogLocks(x) ==
  /\ call[x].phase = "lock"
  /\ log_mutex[ProcessOf(x)] = Free
  /\ log_mutex' = [log_mutex EXCEPT ![ProcessOf(x)] = x]
  /\ call' = [call EXCEPT ![x].phase = "prefix"]
  /\ UNCHANGED <<g_logger, stream, disk, admin>>

ToFile(p) == g_logger[p].file_output /\ g_logger[p].file

Puts(x, piece) ==
  stream' = [stream EXCEPT ![ProcessOf(x)] = Append(@, [of |-> <<x, call[x].line>>, is |-> piece])]

LogPrefix(x) ==
  /\ call[x].phase = "prefix"
  /\ IF ToFile(ProcessOf(x))
     THEN Puts(x, "prefix") /\ call' = [call EXCEPT ![x].phase = "text"]
     ELSE call' = [call EXCEPT ![x].phase = "unlock"] /\ UNCHANGED stream
  /\ UNCHANGED <<g_logger, log_mutex, disk, admin>>

\* With console output on, args was already used up: what a line with
\* arguments prints is undefined ("text" is whatever came out), and so is
\* whether the process survives it (see Crash of ForkServer).
ArgsUsedUp(x) == x \notin Children /\ g_logger[ProcessOf(x)].console_output

LogText(x) ==
  /\ call[x].phase = "text"
  /\ Puts(x, "text")
  /\ call' = [call EXCEPT ![x].phase = "unlock"]
  /\ UNCHANGED <<g_logger, log_mutex, disk, admin>>

\* Mutant: without fflush.
NotFlushed(x) ==
  /\ call[x].phase = "unlock"
  /\ log_mutex' = [log_mutex EXCEPT ![ProcessOf(x)] = Free]
  /\ call' = [call EXCEPT ![x].phase = "out"]
  /\ UNCHANGED <<g_logger, stream, disk, admin>>

\* fflush and unlock.
LogUnlocks(x) ==
  /\ call[x].phase = "unlock"
  /\ Flush(ProcessOf(x))
  /\ log_mutex' = [log_mutex EXCEPT ![ProcessOf(x)] = Free]
  /\ call' = [call EXCEPT ![x].phase = "out"]
  /\ UNCHANGED <<g_logger, admin>>

LogSteps(x) == LogLocks(x) \/ LogPrefix(x) \/ LogText(x) \/ LogUnlocks(x)

-----------------------------------------------------------------------------
(* The functions that configure the logger, each under the mutex.          *)

AdminLocks(x) ==
  /\ call[x].phase = "out"
  /\ admin < MaxAdmin
  /\ log_mutex[ProcessOf(x)] = Free
  /\ log_mutex' = [log_mutex EXCEPT ![ProcessOf(x)] = x]
  /\ call' = [call EXCEPT ![x].phase = "admin"]
  /\ admin' = admin + 1
  /\ UNCHANGED <<g_logger, stream, disk>>

Configure(x, logger) ==
  /\ call[x].phase = "admin"
  /\ g_logger' = [g_logger EXCEPT ![ProcessOf(x)] = logger]
  /\ log_mutex' = [log_mutex EXCEPT ![ProcessOf(x)] = Free]
  /\ call' = [call EXCEPT ![x].phase = "out"]
  /\ UNCHANGED admin

\* Closes the open file, which flushes it, and opens the new one if a name is
\* given.  When that fails file_output goes off, and no later call of
\* logger_init turns it on again.
logger_init(x, name, level) ==
  LET old == g_logger[ProcessOf(x)]
  IN  /\ Configure(x, CASE name = "none"  -> [old EXCEPT !.file = FALSE, !.level = level]
                        [] name = "opens" -> [old EXCEPT !.file = TRUE, !.level = level]
                        [] name = "fails" -> [old EXCEPT !.file = FALSE, !.level = level,
                                                         !.file_output = FALSE])
      /\ IF old.file THEN Flush(ProcessOf(x)) ELSE UNCHANGED <<stream, disk>>

logger_set_level(x, level) ==
  Configure(x, [g_logger[ProcessOf(x)] EXCEPT !.level = level]) /\ UNCHANGED <<stream, disk>>

logger_enable_console(x, enable) ==
  Configure(x, [g_logger[ProcessOf(x)] EXCEPT !.console_output = enable]) /\ UNCHANGED <<stream, disk>>

logger_enable_file(x, enable) ==
  Configure(x, [g_logger[ProcessOf(x)] EXCEPT !.file_output = enable]) /\ UNCHANGED <<stream, disk>>

logger_close(x) ==
  /\ Configure(x, [g_logger[ProcessOf(x)] EXCEPT !.file = FALSE])
  /\ IF g_logger[ProcessOf(x)].file THEN Flush(ProcessOf(x)) ELSE UNCHANGED <<stream, disk>>

AdminSteps(x) ==
  \/ AdminLocks(x)
  \/ \E name \in {"none", "opens", "fails"} : logger_init(x, name, INFO)
  \/ \E level \in SetLevels : logger_set_level(x, level)
  \/ logger_enable_console(x, ~g_logger[ProcessOf(x)].console_output)
  \/ logger_enable_file(x, ~g_logger[ProcessOf(x)].file_output)
  \/ logger_close(x)

\* A thread of the parent: logs lines and configures the logger.
ThreadSteps(x) ==
  \/ call[x].line < MaxLines /\ \E level \in {INFO, FATAL} : log_write(x, level)
  \/ LogSteps(x)
  \/ AdminSteps(x)

-----------------------------------------------------------------------------

Phases == {"out", "lock", "prefix", "text", "unlock", "admin"}

Pieces == [of : Tasks \X Nat, is : {"prefix", "text"}]

\* Besides its types: a FILE buffer has at most one line in it.
LogTypeOK ==
  /\ g_logger \in [Procs -> Logger]
  /\ log_mutex \in [Procs -> Tasks \cup {Free}]
  /\ stream \in [Procs -> Seq(Pieces)] /\ \A p \in Procs : Len(stream[p]) <= 2
  /\ \A w \in DOMAIN disk : w \in [by : Procs, pieces : Seq(Pieces)]
  /\ call \in [Tasks -> [phase : Phases, line : Nat]]
  /\ admin \in 0..MaxAdmin
=============================================================================
