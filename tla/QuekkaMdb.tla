----------------------------- MODULE QuekkaMdb ------------------------------
(***************************************************************************)
(* The in-memory tables of include/quekka/Quekka_mdb.hpp: named tables of  *)
(* rows, each with an optional callback that is told of every change.  The *)
(* callback of a change runs in a detached thread of its own, and the call *)
(* returns a future of it, which the caller may wait for or throw away.    *)
(*                                                                         *)
(* The listener behind a callback is external: it keeps a copy of the      *)
(* table and does with it what each call of the callback says.             *)
(***************************************************************************)
EXTENDS Naturals, Sequences

CONSTANTS
  Names,      \* names of tables
  Keys,
  Values,     \* values of rows
  Default,    \* value_type{}
  Absent,     \* a key without a row
  Faults,     \* "thread": std::thread may throw
  MaxTables,  \* bound on the tables ever created
  MaxChanges  \* bound on the changes made

ASSUME MdbAssumption ==
  /\ Default \in Values /\ Absent \notin Values
  /\ MaxTables \in Nat /\ MaxChanges \in Nat

VARIABLES
  waits,   \* whether the caller waits for each future before its next call
  objects, \* the table objects ever created, in order
  _tables, \* the object a name stands for, or 0
  changes, \* the changes ever made, in order, each with the state of its callback
  waiting, \* the change whose future the caller waits for, or 0
  copy     \* the copy each object's listener keeps

vars == <<waits, objects, _tables, changes, waiting, copy>>

Record == [Keys -> Values \cup {Absent}]

Empty == [k \in Keys |-> Absent]

Init ==
  /\ waits \in BOOLEAN
  /\ objects = <<>>
  /\ _tables = [n \in Names |-> 0]
  /\ changes = <<>>
  /\ waiting = 0
  /\ copy = [t \in 1..MaxTables |-> Empty]

-----------------------------------------------------------------------------
(* The caller: one thread, the tables have no lock.                        *)

\* getTable of a new name.  Of a name there is, it changes nothing: it returns
\* the table, the new callback ignored, or throws if the RecordType differs.
getTable(n, hasCallback) ==
  /\ waiting = 0
  /\ _tables[n] = 0
  /\ Len(objects) < MaxTables
  /\ objects' = Append(objects, [callback |-> hasCallback, record |-> Empty])
  /\ _tables' = [_tables EXCEPT ![n] = Len(objects')]
  /\ UNCHANGED <<changes, waiting, copy>>

\* The object is freed; the tasks of its callbacks own copies of what they use.
dropTable(n) ==
  /\ waiting = 0
  /\ _tables[n] # 0
  /\ _tables' = [_tables EXCEPT ![n] = 0]
  /\ UNCHANGED <<objects, changes, waiting, copy>>

\* Without a callback the future is ready; otherwise a thread is started,
\* unless std::thread throws.
dispatch_callback_async(t, k, op, before, after) ==
  \E callback \in (IF ~objects[t].callback THEN {"none"}
                   ELSE {"started"} \cup (IF "thread" \in Faults THEN {"failed"} ELSE {})) :
    /\ changes' = Append(changes, [table |-> t, key |-> k, op |-> op, before |-> before,
                                   after |-> after, callback |-> callback])
    /\ waiting' = IF waits /\ callback = "started" THEN Len(changes') ELSE 0

\* A call on the table a name stands for.
Call(n, t) ==
  /\ waiting = 0
  /\ _tables[n] # 0
  /\ t = _tables[n]
  /\ Len(changes) < MaxChanges
  /\ UNCHANGED <<_tables, copy>>

SetRow(t, k, v) == objects' = [objects EXCEPT ![t].record[k] = v]

\* Mutants of upsert: before is read where there is no row; before is read
\* after the assignment.
UpsertReadsNoRow(n, k, v) ==
  \E t \in DOMAIN objects :
    LET old == objects[t].record[k]
    IN  /\ Call(n, t)
        /\ SetRow(t, k, v)
        /\ dispatch_callback_async(t, k, IF old = Absent THEN "CREATE" ELSE "UPDATE", old, v)
UpsertReadsLate(n, k, v) ==
  \E t \in DOMAIN objects :
    /\ Call(n, t)
    /\ SetRow(t, k, v)
    /\ IF objects[t].record[k] = Absent
       THEN dispatch_callback_async(t, k, "CREATE", Default, v)
       ELSE dispatch_callback_async(t, k, "UPDATE", v, v)

upsert(n, k, v) ==
  \E t \in DOMAIN objects :
    LET old == objects[t].record[k]
    IN  /\ Call(n, t)
        /\ SetRow(t, k, v)
        /\ \/ old = Absent /\ dispatch_callback_async(t, k, "CREATE", Default, v)
           \/ old # Absent /\ dispatch_callback_async(t, k, "UPDATE", old, v)

\* Of a key without a row, erase changes nothing and the future is ready.
erase(n, k) ==
  \E t \in DOMAIN objects :
    LET old == objects[t].record[k]
    IN  /\ Call(n, t)
        /\ old # Absent
        /\ SetRow(t, k, Absent)
        /\ dispatch_callback_async(t, k, "DELETE", old, Default)

-----------------------------------------------------------------------------
(* The detached threads.                                                   *)

\* The row a callback says the key has now.
Told(c) == IF c.op = "DELETE" THEN Absent ELSE c.after

RunCallback(i) ==
  LET c == changes[i]
  IN  /\ c.callback = "started"
      /\ changes' = [changes EXCEPT ![i].callback = "called"]
      /\ copy' = [copy EXCEPT ![c.table][c.key] = Told(c)]
      /\ UNCHANGED <<objects, _tables, waiting>>

\* Mutant of FutureReady: the future does not wait for the callback.
ReadyAtOnce(i) ==
  /\ changes[i].callback \in {"started", "called"}
  /\ waiting = i
  /\ waiting' = 0
  /\ UNCHANGED <<objects, _tables, changes, copy>>

\* packaged_task makes the future ready when the callback has returned.
FutureReady(i) ==
  /\ changes[i].callback = "called"
  /\ changes' = [changes EXCEPT ![i].callback = "done"]
  /\ waiting' = IF waiting = i THEN 0 ELSE waiting
  /\ UNCHANGED <<objects, _tables, copy>>

Caller ==
  \E n \in Names :
    \/ \E hasCallback \in BOOLEAN : getTable(n, hasCallback)
    \/ dropTable(n)
    \/ \E k \in Keys, v \in Values : upsert(n, k, v)
    \/ \E k \in Keys : erase(n, k)

Next ==
  /\ Caller \/ \E i \in DOMAIN changes : RunCallback(i) \/ FutureReady(i)
  /\ UNCHANGED waits

Spec == Init /\ [][Next]_vars

-----------------------------------------------------------------------------
(* What the tables promise.                                                *)

CallbackStates == {"none", "failed", "started", "called", "done"}

Object == [callback : BOOLEAN, record : Record]

Change == [table : DOMAIN objects, key : Keys, op : {"CREATE", "UPDATE", "DELETE"},
           before : Values, after : Values, callback : CallbackStates]

TypeOK ==
  /\ waits \in BOOLEAN
  /\ objects \in Seq(Object) /\ Len(objects) <= MaxTables
  /\ _tables \in [Names -> 0..Len(objects)]
  /\ changes \in Seq(Change)
  /\ waiting \in 0..Len(changes)
  /\ copy \in [1..MaxTables -> Record]

\* The values and operations the callbacks of one key are given form a chain:
\* each starts from what the one before it left, CREATE from no row.  This
\* holds in the order of the changes, whatever order the threads run in.
KeyChain ==
  \A j \in DOMAIN changes :
    LET b == changes[j]
        Earlier == {i \in 1..(j - 1) : changes[i].table = b.table /\ changes[i].key = b.key}
        now == IF Earlier = {} THEN Absent
               ELSE Told(changes[CHOOSE i \in Earlier : \A h \in Earlier : h <= i])
    IN  IF b.op = "CREATE" THEN now = Absent /\ b.before = Default
        ELSE b.before = now

\* The tables a change of which was made but not told: std::thread threw.
Missed == {changes[i].table : i \in {j \in DOMAIN changes : changes[j].callback = "failed"}}

\* A caller that has waited for the future of its last call finds the copy of
\* each listener equal to its table, unless a call threw.
FutureMeansHeard ==
  waits /\ waiting = 0 =>
    \A t \in DOMAIN objects \ Missed : objects[t].callback => copy[t] = objects[t].record

\* The row the key had before the change.
Was(c) == IF c.op = "CREATE" THEN Absent ELSE c.before

\* The changes of table t whose callback has not run yet.
Unheard(t) == {i \in DOMAIN changes : changes[i].table = t /\ changes[i].callback = "started"}

\* What ChangeFeed says of the tables that are there, and of the others.
Rows == [t \in 1..MaxTables |-> IF t \in DOMAIN objects THEN objects[t].record ELSE Empty]

Listened == {t \in DOMAIN objects : objects[t].callback}

News == [t \in 1..MaxTables |->
          {[n |-> i, key |-> changes[i].key, before |-> Was(changes[i]),
            after |-> Told(changes[i])] : i \in Unheard(t)}]

\* The tables are a ChangeFeed: a change that did not throw is heard at most
\* once, with the values it had when it was made, also after dropTable; in
\* order, and fitting the copy, if the caller waits.
Feed == INSTANCE ChangeFeed WITH
  Tables   <- 1..MaxTables,
  ordered  <- waits,
  rows     <- Rows,
  listened <- Listened,
  missed   <- Missed,
  made     <- Len(changes),
  feed     <- News

ImplementsFeed == Feed!Spec
=============================================================================
