----------------------------- MODULE ChangeFeed -----------------------------
(***************************************************************************)
(* What Quekka_mdb promises: the listener of a table hears of every change *)
(* that did not fail at most once, with the values of that change, also    *)
(* after the table was dropped.  A caller that waits for the future of     *)
(* every call has it hear them in order: a copy it keeps is then the table *)
(* but for the change on its way.                                          *)
(***************************************************************************)
EXTENDS Naturals

CONSTANTS
  Tables, \* the tables there may ever be
  Keys,
  Values,
  Absent  \* what a key without a row has

VARIABLES
  ordered,  \* whether the caller waits for each future
  rows,     \* rows[t][k]: the value of key k in table t
  listened, \* the tables with a listener
  missed,   \* those whose listener was not told of a change
  made,     \* how many changes were made: a change has the next number
  feed,     \* feed[t]: changes its listener has not heard
  copy      \* the copy of t its listener keeps

vars == <<ordered, rows, listened, missed, made, feed, copy>>

Empty == [k \in Keys |-> Absent]

Init ==
  /\ ordered \in BOOLEAN
  /\ rows = [t \in Tables |-> Empty]
  /\ listened = {} /\ missed = {}
  /\ made = 0
  /\ feed = [t \in Tables |-> {}]
  /\ copy = [t \in Tables |-> Empty]

\* A listener comes with an empty table, or not at all.
Listen(t) ==
  /\ rows[t] = Empty
  /\ listened' = listened \cup {t}
  /\ UNCHANGED <<rows, missed, made, feed, copy>>

\* The listener is going to hear of the change, unless telling it fails.
Change(t, k, v) ==
  /\ rows' = [rows EXCEPT ![t][k] = v]
  /\ made' = made + 1
  /\ \/ t \in listened /\ missed' = missed
        /\ feed' = [feed EXCEPT ![t] = @ \cup
             {[n |-> made', key |-> k, before |-> rows[t][k], after |-> v]}]
     \/ missed' = missed \cup (listened \cap {t}) /\ UNCHANGED feed
  /\ UNCHANGED <<listened, copy>>

\* The listener hears a change: the oldest, which fits the copy, if ordered.
Hear(t) ==
  \E c \in feed[t] :
    /\ ordered => /\ \A d \in feed[t] : c.n <= d.n
                  /\ t \notin missed => copy[t][c.key] = c.before
    /\ copy' = [copy EXCEPT ![t][c.key] = c.after]
    /\ feed' = [feed EXCEPT ![t] = @ \ {c}]
    /\ UNCHANGED <<rows, listened, missed, made>>

Next ==
  /\ \E t \in Tables :
       \/ Listen(t)
       \/ \E k \in Keys, v \in Values \cup {Absent} : Change(t, k, v)
       \/ Hear(t)
  /\ UNCHANGED ordered

Spec == Init /\ [][Next]_vars
=============================================================================
