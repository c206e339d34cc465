--------------------------- MODULE QuekkaMdbProofs ---------------------------
(***************************************************************************)
(* Proofs about QuekkaMdb, for every set of names, keys and values, every  *)
(* number of tables and changes, and callback threads in any order: what   *)
(* the callbacks of a key are given forms a chain, a caller that waited    *)
(* has been heard, and the tables implement ChangeFeed.                    *)
(***************************************************************************)
EXTENDS QuekkaMdb, SequenceTheorems, TLAPS

-----------------------------------------------------------------------------
(* The inductive invariant.                                                *)

\* A caller that waits for each future has at most one on its way.
WaitInv ==
  waits => \A i \in DOMAIN changes :
             changes[i].callback \in {"started", "called"} => waiting = i

\* The changes of key k of table t among the first n of s, and the last one.
Of(s, t, k, n) == {i \in 1..n : s[i].table = t /\ s[i].key = k}
IsLast(s, i, t, k, n) == i \in Of(s, t, k, n) /\ \A h \in Of(s, t, k, n) : h <= i

\* The first n changes of s leave key k with the given row.
Leaves(s, t, k, n, row) ==
  \/ Of(s, t, k, n) = {} /\ row = Absent
  \/ \E i \in 1..n : IsLast(s, i, t, k, n) /\ Told(s[i]) = row

\* The changes of a key made its row, and each started from the one before.
RowInv ==
  /\ \A t \in DOMAIN objects, k \in Keys :
       Leaves(changes, t, k, Len(changes), objects[t].record[k])
  /\ \A j \in DOMAIN changes :
       /\ Leaves(changes, changes[j].table, changes[j].key, j - 1, Was(changes[j]))
       /\ changes[j].op = "CREATE" => changes[j].before = Default

\* The copy of a listener that was told of everything, if the caller waits: it
\* lags behind its table by the change on its way, and by nothing else.
CopyInv ==
  /\ \A t \in (1..MaxTables) \ DOMAIN objects : copy[t] = Empty
  /\ waits => \A t \in DOMAIN objects \ Missed : objects[t].callback =>
       /\ \A i \in Unheard(t) :
            /\ copy[t][changes[i].key] = Was(changes[i])
            /\ objects[t].record[changes[i].key] = Told(changes[i])
       /\ \A k \in Keys :
            (\A i \in Unheard(t) : changes[i].key # k) => copy[t][k] = objects[t].record[k]

\* Only a table with a listener has callbacks to run.
ListenInv ==
  \A i \in DOMAIN changes :
    changes[i].callback # "none" <=> objects[changes[i].table].callback

IInv == TypeOK /\ WaitInv /\ RowInv /\ CopyInv /\ ListenInv

-----------------------------------------------------------------------------
(* The steps, in the words the invariant needs.                            *)

\* A call changed the row of key k of table t, and change c tells of it.
Made(t, k, row, c) ==
  /\ t \in DOMAIN objects /\ k \in Keys /\ row \in Values \cup {Absent}
  /\ waiting = 0 /\ Len(changes) < MaxChanges
  /\ objects' = [objects EXCEPT ![t].record[k] = row]
  /\ c \in Change /\ c.table = t /\ c.key = k
  /\ Told(c) = row /\ Was(c) = objects[t].record[k]
  /\ c.op = "CREATE" => c.before = Default
  /\ c.callback \in IF objects[t].callback THEN {"started", "failed"} ELSE {"none"}
  /\ changes' = Append(changes, c)
  /\ waiting' = IF waits /\ c.callback = "started" THEN Len(changes') ELSE 0
  /\ UNCHANGED <<waits, _tables, copy>>

\* The callback of change i has come to state x; nothing else of the changes.
Moved(i, x) ==
  /\ i \in DOMAIN changes
  /\ changes' = [changes EXCEPT ![i].callback = x]
  /\ UNCHANGED <<waits, objects, _tables>>

\* The objects and the changes have members of the types they should.
LEMMA Members ==
  ASSUME TypeOK
  PROVE  /\ \A t \in DOMAIN objects :
              objects[t] \in Object /\ \A k \in Keys : objects[t].record[k] \in Values \cup {Absent}
         /\ \A i \in DOMAIN changes : changes[i] \in Change
         /\ DOMAIN objects = 1..Len(objects) /\ Len(objects) \in Nat
         /\ DOMAIN changes = 1..Len(changes) /\ Len(changes) \in Nat
  <1>1. objects \in Seq(Object) /\ changes \in Seq(Change)
    BY DEF TypeOK
  <1>2. \A t \in DOMAIN objects : objects[t] \in Object
    BY <1>1
  <1>3. \A i \in DOMAIN changes : changes[i] \in Change
    BY <1>1
  <1> QED BY <1>1, <1>2, <1>3 DEF Object, Record

\* upsert and erase make a change.
LEMMA CallMakes ==
  ASSUME TypeOK, UNCHANGED waits, NEW n \in Names, NEW k \in Keys,
         (\E v \in Values : upsert(n, k, v)) \/ erase(n, k)
  PROVE  \E t \in DOMAIN objects, row \in Values \cup {Absent}, c \in Change :
           Made(t, k, row, c)
  <1> USE MdbAssumption
  <1>1. ASSUME NEW t \in DOMAIN objects, NEW op \in {"CREATE", "UPDATE", "DELETE"},
               NEW before \in Values, NEW after \in Values, NEW row \in Values \cup {Absent},
               Call(n, t), SetRow(t, k, row),
               dispatch_callback_async(t, k, op, before, after),
               row = IF op = "DELETE" THEN Absent ELSE after,
               objects[t].record[k] = IF op = "CREATE" THEN Absent ELSE before,
               op = "CREATE" => before = Default
        PROVE  \E c \in Change : Made(t, k, row, c)
    <2>1. PICK x \in IF objects[t].callback THEN {"started", "failed"} ELSE {"none"} :
            /\ changes' = Append(changes, [table |-> t, key |-> k, op |-> op, before |-> before,
                                           after |-> after, callback |-> x])
            /\ waiting' = IF waits /\ x = "started" THEN Len(changes') ELSE 0
      BY <1>1 DEF dispatch_callback_async
    <2> DEFINE c == [table |-> t, key |-> k, op |-> op, before |-> before,
                     after |-> after, callback |-> x]
    <2>2. c \in Change
      BY DEF Change, CallbackStates
    <2>3. Told(c) = row /\ Was(c) = objects[t].record[k]
      BY <1>1 DEF Told, Was
    <2>4. Made(t, k, row, c)
      BY <1>1, <2>1, <2>2, <2>3 DEF Made, Call, SetRow
    <2> QED BY <2>2, <2>4
  <1>2. ASSUME NEW v \in Values, upsert(n, k, v)
        PROVE  \E t \in DOMAIN objects, c \in Change : Made(t, k, v, c)
    <2>1. PICK t \in DOMAIN objects :
            /\ Call(n, t) /\ SetRow(t, k, v)
            /\ \/ /\ objects[t].record[k] = Absent
                  /\ dispatch_callback_async(t, k, "CREATE", Default, v)
               \/ /\ objects[t].record[k] # Absent
                  /\ dispatch_callback_async(t, k, "UPDATE", objects[t].record[k], v)
      BY <1>2 DEF upsert
    <2>2. objects[t].record[k] \in Values \cup {Absent}
      BY Members
    <2>3. CASE objects[t].record[k] = Absent
      BY <1>1, <2>1, <2>3
    <2>4. CASE objects[t].record[k] # Absent
      BY <1>1, <2>1, <2>2, <2>4
    <2> QED BY <2>3, <2>4
  <1>3. CASE erase(n, k)
    <2>1. PICK t \in DOMAIN objects :
            /\ Call(n, t) /\ SetRow(t, k, Absent)
            /\ objects[t].record[k] # Absent
            /\ dispatch_callback_async(t, k, "DELETE", objects[t].record[k], Default)
      BY <1>3 DEF erase
    <2>2. objects[t].record[k] \in Values
      BY <2>1, Members
    <2>3. \E c \in Change : Made(t, k, Absent, c)
      BY <1>1, <2>1, <2>2
    <2> QED BY <2>3
  <1> QED BY <1>2, <1>3

\* What making a change does to the objects and to the changes.
LEMMA MadeFacts ==
  ASSUME TypeOK, NEW t, NEW k, NEW row, NEW c, Made(t, k, row, c)
  PROVE  /\ objects' \in Seq(Object) /\ Len(objects') = Len(objects)
         /\ DOMAIN objects' = DOMAIN objects
         /\ \A u \in DOMAIN objects :
              /\ objects'[u].callback = objects[u].callback
              /\ \A l \in Keys : objects'[u].record[l] =
                   IF u = t /\ l = k THEN row ELSE objects[u].record[l]
              /\ u # t => objects'[u] = objects[u]
         /\ changes' \in Seq(Change') /\ Len(changes') = Len(changes) + 1
         /\ DOMAIN changes' = 1..(Len(changes) + 1)
         /\ \A i \in DOMAIN changes : changes'[i] = changes[i]
         /\ changes'[Len(changes) + 1] = c
  <1>1. objects[t] \in Object /\ t \in 1..Len(objects) /\ k \in Keys /\ row \in Values \cup {Absent}
    BY Members DEF Made
  <1> DEFINE o == [objects[t] EXCEPT !.record[k] = row]
  <1>2. /\ o \in Object /\ o.callback = objects[t].callback
        /\ \A l \in Keys : o.record[l] = IF l = k THEN row ELSE objects[t].record[l]
    BY <1>1 DEF Object, Record
  <1>3. objects' = [objects EXCEPT ![t] = o]
    BY DEF Made
  <1> HIDE DEF o
  <1>4. /\ objects' \in Seq(Object) /\ Len(objects') = Len(objects)
        /\ \A u \in 1..Len(objects) : objects'[u] = IF u = t THEN o ELSE objects[u]
    BY <1>1, <1>2, <1>3, ExceptSeq DEF TypeOK
  <1>5. DOMAIN objects' = DOMAIN objects
    BY <1>4, Members
  <1>6. \A u \in DOMAIN objects :
          /\ objects'[u].callback = objects[u].callback
          /\ \A l \in Keys : objects'[u].record[l] =
               IF u = t /\ l = k THEN row ELSE objects[u].record[l]
          /\ u # t => objects'[u] = objects[u]
    BY <1>2, <1>4, Members
  <1>7. Change' = Change
    BY <1>5 DEF Change
  <1>8. changes \in Seq(Change) /\ c \in Change /\ changes' = Append(changes, c)
    BY DEF Made, TypeOK
  <1>9. /\ changes' \in Seq(Change) /\ Len(changes') = Len(changes) + 1
        /\ DOMAIN changes' = 1..(Len(changes) + 1)
        /\ \A i \in DOMAIN changes : changes'[i] = changes[i]
        /\ changes'[Len(changes) + 1] = c
    BY <1>8, AppendProperties
  <1> QED BY <1>4, <1>5, <1>6, <1>7, <1>9

\* What a callback does to the changes.
LEMMA MovedFacts ==
  ASSUME TypeOK, NEW i, NEW x \in CallbackStates, Moved(i, x)
  PROVE  /\ changes' \in Seq(Change') /\ Len(changes') = Len(changes)
         /\ DOMAIN changes' = DOMAIN changes
         /\ \A j \in DOMAIN changes :
              /\ changes'[j].table = changes[j].table
              /\ changes'[j].key = changes[j].key
              /\ changes'[j].op = changes[j].op
              /\ changes'[j].before = changes[j].before
              /\ Told(changes'[j]) = Told(changes[j])
              /\ Was(changes'[j]) = Was(changes[j])
              /\ changes'[j].callback = IF j = i THEN x ELSE changes[j].callback
  <1> DEFINE c == [changes[i] EXCEPT !.callback = x]
  <1>1. changes[i] \in Change /\ i \in 1..Len(changes)
    BY Members DEF Moved
  <1>2. /\ c \in Change /\ c.callback = x
        /\ c.table = changes[i].table /\ c.key = changes[i].key
        /\ c.op = changes[i].op /\ c.before = changes[i].before /\ c.after = changes[i].after
    BY <1>1 DEF Change
  <1>3. changes' = [changes EXCEPT ![i] = c]
    BY DEF Moved
  <1> HIDE DEF c
  <1>4. /\ changes' \in Seq(Change) /\ Len(changes') = Len(changes)
        /\ \A j \in 1..Len(changes) : changes'[j] = IF j = i THEN c ELSE changes[j]
    BY <1>1, <1>2, <1>3, ExceptSeq DEF TypeOK
  <1>5. Change' = Change
    BY DEF Moved, Change
  <1>6. DOMAIN changes' = DOMAIN changes
    BY <1>4, Members
  <1> QED BY <1>2, <1>4, <1>5, <1>6, Members DEF Told, Was

\* A new table is empty, and nothing is changed by it.
LEMMA CreatedFacts ==
  ASSUME TypeOK, NEW n \in Names, NEW h \in BOOLEAN, getTable(n, h)
  PROVE  /\ objects' \in Seq(Object) /\ Len(objects') = Len(objects) + 1
         /\ Len(objects') <= MaxTables
         /\ DOMAIN objects' = DOMAIN objects \cup {Len(objects) + 1}
         /\ Len(objects) + 1 \notin DOMAIN objects
         /\ \A t \in DOMAIN objects : objects'[t] = objects[t]
         /\ objects'[Len(objects) + 1] = [callback |-> h, record |-> Empty]
         /\ changes \in Seq(Change')
  <1>1. [callback |-> h, record |-> Empty] \in Object
    BY DEF Object, Record, Empty
  <1>2. objects \in Seq(Object) /\ objects' = Append(objects, [callback |-> h, record |-> Empty])
    BY DEF TypeOK, getTable
  <1>3. /\ objects' \in Seq(Object) /\ Len(objects') = Len(objects) + 1
        /\ DOMAIN objects' = DOMAIN objects \cup {Len(objects) + 1}
        /\ Len(objects) + 1 \notin DOMAIN objects
        /\ \A t \in DOMAIN objects : objects'[t] = objects[t]
        /\ objects'[Len(objects) + 1] = [callback |-> h, record |-> Empty]
    BY <1>1, <1>2, AppendProperties
  <1>4. Len(objects') <= MaxTables
    BY <1>3, Members, MdbAssumption DEF getTable
  <1>5. Change \subseteq Change'
    BY <1>3 DEF Change
  <1> QED BY <1>3, <1>4, <1>5, SeqMonotonic DEF TypeOK

-----------------------------------------------------------------------------
(* The invariant is inductive.                                             *)

\* A call that makes a change keeps the invariant.
LEMMA MadeStep ==
  ASSUME IInv, NEW t, NEW k, NEW row, NEW c, Made(t, k, row, c)
  PROVE  IInv'
  <1> DEFINE L == Len(changes)
  <1>1. /\ TypeOK
        /\ L \in Nat /\ DOMAIN changes = 1..L
        /\ DOMAIN objects = 1..Len(objects) /\ Len(objects) \in Nat
    BY Members DEF IInv
  <1>2. /\ objects' \in Seq(Object) /\ Len(objects') = Len(objects)
        /\ DOMAIN objects' = DOMAIN objects
        /\ \A u \in DOMAIN objects :
             /\ objects'[u].callback = objects[u].callback
             /\ \A l \in Keys : objects'[u].record[l] =
                  IF u = t /\ l = k THEN row ELSE objects[u].record[l]
             /\ u # t => objects'[u] = objects[u]
        /\ changes' \in Seq(Change') /\ Len(changes') = L + 1
        /\ DOMAIN changes' = 1..(L + 1)
        /\ \A i \in 1..L : changes'[i] = changes[i]
        /\ changes'[L + 1] = c
    BY <1>1, MadeFacts
  <1>3. /\ t \in DOMAIN objects /\ k \in Keys /\ row \in Values \cup {Absent}
        /\ waiting = 0 /\ c \in Change /\ c.table = t /\ c.key = k
        /\ Told(c) = row /\ Was(c) = objects[t].record[k]
        /\ c.op = "CREATE" => c.before = Default
        /\ c.callback \in IF objects[t].callback THEN {"started", "failed"} ELSE {"none"}
        /\ waiting' = IF waits /\ c.callback = "started" THEN L + 1 ELSE 0
        /\ UNCHANGED <<waits, _tables, copy>>
    BY <1>2 DEF Made
  <1>4. \A i \in 1..L : changes[i].table \in DOMAIN objects /\ changes[i].key \in Keys
    BY <1>1, Members DEF Change
  <1> HIDE DEF L
  <1>5. TypeOK'
    <2>1. waiting' \in 0..(L + 1)
      BY <1>1, <1>3
    <2> QED BY <1>1, <1>2, <1>3, <2>1 DEF TypeOK, Record
  <1>6. WaitInv'
    <2>1. waits => \A i \in 1..L : changes[i].callback \notin {"started", "called"}
      BY <1>1, <1>3 DEF IInv, WaitInv
    <2>2. c.callback # "called"
      BY <1>3
    <2> QED BY <1>1, <1>2, <1>3, <2>1, <2>2 DEF WaitInv
  <1>7. RowInv'
    <2>1. ASSUME NEW u, NEW l, NEW m \in 0..L, NEW r, Leaves(changes, u, l, m, r)
          PROVE  Leaves(changes', u, l, m, r)
      <3>1. \A i \in 1..m : i \in 1..L /\ changes'[i] = changes[i]
        BY <1>1, <1>2
      <3>2. Of(changes', u, l, m) = Of(changes, u, l, m)
        BY <3>1 DEF Of
      <3> QED BY <2>1, <3>1, <3>2 DEF Leaves, IsLast
    <2>2. ASSUME NEW u \in DOMAIN objects, NEW l \in Keys
          PROVE  Leaves(changes', u, l, L + 1, objects'[u].record[l])
      <3>1. CASE u = t /\ l = k
        <4>1. IsLast(changes', L + 1, t, k, L + 1)
          BY <1>1, <1>2, <1>3 DEF IsLast, Of
        <4>2. L + 1 \in 1..(L + 1) /\ Told(changes'[L + 1]) = objects'[t].record[k]
          BY <1>1, <1>2, <1>3
        <4> QED BY <3>1, <4>1, <4>2 DEF Leaves
      <3>2. CASE ~(u = t /\ l = k)
        <4>1. Leaves(changes, u, l, L, objects'[u].record[l])
          BY <1>2, <3>2 DEF IInv, RowInv, L
        <4>2. Leaves(changes', u, l, L, objects'[u].record[l])
          BY <1>1, <2>1, <4>1
        <4>3. Of(changes', u, l, L + 1) = Of(changes', u, l, L)
          <5>1. \A i \in 1..(L + 1) : i \in 1..L \/ i = L + 1
            BY <1>1
          <5>2. \A i \in 1..L : i \in 1..(L + 1)
            BY <1>1
          <5> QED BY <1>2, <1>3, <3>2, <5>1, <5>2 DEF Of
        <4>4. \A i \in 1..L : i \in 1..(L + 1)
          BY <1>1
        <4> QED BY <4>2, <4>3, <4>4 DEF Leaves, IsLast
      <3> QED BY <3>1, <3>2
    <2>3. ASSUME NEW j \in 1..L
          PROVE  /\ Leaves(changes', changes'[j].table, changes'[j].key, j - 1, Was(changes'[j]))
                 /\ changes'[j].op = "CREATE" => changes'[j].before = Default
      <3>1. /\ Leaves(changes, changes[j].table, changes[j].key, j - 1, Was(changes[j]))
            /\ changes[j].op = "CREATE" => changes[j].before = Default
        BY <1>1 DEF IInv, RowInv
      <3>2. j - 1 \in 0..L /\ changes'[j] = changes[j]
        BY <1>1, <1>2
      <3> QED BY <2>1, <3>1, <3>2
    <2>4. Leaves(changes', t, k, (L + 1) - 1, Was(c))
      <3>1. Leaves(changes, t, k, L, Was(c))
        BY <1>3 DEF IInv, RowInv, L
      <3>2. L \in 0..L /\ (L + 1) - 1 = L
        BY <1>1
      <3> QED BY <2>1, <3>1, <3>2
    <2>5. \A j \in 1..(L + 1) : j \in 1..L \/ j = L + 1
      BY <1>1
    <2> QED BY <1>2, <1>3, <2>2, <2>3, <2>4, <2>5 DEF RowInv
  <1>8. CopyInv'
    <2>1. copy' = copy /\ waits' = waits
      BY <1>3
    <2>2. \A u \in (1..MaxTables) \ DOMAIN objects' : copy'[u] = Empty
      BY <1>2, <2>1 DEF IInv, CopyInv
    <2>3. Missed \subseteq Missed' /\ (c.callback = "failed" => t \in Missed')
      BY <1>1, <1>2, <1>3 DEF Missed
    <2>4. ASSUME waits, NEW u \in DOMAIN objects \ Missed', objects[u].callback
          PROVE  /\ \A i \in Unheard(u)' :
                      /\ copy[u][changes'[i].key] = Was(changes'[i])
                      /\ objects'[u].record[changes'[i].key] = Told(changes'[i])
                 /\ \A l \in Keys :
                      (\A i \in Unheard(u)' : changes'[i].key # l)
                        => copy[u][l] = objects'[u].record[l]
      <3>1. \A i \in 1..L : changes[i].callback # "started"
        BY <1>1, <1>3, <2>4 DEF IInv, WaitInv
      <3>2. Unheard(u) = {}
        BY <1>1, <3>1 DEF Unheard
      <3>3. \A l \in Keys : copy[u][l] = objects[u].record[l]
        BY <2>3, <2>4, <3>2 DEF IInv, CopyInv
      <3>4. CASE u = t
        <4>1. c.callback = "started"
          BY <1>3, <2>3, <2>4, <3>4
        <4>2. Unheard(u)' = {L + 1}
          BY <1>1, <1>2, <1>3, <3>1, <3>4, <4>1 DEF Unheard
        <4> QED BY <1>2, <1>3, <3>3, <3>4, <4>2
      <3>5. CASE u # t
        <4>1. Unheard(u)' = {}
          BY <1>1, <1>2, <1>3, <3>1, <3>5 DEF Unheard
        <4> QED BY <1>2, <3>3, <3>5, <4>1
      <3> QED BY <3>4, <3>5
    <2> QED BY <1>2, <2>1, <2>2, <2>4 DEF CopyInv
  <1>9. ListenInv'
    <2>1. \A i \in 1..L : changes'[i].callback # "none" <=> objects'[changes'[i].table].callback
      BY <1>1, <1>2, <1>4 DEF IInv, ListenInv
    <2>2. c.callback # "none" <=> objects'[c.table].callback
      BY <1>2, <1>3
    <2> QED BY <1>1, <1>2, <2>1, <2>2 DEF ListenInv
  <1> QED BY <1>5, <1>6, <1>7, <1>8, <1>9 DEF IInv

\* A new table keeps the invariant: nothing was changed in it or told of it.
LEMMA CreatedStep ==
  ASSUME IInv, UNCHANGED waits, NEW n \in Names, NEW h \in BOOLEAN, getTable(n, h)
  PROVE  IInv'
  <1> DEFINE T == Len(objects) + 1
  <1>1. /\ TypeOK
        /\ DOMAIN objects = 1..Len(objects) /\ Len(objects) \in Nat
        /\ \A i \in DOMAIN changes : changes[i].table \in DOMAIN objects
        /\ DOMAIN changes = 1..Len(changes) /\ Len(changes) \in Nat
    BY Members DEF IInv, Change
  <1>2. /\ objects' \in Seq(Object) /\ Len(objects') = T /\ T <= MaxTables
        /\ DOMAIN objects' = DOMAIN objects \cup {T}
        /\ T \notin DOMAIN objects
        /\ \A t \in DOMAIN objects : objects'[t] = objects[t]
        /\ objects'[T] = [callback |-> h, record |-> Empty]
        /\ changes \in Seq(Change')
    BY <1>1, CreatedFacts
  <1>3. /\ UNCHANGED <<waits, changes, waiting, copy>>
        /\ _tables' = [_tables EXCEPT ![n] = T]
    BY <1>2 DEF getTable
  <1>4. \A k \in Keys : objects'[T].record[k] = Absent
    BY <1>2 DEF Empty
  <1>5. T \in 1..MaxTables
    BY <1>1, <1>2, MdbAssumption
  <1> HIDE DEF T
  <1>6. TypeOK'
    <2>1. 0..Len(objects) \subseteq 0..T /\ T \in 0..T
      BY <1>1, <1>2 DEF T
    <2>2. _tables' \in [Names -> 0..T]
      BY <1>1, <1>3, <2>1 DEF TypeOK
    <2> QED BY <1>1, <1>2, <1>3, <2>2 DEF TypeOK
  <1>7. WaitInv'
    BY <1>3 DEF IInv, WaitInv
  <1>8. RowInv'
    <2>1. \A k \in Keys : Of(changes, T, k, Len(changes)) = {}
      BY <1>1, <1>2 DEF Of
    <2>2. \A k \in Keys : Leaves(changes, T, k, Len(changes), Absent)
      BY <2>1 DEF Leaves
    <2> QED BY <1>2, <1>3, <1>4, <2>2 DEF IInv, RowInv
  <1>9. CopyInv'
    <2>1. \A t : t = T => Unheard(t)' = {}
      BY <1>1, <1>2, <1>3 DEF Unheard
    <2>2. copy[T] = Empty
      BY <1>2, <1>5 DEF IInv, CopyInv
    <2>3. Missed' = Missed /\ \A t \in DOMAIN objects : Unheard(t)' = Unheard(t)
      BY <1>3 DEF Missed, Unheard
    <2>4. \A t \in (1..MaxTables) \ DOMAIN objects' : copy'[t] = Empty
      BY <1>2, <1>3 DEF IInv, CopyInv
    <2>5. ASSUME waits, NEW t \in DOMAIN objects' \ Missed', objects'[t].callback
          PROVE  /\ \A i \in Unheard(t)' :
                      /\ copy[t][changes[i].key] = Was(changes[i])
                      /\ objects'[t].record[changes[i].key] = Told(changes[i])
                 /\ \A k \in Keys :
                      (\A i \in Unheard(t)' : changes[i].key # k)
                        => copy[t][k] = objects'[t].record[k]
      <3>1. CASE t = T
        BY <1>4, <2>1, <2>2, <3>1 DEF Empty
      <3>2. CASE t # T
        BY <1>2, <2>3, <2>5, <3>2 DEF IInv, CopyInv
      <3> QED BY <3>1, <3>2
    <2> QED BY <1>3, <2>4, <2>5 DEF CopyInv
  <1>10. ListenInv'
    BY <1>1, <1>2, <1>3 DEF IInv, ListenInv
  <1> QED BY <1>6, <1>7, <1>8, <1>9, <1>10 DEF IInv

\* A callback that moves on changes what was told, not what was changed.
LEMMA MovedKeeps ==
  ASSUME IInv, NEW i, NEW x \in {"called", "done"}, Moved(i, x),
         changes[i].callback \in {"started", "called"}, waiting' \in {waiting, 0},
         copy' \in [1..MaxTables -> Record]
  PROVE  TypeOK' /\ RowInv' /\ ListenInv'
  <1>1. /\ TypeOK /\ DOMAIN changes = 1..Len(changes) /\ Len(changes) \in Nat
        /\ UNCHANGED <<waits, objects, _tables>>
    BY Members DEF IInv, Moved
  <1>2. /\ changes' \in Seq(Change') /\ Len(changes') = Len(changes)
        /\ DOMAIN changes' = DOMAIN changes
        /\ \A j \in DOMAIN changes :
             /\ changes'[j].table = changes[j].table
             /\ changes'[j].key = changes[j].key
             /\ changes'[j].op = changes[j].op
             /\ changes'[j].before = changes[j].before
             /\ Told(changes'[j]) = Told(changes[j])
             /\ Was(changes'[j]) = Was(changes[j])
             /\ changes'[j].callback = IF j = i THEN x ELSE changes[j].callback
    BY <1>1, MovedFacts DEF CallbackStates
  <1>3. TypeOK'
    BY <1>1, <1>2 DEF TypeOK
  <1>4. RowInv'
    <2>1. ASSUME NEW t, NEW k, NEW m \in 0..Len(changes), NEW r, Leaves(changes, t, k, m, r)
          PROVE  Leaves(changes', t, k, m, r)
      <3>1. \A j \in 1..m : j \in DOMAIN changes
        BY <1>1
      <3>2. Of(changes', t, k, m) = Of(changes, t, k, m)
        BY <1>2, <3>1 DEF Of
      <3> QED BY <1>2, <2>1, <3>1, <3>2 DEF Leaves, IsLast
    <2>2. ASSUME NEW t \in DOMAIN objects, NEW k \in Keys
          PROVE  Leaves(changes', t, k, Len(changes'), objects'[t].record[k])
      <3>1. Leaves(changes, t, k, Len(changes), objects[t].record[k])
        BY DEF IInv, RowInv
      <3>2. Len(changes) \in 0..Len(changes)
        BY <1>1
      <3> QED BY <1>1, <1>2, <2>1, <3>1, <3>2
    <2>3. ASSUME NEW j \in DOMAIN changes
          PROVE  /\ Leaves(changes', changes'[j].table, changes'[j].key, j - 1, Was(changes'[j]))
                 /\ changes'[j].op = "CREATE" => changes'[j].before = Default
      <3>1. /\ Leaves(changes, changes[j].table, changes[j].key, j - 1, Was(changes[j]))
            /\ changes[j].op = "CREATE" => changes[j].before = Default
        BY DEF IInv, RowInv
      <3>2. j - 1 \in 0..Len(changes)
        BY <1>1
      <3> QED BY <1>2, <2>1, <3>1, <3>2
    <2> QED BY <1>1, <1>2, <2>2, <2>3 DEF RowInv
  <1>5. ListenInv'
    BY <1>1, <1>2 DEF IInv, ListenInv, Moved
  <1> QED BY <1>3, <1>4, <1>5

\* A callback has run.
LEMMA CallbackStep ==
  ASSUME IInv, UNCHANGED waits, NEW i \in DOMAIN changes, RunCallback(i)
  PROVE  IInv'
  <1> DEFINE c == changes[i]
  <1>1. /\ c.callback = "started"
        /\ Moved(i, "called")
        /\ copy' = [copy EXCEPT ![c.table][c.key] = Told(c)]
        /\ waiting' = waiting
    BY DEF RunCallback, Moved
  <1>2. /\ c.table \in DOMAIN objects /\ c.key \in Keys /\ Told(c) \in Values \cup {Absent}
        /\ c.table \in 1..MaxTables
        /\ DOMAIN objects = 1..Len(objects)
    <2>1. c \in Change /\ DOMAIN objects = 1..Len(objects) /\ Len(objects) \in Nat
      BY Members DEF IInv
    <2> QED BY <2>1, MdbAssumption DEF Change, Told, IInv, TypeOK
  <1>3. copy \in [1..MaxTables -> Record]
    BY DEF IInv, TypeOK
  <1>4. /\ copy' \in [1..MaxTables -> Record]
        /\ \A t \in 1..MaxTables, k \in Keys :
             copy'[t][k] = IF t = c.table /\ k = c.key THEN Told(c) ELSE copy[t][k]
        /\ \A t \in 1..MaxTables : t # c.table => copy'[t] = copy[t]
    <2> HIDE DEF c
    <2> QED BY <1>1, <1>2, <1>3 DEF Record
  <1>5. TypeOK' /\ RowInv' /\ ListenInv'
    BY <1>1, <1>4, MovedKeeps
  <1>6. /\ DOMAIN changes' = DOMAIN changes
        /\ \A j \in DOMAIN changes :
             /\ changes'[j].table = changes[j].table
             /\ changes'[j].key = changes[j].key
             /\ Told(changes'[j]) = Told(changes[j])
             /\ Was(changes'[j]) = Was(changes[j])
             /\ changes'[j].callback = IF j = i THEN "called" ELSE changes[j].callback
    BY <1>1, MovedFacts DEF IInv, CallbackStates
  <1>7. UNCHANGED <<objects, waits>>
    BY <1>1 DEF Moved
  <1>8. WaitInv'
    BY <1>1, <1>6, <1>7 DEF IInv, WaitInv
  <1>9. CopyInv'
    <2>1. Missed' = Missed
      BY <1>1, <1>6 DEF Missed
    <2>2. \A t \in (1..MaxTables) \ DOMAIN objects' : copy'[t] = Empty
      BY <1>2, <1>4, <1>7 DEF IInv, CopyInv
    <2>3. ASSUME waits, NEW t \in DOMAIN objects \ Missed, objects[t].callback
          PROVE  /\ Unheard(t)' = {}
                 /\ \A k \in Keys : copy'[t][k] = objects[t].record[k]
      <3>1. \A j \in DOMAIN changes : changes[j].callback = "started" => j = i
        BY <1>1, <2>3 DEF IInv, WaitInv
      <3>2. \A u \in DOMAIN objects : Unheard(u)' = {}
        BY <1>6, <3>1 DEF Unheard
      <3>3. t \in 1..MaxTables
        <4>1. Len(objects) \in Nat /\ Len(objects) <= MaxTables
          BY Members DEF IInv, TypeOK
        <4> QED BY <1>2, <4>1, MdbAssumption
      <3>4. CASE t = c.table
        <4>1. Unheard(t) = {i}
          BY <1>1, <3>1, <3>4 DEF Unheard
        <4> QED BY <1>4, <2>3, <3>2, <3>3, <3>4, <4>1 DEF IInv, CopyInv
      <3>5. CASE t # c.table
        <4>1. Unheard(t) = {}
          BY <3>1, <3>5 DEF Unheard
        <4> QED BY <1>4, <2>3, <3>2, <3>3, <3>5, <4>1 DEF IInv, CopyInv
      <3> QED BY <3>4, <3>5
    <2> QED BY <1>7, <2>1, <2>2, <2>3 DEF CopyInv
  <1> QED BY <1>5, <1>8, <1>9 DEF IInv

\* A future is ready.
LEMMA FutureStep ==
  ASSUME IInv, UNCHANGED waits, NEW i \in DOMAIN changes, FutureReady(i)
  PROVE  IInv'
  <1>1. /\ changes[i].callback = "called"
        /\ Moved(i, "done")
        /\ waiting' = IF waiting = i THEN 0 ELSE waiting
        /\ copy' = copy
    BY DEF FutureReady, Moved
  <1>2. TypeOK' /\ RowInv' /\ ListenInv'
    <2>1. waiting' \in {waiting, 0} /\ copy' \in [1..MaxTables -> Record]
      BY <1>1 DEF IInv, TypeOK
    <2> QED BY <1>1, <2>1, MovedKeeps
  <1>3. /\ DOMAIN changes' = DOMAIN changes
        /\ \A j \in DOMAIN changes :
             /\ changes'[j].table = changes[j].table
             /\ changes'[j].key = changes[j].key
             /\ Told(changes'[j]) = Told(changes[j])
             /\ Was(changes'[j]) = Was(changes[j])
             /\ changes'[j].callback = IF j = i THEN "done" ELSE changes[j].callback
    BY <1>1, MovedFacts DEF IInv, CallbackStates
  <1>4. UNCHANGED <<objects, waits>>
    BY <1>1 DEF Moved
  <1>5. WaitInv'
    BY <1>1, <1>3, <1>4 DEF IInv, WaitInv
  <1>6. Missed' = Missed /\ \A t : Unheard(t)' = Unheard(t)
    BY <1>1, <1>3 DEF Missed, Unheard
  <1>7. CopyInv'
    <2>1. \A t : \A j \in Unheard(t) : j \in DOMAIN changes
      BY DEF Unheard
    <2> QED BY <1>1, <1>3, <1>4, <1>6, <2>1 DEF IInv, CopyInv
  <1> QED BY <1>2, <1>5, <1>7 DEF IInv

\* The initial state satisfies the invariant.
LEMMA InvInit == Init => IInv
  <1> SUFFICES ASSUME Init PROVE IInv
    OBVIOUS
  <1> USE MdbAssumption DEF Init
  <1>1. TypeOK
    <2>1. copy \in [1..MaxTables -> Record] /\ _tables \in [Names -> 0..0]
      BY DEF Empty, Record
    <2> QED BY <2>1 DEF TypeOK
  <1>2. WaitInv /\ RowInv /\ ListenInv
    BY DEF WaitInv, RowInv, ListenInv
  <1>3. CopyInv
    BY DEF CopyInv
  <1> QED BY <1>1, <1>2, <1>3 DEF IInv

\* Every step keeps the invariant.
LEMMA InvStep == IInv /\ [Next]_vars => IInv'
  <1> SUFFICES ASSUME IInv, [Next]_vars PROVE IInv'
    OBVIOUS
  <1>1. ASSUME UNCHANGED waits, NEW n \in Names, NEW h \in BOOLEAN, getTable(n, h) PROVE IInv'
    BY <1>1, CreatedStep
  <1>2. ASSUME UNCHANGED waits, NEW n \in Names, dropTable(n) PROVE IInv'
    <2>1. /\ UNCHANGED <<waits, objects, changes, waiting, copy>>
          /\ _tables' = [_tables EXCEPT ![n] = 0]
      BY <1>2 DEF dropTable
    <2>2. TypeOK'
      <3>1. 0 \in 0..Len(objects)
        BY Members DEF IInv
      <3> QED BY <2>1, <3>1 DEF IInv, TypeOK, Change
    <2>3. WaitInv' /\ RowInv' /\ ListenInv'
      BY <2>1 DEF IInv, WaitInv, RowInv, ListenInv
    <2>4. CopyInv'
      BY <2>1 DEF IInv, CopyInv, Missed, Unheard
    <2> QED BY <2>2, <2>3, <2>4 DEF IInv
  <1>3. ASSUME UNCHANGED waits, NEW n \in Names, NEW k \in Keys,
               (\E v \in Values : upsert(n, k, v)) \/ erase(n, k)
        PROVE  IInv'
    BY <1>3, CallMakes, MadeStep DEF IInv
  <1>4. ASSUME UNCHANGED waits, NEW i \in DOMAIN changes, RunCallback(i) PROVE IInv'
    BY <1>4, CallbackStep
  <1>5. ASSUME UNCHANGED waits, NEW i \in DOMAIN changes, FutureReady(i) PROVE IInv'
    BY <1>5, FutureStep
  <1>6. CASE UNCHANGED vars
    <2>1. TypeOK'
      BY <1>6 DEF vars, IInv, TypeOK, Change
    <2>2. WaitInv' /\ RowInv' /\ ListenInv'
      BY <1>6 DEF vars, IInv, WaitInv, RowInv, ListenInv
    <2>3. CopyInv'
      BY <1>6 DEF vars, IInv, CopyInv, Missed, Unheard
    <2> QED BY <2>1, <2>2, <2>3 DEF IInv
  <1> QED BY <1>1, <1>2, <1>3, <1>4, <1>5, <1>6 DEF Next, Caller

-----------------------------------------------------------------------------
(* The theorems.                                                           *)

\* The invariant holds of every reachable state.
THEOREM Invariance == Spec => []IInv
  BY InvInit, InvStep, PTL DEF Spec

\* Every variable keeps its type: no callback is given a value that is none.
THEOREM TypeCorrect == Spec => []TypeOK
  <1>1. IInv => TypeOK
    BY DEF IInv
  <1> QED BY <1>1, Invariance, PTL

\* The values and operations the callbacks of one key are given form a chain,
\* whatever order their threads run in, and whichever of them std::thread
\* could not start.
THEOREM CallbacksFormChain == Spec => []KeyChain
  <1>1. ASSUME IInv PROVE KeyChain
    <2> SUFFICES ASSUME NEW j \in DOMAIN changes
                 PROVE  LET b == changes[j]
                            Earlier == {i \in 1..(j - 1) :
                                         changes[i].table = b.table /\ changes[i].key = b.key}
                            now == IF Earlier = {} THEN Absent
                                   ELSE Told(changes[CHOOSE i \in Earlier : \A h \in Earlier : h <= i])
                        IN  IF b.op = "CREATE" THEN now = Absent /\ b.before = Default
                            ELSE b.before = now
      BY DEF KeyChain
    <2> DEFINE b == changes[j]
               E == Of(changes, b.table, b.key, j - 1)
               m == CHOOSE i \in E : \A h \in E : h <= i
               now == IF E = {} THEN Absent ELSE Told(changes[m])
    <2>1. /\ Leaves(changes, b.table, b.key, j - 1, Was(b))
          /\ b.op = "CREATE" => b.before = Default
      BY <1>1 DEF IInv, RowInv
    <2>2. now = Was(b)
      <3>1. CASE E = {}
        BY <2>1, <3>1 DEF Leaves, IsLast
      <3>2. CASE E # {}
        <4>1. PICK i \in E : (\A h \in E : h <= i) /\ Told(changes[i]) = Was(b)
          BY <2>1, <3>2 DEF Leaves, IsLast
        <4>2. \A h \in E : h \in Int
          BY DEF Of
        <4> HIDE DEF E
        <4>3. m \in E /\ \A h \in E : h <= m
          BY <4>1
        <4>4. m = i
          BY <4>1, <4>2, <4>3
        <4> QED BY <3>2, <4>1, <4>4
      <3> QED BY <3>1, <3>2
    <2> QED BY <2>1, <2>2 DEF Was, Of
  <1> QED BY <1>1, Invariance, PTL

\* A caller that has waited for the future of its last call finds the copy of
\* each listener equal to its table, unless a call of that table threw.
THEOREM WaitedMeansHeard == Spec => []FutureMeansHeard
  <1>1. ASSUME IInv PROVE FutureMeansHeard
    <2> SUFFICES ASSUME waits, waiting = 0,
                        NEW t \in DOMAIN objects \ Missed, objects[t].callback
                 PROVE  copy[t] = objects[t].record
      BY DEF FutureMeansHeard
    <2>1. \A i \in DOMAIN changes : changes[i].callback # "started" /\ i # 0
      BY <1>1, Members DEF IInv, WaitInv
    <2>2. \A k \in Keys : copy[t][k] = objects[t].record[k]
      BY <1>1, <2>1 DEF IInv, CopyInv, Unheard
    <2>3. copy[t] \in Record /\ objects[t].record \in Record
      <3>1. objects[t] \in Object /\ t \in 1..MaxTables
        BY <1>1, Members, MdbAssumption DEF IInv, TypeOK
      <3> QED BY <1>1, <3>1 DEF IInv, TypeOK, Object
    <2> QED BY <2>2, <2>3 DEF Record
  <1> QED BY <1>1, Invariance, PTL

-----------------------------------------------------------------------------
(* The tables implement ChangeFeed.                                        *)

\* The objects are tables ChangeFeed knows.
LEMMA KnownTables ==
  ASSUME TypeOK
  PROVE  DOMAIN objects \subseteq 1..MaxTables
  BY Members, MdbAssumption DEF TypeOK

\* A call that makes a change is a Change of the feed.
LEMMA MadeRefines ==
  ASSUME IInv, NEW t, NEW k, NEW row, NEW c, Made(t, k, row, c)
  PROVE  Feed!Change(t, k, row)
  <1> DEFINE e == [n |-> Len(changes) + 1, key |-> k, before |-> Rows[t][k], after |-> row]
  <1>1. /\ DOMAIN objects' = DOMAIN objects
        /\ \A u \in DOMAIN objects :
             /\ objects'[u].callback = objects[u].callback
             /\ \A l \in Keys : objects'[u].record[l] =
                  IF u = t /\ l = k THEN row ELSE objects[u].record[l]
             /\ u # t => objects'[u] = objects[u]
        /\ objects' \in Seq(Object)
        /\ Len(changes') = Len(changes) + 1
        /\ DOMAIN changes' = DOMAIN changes \cup {Len(changes) + 1}
        /\ Len(changes) + 1 \notin DOMAIN changes
        /\ \A i \in DOMAIN changes : changes'[i] = changes[i]
        /\ changes'[Len(changes) + 1] = c
    <2>1. /\ DOMAIN changes = 1..Len(changes) /\ Len(changes) \in Nat /\ TypeOK
      BY Members DEF IInv
    <2>2. /\ DOMAIN changes' = 1..(Len(changes) + 1)
          /\ Len(changes) + 1 \notin DOMAIN changes
          /\ 1..(Len(changes) + 1) = DOMAIN changes \cup {Len(changes) + 1}
      BY <2>1, MadeFacts
    <2> QED BY <2>1, <2>2, MadeFacts
  <1>2. /\ t \in DOMAIN objects /\ t \in 1..MaxTables /\ k \in Keys
        /\ c.table = t /\ c.key = k /\ Told(c) = row /\ Was(c) = objects[t].record[k]
        /\ c.callback \in IF objects[t].callback THEN {"started", "failed"} ELSE {"none"}
        /\ copy' = copy
    BY KnownTables DEF Made, IInv
  <1>3. Rows' = [Rows EXCEPT ![t][k] = row]
    <2>1. /\ objects[t].record \in Record /\ objects'[t].record \in Record
      <3>1. objects[t] \in Object /\ objects'[t] \in Object
        BY <1>1, <1>2, Members DEF IInv
      <3> QED BY <3>1 DEF Object
    <2>2. objects'[t].record = [objects[t].record EXCEPT ![k] = row]
      <3>1. \A l \in Keys : objects'[t].record[l] = IF l = k THEN row ELSE objects[t].record[l]
        BY <1>1, <1>2
      <3> QED BY <2>1, <3>1 DEF Record
    <2>3. Rows'[t] = [Rows[t] EXCEPT ![k] = row]
      BY <1>1, <1>2, <2>2 DEF Rows
    <2>4. \A u \in 1..MaxTables : u # t => Rows'[u] = Rows[u]
      BY <1>1 DEF Rows
    <2> QED BY <1>2, <2>3, <2>4 DEF Rows
  <1>4. Listened' = Listened
    BY <1>1 DEF Listened
  <1>5. \A u : u # t => Unheard(u)' = Unheard(u)
    BY <1>1, <1>2 DEF Unheard
  <1>6. CASE c.callback = "started"
    <2>1. t \in Listened
      BY <1>2, <1>6 DEF Listened
    <2>2. Missed' = Missed
      BY <1>1, <1>6 DEF Missed
    <2>3. Unheard(t)' = Unheard(t) \cup {Len(changes) + 1}
      BY <1>1, <1>2, <1>6 DEF Unheard
    <2>4. News' = [News EXCEPT ![t] = @ \cup {e}]
      <3>1. News'[t] = News[t] \cup {e}
        <4>1. Rows[t][k] = Was(c)
          BY <1>2 DEF Rows
        <4>2. e = [n |-> Len(changes) + 1, key |-> c.key, before |-> Was(c), after |-> Told(c)]
          BY <1>2, <4>1
        <4>3. \A i \in Unheard(t) : i \in DOMAIN changes
          BY DEF Unheard
        <4> HIDE DEF e
        <4> QED BY <1>1, <1>2, <2>3, <4>2, <4>3 DEF News
      <3>2. \A u \in 1..MaxTables : u # t => News'[u] = News[u]
        <4>1. \A u : \A i \in Unheard(u) : i \in DOMAIN changes
          BY DEF Unheard
        <4> QED BY <1>1, <1>5, <4>1 DEF News
      <3> HIDE DEF e
      <3> QED BY <1>2, <3>1, <3>2 DEF News
    <2> QED BY <1>1, <1>2, <1>3, <1>4, <2>1, <2>2, <2>4 DEF Feed!Change
  <1>7. CASE c.callback # "started"
    <2>1. \A u : Unheard(u)' = Unheard(u)
      BY <1>1, <1>7 DEF Unheard
    <2>2. News' = News
      <3>1. \A u : \A i \in Unheard(u) : i \in DOMAIN changes
        BY DEF Unheard
      <3> QED BY <1>1, <2>1, <3>1 DEF News
    <2>3. Missed' = Missed \cup (Listened \cap {t})
      <3>1. CASE c.callback = "failed"
        <4>1. Missed' = Missed \cup {t}
          BY <1>1, <1>2, <3>1 DEF Missed
        <4> QED BY <1>2, <3>1, <4>1 DEF Listened
      <3>2. CASE c.callback = "none"
        <4>1. Missed' = Missed
          BY <1>1, <3>2 DEF Missed
        <4>2. t \notin Listened
          BY <1>2, <3>2 DEF Listened
        <4> QED BY <4>1, <4>2
      <3> QED BY <1>2, <1>7, <3>1, <3>2
    <2> QED BY <1>1, <1>2, <1>3, <1>4, <2>2, <2>3 DEF Feed!Change
  <1> QED BY <1>6, <1>7

\* A callback that runs is a change heard.
LEMMA CallbackRefines ==
  ASSUME IInv, UNCHANGED waits, NEW i \in DOMAIN changes, RunCallback(i)
  PROVE  Feed!Hear(changes[i].table)
  <1> DEFINE c == changes[i]
             t == changes[i].table
             E(j) == [n |-> j, key |-> changes[j].key, before |-> Was(changes[j]),
                      after |-> Told(changes[j])]
  <1>1. /\ c.callback = "started" /\ Moved(i, "called")
        /\ copy' = [copy EXCEPT ![t][c.key] = Told(c)]
    BY DEF RunCallback, Moved
  <1>2. /\ t \in DOMAIN objects /\ t \in 1..MaxTables /\ c.key \in Keys
    BY Members, KnownTables DEF IInv, Change
  <1>3. /\ DOMAIN changes' = DOMAIN changes /\ Len(changes') = Len(changes)
        /\ \A j \in DOMAIN changes :
             /\ changes'[j].table = changes[j].table
             /\ changes'[j].key = changes[j].key
             /\ Told(changes'[j]) = Told(changes[j])
             /\ Was(changes'[j]) = Was(changes[j])
             /\ changes'[j].callback = IF j = i THEN "called" ELSE changes[j].callback
    BY <1>1, MovedFacts DEF IInv, CallbackStates
  <1>4. i \in Unheard(t) /\ News[t] = {E(j) : j \in Unheard(t)}
    BY <1>1, <1>2 DEF Unheard, News
  <1>5. E(i) \in News[t]
    BY <1>4
  <1>6. waits => /\ \A d \in News[t] : E(i).n <= d.n
                 /\ t \notin Missed => copy[t][E(i).key] = E(i).before
    <2>1. SUFFICES ASSUME waits
                   PROVE  /\ \A d \in News[t] : i <= d.n
                          /\ t \notin Missed => copy[t][c.key] = Was(c)
      OBVIOUS
    <2>2. \A j \in Unheard(t) : j = i /\ j \in Nat
      BY <1>1, <2>1, Members DEF IInv, WaitInv, Unheard
    <2>3. \A d \in News[t] : i <= d.n
      BY <1>4, <2>2
    <2>4. objects[t].callback
      BY <1>1 DEF IInv, ListenInv
    <2> QED BY <1>2, <1>4, <2>1, <2>3, <2>4 DEF IInv, CopyInv
  <1>7. \A u : Unheard(u)' = Unheard(u) \ {i}
    BY <1>1, <1>3 DEF Unheard
  <1>8. News' = [News EXCEPT ![t] = @ \ {E(i)}]
    <2>1. \A u \in 1..MaxTables : News'[u] = {E(j) : j \in Unheard(u) \ {i}}
      <3>1. \A u : \A j \in Unheard(u) : j \in DOMAIN changes
        BY DEF Unheard
      <3> QED BY <1>3, <1>7, <3>1 DEF News
    <2>2. \A u \in 1..MaxTables : u # t => News'[u] = News[u]
      <3>1. \A u : u # t => Unheard(u) \ {i} = Unheard(u)
        BY DEF Unheard
      <3> QED BY <2>1, <3>1 DEF News
    <2>3. News'[t] = News[t] \ {E(i)}
      <3>1. \A j : E(j).n = j
        OBVIOUS
      <3> HIDE DEF E
      <3> QED BY <1>2, <1>4, <2>1, <3>1
    <2> HIDE DEF E, t
    <2> QED BY <1>2, <2>2, <2>3 DEF News
  <1>9. Missed' = Missed
    BY <1>1, <1>3 DEF Missed
  <1>10. Rows' = Rows /\ Listened' = Listened
    BY <1>1 DEF Rows, Listened, Moved
  <1>11. copy' = [copy EXCEPT ![t][E(i).key] = E(i).after]
    BY <1>1
  <1> DEFINE e == E(i)
  <1> HIDE DEF E, e, c
  <1> QED BY <1>3, <1>5, <1>6, <1>8, <1>9, <1>10, <1>11 DEF Feed!Hear

\* Every step of the tables is a step of the feed, or none.
LEMMA StepRefines ==
  ASSUME IInv, [Next]_vars
  PROVE  [Feed!Next]_(Feed!vars)
  <1>1. ASSUME UNCHANGED waits, NEW n \in Names, NEW h \in BOOLEAN, getTable(n, h)
        PROVE  \/ \E t \in 1..MaxTables : Feed!Listen(t)
               \/ UNCHANGED Feed!vars
    <2> DEFINE T == Len(objects) + 1
    <2>1. /\ DOMAIN objects' = DOMAIN objects \cup {T}
          /\ T \notin DOMAIN objects /\ T \in 1..MaxTables
          /\ \A t \in DOMAIN objects : objects'[t] = objects[t]
          /\ objects'[T] = [callback |-> h, record |-> Empty]
      <3>1. /\ DOMAIN objects' = DOMAIN objects \cup {T}
            /\ T \notin DOMAIN objects
            /\ Len(objects') = T /\ Len(objects') <= MaxTables
            /\ \A t \in DOMAIN objects : objects'[t] = objects[t]
            /\ objects'[T] = [callback |-> h, record |-> Empty]
        BY <1>1, CreatedFacts DEF IInv
      <3>2. T \in 1..MaxTables
        BY <3>1, Members, MdbAssumption DEF IInv
      <3> QED BY <3>1, <3>2
    <2>2. UNCHANGED <<waits, changes, waiting, copy>>
      BY <1>1 DEF getTable
    <2>3. UNCHANGED <<Missed, News>>
      BY <2>2 DEF Missed, News, Unheard
    <2> HIDE DEF T
    <2>4. Rows' = Rows /\ Rows[T] = Empty
      BY <2>1 DEF Rows, Empty
    <2>5. Listened' = Listened \cup (IF h THEN {T} ELSE {})
      BY <2>1 DEF Listened
    <2>6. CASE h
      BY <2>1, <2>2, <2>3, <2>4, <2>5, <2>6 DEF Feed!Listen, Feed!Empty, Empty
    <2>7. CASE ~h
      BY <2>2, <2>3, <2>4, <2>5, <2>7 DEF Feed!vars
    <2> QED BY <2>6, <2>7
  <1>2. ASSUME UNCHANGED waits, NEW n \in Names, dropTable(n) PROVE UNCHANGED Feed!vars
    BY <1>2 DEF dropTable, Feed!vars, Rows, Listened, Missed, News, Unheard
  <1>3. ASSUME UNCHANGED waits, NEW n \in Names, NEW k \in Keys,
               (\E v \in Values : upsert(n, k, v)) \/ erase(n, k)
        PROVE  \E t \in 1..MaxTables, row \in Values \cup {Absent} : Feed!Change(t, k, row)
    <2>1. PICK t \in DOMAIN objects, row \in Values \cup {Absent}, c \in Change :
            Made(t, k, row, c)
      BY <1>3, CallMakes DEF IInv
    <2>2. Feed!Change(t, k, row)
      BY <2>1, MadeRefines
    <2> QED BY <2>1, <2>2, KnownTables DEF IInv
  <1>4. ASSUME UNCHANGED waits, NEW i \in DOMAIN changes, RunCallback(i)
        PROVE  \E t \in 1..MaxTables : Feed!Hear(t)
    <2>1. changes[i].table \in 1..MaxTables
      BY Members, KnownTables DEF IInv, Change
    <2> QED BY <1>4, <2>1, CallbackRefines
  <1>5. ASSUME UNCHANGED waits, NEW i \in DOMAIN changes, FutureReady(i)
        PROVE  UNCHANGED Feed!vars
    <2>1. changes[i].callback = "called" /\ Moved(i, "done") /\ copy' = copy
      BY <1>5 DEF FutureReady, Moved
    <2>2. /\ DOMAIN changes' = DOMAIN changes /\ Len(changes') = Len(changes)
          /\ \A j \in DOMAIN changes :
               /\ changes'[j].table = changes[j].table
               /\ changes'[j].key = changes[j].key
               /\ Told(changes'[j]) = Told(changes[j])
               /\ Was(changes'[j]) = Was(changes[j])
               /\ changes'[j].callback = IF j = i THEN "done" ELSE changes[j].callback
      BY <2>1, MovedFacts DEF IInv, CallbackStates
    <2>3. UNCHANGED <<waits, objects>>
      BY <2>1 DEF Moved
    <2>4. \A t : Unheard(t)' = Unheard(t)
      BY <2>1, <2>2 DEF Unheard
    <2>5. News' = News
      <3>1. \A t : \A j \in Unheard(t) : j \in DOMAIN changes
        BY DEF Unheard
      <3> QED BY <2>2, <2>4, <3>1 DEF News
    <2>6. Missed' = Missed
      BY <2>1, <2>2 DEF Missed
    <2> QED BY <2>1, <2>2, <2>3, <2>5, <2>6 DEF Feed!vars, Rows, Listened
  <1>6. CASE UNCHANGED vars
    BY <1>6 DEF vars, Feed!vars, Rows, Listened, Missed, News, Unheard
  <1> QED BY <1>1, <1>2, <1>3, <1>4, <1>5, <1>6 DEF Next, Caller, Feed!Next

\* The listener of a table hears of every change that did not throw at most
\* once, with the values it had when it was made, also after dropTable; in the
\* order of the changes, each fitting its copy, if the caller waits.
THEOREM TablesAreFeed == Spec => ImplementsFeed
  <1>1. Init => Feed!Init
    <2> SUFFICES ASSUME Init PROVE Feed!Init
      OBVIOUS
    <2>1. Rows = [t \in 1..MaxTables |-> Empty] /\ Listened = {} /\ Missed = {}
      BY DEF Init, Rows, Listened, Missed
    <2>2. News = [t \in 1..MaxTables |-> {}]
      BY DEF Init, News, Unheard
    <2>3. Len(changes) = 0
      BY DEF Init
    <2> QED BY <2>1, <2>2, <2>3 DEF Init, Feed!Init, Empty, Feed!Empty
  <1>2. IInv /\ [Next]_vars => [Feed!Next]_(Feed!vars)
    BY StepRefines
  <1> QED BY <1>1, <1>2, Invariance, PTL DEF Spec, ImplementsFeed, Feed!Spec
=============================================================================
