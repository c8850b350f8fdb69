--------------------------- MODULE TaskQueueProofs ---------------------------
(***************************************************************************)
(* Proofs about TaskQueue, for any task types, keys, delays and limits:    *)
(* the table stays sound under callers, crashes and purges, a recurring    *)
(* type that has a row keeps one, and dream turns keep their distance.     *)
(***************************************************************************)
EXTENDS TaskQueue, FiniteSetTheorems, TLAPS

(* What the lemmas below use of the constants. *)
LEMMA Constants ==
  /\ NoKey \notin Key
  /\ IsFiniteSet(Recurring) /\ Recurring \cap OneShot = {}
  /\ Interval \in [Recurring -> Nat \ {0}]
  /\ MaxAttempts \in Nat \ {0} /\ BackoffCap \in Nat \ {0} /\ DreamInterval \in Nat \ {0}
  /\ Delay \subseteq Nat
  BY QueueAssumption DEF QueueAssumption

(* A delay after a failure is a number. *)
LEMMA BackoffType == \A n \in 1 .. MaxAttempts : Backoff(n) \in Int
  BY QueueAssumption DEF QueueAssumption, Backoff, MinOf

(* A new row is a row of its type and key. *)
LEMMA NewRowType ==
  ASSUME NEW ty \in Recurring \cup OneShot, NEW k \in Key \cup {NoKey}, NEW d \in Int
  PROVE  NewRow(ty, k, d) \in Row /\ NewRow(ty, k, d).type = ty /\ NewRow(ty, k, d).key = k
  BY Constants DEF NewRow, Row

(* A row rearmed stays of its type, key and turn. *)
LEMMA RearmType ==
  ASSUME NEW row \in Row, row.type \in Recurring
  PROVE  /\ Rearm(row) \in Row /\ Rearm(row).type = row.type /\ Rearm(row).key = row.key
         /\ Rearm(row).turn = row.turn
<1>1. Interval[row.type] \in Int
  BY Constants
<1> DEFINE later == [row EXCEPT !.due = Interval[row.type]]
<1>2. later \in Row /\ later.type = row.type /\ later.key = row.key /\ later.turn = row.turn
  BY <1>1 DEF Row
<1>3. Rearm(row) = [later EXCEPT !.attempts = 0]
  BY Zenon DEF Rearm
<1>4. QED
  <2> HIDE DEF later
  <2>1. QED  BY <1>2, <1>3, Constants DEF Row

(* Rows appended stand behind the others. *)
LEMMA RowsAppended ==
  ASSUME NEW s \in Seq(Row), NEW t \in Seq(Row)
  PROVE  /\ s \o t \in Seq(Row) /\ Len(s \o t) = Len(s) + Len(t)
         /\ \A i \in DOMAIN s : (s \o t)[i] = s[i]
         /\ \A i \in 1 .. Len(t) : (s \o t)[Len(s) + i] = t[i]
  OBVIOUS

(* RemoveAt, row by row. *)
LEMMA RemoveAtRows ==
  ASSUME queue \in Seq(Row), NEW i \in DOMAIN queue
  PROVE  LET q == RemoveAt(queue, i) IN
         /\ q \in Seq(Row) /\ Len(q) = Len(queue) - 1
         /\ \A j \in DOMAIN q : q[j] = IF j < i THEN queue[j] ELSE queue[j + 1]
<1> DEFINE before == SubSeq(queue, 1, i - 1)
           after == SubSeq(queue, i + 1, Len(queue))
<1>1. before \in Seq(Row) /\ Len(before) = i - 1 /\ \A j \in 1 .. i - 1 : before[j] = queue[j]
  OBVIOUS
<1>2. after \in Seq(Row) /\ Len(after) = Len(queue) - i
      /\ \A j \in 1 .. Len(queue) - i : after[j] = queue[i + j]
  OBVIOUS
<1>3. RemoveAt(queue, i) = before \o after
  BY DEF RemoveAt
<1>4. QED
  <2> DEFINE q == before \o after
  <2>1. i \in 1 .. Len(queue) /\ Len(queue) \in Nat
    OBVIOUS
  <2> HIDE DEF before, after
  <2>2. /\ q \in Seq(Row) /\ Len(q) = Len(queue) - 1
        /\ \A j \in 1 .. i - 1 : q[j] = before[j]
        /\ \A j \in 1 .. Len(queue) - i : q[i - 1 + j] = after[j]
    <3>1. /\ q \in Seq(Row) /\ Len(q) = Len(before) + Len(after)
          /\ \A j \in DOMAIN before : q[j] = before[j]
          /\ \A j \in 1 .. Len(after) : q[Len(before) + j] = after[j]
      BY <1>1, <1>2, RowsAppended
    <3>2. DOMAIN before = 1 .. i - 1
      BY <1>1
    <3> HIDE DEF q
    <3>3. Len(q) = Len(queue) - 1
      BY <1>1, <1>2, <2>1, <3>1
    <3>4. \A j \in 1 .. Len(queue) - i : q[i - 1 + j] = after[j]
      BY <1>1, <1>2, <3>1
    <3>5. QED
      BY <3>1, <3>2, <3>3, <3>4
  <2> HIDE DEF q
  <2>3. ASSUME NEW j \in DOMAIN q PROVE q[j] = IF j < i THEN queue[j] ELSE queue[j + 1]
    <3>1. j \in 1 .. Len(queue) - 1
      BY <2>1, <2>2, <2>3
    <3>2. CASE j < i
      BY <1>1, <2>1, <2>2, <3>1, <3>2
    <3>3. CASE ~(j < i)
      <4>1. j - i + 1 \in 1 .. Len(queue) - i /\ i - 1 + (j - i + 1) = j /\ i + (j - i + 1) = j + 1
        BY <2>1, <3>1, <3>3
      <4>2. q[i - 1 + (j - i + 1)] = after[j - i + 1] /\ after[j - i + 1] = queue[i + (j - i + 1)]
        BY <1>2, <2>2, <4>1
      <4>3. QED
        BY <3>3, <4>1, <4>2
    <3>4. QED
      BY <3>2, <3>3
  <2>4. RemoveAt(queue, i) = q
    BY <1>3 DEF q
  <2>5. QED
    BY <2>2, <2>3, <2>4

(* What a step that adds no row leaves unique: every row comes from another *)
(* one of the same type and key.                                            *)
LEMMA NoNewRows ==
  ASSUME KeysUnique, OneRowPerSeededType,
         NEW from,
         \A i \in DOMAIN queue' : /\ from[i] \in DOMAIN queue
                                  /\ queue'[i].type = queue[from[i]].type
                                  /\ queue'[i].key = queue[from[i]].key,
         \A i, j \in DOMAIN queue' : from[i] = from[j] => i = j
  PROVE  KeysUnique' /\ OneRowPerSeededType'
  BY DEF KeysUnique, OneRowPerSeededType

(* What a step does with the rows: those of recurring types stay, and a dream *)
(* row is new only when no dream turn is of late, or was there, with any turn *)
(* it had written.                                                            *)
RowsKept ==
  /\ \A ty \in Recurring : HasType(ty) => HasType(ty)'
  /\ \A i \in DOMAIN queue' :
       \/ queue'[i].type # "memory_dream"
       \/ dreamAge = 0
       \/ \E j \in DOMAIN queue : /\ queue[j].type = "memory_dream"
                                  /\ queue[j].turn => queue'[i].turn

(* A step that changes rows in their places. *)
LEMMA SamePlaces ==
  ASSUME KeysUnique, OneRowPerSeededType, DOMAIN queue' = DOMAIN queue,
         \A i \in DOMAIN queue : /\ queue'[i].type = queue[i].type
                                 /\ queue'[i].key = queue[i].key
                                 /\ queue[i].turn => queue'[i].turn
  PROVE  KeysUnique' /\ OneRowPerSeededType' /\ RowsKept
<1>1. KeysUnique' /\ OneRowPerSeededType'
  BY DEF KeysUnique, OneRowPerSeededType
<1>2. RowsKept
  BY DEF RowsKept, HasType
<1>3. QED
  BY <1>1, <1>2

(* A request is queued unless its key is. *)
LEMMA EnqueueKeeps ==
  ASSUME QueueSound, NEW ty \in Requested, NEW k \in Key \cup {NoKey}, NEW d \in Delay,
         Enqueue(ty, k, d)
  PROVE  QueueSound' /\ RowsKept
<1>1. NewRow(ty, k, d) \in Row /\ NewRow(ty, k, d).type = ty /\ NewRow(ty, k, d).key = k
  BY Constants, NewRowType DEF OneShot
<1>2. queue \in Seq(Row) /\ queue' = Append(queue, NewRow(ty, k, d))
  BY DEF QueueSound, TypeOK, Enqueue
<1>3. /\ queue' \in Seq(Row) /\ Len(queue') = Len(queue) + 1
      /\ \A i \in DOMAIN queue : queue'[i] = queue[i]
      /\ queue'[Len(queue')] = NewRow(ty, k, d)
  <2> DEFINE row == NewRow(ty, k, d)
  <2> HIDE DEF row
  <2>1. row \in Row /\ queue' = Append(queue, row)
    BY <1>1, <1>2 DEF row
  <2>2. QED
    BY <1>2, <2>1 DEF row
<1>4. TypeOK'
  BY <1>2, <1>3 DEF QueueSound, TypeOK, Enqueue
<1>5. \A i \in DOMAIN queue' : i \in DOMAIN queue \/ i = Len(queue')
  BY <1>2, <1>3
<1>6. KeysUnique'
  <2>1. k = NoKey \/ \A i \in DOMAIN queue : queue[i].key # k
    BY DEF Enqueue, KeyTaken, HasKey
  <2>2. QED
    BY <1>1, <1>3, <1>5, <2>1 DEF QueueSound, KeysUnique
<1>7. OneRowPerSeededType'
  <2>1. ty \notin Recurring \cup {"memory_dream"}
    BY Constants DEF Requested, OneShot
  <2>2. QED
    BY <1>1, <1>3, <1>5, <2>1 DEF QueueSound, OneRowPerSeededType
<1>8. RowsKept
  <2>1. ty # "memory_dream"
    BY DEF Requested
  <2>2. QED
    BY <1>1, <1>2, <1>3, <1>5, <2>1 DEF RowsKept, HasType
<1>9. QED
  BY <1>4, <1>6, <1>7, <1>8 DEF QueueSound

(* Seeding adds the maintenance rows that are missing, and those only. *)
LEMMA SeedKeeps == QueueSound /\ Seed => QueueSound' /\ RowsKept
<1> SUFFICES ASSUME QueueSound, Seed PROVE QueueSound' /\ RowsKept
  OBVIOUS
<1>1. IsFiniteSet(Missing) /\ Missing \subseteq Recurring \cup OneShot
  <2>1. IsFiniteSet(Recurring \cup {"memory_dream"})
    BY Constants, FS_Singleton, FS_Union
  <2>2. Missing \subseteq Recurring \cup {"memory_dream"}
    BY DEF Missing
  <2>3. QED
    BY <2>1, <2>2, FS_Subset DEF OneShot
<1>2. PICK types \in SetToSeqs(Missing) :
        queue' = queue \o [i \in DOMAIN types |-> NewRow(types[i], NoKey, 0)]
  BY DEF Seed
<1> DEFINE n == Cardinality(Missing)
           rows == [i \in 1 .. n |-> NewRow(types[i], NoKey, 0)]
<1>3. /\ n \in Nat /\ types \in [1 .. n -> Missing]
      /\ \A i, j \in 1 .. n : i # j => types[i] # types[j]
  BY <1>1, FS_CardinalityType DEF SetToSeqs
<1>4. \A i \in 1 .. n : /\ rows[i] \in Row
                        /\ rows[i].type = types[i] /\ rows[i].key = NoKey
  BY <1>1, <1>3, NewRowType
<1>5. rows \in Seq(Row) /\ Len(rows) = n
  BY <1>3, <1>4
<1>6. queue \in Seq(Row) /\ queue' = queue \o rows
  BY <1>2, <1>3 DEF QueueSound, TypeOK
<1> HIDE DEF rows, n
<1>7. /\ queue' \in Seq(Row) /\ Len(queue') = Len(queue) + n
      /\ \A i \in DOMAIN queue : queue'[i] = queue[i]
      /\ \A i \in 1 .. n : queue'[Len(queue) + i] = rows[i]
  <2>1. /\ queue \o rows \in Seq(Row) /\ Len(queue \o rows) = Len(queue) + Len(rows)
        /\ \A i \in DOMAIN queue : (queue \o rows)[i] = queue[i]
        /\ \A i \in 1 .. Len(rows) : (queue \o rows)[Len(queue) + i] = rows[i]
    BY <1>5, <1>6, RowsAppended
  <2>2. QED
    BY <1>5, <1>6, <2>1
<1>8. \A i \in DOMAIN queue' :
        \/ i \in DOMAIN queue
        \/ /\ i - Len(queue) \in 1 .. n
           /\ queue'[i].key = NoKey /\ queue'[i].type = types[i - Len(queue)]
  <2> SUFFICES ASSUME NEW i \in DOMAIN queue', i \notin DOMAIN queue
               PROVE  /\ i - Len(queue) \in 1 .. n
                      /\ queue'[i].key = NoKey /\ queue'[i].type = types[i - Len(queue)]
    OBVIOUS
  <2>1. i - Len(queue) \in 1 .. n /\ i = Len(queue) + (i - Len(queue))
    BY <1>3, <1>6, <1>7
  <2>2. QED
    BY <1>4, <1>7, <2>1
<1>9. TypeOK'
  BY <1>3, <1>6, <1>7 DEF QueueSound, TypeOK, Seed
<1>10. KeysUnique'
  BY <1>7, <1>8 DEF QueueSound, KeysUnique
<1>11. OneRowPerSeededType'
  <2>1. \A ty \in Missing : \A i \in DOMAIN queue : queue[i].type # ty
    BY DEF Missing, DreamDue, HasType
  <2>2. \A i \in DOMAIN queue' : i \notin DOMAIN queue => queue'[i].type \in Missing
    BY <1>3, <1>8
  <2> SUFFICES ASSUME NEW i \in DOMAIN queue', NEW j \in DOMAIN queue',
                      queue'[i].type = queue'[j].type,
                      queue'[i].type \in Recurring \cup {"memory_dream"}
               PROVE  i = j
    BY DEF OneRowPerSeededType
  <2>3. CASE i \in DOMAIN queue /\ j \in DOMAIN queue
    BY <1>7, <2>3 DEF QueueSound, OneRowPerSeededType
  <2>4. CASE i \notin DOMAIN queue /\ j \notin DOMAIN queue
    <3>1. types[i - Len(queue)] = types[j - Len(queue)]
      BY <1>8, <2>4
    <3>2. i - Len(queue) = j - Len(queue)
      BY <1>3, <1>8, <2>4, <3>1
    <3>3. QED
      BY <1>6, <1>7, <3>2
  <2>5. QED
    BY <1>7, <2>1, <2>2, <2>3, <2>4
<1>12. RowsKept
  <2>1. \A i \in DOMAIN queue' : i \notin DOMAIN queue => queue'[i].type \in Missing
    BY <1>3, <1>8
  <2>2. "memory_dream" \in Missing => dreamAge = 0
    BY Constants DEF Missing, DreamDue, OneShot
  <2>3. \A ty \in Recurring : HasType(ty) => HasType(ty)'
    BY <1>6, <1>7 DEF HasType
  <2>4. ASSUME NEW i \in DOMAIN queue', queue'[i].type = "memory_dream", dreamAge # 0
        PROVE  \E j \in DOMAIN queue : /\ queue[j].type = "memory_dream"
                                       /\ queue[j].turn => queue'[i].turn
    <3>1. i \in DOMAIN queue /\ queue'[i] = queue[i]
      BY <1>7, <2>1, <2>2, <2>4
    <3>2. QED
      BY <2>4, <3>1, Zenon
  <2>5. QED
    BY <2>3, <2>4 DEF RowsKept
<1>13. QED
  BY <1>9, <1>10, <1>11, <1>12 DEF QueueSound

(* Rows that are rewritten in their places: a dream turn, an occurrence, a   *)
(* retry, the passing of time.                                               *)
LEMMA RewriteKeeps ==
  ASSUME QueueSound, NEW i \in DOMAIN queue, NEW row \in Row,
         row.type = queue[i].type, row.key = queue[i].key, queue[i].turn => row.turn,
         queue' = [queue EXCEPT ![i] = row]
  PROVE  queue' \in Seq(Row) /\ KeysUnique' /\ OneRowPerSeededType' /\ RowsKept
         /\ Len(queue') = Len(queue)
<1>1. queue' \in Seq(Row) /\ Len(queue') = Len(queue)
  BY DEF QueueSound, TypeOK
<1>2. \A j \in DOMAIN queue : /\ queue'[j].type = queue[j].type /\ queue'[j].key = queue[j].key
                              /\ queue[j].turn => queue'[j].turn
  BY DEF QueueSound, TypeOK
<1>3. QED
  BY <1>1, <1>2, SamePlaces DEF QueueSound, TypeOK

(* A row that does not recur is removed. *)
LEMMA RemoveKeeps ==
  ASSUME QueueSound, NEW i \in DOMAIN queue, queue[i].type \notin Recurring,
         queue' = RemoveAt(queue, i)
  PROVE  queue' \in Seq(Row) /\ KeysUnique' /\ OneRowPerSeededType' /\ RowsKept
<1>1. queue \in Seq(Row)
  BY DEF QueueSound, TypeOK
<1>2. /\ queue' \in Seq(Row) /\ Len(queue') = Len(queue) - 1
      /\ \A j \in DOMAIN queue' : queue'[j] = IF j < i THEN queue[j] ELSE queue[j + 1]
  BY <1>1, RemoveAtRows
<1> DEFINE from == [j \in DOMAIN queue' |-> IF j < i THEN j ELSE j + 1]
<1>3. \A j \in DOMAIN queue' : from[j] \in DOMAIN queue /\ queue'[j] = queue[from[j]]
  BY <1>1, <1>2
<1>4. \A j, k \in DOMAIN queue' : from[j] = from[k] => j = k
  BY <1>1, <1>2
<1>5. KeysUnique' /\ OneRowPerSeededType'
  <2> HIDE DEF from
  <2>1. QED
    BY <1>3, <1>4, NoNewRows DEF QueueSound
<1>6. RowsKept
  <2> SUFFICES ASSUME NEW ty \in Recurring, NEW k \in DOMAIN queue, queue[k].type = ty
               PROVE  \E j \in DOMAIN queue' : queue'[j].type = ty
    BY <1>3 DEF RowsKept, HasType
  <2>1. CASE k < i
    BY <1>1, <1>2, <2>1
  <2>2. CASE k > i
    <3>1. k - 1 \in DOMAIN queue' /\ queue'[k - 1] = queue[k]
      BY <1>1, <1>2, <2>2
    <3>2. QED
      BY <3>1
  <2>3. QED
    BY <1>1, <2>1, <2>2
<1>7. QED
  BY <1>2, <1>5, <1>6


(* The turn a dream writes, and an attempt that failed, in the row. *)
LEMMA ChangedRows ==
  ASSUME NEW row \in Row
  PROVE  LET dreamt == [row EXCEPT !.turn = TRUE] IN
         dreamt \in Row /\ dreamt.type = row.type /\ dreamt.key = row.key /\ dreamt.turn
  BY DEF Row

(* A row comes nearer as time passes. *)
LEMMA NearerRow ==
  ASSUME NEW row \in Row
  PROVE  LET nearer == [row EXCEPT !.due = @ - 1] IN
         /\ nearer \in Row /\ nearer.type = row.type /\ nearer.key = row.key
         /\ nearer.turn = row.turn
  BY DEF Row

(* A row is put back to be tried again. *)
LEMMA RetriedRow ==
  ASSUME NEW row \in Row, NEW a \in 0 .. MaxAttempts - 1, NEW d \in Int
  PROVE  LET retried == [row EXCEPT !.attempts = a, !.due = d] IN
         /\ retried \in Row /\ retried.type = row.type /\ retried.key = row.key
         /\ retried.turn = row.turn
<1> DEFINE counted == [row EXCEPT !.attempts = a]
<1>1. counted \in Row /\ counted.type = row.type /\ counted.key = row.key
      /\ counted.turn = row.turn
  BY DEF Row
<1>2. [row EXCEPT !.attempts = a, !.due = d] = [counted EXCEPT !.due = d]
  BY Zenon
<1>3. QED
  <2> HIDE DEF counted
  <2>1. QED  BY <1>1, <1>2 DEF Row

(* A task is done, recorded, or has failed. *)
LEMMA SettleKeeps == QueueSound /\ (RecordDreamTurn \/ Finish \/ Fail) => QueueSound' /\ RowsKept
<1> SUFFICES ASSUME QueueSound, RecordDreamTurn \/ Finish \/ Fail
             PROVE  QueueSound' /\ RowsKept
  OBVIOUS
<1>1. queue \in Seq(Row) /\ current \in 0 .. Len(queue)
  BY DEF QueueSound, TypeOK
<1>2. current # 0 => current \in DOMAIN queue /\ queue[current] \in Row
  BY <1>1
<1>3. queue' \in Seq(Row) /\ KeysUnique' /\ OneRowPerSeededType' /\ RowsKept
      /\ (RecordDreamTurn => Len(queue') = Len(queue))
  <2>1. CASE RecordDreamTurn
    <3> DEFINE row == [queue[current] EXCEPT !.turn = TRUE]
    <3>1. row \in Row /\ row.type = queue[current].type /\ row.key = queue[current].key
          /\ (queue[current].turn => row.turn)
      BY <1>2, <2>1, ChangedRows DEF RecordDreamTurn
    <3>2. current \in DOMAIN queue /\ queue' = [queue EXCEPT ![current] = row]
      BY <1>2, <2>1 DEF RecordDreamTurn
    <3>3. QED
      <4> HIDE DEF row
      <4>1. QED  BY <3>1, <3>2, RewriteKeeps
  <2>2. CASE UNCHANGED queue /\ ~RecordDreamTurn
    BY <1>1, <2>2, SamePlaces DEF QueueSound
  <2>3. CASE /\ current # 0 /\ queue[current].type \in Recurring
             /\ queue' = [queue EXCEPT ![current] = Rearm(@)] /\ ~RecordDreamTurn
    <3> DEFINE row == Rearm(queue[current])
    <3>1. row \in Row /\ row.type = queue[current].type /\ row.key = queue[current].key
          /\ (queue[current].turn => row.turn)
      BY <1>2, <2>3, RearmType
    <3>2. queue' = [queue EXCEPT ![current] = row]
      BY <2>3
    <3>3. QED
      <4> HIDE DEF row
      <4>1. QED  BY <1>2, <2>3, <3>1, <3>2, RewriteKeeps
  <2>4. CASE /\ current # 0 /\ queue[current].type \in OneShot
             /\ queue' = RemoveAt(queue, current) /\ ~RecordDreamTurn
    <3>1. queue[current].type \notin Recurring
      BY <2>4, Constants
    <3>2. QED
      BY <1>2, <2>4, <3>1, RemoveKeeps
  <2>5. CASE /\ current # 0 /\ queue[current].attempts + 1 < MaxAttempts /\ ~RecordDreamTurn
             /\ queue' = [queue EXCEPT ![current].attempts = queue[current].attempts + 1,
                                       ![current].due = Backoff(queue[current].attempts + 1)]
    <3> DEFINE a == queue[current].attempts + 1
               row == [queue[current] EXCEPT !.attempts = a, !.due = Backoff(a)]
    <3>1. a \in 1 .. MaxAttempts - 1 /\ Backoff(a) \in Int
      <4>1. a \in 1 .. MaxAttempts - 1
        BY <1>2, <2>5, Constants DEF Row
      <4>2. QED
        BY <4>1, BackoffType, Constants
    <3>2. row \in Row /\ row.type = queue[current].type /\ row.key = queue[current].key
          /\ (queue[current].turn => row.turn)
      <4>1. a \in 0 .. MaxAttempts - 1 /\ queue[current] \in Row
        <5>1. queue[current] \in Row
          BY <1>2, <2>5
        <5> HIDE DEF a
        <5>2. QED
          BY Constants, <3>1, <5>1
      <4> HIDE DEF a
      <4>2. /\ row \in Row /\ row.type = queue[current].type /\ row.key = queue[current].key
            /\ row.turn = queue[current].turn
        BY <3>1, <4>1, RetriedRow, ZenonT(60)
      <4>3. QED  BY <4>2, Zenon
    <3>3. queue' = [queue EXCEPT ![current] = row]
      BY <1>1, <1>2, <2>5
    <3>4. QED
      <4> HIDE DEF row, a
      <4>1. QED  BY <1>2, <2>5, <3>2, <3>3, RewriteKeeps
  <2>6. QED
    BY <2>1, <2>2, <2>3, <2>4, <2>5 DEF RecordDreamTurn, Finish, Fail
<1>4. TypeOK'
  <2>1. CASE RecordDreamTurn
    BY <1>1, <1>3, <2>1, Constants DEF RecordDreamTurn, QueueSound, TypeOK
  <2>2. CASE Finish \/ Fail
    <3>1. 0 \in 0 .. Len(queue')
      BY <1>3
    <3>2. QED
      BY <1>3, <2>2, <3>1 DEF Finish, Fail, Release, QueueSound, TypeOK
  <2>3. QED
    BY <2>1, <2>2
<1>5. QED
  BY <1>3, <1>4 DEF QueueSound

(* The rows left keep their order, so they are as many as their places.     *)
LEMMA DisconnectKeeps == QueueSound /\ Disconnect => QueueSound' /\ RowsKept
<1> SUFFICES ASSUME QueueSound, Disconnect PROVE QueueSound' /\ RowsKept
  OBVIOUS
<1>1. queue \in Seq(Row)
  BY DEF QueueSound, TypeOK
<1> DEFINE n == Cardinality(Kept)
<1>2. IsFiniteSet(Kept) /\ n \in Nat
  <2>1. IsFiniteSet(1 .. Len(queue)) /\ Kept \in SUBSET (1 .. Len(queue))
    BY <1>1, FS_Interval DEF Kept
  <2>2. QED
    BY <2>1, FS_Subset, FS_CardinalityType
<1>3. PICK place \in [1 .. n -> Kept] :
        /\ \A i, j \in DOMAIN place : i < j => place[i] < place[j]
        /\ queue' = [i \in DOMAIN place |-> queue[place[i]]]
  BY DEF Disconnect
<1> HIDE DEF n
<1>4. \A i, j \in 1 .. n : place[i] = place[j] => i = j
  <2>1. \A i \in 1 .. n : place[i] \in Int
    BY <1>1, <1>3 DEF Kept
  <2>2. \A i, j \in 1 .. n : i < j => place[i] < place[j]
    BY <1>3
  <2>3. QED
    BY <1>2, <2>1, <2>2
<1>5. /\ queue' \in Seq(Row) /\ Len(queue') = n
      /\ \A i \in 1 .. n : place[i] \in DOMAIN queue /\ queue'[i] = queue[place[i]]
  <2>1. \A i \in 1 .. n : place[i] \in DOMAIN queue /\ queue[place[i]] \in Row
    BY <1>1, <1>3 DEF Kept
  <2>2. queue' = [i \in 1 .. n |-> queue[place[i]]]
    BY <1>3
  <2>3. QED
    BY <1>2, <2>1, <2>2
<1>6. KeysUnique' /\ OneRowPerSeededType'
  BY <1>2, <1>4, <1>5, NoNewRows DEF QueueSound
<1>7. \A k \in Kept : \E i \in 1 .. n : place[i] = k
  <2>1. place \in Injection(1 .. n, Kept)
    BY <1>3, <1>4 DEF Injection, IsInjective
  <2>2. Cardinality(1 .. n) = Cardinality(Kept)
    BY <1>2, FS_Interval DEF n
  <2>3. place \in Surjection(1 .. n, Kept)
    BY <1>2, <2>1, <2>2, FS_Injection
  <2>4. QED
    BY <2>3 DEF Surjection
<1>8. RowsKept
  <2>1. \A k \in DOMAIN queue : queue[k].type \in Recurring => k \in Kept
    BY Constants DEF Kept, OneShot, Requested
  <2>2. QED
    BY <1>5, <1>7, <2>1 DEF RowsKept, HasType
<1>9. current' \in 0 .. Len(queue')
  <2> DEFINE upTo == {i \in Kept : i <= current}
             m == Cardinality(upTo)
  <2>1. upTo \in SUBSET Kept
    OBVIOUS
  <2>2. current' = m \/ current' = 0
    BY DEF Disconnect
  <2> HIDE DEF upTo
  <2>3. m \in 0 .. n
    BY <1>2, <2>1, FS_Subset, FS_CardinalityType DEF n
  <2>4. QED
    BY <1>2, <1>5, <2>2, <2>3
<1>10. QED
  BY <1>5, <1>6, <1>8, <1>9 DEF QueueSound, TypeOK, Disconnect

(* Time passes for every row. *)
LEMMA TickKeeps == QueueSound /\ Tick => QueueSound' /\ RowsKept
<1> SUFFICES ASSUME QueueSound, Tick PROVE QueueSound' /\ RowsKept
  OBVIOUS
<1>1. queue \in Seq(Row)
  BY DEF QueueSound, TypeOK
<1>2. \A i \in DOMAIN queue :
        LET row == [queue[i] EXCEPT !.due = @ - 1] IN
        /\ row \in Row /\ row.type = queue[i].type /\ row.key = queue[i].key
        /\ row.turn = queue[i].turn
  <2>1. \A i \in DOMAIN queue : queue[i] \in Row
    BY <1>1
  <2>2. QED
    BY <2>1, NearerRow
<1>3. queue' = [i \in 1 .. Len(queue) |-> [queue[i] EXCEPT !.due = @ - 1]]
  BY <1>1 DEF Tick
<1>4. queue' \in Seq(Row) /\ Len(queue') = Len(queue)
  BY <1>1, <1>2, <1>3
<1>5. \A i \in DOMAIN queue : /\ queue'[i].type = queue[i].type
                              /\ queue'[i].key = queue[i].key
                              /\ queue'[i].turn = queue[i].turn
  BY <1>1, <1>2, <1>3
<1>6. KeysUnique' /\ OneRowPerSeededType' /\ RowsKept
  BY <1>1, <1>4, <1>5, SamePlaces DEF QueueSound
<1>7. dreamAge' \in 0 .. DreamInterval
  BY Constants DEF Tick, QueueSound, TypeOK
<1>8. QED
  BY <1>4, <1>6, <1>7 DEF QueueSound, TypeOK, Tick

(* Each step keeps the table and its maintenance rows. *)
LEMMA StepKeeps == QueueSound /\ [Next]_vars => QueueSound' /\ RowsKept
<1> SUFFICES ASSUME QueueSound, [Next]_vars PROVE QueueSound' /\ RowsKept
  OBVIOUS
<1>1. queue \in Seq(Row) /\ current \in 0 .. Len(queue)
  BY DEF QueueSound, TypeOK
<1>2. CASE Select \/ Sleep \/ Crash \/ UNCHANGED vars
  <2>1. UNCHANGED <<queue, dreamAge>> /\ phase' \in {"idle", "seeded", "running"}
    BY <1>2 DEF Select, Sleep, Crash, Release, vars, QueueSound, TypeOK
  <2>2. current' \in 0 .. Len(queue)
    BY <1>1, <1>2 DEF Select, Sleep, Crash, Release, vars
  <2>3. TypeOK'
    BY <2>1, <2>2 DEF QueueSound, TypeOK
  <2>4. QED
    BY <2>1, <2>3, SamePlaces DEF QueueSound
<1>3. QED
  BY <1>2, EnqueueKeeps, SeedKeeps, SettleKeeps, DisconnectKeeps, TickKeeps DEF Next

(* The table is empty at first. *)
LEMMA InitSound == Init => QueueSound
<1> SUFFICES ASSUME Init PROVE QueueSound
  OBVIOUS
<1>1. queue \in Seq(Row) /\ DOMAIN queue = {} /\ Len(queue) = 0
  BY DEF Init
<1>2. QED
  BY <1>1, Constants DEF Init, QueueSound, TypeOK, KeysUnique, OneRowPerSeededType

(* Seeding on every iteration, re-arming, crashes, callers and purges, also  *)
(* of the row that is being run, leave every idempotency key one row and     *)
(* every recurring type and the dream one row, and the worker a row that     *)
(* exists or none.                                                           *)
THEOREM TableStaysSound == Spec => []QueueSound
<1>1. QED
  BY InitSound, StepKeeps, PTL DEF Spec

(* No failure, exhausted retry, crash or disconnect takes the row of a       *)
(* recurring maintenance type out of the queue.                              *)
THEOREM MaintenanceIsNeverLost == Spec => RecurringNeverLost
<1>1. QueueSound /\ [Next]_vars => [\A ty \in Recurring : HasType(ty) => HasType(ty)']_vars
  BY StepKeeps, Zenon DEF RowsKept
<1>2. QED
  BY <1>1, TableStaysSound, PTL DEF Spec, RecurringNeverLost

-----------------------------------------------------------------------------
(***************************************************************************)
(* A dream turn is written only when the one before is old: a dream row    *)
(* without a turn exists only when none is of late, because only one row   *)
(* of the type exists and the latest turn is looked at before it is added. *)
(***************************************************************************)
DreamRowsAged ==
  \A i \in DOMAIN queue : queue[i].type = "memory_dream" => queue[i].turn \/ dreamAge = 0

(* A dream's row that waits ages with the last dream. *)
LEMMA DreamsAge ==
  QueueSound /\ DreamRowsAged /\ [Next]_vars
    => DreamRowsAged' /\ (dreamAge' > dreamAge => dreamAge = 0)
<1> SUFFICES ASSUME QueueSound, DreamRowsAged, [Next]_vars
             PROVE  DreamRowsAged' /\ (dreamAge' > dreamAge => dreamAge = 0)
  OBVIOUS
<1>1. queue \in Seq(Row) /\ current \in 0 .. Len(queue) /\ dreamAge \in Nat
  BY DEF QueueSound, TypeOK
<1>2. CASE RecordDreamTurn
  <2>1. current \in DOMAIN queue /\ queue[current].type = "memory_dream" /\ ~queue[current].turn
    BY <1>1, <1>2 DEF RecordDreamTurn
  <2>2. dreamAge = 0
    BY <2>1 DEF DreamRowsAged
  <2> DEFINE row == [queue[current] EXCEPT !.turn = TRUE]
  <2>3. queue' = [queue EXCEPT ![current] = row]
    BY <1>1, <1>2, <2>1 DEF RecordDreamTurn
  <2>4. row.type = queue[current].type /\ row.turn
    BY <1>1, <2>1, ChangedRows
  <2>5. DreamRowsAged'
    <3> HIDE DEF row
    <3>1. \A i \in DOMAIN queue : i # current => queue[i].type # "memory_dream"
      BY <2>1 DEF QueueSound, OneRowPerSeededType
    <3>2. DOMAIN queue' = DOMAIN queue /\ queue'[current] = row
          /\ \A i \in DOMAIN queue : i # current => queue'[i] = queue[i]
      BY <1>1, <2>1, <2>3
    <3>3. queue'[current].turn
      BY <2>4, <3>2, Zenon
    <3>4. ASSUME NEW i \in DOMAIN queue', queue'[i].type = "memory_dream"
          PROVE  queue'[i].turn
      <4>1. i = current
        BY <3>1, <3>2, <3>4
      <4>2. QED
        BY <3>3, <4>1, Zenon
    <3>5. QED
      BY <3>4 DEF DreamRowsAged
  <2>6. QED
    BY <2>2, <2>5
<1>3. CASE ~RecordDreamTurn
  <2>1. (dreamAge = 0 => dreamAge' = 0) /\ ~(dreamAge' > dreamAge)
    <3>1. CASE Tick
      BY <1>1, <3>1 DEF Tick
    <3>2. CASE UNCHANGED dreamAge
      BY <1>1, <3>2
    <3>3. /\ (\E ty \in Requested, k \in Key \cup {NoKey}, d \in Delay : Enqueue(ty, k, d))
             => UNCHANGED dreamAge
          /\ Seed \/ Select \/ Sleep => UNCHANGED dreamAge
          /\ Finish \/ Fail \/ Crash \/ Disconnect => UNCHANGED dreamAge
          /\ UNCHANGED vars => UNCHANGED dreamAge
      BY Zenon DEF Enqueue, Seed, Select, Sleep, Finish, Fail, Crash, Disconnect, vars
    <3>4. QED
      BY <1>3, <3>1, <3>2, <3>3 DEF Next
  <2>2. RowsKept
    BY StepKeeps
  <2>3. DreamRowsAged'
    BY <2>1, <2>2 DEF RowsKept, DreamRowsAged
  <2>4. QED
    BY <2>1, <2>3
<1>4. QED
  BY <1>2, <1>3

(* Two dream turns are an interval apart, although their row is deleted,     *)
(* abandoned or run again after a crash in between.                          *)
THEOREM DreamsKeepTheirDistance == Spec => DreamsSpaced
<1>1. Init => DreamRowsAged
  BY DEF Init, DreamRowsAged
<1>2. QueueSound /\ DreamRowsAged /\ [Next]_vars => [dreamAge' > dreamAge => dreamAge = 0]_vars
  BY DreamsAge
<1>3. QED
  BY <1>1, <1>2, DreamsAge, TableStaysSound, PTL DEF Spec, DreamsSpaced
=============================================================================
