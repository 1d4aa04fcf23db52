---------------------------- MODULE ChangeLogProofs ----------------------------
(* Machine-checked proofs about module ChangeLog, for any set of tables, any *)
(* scan limit and every bound.                                               *)
EXTENDS ChangeLog, TLAPS

\* Appending to the history of accepted statements.
LEMMA AcceptFacts ==
    ASSUME accepted \in Seq(Nat), NEW x \in Nat
    PROVE  /\ Append(accepted, x) \in Seq(Nat)
           /\ Len(accepted) \in Nat
           /\ Len(Append(accepted, x)) = Len(accepted) + 1
           /\ \A i \in 1..Len(accepted) : Append(accepted, x)[i] = accepted[i]
           /\ Append(accepted, x)[Len(accepted) + 1] = x
OBVIOUS

\* What was consumed stays consumed.
LEMMA ConsumedGrows ==
    ASSUME TypeOK, [Next]_vars
    PROVE  \A w : Consumed(w) => Consumed(w)'
<1>1. ASSUME UNCHANGED history PROVE \A w : Consumed(w) => Consumed(w)'
  BY <1>1 DEF history, Consumed, Handled, Accepted
<1>2. ASSUME NEW c \in changes, PublishOK(c)
      PROVE  \A w : Consumed(w) => Consumed(w)'
  <2>1. c.id \in Nat /\ accepted \in Seq(Nat) BY DEF TypeOK, GlobalRow
  <2>2. /\ accepted' = Append(accepted, c.id)
        /\ failed' = failed /\ unread' = unread
    BY <1>2 DEF PublishOK
  <2>3. /\ Len(accepted) \in Nat
        /\ Len(accepted') = Len(accepted) + 1
        /\ \A i \in 1..Len(accepted) : accepted'[i] = accepted[i]
    BY <2>1, <2>2, AcceptFacts
  <2>4. \A i \in 1..Len(accepted) : i \in 1..Len(accepted') BY <2>3
  <2> QED BY <2>2, <2>3, <2>4 DEF Consumed, Handled, Accepted
<1>3. ASSUME NEW c \in changes, PublishError(c) \/ PublishUnread(c)
      PROVE  \A w : Consumed(w) => Consumed(w)'
  BY <1>3 DEF PublishError, PublishUnread, Consumed, Handled, Accepted
<1>4. ASSUME NEW c \in changes, PublishCanceled(c) \/ Mark(c) \/ MarkError(c)
      PROVE  UNCHANGED history
  BY <1>4 DEF PublishCanceled, Mark, MarkError
<1>5. ASSUME Start \/ Wake \/ Scan \/ ScanError \/ Cancel \/ Exit \/ Crash
      PROVE  UNCHANGED history
  BY <1>5 DEF Start, Wake, Scan, ScanError, Cancel, Exit, Crash
<1>6. ASSUME NEW t \in Tables, AppWrite(t) PROVE UNCHANGED history
  BY <1>6 DEF AppWrite
<1>7. ASSUME NEW t \in Tables, NEW b \in 1..MaxWrites, CleanupChangeLogs(t, b)
      PROVE  UNCHANGED history
  BY <1>7 DEF CleanupChangeLogs
<1>8. ASSUME UNCHANGED vars PROVE UNCHANGED history BY <1>8 DEF vars
<1> QED BY <1>1, <1>2, <1>3, <1>4, <1>5, <1>6, <1>7, <1>8 DEF Next, Watcher, Visit

\* A captured statement preserves the invariant.
LEMMA StepAppWrite ==
    ASSUME IndInv, NEW t \in Tables, AppWrite(t)
    PROVE  IndInv'
<1> USE DEF IndInv
<1> DEFINE row == [table |-> t, id |-> lastId[t] + 1, created_at |-> commits + 1,
                   state |-> "Pending"]
           g == [id |-> commits + 1, table_name |-> t,
                 change_table_id |-> lastId[t] + 1]
<1>1. lastId[t] + 1 \in Nat /\ commits + 1 \in Nat BY DEF TypeOK
<1>2. row \in LogRow /\ g \in GlobalRow BY <1>1 DEF LogRow, GlobalRow
<1>3. /\ changeLog' = changeLog \cup {row}
      /\ globalLog' = globalLog \cup {g}
      /\ commits' = commits + 1
      /\ lastId' = [lastId EXCEPT ![t] = lastId[t] + 1]
      /\ UNCHANGED <<pc, changes, canceled, accepted, failed, unread>>
      /\ notified' \in BOOLEAN
  BY DEF AppWrite, Notify, watcher, history
<1>4. UNCHANGED counters BY DEF AppWrite
<1>5. /\ g.id = commits + 1 /\ g.table_name = t
      /\ g.change_table_id = lastId[t] + 1
      /\ row.table = t /\ row.id = lastId[t] + 1 /\ row.state = "Pending"
  OBVIOUS
<1> HIDE DEF row, g
<1>6. lastId' \in [Tables -> Nat] BY <1>1, <1>3 DEF TypeOK
<1>7. \A u \in Tables : lastId[u] <= lastId'[u] /\ lastId[u] \in Nat
  BY <1>1, <1>3 DEF TypeOK
<1>8. TypeOK' BY <1>1, <1>2, <1>3, <1>4, <1>6 DEF TypeOK, counters
<1>9. \A h \in globalLog : /\ h.table_name \in Tables /\ h.id \in Nat
                           /\ h.change_table_id \in Nat
  BY DEF TypeOK, GlobalRow
<1>10. KeyInv'
  <2>1. \A h \in globalLog : h.id <= commits'
    BY <1>3, <1>9 DEF KeyInv, TypeOK
  <2>2. \A h \in globalLog : h.change_table_id <= lastId'[h.table_name]
    BY <1>6, <1>7, <1>9 DEF KeyInv, TypeOK
  <2>3. g.id <= commits' /\ g.change_table_id <= lastId'[g.table_name]
    BY <1>1, <1>3, <1>5, <1>6 DEF TypeOK
  <2>4. \A h \in globalLog : ~(/\ h.table_name = g.table_name
                               /\ h.change_table_id = g.change_table_id)
    BY <1>1, <1>5, <1>7, <1>9 DEF KeyInv
  <2>5. \A h \in globalLog : h.id # g.id
    BY <1>1, <1>5, <1>9 DEF KeyInv, TypeOK
  <2> QED BY <1>3, <2>1, <2>2, <2>3, <2>4, <2>5 DEF KeyInv
<1>11. LoopInv'
  <2>1. \A w : Consumed(w) => Consumed(w)' BY <1>3 DEF Consumed, Handled, Accepted
  <2>2. \A c \in changes : c.id <= commits /\ c.id \in Nat
    BY <1>9 DEF KeyInv, TypeOK
  <2>3. \A c \in changes : ~(g.id < c.id) BY <1>1, <1>5, <2>2 DEF TypeOK
  <2> QED BY <1>3, <2>1, <2>3 DEF LoopInv, AtHead
<1>12. LogsAgree' BY <1>3, <1>5 DEF LogsAgree, Found
<1>13. NothingForgotten'
  <2>1. \A w \in 1..commits' : w \in 1..commits \/ w = commits + 1
    BY <1>3 DEF TypeOK
  <2> QED BY <1>3, <1>5, <2>1 DEF NothingForgotten, Queued, Consumed, Handled, Accepted
<1>14. FirstInOrder' BY <1>3 DEF FirstInOrder
<1> QED BY <1>8, <1>10, <1>11, <1>12, <1>13, <1>14

\* Steps that leave the logs and the histories alone, and at most forget the
\* rows still to be visited, preserve the invariant.
LEMMA StepFrame ==
    ASSUME IndInv, UNCHANGED <<tables, history>>,
           changes' \in {changes, {}},
           pc' \in {"down", "idle", "scan", "publish", "mark"},
           pc' = "mark" => pc = "mark" /\ changes' = changes,
           notified' \in BOOLEAN, canceled' \in BOOLEAN,
           stops' \in Nat, publishErrors' \in Nat, markErrors' \in Nat,
           scanErrors' \in Nat
    PROVE  IndInv'
<1> USE DEF IndInv, tables, history
<1>1. TypeOK' BY DEF TypeOK
<1>2. KeyInv' BY DEF KeyInv
<1>3. LoopInv' BY DEF LoopInv, AtHead, Consumed, Handled, Accepted
<1>4. LogsAgree' BY DEF LogsAgree, Found
<1>5. NothingForgotten' BY DEF NothingForgotten, Queued, Consumed, Handled, Accepted
<1>6. FirstInOrder' BY SMTT(40) DEF FirstInOrder
<1> QED BY <1>1, <1>2, <1>3, <1>4, <1>5, <1>6

\* A scan preserves the invariant: it takes the first rows.
LEMMA StepScan ==
    ASSUME IndInv, Scan
    PROVE  IndInv'
<1> USE DEF IndInv
<1>1. PICK B \in SUBSET globalLog : /\ FirstChanges(B)
                                    /\ changes' = B
                                    /\ pc' = IF B = {} THEN "idle" ELSE "publish"
  BY DEF Scan
<1>2. UNCHANGED <<tables, notified, canceled, history, counters>> BY DEF Scan
<1>3. TypeOK' BY <1>1, <1>2 DEF TypeOK, tables, history, counters
<1>4. KeyInv' BY <1>2 DEF KeyInv, tables
<1>5. LoopInv'
  <2>1. pc' # "mark" BY <1>1
  <2>2. ASSUME NEW c \in B, NEW g \in globalLog, g.id < c.id PROVE g \in B
    <3>1. c.id \in Nat /\ g.id \in Nat BY Zenon, <1>1 DEF TypeOK, GlobalRow
    <3>2. g \notin B => c.id < g.id BY <1>1 DEF FirstChanges
    <3> QED BY <2>2, <3>1, <3>2
  <2> QED BY <1>1, <1>2, <2>1, <2>2 DEF LoopInv, tables
<1>6. LogsAgree' BY <1>2 DEF LogsAgree, Found, tables
<1>7. NothingForgotten' BY <1>2 DEF NothingForgotten, Queued, Consumed, Handled, Accepted, tables, history
<1>8. FirstInOrder' BY <1>2 DEF FirstInOrder, history
<1> QED BY <1>3, <1>4, <1>5, <1>6, <1>7, <1>8

\* Handing a row over preserves the invariant: everything before it was
\* handed over already.
LEMMA StepPublishOK ==
    ASSUME IndInv, NEW c \in changes, PublishOK(c)
    PROVE  IndInv'
<1> USE DEF IndInv
<1>1. /\ AtHead(c)
      /\ accepted' = Append(accepted, c.id)
      /\ pc' = "mark"
      /\ UNCHANGED <<tables, changes, notified, canceled, failed, unread, counters>>
  BY DEF PublishOK
<1>2. /\ c \in globalLog /\ c.id \in Nat /\ c.id <= commits
      /\ accepted \in Seq(Nat) /\ commits \in Nat
  BY DEF TypeOK, GlobalRow, KeyInv
<1>3. /\ accepted' \in Seq(Nat)
      /\ Len(accepted) \in Nat
      /\ Len(accepted') = Len(accepted) + 1
      /\ \A i \in 1..Len(accepted) : accepted'[i] = accepted[i]
      /\ accepted'[Len(accepted) + 1] = c.id
  BY <1>1, <1>2, AcceptFacts
<1>4. \A w : Consumed(w) => Consumed(w)'
  BY ConsumedGrows DEF Next, Watcher, Visit
<1>5. Consumed(c.id)'
  <2>1. Len(accepted) + 1 \in 1..Len(accepted') BY <1>3
  <2> QED BY <1>3, <2>1 DEF Consumed, Handled, Accepted
<1>6. TypeOK' BY <1>1, <1>3 DEF TypeOK, tables, counters
<1>7. KeyInv' BY <1>1 DEF KeyInv, tables
<1>8. LoopInv'
  <2>1. ASSUME NEW d \in changes, AtHead(d) PROVE d.id = c.id
    <3>1. d.id \in Nat BY DEF TypeOK, GlobalRow
    <3> QED BY <1>1, <1>2, <2>1, <3>1 DEF AtHead
  <2>2. \A d \in changes : AtHead(d) => Consumed(d.id)' BY <1>5, <2>1
  <2>3. \A d \in changes, g \in globalLog :
           g.id < d.id => g \in changes \/ Consumed(g.id)'
    BY <1>4 DEF LoopInv
  <2> QED BY <1>1, <2>2, <2>3 DEF LoopInv, AtHead, tables
<1>9. LogsAgree' BY <1>1 DEF LogsAgree, Found, tables
<1>10. NothingForgotten'
  <2>1. \A w \in 1..commits : Consumed(w) \/ \E g \in globalLog : g.id = w
    BY DEF NothingForgotten, Queued
  <2>2. \A w \in 1..commits : Consumed(w)' \/ \E g \in globalLog : g.id = w
    BY <1>4, <2>1
  <2> QED BY <1>1, <2>2 DEF NothingForgotten, Queued, tables
<1>11. FirstInOrder'
  <2> SUFFICES ASSUME NEW j \in 1..Len(accepted'),
                      NEW w \in 1..(accepted'[j] - 1)
               PROVE  w \in failed' \cup unread' \/ \E i \in 1..(j - 1) : accepted'[i] = w
    BY DEF FirstInOrder
  <2>1. CASE j \in 1..Len(accepted)
    <3>1. accepted'[j] = accepted[j] BY Zenon, <1>3, <2>1
    <3>2. w \in failed \cup unread \/ \E i \in 1..(j - 1) : accepted[i] = w
      BY <2>1, <3>1 DEF FirstInOrder
    <3>3. \A i \in 1..(j - 1) : accepted'[i] = accepted[i] BY <1>3, <2>1
    <3> QED BY <1>1, <3>2, <3>3
  <2>2. CASE j = Len(accepted) + 1
    <3>1. w \in Nat /\ w < c.id /\ w \in 1..commits BY <1>2, <1>3, <2>2
    <3>2. Consumed(w)
      <4>1. Consumed(w) \/ \E g \in globalLog : g.id = w
        BY <3>1 DEF NothingForgotten, Queued
      <4>2. ASSUME NEW g \in globalLog, g.id = w PROVE Consumed(w)
        <5>1. g \notin changes BY <1>1, <1>2, <3>1, <4>2 DEF AtHead
        <5> QED BY <3>1, <4>2, <5>1 DEF LoopInv
      <4> QED BY <4>1, <4>2
    <3>3. ASSUME Accepted(w) PROVE \E i \in 1..(j - 1) : accepted'[i] = w
      BY <1>3, <2>2, <3>3 DEF Accepted
    <3> QED BY <1>1, <3>2, <3>3 DEF Consumed, Handled
  <2> QED BY <1>3, <2>1, <2>2
<1> QED BY <1>6, <1>7, <1>8, <1>9, <1>10, <1>11

\* A failure of consumeChangeLogs preserves the invariant: the row counts as
\* failed or as unread.
LEMMA StepPublishError ==
    ASSUME IndInv, NEW c \in changes, PublishError(c) \/ PublishUnread(c)
    PROVE  IndInv'
<1> USE DEF IndInv
<1>1. /\ AtHead(c)
      /\ \/ failed' = failed \cup {c.id} /\ unread' = unread
         \/ failed' = failed /\ unread' = unread \cup {c.id}
      /\ pc' = "mark"
      /\ publishErrors' = publishErrors + 1
      /\ UNCHANGED <<tables, changes, notified, canceled, accepted,
                     stops, markErrors, scanErrors>>
  BY DEF PublishError, PublishUnread
<1>2. c.id \in Nat BY DEF TypeOK, GlobalRow
<1>3. \A w : Consumed(w) => Consumed(w)' BY <1>1 DEF Consumed, Handled, Accepted
<1>4. TypeOK'
  <2>1. failed' \subseteq Nat /\ unread' \subseteq Nat
    <3>1. failed \subseteq Nat /\ unread \subseteq Nat BY DEF TypeOK
    <3> QED BY Zenon, <1>1, <1>2, <3>1
  <2>2. publishErrors' \in Nat BY SMTT(40), <1>1 DEF TypeOK
  <2> QED BY <1>1, <2>1, <2>2 DEF TypeOK, tables
<1>5. KeyInv' BY <1>1 DEF KeyInv, tables
<1>6. LoopInv'
  <2>1. ASSUME NEW d \in changes, AtHead(d) PROVE d.id = c.id
    <3>1. d.id \in Nat BY DEF TypeOK, GlobalRow
    <3> QED BY <1>1, <1>2, <2>1, <3>1 DEF AtHead
  <2>2. \A d \in changes : AtHead(d) => Consumed(d.id)'
    BY <1>1, <2>1 DEF Consumed, Handled
  <2>3. \A d \in changes, g \in globalLog :
           g.id < d.id => g \in changes \/ Consumed(g.id)'
    BY <1>3 DEF LoopInv
  <2> QED BY <1>1, <2>2, <2>3 DEF LoopInv, AtHead, tables
<1>7. LogsAgree' BY <1>1 DEF LogsAgree, Found, tables
<1>8. NothingForgotten' BY <1>1 DEF NothingForgotten, Queued, Consumed, Handled, Accepted, tables
<1>9. FirstInOrder' BY <1>1 DEF FirstInOrder
<1> QED BY <1>4, <1>5, <1>6, <1>7, <1>8, <1>9

\* Leaving a row behind keeps LoopInv: the row was consumed.
LEMMA NextChangeLoop ==
    ASSUME TypeOK, LoopInv, NEW c \in changes, AtHead(c), pc = "mark",
           NextChange(c), UNCHANGED history, globalLog' \subseteq globalLog
    PROVE  LoopInv' /\ changes' \subseteq changes /\ pc' \in {"idle", "publish"}
<1>1. Consumed(c.id) BY DEF LoopInv
<1>2. \A w : Consumed(w) => Consumed(w)' BY DEF Consumed, Handled, Accepted, history
<1>3. pc' # "mark" /\ changes' = changes \ {c} BY DEF NextChange
<1>4. ASSUME NEW d \in changes', NEW g \in globalLog', g.id < d.id
      PROVE  g \in changes' \/ Consumed(g.id)'
  <2>1. CASE g = c BY <1>1, <1>2, <2>1
  <2>2. CASE g # c BY <1>2, <1>3, <1>4, <2>2 DEF LoopInv
  <2> QED BY <2>1, <2>2
<1>5. LoopInv' BY <1>3, <1>4 DEF LoopInv
<1> QED BY <1>5 DEF NextChange

\* Marking preserves the invariant: exactly the row's pair of entries changes.
LEMMA StepMark ==
    ASSUME IndInv, NEW c \in changes, Mark(c)
    PROVE  IndInv'
<1> USE DEF IndInv
<1> DEFINE Marked(row) == row.table = c.table_name /\ row.id = c.change_table_id
<1>1. /\ pc = "mark" /\ AtHead(c) /\ NextChange(c)
      /\ globalLog' = globalLog \ {c}
      /\ UNCHANGED <<lastId, commits, canceled, history, counters>>
      /\ notified' \in BOOLEAN
  BY DEF Mark, Notify
<1>2. changeLog' = {IF Marked(row) THEN [row EXCEPT !.state = "Published"]
                                   ELSE row : row \in changeLog}
  BY DEF Mark
<1>3. LoopInv' /\ changes' \subseteq changes /\ pc' \in {"idle", "publish"}
  BY <1>1, NextChangeLoop
<1>4. changeLog' \subseteq LogRow
  <2>1. ASSUME NEW row \in LogRow PROVE [row EXCEPT !.state = "Published"] \in LogRow
    BY DEF LogRow
  <2>2. changeLog \subseteq LogRow BY Zenon DEF TypeOK
  <2> QED BY Zenon, <1>2, <2>1, <2>2
<1>5. TypeOK'
  <2>1. changes' \subseteq globalLog' BY <1>1 DEF TypeOK, NextChange
  <2>2. globalLog' \subseteq GlobalRow BY <1>1 DEF TypeOK
  <2> QED BY <1>1, <1>3, <1>4, <2>1, <2>2 DEF TypeOK, history, counters
<1>6. KeyInv' BY <1>1 DEF KeyInv
<1>7. LogsAgree'
  <2>1. ASSUME NEW g \in globalLog' PROVE Found(g)'
    <3>1. g \in globalLog /\ g # c /\ c \in globalLog BY <1>1 DEF TypeOK
    <3>2. PICK row \in changeLog : /\ row.table = g.table_name
                                   /\ row.id = g.change_table_id
                                   /\ row.state = "Pending"
      BY <3>1 DEF LogsAgree, Found
    <3>3. ~Marked(row) BY <3>1, <3>2 DEF KeyInv
    <3>4. row \in changeLog' BY Zenon, <1>2, <3>3
    <3> QED BY <3>2, <3>4 DEF Found
  <2>2. ASSUME NEW row \in changeLog', row.state = "Pending"
        PROVE  \E g \in globalLog' : /\ g.table_name = row.table
                                     /\ g.change_table_id = row.id
    <3>1. PICK old \in changeLog :
             row = IF Marked(old) THEN [old EXCEPT !.state = "Published"]
                                  ELSE old
      BY <1>2
    <3>2. old \in LogRow BY DEF TypeOK
    <3>3. ~Marked(old) /\ row = old BY <2>2, <3>1, <3>2 DEF LogRow
    <3>4. PICK g \in globalLog : /\ g.table_name = row.table
                                 /\ g.change_table_id = row.id
      BY <2>2, <3>3 DEF LogsAgree
    <3>5. g # c BY <3>3, <3>4
    <3> QED BY <1>1, <3>4, <3>5
  <2> QED BY Zenon, <2>1, <2>2 DEF LogsAgree
<1>8. NothingForgotten'
  <2>1. Consumed(c.id) BY <1>1 DEF LoopInv
  <2>2. \A w \in 1..commits : Consumed(w) \/ \E g \in globalLog' : g.id = w
    BY <1>1, <2>1 DEF NothingForgotten, Queued
  <2> QED BY <1>1, <2>2 DEF NothingForgotten, Queued, Consumed, Handled, Accepted, history
<1>9. FirstInOrder' BY <1>1 DEF FirstInOrder, history
<1> QED BY <1>3, <1>5, <1>6, <1>7, <1>8, <1>9

\* A failed mark preserves the invariant.
LEMMA StepMarkError ==
    ASSUME IndInv, NEW c \in changes, MarkError(c)
    PROVE  IndInv'
<1> USE DEF IndInv
<1>1. /\ pc = "mark" /\ AtHead(c) /\ NextChange(c)
      /\ markErrors' = markErrors + 1
      /\ UNCHANGED <<tables, notified, canceled, history,
                     stops, publishErrors, scanErrors>>
  BY DEF MarkError
<1>2. LoopInv' /\ changes' \subseteq changes /\ pc' \in {"idle", "publish"}
  BY <1>1, NextChangeLoop DEF tables
<1>3. TypeOK' BY <1>1, <1>2 DEF TypeOK, tables, history
<1>4. KeyInv' BY Zenon, <1>1 DEF KeyInv, tables
<1>5. LogsAgree' BY <1>1 DEF LogsAgree, Found, tables
<1>6. NothingForgotten' BY <1>1 DEF NothingForgotten, Queued, Consumed, Handled, Accepted, tables, history
<1>7. FirstInOrder' BY <1>1 DEF FirstInOrder, history
<1> QED BY <1>2, <1>3, <1>4, <1>5, <1>6, <1>7

\* The clean-up preserves the invariant: pending rows stay.
LEMMA StepCleanup ==
    ASSUME IndInv, NEW t \in Tables, NEW before \in 1..MaxWrites,
           CleanupChangeLogs(t, before)
    PROVE  IndInv'
<1> USE DEF IndInv
<1>1. /\ changeLog' \subseteq changeLog
      /\ \A row \in changeLog : row.state = "Pending" => row \in changeLog'
      /\ UNCHANGED <<globalLog, lastId, commits, watcher, canceled, history,
                     counters>>
      /\ notified' \in BOOLEAN
  BY DEF CleanupChangeLogs, Notify
<1>2. TypeOK' BY Zenon, <1>1 DEF TypeOK, watcher, history, counters
<1>3. KeyInv' BY <1>1 DEF KeyInv
<1>4. LoopInv' BY Zenon, <1>1 DEF LoopInv, AtHead, Consumed, Handled, Accepted, watcher, history
<1>5. LogsAgree' BY <1>1 DEF LogsAgree, Found
<1>6. NothingForgotten' BY <1>1 DEF NothingForgotten, Queued, Consumed, Handled, Accepted, history
<1>7. FirstInOrder' BY <1>1 DEF FirstInOrder, history
<1> QED BY <1>2, <1>3, <1>4, <1>5, <1>6, <1>7

-----------------------------------------------------------------------------
(* The theorems *)

\* The invariant holds initially.
LEMMA IndInvInit == Init => IndInv
<1> SUFFICES ASSUME Init PROVE IndInv OBVIOUS
<1>1. TypeOK
  <2>1. accepted \in Seq(Nat) BY DEF Init
  <2>2. lastId \in [Tables -> Nat] BY DEF Init
  <2>3. notified \in BOOLEAN /\ canceled \in BOOLEAN BY Zenon DEF Init
  <2> QED BY <2>1, <2>2, <2>3 DEF Init, TypeOK
<1>2. KeyInv /\ LoopInv /\ LogsAgree BY DEF Init, KeyInv, LoopInv, LogsAgree
<1>3. NothingForgotten BY DEF Init, NothingForgotten
<1>4. FirstInOrder BY DEF Init, FirstInOrder
<1> QED BY <1>1, <1>2, <1>3, <1>4 DEF IndInv

\* The invariant is preserved by every step.
LEMMA IndInvStep == IndInv /\ [Next]_vars => IndInv'
<1> SUFFICES ASSUME IndInv, [Next]_vars PROVE IndInv' OBVIOUS
<1>1. TypeOK BY DEF IndInv
<1>2. ASSUME NEW c \in changes, PublishCanceled(c) PROVE IndInv'
  BY <1>1, <1>2, StepFrame DEF PublishCanceled, TypeOK, counters
<1>3. ASSUME Start \/ Wake PROVE IndInv'
  BY Zenon, <1>1, <1>3, StepFrame DEF Start, Wake, TypeOK, counters
<1>4. ASSUME ScanError PROVE IndInv'
  BY <1>1, <1>4, StepFrame DEF ScanError, TypeOK
<1>5. ASSUME Cancel PROVE IndInv'
  BY <1>1, <1>5, StepFrame DEF Cancel, TypeOK, watcher
<1>6. ASSUME Exit \/ Crash PROVE IndInv'
  <2>1. /\ UNCHANGED <<tables, history>>
        /\ pc' = "down" /\ changes' = {}
        /\ notified' \in BOOLEAN /\ canceled' \in BOOLEAN
    BY Zenon, <1>6 DEF Exit, Crash, Down
  <2>2. /\ stops' \in Nat /\ publishErrors' \in Nat
        /\ markErrors' \in Nat /\ scanErrors' \in Nat
    <3>1. CASE Exit BY <1>1, <3>1 DEF Exit, counters, TypeOK
    <3>2. CASE Crash BY <1>1, <3>2 DEF Crash, TypeOK
    <3> QED BY <1>6, <3>1, <3>2
  <2> QED BY <2>1, <2>2, StepFrame
<1>7. ASSUME UNCHANGED vars PROVE IndInv'
  BY <1>1, <1>7, StepFrame DEF vars, watcher, counters, TypeOK
<1> QED
  BY <1>2, <1>3, <1>4, <1>5, <1>6, <1>7, StepAppWrite, StepScan, StepPublishOK,
     StepPublishError, StepMark, StepMarkError, StepCleanup
  DEF Next, Watcher, Visit

\* The invariant holds in every reachable state.
THEOREM Inductive == Spec => []IndInv
BY IndInvInit, IndInvStep, PTL DEF Spec

\* The change log tables, the watcher and the counters keep their types.
THEOREM TypeCorrect == Spec => []TypeOK
<1>1. IndInv => TypeOK BY DEF IndInv
<1> QED BY <1>1, Inductive, PTL

\* publishChangeLog never meets a global row without a pending row, and every
\* pending row is queued.
THEOREM LogsAlwaysAgree == Spec => []LogsAgree
<1>1. IndInv => LogsAgree BY DEF IndInv
<1> QED BY <1>1, Inductive, PTL

\* No captured statement leaves the queue before consumeChangeLogs returned for
\* it, whether it called OnChange or failed before.
THEOREM NeverForgotten == Spec => []NothingForgotten
<1>1. IndInv => NothingForgotten BY DEF IndInv
<1> QED BY <1>1, Inductive, PTL

\* A step that leaves the global log, the count and the history alone is not
\* visible in the queue.
LEMMA QueueFrame ==
    ASSUME UNCHANGED <<globalLog, commits, accepted, failed, unread>>
    PROVE  UNCHANGED Queue!vars
BY SMTT(40) DEF Queue!vars

\* Every step is a step of the queue or leaves it alone.
LEMMA QueueStep == IndInv /\ [Next]_vars => [Queue!Next]_Queue!vars
<1> SUFFICES ASSUME IndInv, [Next]_vars PROVE [Queue!Next]_Queue!vars OBVIOUS
<1> USE DEF IndInv
<1>1. ASSUME NEW t \in Tables, AppWrite(t) PROVE Queue!Capture
  <2> DEFINE row == [id |-> commits + 1, table_name |-> t,
                     change_table_id |-> lastId[t] + 1]
  <2>1. /\ globalLog' = globalLog \cup {row} /\ commits' = commits + 1
        /\ accepted' = accepted /\ failed' = failed /\ unread' = unread
    BY <1>1 DEF AppWrite, history
  <2>2. row.id = commits + 1 OBVIOUS
  <2> HIDE DEF row
  <2>3. {g.id : g \in globalLog'} = {g.id : g \in globalLog} \cup {commits + 1}
    BY Zenon, <2>1, <2>2
  <2> QED BY Zenon, <2>1, <2>3 DEF Queue!Capture
<1>2. ASSUME NEW c \in changes, PublishOK(c) \/ PublishError(c)
      PROVE  c \in globalLog /\ Queue!HandOver(c.id)
  <2>1. c \in globalLog /\ c.id \in Nat /\ accepted \in Seq(Nat)
    BY DEF TypeOK, GlobalRow
  <2>2. UNCHANGED <<commits, globalLog, unread>>
    BY <1>2 DEF PublishOK, PublishError, tables
  <2>3. \A g \in globalLog : g.id < c.id => Consumed(g.id)
    <3>1. \A d \in changes : c.id <= d.id /\ d.id \in Nat
      BY Zenon, <1>2 DEF PublishOK, PublishError, AtHead, TypeOK, GlobalRow
    <3> QED BY SMTT(40), <2>1, <3>1 DEF LoopInv
  <2>4. {accepted'[i] : i \in 1..Len(accepted')} \cup failed'
          = ({accepted[i] : i \in 1..Len(accepted)} \cup failed) \cup {c.id}
    <3>1. CASE PublishOK(c)
      <4>1. accepted' = Append(accepted, c.id) /\ failed' = failed
        BY <3>1 DEF PublishOK
      <4>2. /\ Len(accepted) \in Nat
            /\ Len(accepted') = Len(accepted) + 1
            /\ \A i \in 1..Len(accepted) : accepted'[i] = accepted[i]
            /\ accepted'[Len(accepted) + 1] = c.id
        BY <2>1, <4>1, AcceptFacts
      <4>3. 1..Len(accepted') = 1..Len(accepted) \cup {Len(accepted) + 1}
        BY <4>2
      <4> QED BY <4>1, <4>2, <4>3
    <3>2. CASE PublishError(c) BY <3>2 DEF PublishError
    <3> QED BY <1>2, <3>1, <3>2
  <2> QED BY Zenon, <2>1, <2>2, <2>3, <2>4 DEF Queue!HandOver, Queue!Turn, Consumed, Handled, Accepted
<1>3. ASSUME NEW c \in changes, PublishUnread(c)
      PROVE  c \in globalLog /\ Queue!Drop(c.id)
  <2>1. c \in globalLog /\ c.id \in Nat BY DEF TypeOK, GlobalRow
  <2>2. /\ UNCHANGED <<commits, globalLog, accepted, failed>>
        /\ unread' = unread \cup {c.id}
    BY <1>3 DEF PublishUnread, tables
  <2>3. \A g \in globalLog : g.id < c.id => Consumed(g.id)
    <3>1. \A d \in changes : c.id <= d.id /\ d.id \in Nat
      BY Zenon, <1>3 DEF PublishUnread, AtHead, TypeOK, GlobalRow
    <3> QED BY SMTT(40), <2>1, <3>1 DEF LoopInv
  <2> QED BY Zenon, <2>1, <2>2, <2>3 DEF Queue!Drop, Queue!Turn, Consumed, Handled, Accepted
<1>4. ASSUME NEW c \in changes, Mark(c)
      PROVE  c \in globalLog /\ Queue!Remove(c.id)
  <2>1. c \in globalLog BY DEF TypeOK
  <2>2. /\ globalLog' = globalLog \ {c} /\ commits' = commits
        /\ accepted' = accepted /\ failed' = failed /\ unread' = unread
    BY <1>4 DEF Mark, history
  <2>3. Consumed(c.id) BY <1>4 DEF Mark, LoopInv
  <2>4. {g.id : g \in globalLog'} = {g.id : g \in globalLog} \ {c.id}
    BY <2>1, <2>2 DEF KeyInv
  <2> QED BY <2>1, <2>2, <2>3, <2>4 DEF Queue!Remove, Consumed, Handled, Accepted
<1>5. ASSUME NEW c \in changes, PublishCanceled(c) \/ MarkError(c)
      PROVE  UNCHANGED Queue!vars
  BY SMTT(40), <1>5, QueueFrame DEF PublishCanceled, MarkError, tables, history
<1>6. ASSUME Start \/ Wake \/ Scan \/ ScanError \/ Cancel \/ Exit \/ Crash
      PROVE  UNCHANGED Queue!vars
  BY <1>6, QueueFrame
  DEF Start, Wake, Scan, ScanError, Cancel, Exit, Crash, tables, history
<1>7. ASSUME NEW t \in Tables, NEW b \in 1..MaxWrites, CleanupChangeLogs(t, b)
      PROVE  UNCHANGED Queue!vars
  BY <1>7, QueueFrame DEF CleanupChangeLogs, history
<1>8. ASSUME UNCHANGED vars PROVE UNCHANGED Queue!vars
  BY <1>8, QueueFrame DEF vars, tables, history
<1>9. \A c \in globalLog : c.id \in {g.id : g \in globalLog} OBVIOUS
<1> QED
  BY <1>1, <1>2, <1>3, <1>4, <1>5, <1>6, <1>7, <1>8, <1>9
  DEF Next, Watcher, Visit, Queue!Next

\* Statements are first handed over in commit order.
THEOREM HandedOverInOrder == Spec => []FirstInOrder
<1>1. IndInv => FirstInOrder BY DEF IndInv
<1> QED BY <1>1, Inductive, PTL

\* The change log, its watcher, the clean-up, the shutdown and the crashes
\* implement the durable queue.
THEOREM ChangeLogIsAQueue == Spec => ImplementsQueue
<1>1. Init => Queue!Init
  <2>1. ASSUME Init PROVE 1..Len(accepted) = {} BY <2>1 DEF Init
  <2> QED BY <2>1 DEF Init, Queue!Init
<1> QED BY <1>1, QueueStep, Inductive, PTL DEF Spec, ImplementsQueue, Queue!Spec
=============================================================================
