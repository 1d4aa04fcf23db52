---------------------------- MODULE CdcSchemaProofs ----------------------------
(***************************************************************************)
(* Proofs about the change capture schema, for any set of tables and any    *)
(* number of interrupted installations and removals.                        *)
(***************************************************************************)
EXTENDS CdcSchema, TLAPS

\* The script is seven statements long: the log table, then for each kind of
\* statement its trigger dropped and created.
LEMMA ScriptFacts ==
  ASSUME NEW t
  PROVE  /\ Len(TableScript(t)) = 7
         /\ TableScript(t)[1] = <<"table", "delete">>
         /\ TableScript(t)[2] = <<"drop", "delete">>
         /\ TableScript(t)[3] = <<"create", "delete">>
         /\ TableScript(t)[4] = <<"drop", "insert">>
         /\ TableScript(t)[5] = <<"create", "insert">>
         /\ TableScript(t)[6] = <<"drop", "update">>
         /\ TableScript(t)[7] = <<"create", "update">>
  BY DEF TableScript

\* What one statement of the script does.
LEMMA StatementEffect ==
  ASSUME TypeOK, ExecStatement
  PROVE  /\ at = 1 => metaTables' = metaTables \cup {table} /\ triggers' = triggers
         /\ at # 1 => metaTables' = metaTables
         /\ at = 2 => triggers' = triggers \ {<<table, "delete">>}
         /\ at = 3 => triggers' = triggers \cup {<<table, "delete">>}
         /\ at = 4 => triggers' = triggers \ {<<table, "insert">>}
         /\ at = 5 => triggers' = triggers \cup {<<table, "insert">>}
         /\ at = 6 => triggers' = triggers \ {<<table, "update">>}
         /\ at = 7 => triggers' = triggers \cup {<<table, "update">>}
         /\ at = 7 => mode' = "tables" /\ at' = 1
         /\ at # 7 => mode' = "script" /\ at' = at + 1
  <1>1. at \in {1, 2, 3, 4, 5, 6, 7}
    BY DEF TypeOK
  <1>2. CASE at = 1
    BY <1>2, ScriptFacts DEF ExecStatement
  <1>3. CASE at = 2
    BY <1>3, ScriptFacts DEF ExecStatement
  <1>4. CASE at = 3
    BY <1>4, ScriptFacts DEF ExecStatement
  <1>5. CASE at = 4
    BY <1>5, ScriptFacts DEF ExecStatement
  <1>6. CASE at = 5
    BY <1>6, ScriptFacts DEF ExecStatement
  <1>7. CASE at = 6
    BY <1>7, ScriptFacts DEF ExecStatement
  <1>8. CASE at = 7
    BY <1>8, ScriptFacts DEF ExecStatement
  <1>. QED BY Zenon, <1>1, <1>2, <1>3, <1>4, <1>5, <1>6, <1>7, <1>8

-----------------------------------------------------------------------------

\* Initially nothing is installed.
LEMMA InitInd == Init => IndInv
  <1>. SUFFICES ASSUME Init PROVE IndInv
    OBVIOUS
  <1>1. TypeOK
    <2>1. metaTables \subseteq Tables \cup {Global} /\ triggers \subseteq AllTriggers
      BY DEF Init
    <2>2. todo \subseteq Tables \cup {Global} \cup AllTriggers
      BY DEF Init
    <2>3. /\ table \in Tables \cup {Global} /\ at \in 1..7 /\ boots \in Nat
          /\ mode = "down"
      BY DEF Init
    <2>4. promised \in BOOLEAN /\ missed \in BOOLEAN /\ rejected \in BOOLEAN
      BY Zenon DEF Init
    <2>. QED BY <2>1, <2>2, <2>3, <2>4 DEF TypeOK
  <1>2. InstallInv /\ RemoveInv
    BY DEF Init, InstallInv, RemoveInv
  <1>3. NeverRejects /\ WatchedIsCaptured /\ CleanupLeavesNothing
    BY DEF Init, NeverRejects, WatchedIsCaptured, CleanupLeavesNothing
  <1>. QED BY <1>1, <1>2, <1>3 DEF IndInv

\* One statement of a table's script keeps the invariant.
LEMMA ExecInd ==
  ASSUME IndInv, ExecStatement
  PROVE  IndInv'
  <1>0. /\ mode = "script" /\ table \in Tables /\ at \in 1..7
        /\ UNCHANGED <<todo, table, promised, missed, rejected, boots>>
    BY DEF IndInv, TypeOK, ExecStatement, history
  <1>1. at \in {1, 2, 3, 4, 5, 6, 7}
    BY <1>0
  <1>e. TypeOK
    BY DEF IndInv
  <1>2. metaTables \subseteq metaTables' /\ metaTables' \subseteq metaTables \cup {table}
    BY <1>e, StatementEffect
  <1>3. triggers' \subseteq triggers \cup {<<table, k>> : k \in Kinds}
    BY <1>1, <1>e, StatementEffect DEF Kinds
  <1>4. \A x \in triggers : x[1] # table => x \in triggers'
    BY <1>1, <1>e, StatementEffect
  <1>5. TypeOK'
    <2>1. metaTables' \subseteq Tables \cup {Global}
      BY <1>0, <1>2, <1>e DEF TypeOK
    <2>2. triggers' \subseteq AllTriggers
      BY <1>0, <1>3, <1>e DEF TypeOK, AllTriggers
    <2>3. at' \in 1..7 /\ mode' \in {"tables", "script"}
      BY <1>0, <1>e, StatementEffect
    <2>4. todo' \subseteq Tables \cup {Global} \cup AllTriggers
      BY <1>0, <1>2, <1>e DEF TypeOK
    <2>. QED BY <1>0, <1>e, <2>1, <2>2, <2>3, <2>4 DEF TypeOK
  <1>6. InstallInv'
    <2>1. Global \in metaTables' /\ todo' \subseteq Tables
      BY <1>0, <1>2 DEF IndInv, InstallInv
    <2>2. mode' = "script" =>
             /\ at' > 1 => table' \in metaTables'
             /\ at' > 3 => <<table', "delete">> \in triggers'
             /\ at' > 5 => <<table', "insert">> \in triggers'
      BY <1>0, <1>1, <1>e, StatementEffect DEF IndInv, InstallInv
    <2>3. ASSUME NEW t \in Tables, NEW k \in Kinds, t \notin todo',
                 mode' = "tables" \/ (mode' = "script" /\ t # table')
          PROVE  <<t, k>> \in triggers'
      <3>1. CASE t # table
        <4>1. <<t, k>> \in triggers
          BY <1>0, <2>3, <3>1 DEF IndInv, InstallInv
        <4>. QED BY <1>4, <3>1, <4>1
      <3>2. CASE t = table
        <4>1. at = 7
          BY <1>0, <1>e, <2>3, <3>2, StatementEffect
        <4>2. triggers' = triggers \cup {<<table, "update">>}
          BY <4>1, <1>e, StatementEffect
        <4>3. <<table, "delete">> \in triggers /\ <<table, "insert">> \in triggers
          BY <1>0, <4>1 DEF IndInv, InstallInv
        <4>. QED BY <3>2, <4>2, <4>3 DEF Kinds
      <3>. QED BY <3>1, <3>2
    <2>. QED BY <2>1, <2>2, <2>3 DEF InstallInv
  <1>7. mode' \in {"tables", "script"}
    BY <1>0, <1>e, StatementEffect
  <1>8. NeverRejects'
    <2>. SUFFICES ASSUME NEW x \in triggers' PROVE {x[1], Global} \subseteq metaTables'
      BY <1>0 DEF IndInv, NeverRejects
    <2>1. CASE x \in triggers
      BY <1>2, <2>1 DEF IndInv, NeverRejects
    <2>2. CASE x \notin triggers
      <3>1. x[1] = table
        BY <1>3, <2>2
      <3>2. at # 1
        BY <1>e, <2>2, StatementEffect
      <3>. QED BY <1>0, <1>2, <3>1, <3>2 DEF IndInv, InstallInv
    <2>. QED BY <2>1, <2>2
  <1>9. RemoveInv' /\ WatchedIsCaptured' /\ CleanupLeavesNothing'
    BY SMTT(40), <1>7 DEF RemoveInv, WatchedIsCaptured, CleanupLeavesNothing
  <1>. QED BY <1>5, <1>6, <1>8, <1>9 DEF IndInv

\* The other steps of an installation keep the invariant.
LEMMA InstallInd ==
  ASSUME IndInv, InstallCDC, ~ExecStatement
  PROVE  IndInv'
  <1>. USE SchemaAssumption DEF IndInv, TypeOK, InstallInv, RemoveInv,
       NeverRejects, WatchedIsCaptured, CleanupLeavesNothing, history
  <1>1. CASE Boot("boot")
    BY <1>1 DEF Boot
  <1>2. CASE Restore
    BY Zenon, <1>2 DEF Restore
  <1>3. CASE NoRestore
    BY <1>3 DEF NoRestore
  <1>4. CASE InitGlobalChangeLog
    <2>1. TypeOK' /\ RemoveInv' /\ WatchedIsCaptured' /\ CleanupLeavesNothing'
      BY <1>4 DEF InitGlobalChangeLog
    <2>2. InstallInv'
      BY <1>4 DEF InitGlobalChangeLog
    <2>3. NeverRejects'
      BY <1>4 DEF InitGlobalChangeLog
    <2>. QED BY <2>1, <2>2, <2>3
  <1>5. ASSUME NEW t \in todo, InitTriggers(t) PROVE IndInv'
    BY <1>5 DEF InitTriggers
  <1>6. CASE Watch
    <2>1. \A t \in Tables, k \in Kinds : <<t, k>> \in triggers
      BY Zenon, <1>6 DEF Watch
    <2>2. triggers = AllTriggers
      BY SMTT(40), <2>1 DEF AllTriggers
    <2>. QED BY <1>6, <2>2 DEF Watch
  <1>. QED BY <1>1, <1>2, <1>3, <1>4, <1>5, <1>6 DEF InstallCDC

\* Every step of a removal keeps the invariant.
LEMMA RemoveInd ==
  ASSUME IndInv, RemoveCDC
  PROVE  IndInv'
  <1>. USE SchemaAssumption DEF IndInv, TypeOK, InstallInv, RemoveInv,
       NeverRejects, WatchedIsCaptured, CleanupLeavesNothing, history
  <1>1. CASE Boot("cleanup")
    BY <1>1 DEF Boot
  <1>2. CASE ListTriggers
    BY Zenon, <1>2 DEF ListTriggers
  <1>3. ASSUME NEW x \in todo, DropTrigger(x) PROVE IndInv'
    BY <1>3 DEF DropTrigger
  <1>4. CASE ListTables
    BY <1>4 DEF ListTables
  <1>5. ASSUME NEW x \in todo, DropTable(x) PROVE IndInv'
    BY <1>5 DEF DropTable
  <1>6. CASE CleanupComplete
    BY <1>6 DEF CleanupComplete
  <1>. QED BY <1>1, <1>2, <1>3, <1>4, <1>5, <1>6 DEF RemoveCDC

\* Every step keeps the invariant.
LEMMA NextInd == IndInv /\ [Next]_vars => IndInv'
  <1>. SUFFICES ASSUME IndInv, [Next]_vars PROVE IndInv'
    OBVIOUS
  <1>1. ASSUME NEW t \in Tables, NEW k \in Kinds, AppStatement(t, k) PROVE IndInv'
    <2>1. UNCHANGED <<metaTables, triggers, mode, todo, table, at, promised, boots>>
      BY <1>1 DEF AppStatement, process
    <2>2. ~rejected'
      BY Zenon, <1>1 DEF AppStatement, IndInv, NeverRejects
    <2>3. missed' \in BOOLEAN /\ rejected' \in BOOLEAN
      BY <1>1 DEF AppStatement, IndInv, TypeOK
    <2>. QED BY <2>1, <2>2, <2>3 DEF IndInv, TypeOK, InstallInv, RemoveInv,
            NeverRejects, WatchedIsCaptured, CleanupLeavesNothing
  <1>2. CASE InstallCDC
    BY <1>2, ExecInd, InstallInd
  <1>3. CASE RemoveCDC
    BY <1>3, RemoveInd
  <1>4. CASE Stop
    BY <1>4 DEF Stop, IndInv, TypeOK, InstallInv, RemoveInv, NeverRejects,
       WatchedIsCaptured, CleanupLeavesNothing, history
  <1>5. CASE UNCHANGED vars
    BY <1>5 DEF vars, process, history, IndInv, TypeOK, InstallInv, RemoveInv,
       NeverRejects, WatchedIsCaptured, CleanupLeavesNothing
  <1>. QED BY <1>1, <1>2, <1>3, <1>4, <1>5 DEF Next

\* What is installed at every point of an installation or a removal, whatever
\* interrupted the ones before: the inductive invariant.
THEOREM Inductive == Spec => []IndInv
  BY InitInd, NextInd, PTL DEF Spec

\* The schema and the positions of InstallCDC and RemoveCDC keep their types.
THEOREM TypeCorrect == Spec => []TypeOK
  BY Inductive, PTL DEF IndInv

\* A trigger always finds the two change logs it inserts into, so Marmot never
\* makes an application's statement fail.
THEOREM ApplicationsNeverRejected == Spec => []NeverRejects
  BY Inductive, PTL DEF IndInv

\* When watchChanges runs, all triggers of all watched tables exist.
THEOREM WatcherSeesEverything == Spec => []WatchedIsCaptured
  BY Inductive, PTL DEF IndInv

\* RemoveCDC, once it ends, has left no trigger and no change log.
THEOREM CleanupIsComplete == Spec => []CleanupLeavesNothing
  BY Inductive, PTL DEF IndInv
=============================================================================
