------------------------------- MODULE CdcSchema -------------------------------
(***************************************************************************)
(* The change capture schema inside the user's database: the change log    *)
(* tables and the triggers that fill them, as Marmot creates them at boot  *)
(* (InstallCDC), drops them on request (-cleanup, RemoveCDC), and loses    *)
(* them when a snapshot is restored over the database.                     *)
(*                                                                         *)
(* None of this is one transaction: each DDL statement commits by itself,  *)
(* applications write between any two of them, and the process may stop    *)
(* after any of them.                                                      *)
(***************************************************************************)
EXTENDS Naturals, Sequences

CONSTANTS
    Tables,        \* user tables
    Global,        \* the global change log table
    AllowRestore,  \* snapshots are enabled, a boot may restore one
    MaxBoots       \* bound: process starts

ASSUME SchemaAssumption ==
    /\ Global \notin Tables
    /\ AllowRestore \in BOOLEAN
    /\ MaxBoots \in Nat

Kinds       == {"delete", "insert", "update"}
AllTriggers == Tables \X Kinds

VARIABLES
    metaTables,   \* change log tables that exist; t stands for the log of t
    triggers,     \* triggers that exist
    mode,         \* what the process does
    todo,         \* tables or triggers its current loop still has to visit
    table,        \* the table whose script is executed
    at,           \* the statement of its script to be executed next
    promised,     \* history: capture is installed and nobody asked to remove it
    missed,       \* history: a statement committed uncaptured although promised
    rejected,     \* history: a trigger made an application's statement fail
    boots         \* count of process starts

process == <<mode, todo, table, at>>
history == <<promised, missed, rejected>>
vars    == <<metaTables, triggers, process, history, boots>>

Init ==
    /\ metaTables = {}
    /\ triggers = {}
    /\ mode = "down"
    /\ todo = {}
    /\ table = Global
    /\ at = 1
    /\ promised = FALSE
    /\ missed = FALSE
    /\ rejected = FALSE
    /\ boots = 0

-----------------------------------------------------------------------------
(* An application's statement on table t.  A trigger writes both logs, in    *)
(* the transaction of the statement.                                         *)

AppStatement(t, k) ==
    /\ missed'   = (missed \/ (promised /\ <<t, k>> \notin triggers))
    /\ rejected' = (rejected \/ (/\ <<t, k>> \in triggers
                                 /\ ~({t, Global} \subseteq metaTables)))
    /\ UNCHANGED <<metaTables, triggers, process, promised, boots>>

-----------------------------------------------------------------------------
(* InstallCDC *)

Boot(m) ==
    /\ mode = "down"
    /\ boots < MaxBoots
    /\ boots' = boots + 1
    /\ mode' = m
    /\ UNCHANGED <<metaTables, triggers, todo, table, at, history>>

\* RestoreFrom copies the snapshot over the database under an exclusive lock;
\* snapshots carry neither logs nor triggers.
Restore ==
    /\ mode = "boot"
    /\ AllowRestore
    /\ metaTables' = {}
    /\ triggers' = {}
    /\ promised' = FALSE
    /\ mode' = "install"
    /\ UNCHANGED <<todo, table, at, missed, rejected, boots>>

NoRestore ==
    /\ mode = "boot"
    /\ mode' = "install"
    /\ UNCHANGED <<metaTables, triggers, todo, table, at, history, boots>>

\* initGlobalChangeLog, then a loop over the watched tables in map order.
\* Mutant: Marmot's own tables are watched too.
InitGlobalChangeLogMutant ==
    /\ mode = "install"
    /\ metaTables' = metaTables \cup {Global}
    /\ todo' = Tables \cup {Global}
    /\ mode' = "tables"
    /\ UNCHANGED <<triggers, table, at, history, boots>>
InitGlobalChangeLog ==
    /\ mode = "install"
    /\ metaTables' = metaTables \cup {Global}
    /\ todo' = Tables
    /\ mode' = "tables"
    /\ UNCHANGED <<triggers, table, at, history, boots>>

\* The statements of table_change_log_script.tmpl; its index is left out.
\* Mutants: triggers come before the table; updates have no trigger.
TableScriptMutant(t) ==
    << <<"drop", "delete">>, <<"create", "delete">>,
       <<"drop", "insert">>, <<"create", "insert">>,
       <<"drop", "update">>, <<"create", "update">>,
       <<"table", "delete">> >>
TableScriptMutantPartial(t) ==
    << <<"table", "delete">>,
       <<"drop", "delete">>, <<"create", "delete">>,
       <<"drop", "insert">>, <<"create", "insert">> >>
TableScript(t) ==
    << <<"table", "delete">>,
       <<"drop", "delete">>, <<"create", "delete">>,
       <<"drop", "insert">>, <<"create", "insert">>,
       <<"drop", "update">>, <<"create", "update">> >>

\* initTriggers executes the script of a table, statement by statement.
InitTriggers(t) ==
    /\ mode = "tables"
    /\ t \in todo
    /\ mode' = "script"
    /\ table' = t
    /\ todo' = todo \ {t}
    /\ at' = 1
    /\ UNCHANGED <<metaTables, triggers, history, boots>>

ExecStatement ==
    /\ mode = "script"
    /\ LET op   == TableScript(table)[at][1]
           trig == <<table, TableScript(table)[at][2]>>
       IN  /\ metaTables' = IF op = "table" THEN metaTables \cup {table}
                                            ELSE metaTables
           /\ triggers' = CASE op = "drop"   -> triggers \ {trig}
                            [] op = "create" -> triggers \cup {trig}
                            [] OTHER         -> triggers
    /\ IF at = Len(TableScript(table))
       THEN mode' = "tables" /\ at' = 1
       ELSE at' = at + 1 /\ UNCHANGED mode
    /\ UNCHANGED <<todo, table, history, boots>>

\* All tables are done; the watcher starts.
Watch ==
    /\ mode = "tables"
    /\ todo = {}
    /\ mode' = "watch"
    /\ promised' = TRUE
    /\ UNCHANGED <<metaTables, triggers, todo, table, at, missed, rejected,
                   boots>>

-----------------------------------------------------------------------------
(* RemoveCDC(true): removeMarmotTriggers, then removeMarmotTables.  Each     *)
(* lists the names first, in no particular order, and drops one at a time.   *)
(* Mutant: tables go first.                                                  *)

ListTriggersMutant ==
    /\ mode = "cleanup"
    /\ mode' = "dropTables"
    /\ todo' = metaTables
    /\ promised' = FALSE
    /\ UNCHANGED <<metaTables, triggers, table, at, missed, rejected, boots>>
ListTriggers ==
    /\ mode = "cleanup"
    /\ mode' = "dropTriggers"
    /\ todo' = triggers
    /\ promised' = FALSE
    /\ UNCHANGED <<metaTables, triggers, table, at, missed, rejected, boots>>

DropTrigger(x) ==
    /\ mode = "dropTriggers"
    /\ x \in todo
    /\ todo' = todo \ {x}
    /\ triggers' = triggers \ {x}
    /\ UNCHANGED <<metaTables, mode, table, at, history, boots>>

ListTables ==
    /\ mode = "dropTriggers"
    /\ todo = {}
    /\ mode' = "dropTables"
    /\ todo' = metaTables
    /\ UNCHANGED <<metaTables, triggers, table, at, history, boots>>

DropTable(x) ==
    /\ mode = "dropTables"
    /\ x \in todo
    /\ todo' = todo \ {x}
    /\ metaTables' = metaTables \ {x}
    /\ UNCHANGED <<triggers, mode, table, at, history, boots>>

CleanupComplete ==
    /\ mode = "dropTables"
    /\ todo = {}
    /\ mode' = "cleaned"
    /\ UNCHANGED <<metaTables, triggers, todo, table, at, history, boots>>

\* The process ends: a crash, an error of a statement, or its regular end.
Stop ==
    /\ mode # "down"
    /\ mode' = "down"
    /\ todo' = {}
    /\ at' = 1
    /\ UNCHANGED <<metaTables, triggers, table, history, boots>>

-----------------------------------------------------------------------------

InstallCDC ==
    \/ Boot("boot") \/ Restore \/ NoRestore \/ InitGlobalChangeLog
    \/ (\E t \in todo : InitTriggers(t)) \/ ExecStatement \/ Watch

RemoveCDC ==
    \/ Boot("cleanup") \/ ListTriggers \/ (\E x \in todo : DropTrigger(x))
    \/ ListTables \/ (\E x \in todo : DropTable(x)) \/ CleanupComplete

Next ==
    \/ \E t \in Tables, k \in Kinds : AppStatement(t, k)
    \/ InstallCDC \/ RemoveCDC \/ Stop

Spec == Init /\ [][Next]_vars

-----------------------------------------------------------------------------
(* Properties *)

\* The schema holds known tables and triggers, and a script is at a known
\* statement of a known table.
TypeOK ==
    /\ metaTables \subseteq Tables \cup {Global}
    /\ triggers \subseteq AllTriggers
    /\ mode \in {"down", "boot", "install", "tables", "script", "watch",
                 "cleanup", "dropTriggers", "dropTables", "cleaned"}
    /\ todo \subseteq Tables \cup {Global} \cup AllTriggers
    /\ table \in Tables \cup {Global}
    /\ at \in 1..7
    /\ mode = "script" => table \in Tables
    /\ promised \in BOOLEAN
    /\ missed \in BOOLEAN
    /\ rejected \in BOOLEAN
    /\ boots \in Nat

\* Marmot never breaks an application: at every point of an installation, of a
\* removal, and wherever either was interrupted, a trigger that exists finds
\* both logs it writes to.
NeverRejects ==
    /\ ~rejected
    /\ \A x \in triggers : {x[1], Global} \subseteq metaTables

\* Whatever an interrupted installation or removal left behind, a watcher
\* only runs when every statement on every table is captured.
WatchedIsCaptured == mode = "watch" => triggers = AllTriggers

\* A removal that ran to its end leaves nothing behind, whatever it started
\* from.
CleanupLeavesNothing ==
    mode = "cleaned" => metaTables = {} /\ triggers = {}

\* What internals.mdx says of triggers: every process that writes the database
\* is captured, so no statement escapes once capture is installed.
NothingMissed == ~missed

-----------------------------------------------------------------------------
(* The strengthening that makes the safety properties inductive. *)

\* How far an installation got: the logs exist before the triggers that write
\* them, and tables no longer in the loop have all their triggers.
InstallInv ==
    /\ mode \in {"tables", "script", "watch"} => Global \in metaTables
    /\ mode \in {"tables", "script"} => todo \subseteq Tables
    /\ mode = "script" =>
          /\ at > 1 => table \in metaTables
          /\ at > 3 => <<table, "delete">> \in triggers
          /\ at > 5 => <<table, "insert">> \in triggers
    /\ \A t \in Tables, k \in Kinds :
          (mode = "tables" \/ (mode = "script" /\ t # table)) /\ t \notin todo
              => <<t, k>> \in triggers

\* How far a removal got: what is left is what its loop still has to drop.
RemoveInv ==
    /\ mode = "dropTriggers" => triggers \subseteq todo
    /\ mode = "dropTables" => triggers = {} /\ metaTables \subseteq todo

IndInv ==
    TypeOK /\ InstallInv /\ RemoveInv
        /\ NeverRejects /\ WatchedIsCaptured /\ CleanupLeavesNothing
=============================================================================
