------------------------------ MODULE MCStart ------------------------------
(***************************************************************************)
(* A start of the program and of a session: the settings folder of an      *)
(* older version, which the core and the window move, its migration to the *)
(* current schema, and the calls that start, stop and change a session.    *)
(* The three share no state in these models, so each behaviour is one of   *)
(* one of them (`part`).                                                   *)
(***************************************************************************)
EXTENDS MCSessionControl, FolderMove, Migration

CONSTANTS e1, e2

VARIABLE part

\* The parts that do not run stay in one of their initial states.
StartInit ==
    /\ part \in {"folder", "schema", "session"}
    /\ Init /\ FolderInit /\ MigrationInit
    /\ part # "folder" => ~oldApp /\ newest["settings"] = Absent
    /\ part # "schema" => cfg.schema = 0 /\ prof = {Plain(e1, "auto")} /\ top["devices"] = {e1}

StartNext ==
    \/ part = "folder"  /\ FolderNext    /\ UNCHANGED <<part, vars, migrationVars>>
    \/ part = "schema"  /\ MigrationNext /\ UNCHANGED <<part, vars, folderVars>>
    \/ part = "session" /\ Next          /\ UNCHANGED <<part, folderVars, migrationVars>>

StartSpec == StartInit /\ [][StartNext]_<<part, vars, folderVars, migrationVars>>
=============================================================================
