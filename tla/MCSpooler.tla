------------------------------ MODULE MCSpooler ------------------------------
(***************************************************************************)
(* Small instances of Spooler.  A place is named for the state whose files *)
(* land there, as in ut_Spooler's test_one: every state has a directory of *)
(* its own, or (Suspense and Error) an extension of its own.               *)
(***************************************************************************)
EXTENDS Spooler

LandsIn ==
    [s \in SpoolState |->
        CASE s = "Pending"   -> "pending.in"
          [] s = "Spool"     -> "spool.wrk"
          [] s = "Backup"    -> "backup.bak"
          [] s = "Processed" -> "processed.done"
          [] s = "Suspense"  -> "suspense.try"
          [] s = "Error"     -> "suspense.err"]
SeenFrom == [ph \in {"Pending", "Spool"} |->
                IF ph = "Pending" THEN {"pending.in"} ELSE {"spool.wrk"}]
PlacesUsed == {LandsIn[s] : s \in UNION Configs \cup {"Pending", "Backup"}}

\* The states the callers of these instances need.
Working == {{"Pending", "Spool", "Backup", "Processed"}}

\* Nothing to spool to, no backup, no directory for errors.
Lacking == {{"Pending", "Backup"}, {"Pending", "Spool"},
            {"Pending", "Spool", "Backup"}}

\* The last line of f1 does not fit into the buffer of copyFile.
OverlongOne == {<<"f1", s>> : s \in SpoolState}
=============================================================================
