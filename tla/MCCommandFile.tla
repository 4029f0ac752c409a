---------------------------- MODULE MCCommandFile ----------------------------
(* Small files for CommandFile.                                            *)
EXTENDS CommandFile

SmallFiles == {<<"command", "command", "command">>, <<"comment", "command", "command">>,
               <<"command", "empty", "command">>,
               <<"command", "command", "empty">>}
=============================================================================
