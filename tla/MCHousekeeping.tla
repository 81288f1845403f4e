--------------------------- MODULE MCHousekeeping ---------------------------
(***************************************************************************)
(* An instance of Housekeeping with the rotation check and a second task.   *)
(***************************************************************************)
EXTENDS Housekeeping, TLC

CONSTANTS check, other

\* Files that are not JSON, without "log", whose log has no path or no name, and
\* "../logs/tmms.log" and "tmms".
MCRoot(log) == [name |-> {"tmms"}, cup_start |-> {}, threads |-> {2}, log |-> log]
MCLog(path, name, rotate) == [level |-> {"WARN"}, path |-> path, name |-> name, rotate |-> rotate]
MCLogs == {MCLog({<<".", ".", "/", "logs", "/">>}, {<<"tmms", ".", "log">>}, {"HOUR"}),
           MCLog({}, {<<"tmms">>}, {"Day"}),
           MCLog({<<".", ".", "/", "logs", "/">>}, {}, {"hour"})}
MCConfigFiles == {{}, {MCRoot({})}} \cup {{MCRoot({log})} : log \in MCLogs}

MCInterval == check :> 3 @@ other :> 2
=============================================================================
