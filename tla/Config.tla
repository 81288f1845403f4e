------------------------------- MODULE Config -------------------------------
(***************************************************************************)
(* Config: what LoadConfig makes of the root of a JSON file.  A key of a      *)
(* JSON object is the set of its value, empty if it is null or not there;     *)
(* values have the types that are asked for (asString and asInt throw at     *)
(* others).  A path is a sequence of tokens, see StringUtils.               *)
(***************************************************************************)
EXTENDS Integers

\* What a test of isNull leaves of a default.
OrElse(value, default) == IF value = {} THEN default ELSE CHOOSE v \in value : TRUE

\* Other texts, and none, leave the zero of make_shared, which is kTrace.
LevelOf(level) ==
    IF level \in {"DEBUG", "INFO", "WARN", "ERROR"} THEN level ELSE "TRACE"

\* Only these two texts, and no other case of theirs; none for kRotateMinute.
RotateOf(rt) == CASE rt = "Day" -> "day" [] rt = "HOUR" -> "hour" [] OTHER -> "none"

\* That it returns false without a level, a path or a name is not looked at.
ParseLogInfo(root) ==
    [level |-> LevelOf(OrElse(root.level, "")),
     path |-> OrElse(root.path, <<>>),
     name |-> OrElse(root.name, <<>>),
     rotate_type |-> RotateOf(OrElse(root.rotate, ""))]

\* log_info_ is a null pointer without a "log".
LoadConfig(root) ==
    [name_ |-> OrElse(root.name, ""),
     cpu_start_ |-> OrElse(root.cup_start, 0),
     thread_num_ |-> OrElse(root.threads, 1),
     log_info_ |-> {ParseLogInfo(l) : l \in root.log}]
=============================================================================
