------------------------------ MODULE LogFiles ------------------------------
(***************************************************************************)
(* A FileLog and FileMgr's rotation of it: OnCheck compares the calendar     *)
(* with that of the last check and rotates the log, in the steps rename,     *)
(* open and dup2, while other threads write lines through fd_.               *)
(*                                                                         *)
(* The files are inodes with a number of lines; a name is an inode or 0.     *)
(***************************************************************************)
EXTENDS Integers, StringUtils

CONSTANTS Minute, Hour, Day,  \* lengths in milliseconds
          MaxLines            \* bound: lines written

ASSUME LogAssumption ==
    /\ {Minute, Hour, Day} \subseteq Nat \ {0} /\ MaxLines \in Nat
    /\ Hour % Minute = 0 /\ Day % Hour = 0

VARIABLES file_path_,   \* file_path_ of the log, <<>> until it is opened
          rotateType_,  \* rotateType_ of the log
          last_,        \* last_minute_, last_hour_, last_day_; in a set, empty at first
          step,         \* where OnCheck is: "none", "rename", "open", "dup2", "done"
          names,        \* the directory
          files,        \* lines in each inode
          fd_,          \* the inode fd_ is open on
          fresh,        \* the inode the new descriptor is open on
          written,      \* lines written (history)
          overwritten   \* lines in files that a rename replaced (history)

logVars == <<file_path_, rotateType_, last_, step, names, files, fd_, fresh, written, overwritten>>

\* What TTime::Now reads at time c: fields that go round.
Calendar(c) == [minute |-> (c % Hour) \div Minute, hour |-> (c % Day) \div Hour,
                day |-> c \div Day]

\* RotateDays, RotateHours, RotateMinute: the date is printed into buf, and the
\* name is put together without it, without the separator and without the dot.
RotatedName == FilePath(file_path_) \o FileName(file_path_) \o Extension(file_path_)

\* The lines in the file of name n.
LinesIn(n) == IF names[n] = 0 THEN 0 ELSE files[names[n]]

LogTypeOK ==
    /\ rotateType_ \in {"none", "minute", "hour", "day"}
    /\ step \in {"none", "rename", "open", "dup2", "done"}
    /\ DOMAIN names = IF file_path_ = <<>> THEN {} ELSE {file_path_, RotatedName}
    /\ \A n \in DOMAIN names : names[n] \in 0 .. Len(files)
    /\ {fd_, fresh} \subseteq IF file_path_ = <<>> THEN {0} ELSE DOMAIN files
    /\ {written, overwritten} \subseteq 0 .. MaxLines

LogInit ==
    /\ file_path_ = <<>>
    /\ rotateType_ = "none"
    /\ last_ = {}
    /\ step = "none"
    /\ names = [n \in {} |-> 0]
    /\ files = <<>>
    /\ fd_ = 0
    /\ fresh = 0
    /\ written = 0
    /\ overwritten = 0

-----------------------------------------------------------------------------
\* open makes the file if need be: it fails for an empty name and for a directory.
Open(path) ==
    /\ path # <<>> /\ FindLastOf(path, Separators) # Len(path)
    /\ file_path_' = path
    /\ names' = [n \in {path, RotatedName'} |-> IF n = path THEN 1 ELSE 0]
    /\ files' = <<0>>
    /\ fd_' = 1
    /\ fresh' = 1
    /\ UNCHANGED <<last_, step, written, overwritten>>

\* FileMgr::GetFileLog of a log it does not have yet.
GetFileLog(path) == file_path_ = <<>> /\ Open(path)

\* FileLog::WriteLog, by any thread.
WriteLog ==
    /\ file_path_ # <<>>
    /\ written < MaxLines
    /\ written' = written + 1
    /\ files' = [files EXCEPT ![fd_] = @ + 1]
    /\ UNCHANGED <<file_path_, rotateType_, last_, step, names, fd_, fresh, overwritten>>

\* OnCheck at time c, up to the rotation of the log if there is one to do.
OnCheck(c) ==
    /\ step = "none"
    /\ LET cal == Calendar(c)
           change == {f \in {"minute", "hour", "day"} : \E l \in last_ : l[f] # cal[f]}
       IN /\ last_' = {cal}
          /\ step' = IF rotateType_ \in change /\ files[fd_] > 0 THEN "rename" ELSE "done"
    /\ UNCHANGED <<file_path_, rotateType_, names, files, fd_, fresh, written, overwritten>>

\* rename succeeds and replaces a file of that name, or Rotate returns.
Rename ==
    /\ step = "rename"
    /\ \/ /\ names[file_path_] # 0
          /\ names' = [n \in DOMAIN names |-> IF n = RotatedName THEN names[file_path_] ELSE 0]
          /\ overwritten' = overwritten + LinesIn(RotatedName)
          /\ step' = "open"
       \/ step' = "done" /\ UNCHANGED <<names, overwritten>>
    /\ UNCHANGED <<file_path_, rotateType_, last_, files, fd_, fresh, written>>

\* open makes the file, or fails and Rotate returns: from then on rename fails.
OpenNew ==
    /\ step = "open"
    /\ \/ /\ files' = Append(files, 0)
          /\ fresh' = Len(files')
          /\ names' = [names EXCEPT ![file_path_] = fresh']
          /\ step' = "dup2"
       \/ step' = "done" /\ UNCHANGED <<names, files, fresh>>
    /\ UNCHANGED <<file_path_, rotateType_, last_, fd_, written, overwritten>>

\* Mutant: dup2 with its arguments swapped.
Dup2Swapped ==
    /\ step = "dup2"
    /\ step' = "done"
    /\ fresh' = fd_
    /\ UNCHANGED <<file_path_, rotateType_, last_, names, files, fd_, written, overwritten>>

Dup2 ==
    /\ step = "dup2"
    /\ step' = "done"
    /\ fd_' = fresh
    /\ UNCHANGED <<file_path_, rotateType_, last_, names, files, fresh, written, overwritten>>

-----------------------------------------------------------------------------
\* A line, whenever it was written, is in a file that has a name until the next
\* rotation but one renames another file to that name: no writer is left on a file
\* that nobody can find (FileLog.cc:28-47, FileMgr.cc:96-148).
NoLineLost ==
    /\ \A n, m \in DOMAIN names : n # m /\ names[n] = names[m] => names[n] = 0
    /\ (IF file_path_ = <<>> THEN 0 ELSE LinesIn(file_path_) + LinesIn(RotatedName))
           = written - overwritten
=============================================================================
