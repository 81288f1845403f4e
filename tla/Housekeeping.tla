---------------------------- MODULE Housekeeping ----------------------------
(***************************************************************************)
(* main(): the config is loaded, the log it names is opened, and a task that *)
(* checks the log's rotation and restarts itself runs, among other tasks, in *)
(* a loop of OnWork and sleep; any thread writes log lines.                *)
(***************************************************************************)
EXTENDS TaskMgr, LogFiles, Config

CONSTANTS Check,        \* the task whose callback is OnCheck and Restart
          ConfigFiles   \* files main may find: the set of the root, empty if it is not JSON

ASSUME MainAssumption ==
    /\ Check \in Restarting
    /\ \A file \in ConfigFiles : \A root \in file : \A log \in root.log :
           (log.path \cup log.name) \subseteq Seq(STRING)

VARIABLES config_,  \* config_ of ConfigMgr, in a set
          program   \* where main is: "config", "log", "run", "exit" or "crash"

programVars == <<config_, program>>
mainVars == <<taskVars, logVars, programVars>>

MainTypeOK ==
    /\ TaskTypeOK /\ LogTypeOK
    /\ config_ \subseteq {LoadConfig(root) : root \in UNION ConfigFiles}
    /\ program \in {"config", "log", "run", "exit", "crash"}

MainInit == TaskInit /\ LogInit /\ config_ = {} /\ program = "config"

\* ConfigMgr::LoadConfig.
LoadConfigFile ==
    /\ program = "config"
    /\ \E file \in ConfigFiles :
         /\ config_' = {LoadConfig(root) : root \in file}
         /\ program' = IF file = {} THEN "exit" ELSE "log"
    /\ UNCHANGED <<taskVars, logVars>>

\* GetFileLog and SetRotate; log_info is used whether it is there or not.
OpenLog ==
    /\ program = "log"
    /\ \E config \in config_ :
         \/ /\ config.log_info_ = {}
            /\ program' = "crash"
            /\ UNCHANGED logVars
         \/ \E info \in config.log_info_ :
               /\ GetFileLog(info.path \o info.name)
               /\ rotateType_' = info.rotate_type
               /\ program' = "run"
         \/ config.log_info_ # {} /\ program' = "exit" /\ UNCHANGED logVars
    /\ UNCHANGED <<taskVars, config_>>

\* No text of a config file makes a log rotate every minute; a program without one,
\* like the main of Test.cc, does.
OpenTestLog ==
    /\ program = "config"
    /\ GetFileLog(<<"test", ".", "log">>)
    /\ rotateType_' = "minute"
    /\ program' = "run"
    /\ UNCHANGED <<taskVars, config_>>

\* The callback of task1.
CheckRotation == doing = "run" /\ cur = {Check} /\ OnCheck(clock) /\ UNCHANGED <<taskVars, programVars>>
Rotate == (Rename \/ OpenNew \/ Dup2) /\ UNCHANGED <<taskVars, programVars>>
CheckEnd ==
    /\ step = "done"
    /\ step' = "none"
    /\ Callback(Check)
    /\ UNCHANGED <<file_path_, rotateType_, last_, names, files, fd_, fresh, written,
                   overwritten, programVars>>

OnWork ==
    /\ program = "run"
    /\ \/ /\ \/ WorkLock
             \/ \E t \in Tasks : Look(t) \/ AfterRun(t)
             \/ \E t \in Tasks \ {Check} : Callback(t)
             \/ WorkUnlock
          /\ UNCHANGED <<logVars, programVars>>
       \/ CheckRotation \/ Rotate \/ CheckEnd

MainNext ==
    \/ LoadConfigFile \/ OpenLog \/ OpenTestLog
    \/ OnWork
    \/ /\ program = "run"
       /\ Busy \/ \E t \in Tasks : Add(t) \/ Del(t)
       /\ UNCHANGED <<logVars, programVars>>
    \/ program = "run" /\ WriteLog /\ UNCHANGED <<taskVars, programVars>>

MainSpec == MainInit /\ [][MainNext]_mainVars

\* The thread that calls OnWork keeps running.
MainFairSpec == MainSpec /\ WF_mainVars(OnWork)

-----------------------------------------------------------------------------
\* A task that restarts itself is erased by OnWork only if NowMs wraps between
\* OnWork's look at the clock and the time the task is set to: main.cc's rotation
\* check would go on but for that (TaksMgr.cc:10-21, Task.cc:18-21, TTime.cc:8-13).
RestartedStays ==
    [][\A t \in Restarting : doing = "ran" /\ t \in tasks_ \ tasks_' => t \in wrapped]_mainVars

\* A task runs again and again while it is in the set, unless it is set to so
\* short a time before NowMs wraps that no OnWork need fall between the two
\* (TaksMgr.cc:10-13, main.cc:40-45).
RunsAgain ==
    \A t \in Tasks :
        (t \in tasks_ /\ when_[t] < Half - Sleep - MaxBusy) ~> (cur = {t} \/ t \notin tasks_)
=============================================================================
