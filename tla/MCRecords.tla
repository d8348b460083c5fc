------------------------------ MODULE MCRecords ------------------------------
(***************************************************************************)
(* The services whose properties are about what a crash, a stale read or a *)
(* late timer may never do, in one run: part says which of them moves, the *)
(* others stay in one initial state.  Nothing is shared between them here, *)
(* so the behaviors are those of each one alone.                           *)
(***************************************************************************)
EXTENDS LabelStore, CreationJournal, DirectorySync, BotAutoResume, Schedules,
        RestartRecovery

VARIABLE part

Parts == {"store", "creation", "directory", "bot", "schedule", "restart"}

recordVars == <<storeVars, creationVars, directoryVars, botVars, scheduleVars, restartVars, part>>

RecordsInit ==
    /\ part \in Parts
    /\ StoreInit /\ CreationInit /\ DirectoryInit /\ BotInit /\ ScheduleInit /\ RestartInit
    /\ part # "creation" => \A j, k \in Keys : intent[j] = intent[k] /\ "prompt" \notin intent[k]
                                                /\ "workspace" \in intent[k]
    /\ part # "directory" => truth = NoEntries
    /\ part # "restart" => \A x \in Agents : ~owed[x]
    \* A schedule whose slot has come, without an expiry yet
    /\ schedule.limit = 2 /\ schedule.expires = Unlimited /\ schedule.next = 1

RecordsNext ==
    /\ UNCHANGED part
    /\ \/ /\ part = "store" /\ StoreNext
          /\ UNCHANGED <<creationVars, directoryVars, botVars, scheduleVars, restartVars>>
       \/ /\ part = "creation" /\ CreationNext
          /\ UNCHANGED <<storeVars, directoryVars, botVars, scheduleVars, restartVars>>
       \/ /\ part = "directory" /\ DirectoryNext
          /\ UNCHANGED <<storeVars, creationVars, botVars, scheduleVars, restartVars>>
       \/ /\ part = "bot" /\ BotNext
          /\ UNCHANGED <<storeVars, creationVars, directoryVars, scheduleVars, restartVars>>
       \/ /\ part = "schedule" /\ ScheduleNext
          /\ UNCHANGED <<storeVars, creationVars, directoryVars, botVars, restartVars>>
       \/ /\ part = "restart" /\ RestartNext
          /\ UNCHANGED <<storeVars, creationVars, directoryVars, botVars, scheduleVars>>

RecordsSpec == RecordsInit /\ [][RecordsNext]_recordVars

\* The types of the variables of these services.
RecordsTypeOK ==
    /\ StoreTypeOK /\ CreationTypeOK /\ DirectoryTypeOK /\ BotTypeOK /\ ScheduleTypeOK
    /\ RestartTypeOK
==============================================================================
