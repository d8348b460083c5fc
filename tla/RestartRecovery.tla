--------------------------- MODULE RestartRecovery ---------------------------
(***************************************************************************)
(* Resuming interrupted agents after a restart: restart-recovery/index.ts  *)
(* over the records of agent-storage.ts, with the parts of the shutdown in *)
(* bootstrap.ts and of agent-manager.ts that write these records.          *)
(*                                                                         *)
(* The writes of a record wait in a queue.  Each change of a live agent    *)
(* puts two snapshots into it: one that reads the agent when its turn      *)
(* comes, and one of the agent as it was.  Recovery writes whole records,  *)
(* made of what it read before.                                            *)
(***************************************************************************)
EXTENDS Naturals, Sequences

CONSTANTS
    Agents,        \* stored agents
    CloseCancels,  \* a provider reports a running turn as canceled while its session closes
    MaxActs,       \* bound: prompts, archivings and switches of the setting
    MaxStops       \* bound: shutdowns and crashes

ASSUME RestartAssumption == CloseCancels \in BOOLEAN /\ {MaxActs, MaxStops} \subseteq Nat

VARIABLES
    agentFiles,     \* the record of each agent, on disk and in the store's cache
    pendingWrites,  \* the queue of each record
    runtimes,       \* the lifecycle of each live agent; idle stands for error too
    closings,       \* how far the closing of each has come
    stage,          \* where the daemon stands
    todo,           \* agents that a loop over the records has yet to visit
    listed,         \* the records as captureRunningAgents has listed them
    awaited,        \* writes of each record that its flush still waits for
    resuming,       \* where the resume of each candidate stands
    setting,        \* agents.resumeOnStartup
    owed,           \* history: interrupted by a stop, and not settled since
    captured,       \* history: running since its record was captured
    cut,            \* history: captured, and closed while running
    overtaken,      \* history: its turn ended between the listing and the capture
    surplus,        \* history: resumed without being owed it
    acts, stops

restartVars == <<agentFiles, pendingWrites, runtimes, closings, stage, todo, listed, awaited,
                 resuming, setting, owed, captured, cut, overtaken, surplus, acts, stops>>
stopping == <<closings, stage, todo, listed, awaited>>
ghosts   == <<owed, captured, cut, overtaken, surplus>>

AgentRecord == [status: {"idle", "running", "closed"}, resume: BOOLEAN, archived: BOOLEAN]
AsNow == [kind |-> "live"]
Copy(life)  == [kind |-> "copy", life |-> life]
Whole(by, record) == [kind |-> by, record |-> record]

RestartInit ==
    /\ \E running \in SUBSET Agents :
          /\ agentFiles = [x \in Agents |-> [status |-> IF x \in running THEN "running" ELSE "closed",
                                             resume |-> FALSE, archived |-> FALSE]]
          /\ owed = [x \in Agents |-> x \in running]
    /\ pendingWrites = [x \in Agents |-> <<>>]
    /\ runtimes = [x \in Agents |-> "none"]
    /\ closings = [x \in Agents |-> "open"]
    /\ stage = "down" /\ todo = {} /\ listed = agentFiles
    /\ awaited = [x \in Agents |-> 0]
    /\ resuming = [x \in Agents |-> "none"]
    /\ setting = TRUE
    /\ captured = {} /\ cut = {} /\ overtaken = {} /\ surplus = {}
    /\ acts = 0 /\ stops = 0

-----------------------------------------------------------------------------
(***************************************************************************)
(* The store                                                               *)
(***************************************************************************)
\* Mutant: a closed agent is not resumed
SnapshotForgets(record, life) ==
    [record EXCEPT !.status = life, !.resume = @ /\ life = "running"]

\* applySnapshot keeps the flag until the agent is idle
Snapshot(record, life) ==
    [record EXCEPT !.status = life, !.resume = @ /\ life # "idle"]

Contents(x, write) ==
    CASE write.kind = "live" -> Snapshot(agentFiles[x], runtimes[x])
      [] write.kind = "copy" -> Snapshot(agentFiles[x], write.life)
      [] OTHER               -> write.record

Queues(x, writes) == pendingWrites' = [pendingWrites EXCEPT ![x] = @ \o writes]
\* emitState: the manager's own snapshot, then that of persistence-hooks.ts
Becomes(x, life) ==
    /\ runtimes' = [runtimes EXCEPT ![x] = life]
    /\ Queues(x, <<AsNow, Copy(life)>>)
Waits(x, kind) == \E i \in DOMAIN pendingWrites[x] : pendingWrites[x][i].kind = kind

WriteLands(x) ==
    /\ pendingWrites[x] # <<>>
    /\ LET write == Head(pendingWrites[x]) IN
       /\ agentFiles' = [agentFiles EXCEPT ![x] = Contents(x, write)]
       /\ pendingWrites' = [pendingWrites EXCEPT ![x] = Tail(@)]
       /\ awaited' = [awaited EXCEPT ![x] = IF @ > 0 THEN @ - 1 ELSE 0]
       /\ resuming' = IF write.kind = "consume" THEN [resuming EXCEPT ![x] = "consumed"] ELSE resuming
       /\ owed' = [owed EXCEPT ![x] = @ /\ write.kind # "archive"]
    /\ UNCHANGED <<runtimes, closings, stage, todo, listed, setting, captured, cut, overtaken, surplus,
                   acts, stops>>

-----------------------------------------------------------------------------
(***************************************************************************)
(* Startup: candidates are chosen before anything else runs, and resumed   *)
(* in the background                                                       *)
(***************************************************************************)
StartsDaemon ==
    /\ stage = "down"
    /\ stage' = "preparing" /\ todo' = Agents
    /\ UNCHANGED <<agentFiles, pendingWrites, runtimes, closings, listed, awaited, resuming, setting,
                   ghosts, acts, stops>>

Prepares(x) ==
    /\ stage = "preparing" /\ x \in todo
    /\ LET record == agentFiles[x]
           pending == setting /\ (record.resume \/ record.status = "running") /\ ~record.archived
       IN /\ agentFiles' = [agentFiles EXCEPT ![x].resume = pending,
                                ![x].status = IF @ = "running" THEN "closed" ELSE @]
          /\ resuming' = [resuming EXCEPT ![x] = IF pending THEN "chosen" ELSE "none"]
          /\ owed' = [owed EXCEPT ![x] = @ /\ pending]
    /\ todo' = todo \ {x}
    /\ UNCHANGED <<pendingWrites, runtimes, closings, stage, listed, awaited, setting, captured, cut,
                   overtaken, surplus, acts, stops>>

\* resumePending: every candidate's flag is on its way out before a client is heard
Opens ==
    /\ stage = "preparing" /\ todo = {}
    /\ stage' = "up"
    /\ pendingWrites' = [x \in Agents |->
          IF resuming[x] = "chosen"
          THEN <<Whole("consume", [agentFiles[x] EXCEPT !.resume = FALSE])>> ELSE <<>>]
    /\ resuming' = [x \in Agents |-> IF resuming[x] = "chosen" THEN "consuming" ELSE "none"]
    /\ UNCHANGED <<agentFiles, runtimes, closings, todo, listed, awaited, setting, ghosts, acts, stops>>

Abandons(x) ==
    /\ resuming' = [resuming EXCEPT ![x] = "none"]
    /\ owed' = [owed EXCEPT ![x] = FALSE]

\* The setting again, and the archived check of the dispatch
ResumeChecks(x) ==
    /\ resuming[x] = "consumed"
    /\ IF setting /\ ~agentFiles[x].archived
       THEN resuming' = [resuming EXCEPT ![x] = "reopening"] /\ UNCHANGED owed
       ELSE Abandons(x)
    /\ UNCHANGED <<agentFiles, pendingWrites, runtimes, stopping, setting, captured, cut, overtaken,
                   surplus, acts, stops>>

\* ensureAgentLoaded: it waits for an archiving in the lifecycle lane; a live agent is used, none
\* is registered once the daemon stops
Reopens(x) ==
    /\ resuming[x] = "reopening" /\ ~agentFiles[x].archived /\ ~Waits(x, "archive")
    /\ IF runtimes[x] # "none" THEN UNCHANGED <<pendingWrites, runtimes>>
       ELSE stage = "up" /\ Becomes(x, "idle")
    /\ resuming' = [resuming EXCEPT ![x] = "sending"]
    /\ UNCHANGED <<agentFiles, stopping, setting, ghosts, acts, stops>>

\* The provider refuses, the daemon stops, or the archived agent's session is read-only
ResumeFails(x) ==
    /\ \/ resuming[x] = "reopening" /\ runtimes[x] = "none"
       \/ resuming[x] = "sending" /\ closings[x] # "open"
    /\ Abandons(x)
    /\ UNCHANGED <<agentFiles, pendingWrites, runtimes, stopping, setting, captured, cut, overtaken,
                   surplus, acts, stops>>

\* The prompt replaces a turn that a client was faster with
SendsResume(x) ==
    /\ resuming[x] = "sending" /\ closings[x] = "open"
    /\ Becomes(x, "running")
    /\ resuming' = [resuming EXCEPT ![x] = "none"]
    /\ owed' = [owed EXCEPT ![x] = FALSE]
    /\ surplus' = IF owed[x] THEN surplus ELSE surplus \cup {x}
    /\ UNCHANGED <<agentFiles, stopping, setting, captured, cut, overtaken, acts, stops>>

-----------------------------------------------------------------------------
(***************************************************************************)
(* What clients, schedules and providers do                                *)
(***************************************************************************)
Acts == acts < MaxActs /\ acts' = acts + 1

LoadsAgent(x) ==
    /\ stage = "up" /\ runtimes[x] = "none" /\ ~agentFiles[x].archived /\ ~Waits(x, "archive")
    /\ Acts
    /\ Becomes(x, "idle")
    /\ UNCHANGED <<agentFiles, stopping, resuming, setting, ghosts, stops>>

\* A loaded agent may be prompted until it is closed
BeginsTurn(x) ==
    /\ runtimes[x] = "idle" /\ closings[x] = "open"
    /\ Acts
    /\ Becomes(x, "running")
    /\ UNCHANGED <<agentFiles, stopping, resuming, setting, ghosts, stops>>

EndsTurn(x) ==
    /\ runtimes[x] = "running" /\ closings[x] = "open"
    /\ Becomes(x, "idle")
    /\ captured' = captured \ {x}
    /\ UNCHANGED <<agentFiles, stopping, resuming, setting, owed, cut, overtaken, surplus, acts, stops>>

\* archiveSnapshot of an agent that is not live: the record is read, and written as a whole
ArchivesAgent(x) ==
    /\ stage = "up" /\ runtimes[x] = "none" /\ resuming[x] \notin {"reopening", "sending"}
    /\ ~agentFiles[x].archived /\ ~Waits(x, "archive")
    /\ Acts
    /\ Queues(x, <<Whole("archive", [agentFiles[x] EXCEPT !.archived = TRUE])>>)
    /\ UNCHANGED <<agentFiles, runtimes, stopping, resuming, setting, ghosts, stops>>

SwitchesSetting ==
    /\ stage = "up"
    /\ Acts
    /\ setting' = ~setting
    /\ UNCHANGED <<agentFiles, pendingWrites, runtimes, stopping, resuming, ghosts, stops>>

-----------------------------------------------------------------------------
(***************************************************************************)
(* Shutdown: bootstrap.ts stop, captureRunningAgents and closeAllAgents    *)
(***************************************************************************)
Stops == stops < MaxStops /\ stops' = stops + 1

\* prepareForShutdown, and flush: it waits for the writes that are queued now
ShutsDown ==
    /\ stage = "up"
    /\ Stops
    /\ stage' = "flushing"
    /\ awaited' = [x \in Agents |-> Len(pendingWrites[x])]
    /\ UNCHANGED <<agentFiles, pendingWrites, runtimes, closings, todo, listed, resuming, setting,
                   ghosts, acts>>

ListsRecords ==
    /\ stage = "flushing" /\ \A x \in Agents : awaited[x] = 0
    /\ stage' = "capturing" /\ todo' = Agents /\ listed' = agentFiles
    /\ UNCHANGED <<agentFiles, pendingWrites, runtimes, closings, awaited, resuming, setting, ghosts,
                   acts, stops>>

CaptureWaits == \E x \in Agents : Waits(x, "capture")

\* The listed record is written back, whatever was written since
Captures(x) ==
    /\ stage = "capturing" /\ x \in todo /\ ~CaptureWaits
    /\ todo' = todo \ {x}
    /\ IF listed[x].status = "running" /\ ~listed[x].archived
       THEN /\ Queues(x, <<Whole("capture", [listed[x] EXCEPT !.resume = setting])>>)
            /\ IF runtimes[x] = "running"
               THEN captured' = captured \cup {x} /\ UNCHANGED overtaken
               ELSE overtaken' = overtaken \cup {x} /\ UNCHANGED captured
       ELSE UNCHANGED <<pendingWrites, captured, overtaken>>
    /\ UNCHANGED <<agentFiles, runtimes, closings, stage, listed, awaited, resuming, setting, owed,
                   cut, surplus, acts, stops>>

ClosesAgents ==
    /\ stage = "capturing" /\ todo = {} /\ ~CaptureWaits
    /\ stage' = "closing"
    /\ closings' = [x \in Agents |-> IF runtimes[x] = "none" THEN "closed" ELSE "open"]
    /\ UNCHANGED <<agentFiles, pendingWrites, runtimes, todo, listed, awaited, resuming, setting,
                   ghosts, acts, stops>>

\* The turn that is interrupted here is owed a continuation
ClosesSession(x) ==
    /\ stage = "closing" /\ closings[x] = "open"
    /\ closings' = [closings EXCEPT ![x] = "closing"]
    /\ cut' = IF setting /\ x \in captured THEN cut \cup {x} ELSE cut
    /\ UNCHANGED <<agentFiles, pendingWrites, runtimes, stage, todo, listed, awaited, resuming,
                   setting, owed, captured, overtaken, surplus, acts, stops>>

\* An ACP session cancels its prompt and keeps its subscribers until its process has ended
ReportsCanceled(x) ==
    /\ CloseCancels
    /\ closings[x] = "closing" /\ runtimes[x] = "running"
    /\ Becomes(x, "idle")
    /\ UNCHANGED <<agentFiles, stopping, resuming, setting, ghosts, acts, stops>>

\* Closed, with a last snapshot, or given up after an error or the time limit
SessionCloses(x) ==
    /\ closings[x] = "closing"
    /\ closings' = [closings EXCEPT ![x] = "closed"]
    /\ \/ Queues(x, <<Copy("closed")>>)
       \/ UNCHANGED pendingWrites
    /\ UNCHANGED <<agentFiles, runtimes, stage, todo, listed, awaited, resuming, setting, ghosts,
                   acts, stops>>

GoesDown ==
    /\ stage' = "down" /\ todo' = {}
    /\ pendingWrites' = [x \in Agents |-> <<>>]
    /\ runtimes' = [x \in Agents |-> "none"]
    /\ closings' = [x \in Agents |-> "open"]
    /\ awaited' = [x \in Agents |-> 0]
    /\ resuming' = [x \in Agents |-> "none"]
    /\ captured' = {} /\ cut' = {}
    /\ UNCHANGED <<agentFiles, listed, setting, overtaken, surplus, acts>>

\* A stop interrupts what the disk shows as running
ShownRunning(x) == agentFiles[x].status = "running" /\ ~agentFiles[x].archived

\* A resume that was under way is given up with the daemon
ExitsDaemon ==
    /\ stage = "closing"
    /\ \A x \in Agents : closings[x] = "closed" /\ pendingWrites[x] = <<>>
    /\ owed' = [x \in Agents |-> ShownRunning(x) \/ x \in cut \/ (owed[x] /\ resuming[x] = "none")]
    /\ GoesDown
    /\ UNCHANGED stops

\* A flag that was consumed before its resume was sent is lost
CrashesDaemon ==
    /\ stage # "down"
    /\ Stops
    /\ owed' = [x \in Agents |->
          \/ ShownRunning(x) \/ x \in cut
          \/ owed[x] /\ resuming[x] \in {"none", "chosen", "consuming"}]
    /\ GoesDown

RestartNext ==
    \/ StartsDaemon \/ Opens \/ SwitchesSetting \/ ShutsDown \/ ListsRecords \/ ClosesAgents
    \/ ExitsDaemon \/ CrashesDaemon
    \/ \E x \in Agents :
          \/ WriteLands(x) \/ Prepares(x) \/ ResumeChecks(x) \/ Reopens(x) \/ ResumeFails(x)
          \/ SendsResume(x) \/ LoadsAgent(x) \/ BeginsTurn(x) \/ EndsTurn(x) \/ ArchivesAgent(x)
          \/ Captures(x) \/ ClosesSession(x) \/ ReportsCanceled(x) \/ SessionCloses(x)

RestartSpec == RestartInit /\ [][RestartNext]_restartVars

-----------------------------------------------------------------------------
RestartTypeOK ==
    /\ agentFiles \in [Agents -> AgentRecord] /\ listed \in [Agents -> AgentRecord]
    /\ runtimes \in [Agents -> {"none", "idle", "running"}]
    /\ closings \in [Agents -> {"open", "closing", "closed"}]
    /\ stage \in {"down", "preparing", "up", "flushing", "capturing", "closing"}
    /\ resuming \in [Agents -> {"none", "chosen", "consuming", "consumed", "reopening", "sending"}]
    /\ owed \in [Agents -> BOOLEAN] /\ awaited \in [Agents -> Nat]
    /\ {todo, captured, cut, overtaken, surplus} \subseteq SUBSET Agents

\* "to resume interrupted agents after graceful shutdown or a crash" (docs/agent-lifecycle.md:17):
\* a turn that a stop has interrupted is on disk, as running or to be resumed, or in hand, until
\* its resume was sent or abandoned, whatever writes of its record were queued when it began.
InterruptionIsKept ==
    \A x \in Agents :
       LET onDisk == agentFiles[x].resume \/ agentFiles[x].status = "running"
       IN (x \in cut => onDisk) /\ (owed[x] => onDisk \/ resuming[x] # "none")

\* That, and each interruption is answered by one resume at most: no restart sends one to an agent
\* that was not interrupted since the last.  The exception is a turn that ended between the
\* listing of its record at shutdown and the write that captures it (overtaken).
ResumesAreOwed == InterruptionIsKept /\ surplus \subseteq overtaken
==============================================================================
