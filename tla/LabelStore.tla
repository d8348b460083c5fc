------------------------------ MODULE LabelStore ------------------------------
(***************************************************************************)
(* The host-local label catalog and the label assignments of workspaces:   *)
(* workspace-labels/internal/catalog-store.ts over workspace-registry.ts.  *)
(*                                                                         *)
(* A label operation rewrites two files, the catalog and the workspaces,   *)
(* through a journal: a prepared marker holding the before images, the two *)
(* files, then the marker rewritten as committed.  Every write may fail,   *)
(* with or without its effect, and the daemon may stop between any two.    *)
(* Other mutations of the registry run in the same queue: some rewrite the *)
(* record they find there, some a record that their caller read earlier.   *)
(***************************************************************************)
CONSTANTS Labels, Workspaces,
          Absent,     \* no record, no journal file
          Committed   \* a journal in phase committed: its images are never read

Record      == [labels: SUBSET Labels, archived: BOOLEAN]
Assignments == UNION {[ws -> SUBSET Labels] : ws \in SUBSET Workspaces}
Plan        == [catalog: SUBSET Labels, assigned: Assignments]

ASSUME StoreAssumption == /\ Absent \notin Record \cup Plan \cup Workspaces
                          /\ \A names \in SUBSET Labels : names # Absent
                          /\ Committed \notin Plan \cup {Absent}

VARIABLES
    catalog,     \* workspace-labels.json
    records,     \* workspaces.json
    marker,      \* workspace-labels.transaction.json
    daemon,      \* "down", "starting" (before recovery is over) or "up"
    labels,      \* the catalog the daemon serves
    cache,       \* the workspace records it serves
    blocked,     \* mutations are blocked until restart
    commit,      \* the label operation in progress; service.ts runs one at a time
    read,        \* what a caller of upsert has read: the record and its workspace
    overwritten  \* workspaces whose labels an upsert put back (history)

disk   == <<catalog, records, marker>>
memory == <<labels, cache, blocked>>
storeVars == <<catalog, records, marker, daemon, labels, cache, blocked, commit, read,
               overwritten>>

Records == [Workspaces -> Record \cup {Absent}]
Present(recs) == {w \in Workspaces : recs[w] # Absent}
\* Mutant: archived workspaces keep old names
ActiveHolders(recs, l) == {w \in Present(recs) : ~recs[w].archived /\ l \in recs[w].labels}
Holders(recs, l) == {w \in Present(recs) : l \in recs[w].labels}

(***************************************************************************)
(* A plan is what the planner of a label operation returns: the catalog    *)
(* afterwards and the labels of the workspaces it updates.                 *)
(***************************************************************************)

\* The labels that some workspaces get; setAssignment accepts only an active workspace
Labelled(recs)            == {w \in Present(recs) : ~recs[w].archived}
WithLabel(recs, ws, l)    == [w \in ws |-> recs[w].labels \cup {l}]
WithoutLabel(recs, ws, l) == [w \in ws |-> recs[w].labels \ {l}]
Renamed(recs, ws, l, k)   == [w \in ws |-> (recs[w].labels \ {l}) \cup {k}]

\* setAssignment: a missing definition is made with its first assignment
AssignPlan(known, recs, w, l) ==
    [catalog |-> known \cup {l}, assigned |-> WithLabel(recs, {w} \ Holders(recs, l), l)]

UnassignPlan(known, recs, w, l) ==
    [catalog |-> known, assigned |-> WithoutLabel(recs, {w} \cap Holders(recs, l), l)]

\* update with a new name
RenamePlan(known, recs, l, k) ==
    [catalog |-> (known \ {l}) \cup {k}, assigned |-> Renamed(recs, Holders(recs, l), l, k)]

\* delete, of an unknown label too
DeletePlan(known, recs, l) ==
    [catalog |-> known \ {l},
     assigned |-> WithoutLabel(recs, IF l \in known THEN Holders(recs, l) ELSE {}, l)]

\* What the planners accept: a rename to a name in use is refused
Plans(known, recs) ==
    {AssignPlan(known, recs, w, l) : w \in Labelled(recs), l \in Labels}
        \cup {UnassignPlan(known, recs, w, l) : w \in Labelled(recs), l \in Labels}
        \cup {RenamePlan(known, recs, l, k) : l \in known, k \in Labels \ known}
        \cup {DeletePlan(known, recs, l) : l \in Labels}

Relabelled(recs, assigned) ==
    [w \in Workspaces |->
        IF w \in DOMAIN assigned /\ recs[w] # Absent
        THEN [recs[w] EXCEPT !.labels = assigned[w]] ELSE recs[w]]

\* Mutant: the journal keeps the images after the plan
AfterImages(known, recs, plan) == plan

\* transactionFor: the before images of a plan
Before(known, recs, plan) ==
    [catalog |-> known, assigned |-> [w \in DOMAIN plan.assigned |-> recs[w].labels]]

Markers  == Plan \cup {Absent, Committed}
Prepared == marker \notin {Absent, Committed}

\* What a restart would load: a prepared journal is rolled back
RestartCatalog  == IF Prepared THEN marker.catalog ELSE catalog
Restarted(recs) == IF Prepared THEN Relabelled(recs, marker.assigned) ELSE recs
LabelsOf(recs, w) == IF recs[w] = Absent THEN Absent ELSE recs[w].labels

Idle == [at |-> "idle", plan |-> Absent]
Steps == {"idle", "marking", "cataloging", "recording", "committing", "cleaning",
          "failed", "undo", "undoRecords", "undoMarker"}
\* The stages that run inside mutateCache, where the mutation queue is held
Locked == commit.at \in {"marking", "cataloging", "recording", "committing",
                         "undoRecords", "undoMarker"}

NoRead == [workspace |-> Absent, record |-> Absent]

Unlabelled == [w \in Workspaces |-> [labels |-> {}, archived |-> FALSE]]

StoreInit ==
    /\ catalog = {} /\ labels = {}
    /\ records = Unlabelled
    /\ cache = records
    /\ marker = Absent
    /\ daemon = "up"
    /\ blocked = FALSE
    /\ commit = Idle
    /\ read = NoRead
    /\ overwritten = {}

-----------------------------------------------------------------------------
(***************************************************************************)
(* A label operation: commit over commitWorkspaceLabelMutation             *)
(***************************************************************************)
At(step)     == commit.at = step
Goes(step)   == commit' = [commit EXCEPT !.at = step]
\* blockUntilRestart freezes the store and the registry
Blocks       == blocked' = TRUE /\ commit' = Idle

\* Inside the queue the planner sees the records as they are now
StagesPlan(plan) ==
    /\ daemon = "up" /\ At("idle") /\ ~blocked
    /\ plan \in Plans(labels, cache)
    /\ commit' = [plan |-> plan,
                  at |-> IF DOMAIN plan.assigned = {} /\ plan.catalog = labels
                         THEN "cleaning" ELSE "marking"]
    /\ UNCHANGED <<disk, daemon, labels, cache, blocked, read, overwritten>>

\* The planner refuses the request: not found, name taken
PlannerThrows ==
    /\ daemon = "up" /\ At("idle") /\ ~blocked
    /\ Goes("failed")
    /\ UNCHANGED <<disk, daemon, memory, read, overwritten>>

\* A write is acknowledged, or fails without its effect, or fails with it
Writes(effect, unchanged, next) ==
    \/ effect /\ Goes(next)
    \/ effect /\ Goes("failed")
    \/ unchanged /\ Goes("failed")

WritesPrepared ==
    /\ At("marking")
    /\ Writes(marker' = Before(labels, cache, commit.plan), UNCHANGED marker, "cataloging")
    /\ UNCHANGED <<catalog, records, daemon, memory, read, overwritten>>

WritesCatalog ==
    /\ At("cataloging")
    /\ Writes(catalog' = commit.plan.catalog, UNCHANGED catalog,
             IF DOMAIN commit.plan.assigned = {} THEN "committing" ELSE "recording")
    /\ UNCHANGED <<records, marker, daemon, memory, read, overwritten>>

WritesRecords ==
    /\ At("recording")
    /\ Writes(records' = Relabelled(cache, commit.plan.assigned), UNCHANGED records,
             "committing")
    /\ UNCHANGED <<catalog, marker, daemon, memory, read, overwritten>>

\* The commit point; once it is acknowledged the daemon serves the change
WritesCommitted ==
    /\ At("committing")
    /\ \/ /\ marker' = Committed
          /\ labels' = commit.plan.catalog
          /\ cache' = Relabelled(cache, commit.plan.assigned)
          /\ Goes("cleaning")
       \/ /\ marker' \in {marker, Committed}
          /\ Goes("failed")
          /\ UNCHANGED <<labels, cache>>
    /\ UNCHANGED <<catalog, records, daemon, blocked, read, overwritten>>

\* The marker is cleanup by now: a failure is ignored
Cleans ==
    /\ At("cleaning")
    /\ marker' \in {marker, Absent}
    /\ commit' = Idle
    /\ UNCHANGED <<catalog, records, daemon, memory, read, overwritten>>

\* resolveFailedCommit: what the journal says decides
ResolvesFailed ==
    /\ At("failed")
    /\ \/ marker = Absent /\ commit' = Idle /\ UNCHANGED blocked
       \/ Prepared /\ Goes("undo") /\ UNCHANGED blocked
       \/ marker = Committed /\ Blocks
       \/ Blocks                                     \* the journal cannot be read
    /\ UNCHANGED <<disk, daemon, labels, cache, read, overwritten>>

-----------------------------------------------------------------------------
(***************************************************************************)
(* recover: before images over the records as they are now.  It runs after *)
(* a failed operation and at the start of the daemon, where a failure      *)
(* stops the start.                                                        *)
(***************************************************************************)
Stopped == /\ daemon' = "down" /\ blocked' = FALSE /\ commit' = Idle /\ read' = NoRead
           /\ labels' = {} /\ cache' = [w \in Workspaces |-> Absent]

UndoFails ==
    \/ daemon = "up" /\ Blocks /\ UNCHANGED <<daemon, labels, cache, read>>
    \/ daemon = "starting" /\ Stopped

Undo(effect, unchanged, next) ==
    \/ effect /\ Goes(next) /\ UNCHANGED <<daemon, memory, read>>
    \/ (effect \/ unchanged) /\ UndoFails

UndoesCatalog ==
    /\ At("undo")
    /\ Undo(catalog' = marker.catalog, UNCHANGED catalog,
            IF DOMAIN marker.assigned \cap Present(cache) = {}
            THEN "undoMarker" ELSE "undoRecords")
    /\ UNCHANGED <<records, marker, overwritten>>

UndoesRecords ==
    /\ At("undoRecords")
    /\ Undo(records' = Relabelled(cache, marker.assigned), UNCHANGED records, "undoMarker")
    /\ UNCHANGED <<catalog, marker, overwritten>>

UndoesMarker ==
    /\ At("undoMarker")
    /\ \/ /\ marker' = Absent
          /\ labels' = marker.catalog
          /\ cache' = Relabelled(cache, marker.assigned)
          /\ daemon' = "up" /\ commit' = Idle
          /\ UNCHANGED <<blocked, read>>
       \/ marker' \in {marker, Absent} /\ UndoFails
    /\ UNCHANGED <<catalog, records, overwritten>>

StoreCrashes ==
    /\ daemon # "down"
    /\ Stopped
    /\ UNCHANGED <<disk, overwritten>>

StoreStarts ==
    /\ daemon = "down"
    /\ daemon' = "starting"
    /\ cache' = records
    /\ UNCHANGED <<disk, labels, blocked, commit, read, overwritten>>

\* loadAndRecover
Loads ==
    /\ daemon = "starting" /\ At("idle")
    /\ \/ /\ Prepared /\ Goes("undo")
          /\ UNCHANGED <<marker, daemon, labels>>
       \/ /\ ~Prepared
          /\ labels' = catalog
          /\ marker' \in {marker, Absent}          \* a failed removal is ignored
          /\ daemon' = "up"
          /\ UNCHANGED commit
    /\ UNCHANGED <<catalog, records, cache, blocked, read, overwritten>>

-----------------------------------------------------------------------------
(***************************************************************************)
(* Other mutations of the registry, through the same queue.  Each writes   *)
(* all the records of the cache, labels included; overwritten notes the    *)
(* workspaces whose labels it changes by that, stored or served.           *)
(***************************************************************************)
Mutates(recs) ==
    /\ ~Locked /\ ~blocked
    /\ records' = recs /\ cache' = recs
    /\ overwritten' = overwritten \cup
           {w \in Present(recs) :
               \/ LabelsOf(recs, w) # LabelsOf(cache, w)
               \/ LabelsOf(Restarted(recs), w) # LabelsOf(Restarted(records), w)}
    /\ UNCHANGED <<catalog, marker, daemon, labels, blocked, commit>>

\* archive; at the start archiveMissingWorkspaces runs before the recovery
Archives(w) ==
    /\ daemon = "up" \/ (daemon = "starting" /\ At("idle"))
    /\ w \in Present(cache) /\ ~cache[w].archived
    /\ Mutates([cache EXCEPT ![w].archived = TRUE])
    /\ UNCHANGED read

RemovesWorkspace(w) ==
    /\ daemon = "up" /\ w \in Present(cache)
    /\ Mutates([cache EXCEPT ![w] = Absent])
    /\ UNCHANGED read

\* rename_workspace and the placement refresh read a record, await, and upsert it
ReadsRecord(w) ==
    /\ daemon = "up" /\ read = NoRead /\ w \in Present(cache)
    /\ read' = [workspace |-> w, record |-> cache[w]]
    /\ UNCHANGED <<disk, daemon, memory, commit, overwritten>>

\* All of them write an active record back
Upserts ==
    /\ daemon = "up" /\ read # NoRead
    /\ Mutates([cache EXCEPT ![read.workspace] = [read.record EXCEPT !.archived = FALSE]])
    /\ read' = NoRead

UpsertBlocked ==
    /\ read # NoRead /\ blocked
    /\ read' = NoRead
    /\ UNCHANGED <<disk, daemon, memory, commit, overwritten>>

LabelSteps ==
    \/ \E plan \in Plans(labels, cache) : StagesPlan(plan)
    \/ PlannerThrows \/ WritesPrepared \/ WritesCatalog \/ WritesRecords
    \/ WritesCommitted \/ Cleans \/ ResolvesFailed
    \/ UndoesCatalog \/ UndoesRecords \/ UndoesMarker

RegistrySteps ==
    \/ \E w \in Workspaces : Archives(w) \/ RemovesWorkspace(w) \/ ReadsRecord(w)
    \/ Upserts \/ UpsertBlocked

StoreNext == LabelSteps \/ RegistrySteps \/ StoreCrashes \/ StoreStarts \/ Loads

StoreSpec == StoreInit /\ [][StoreNext]_storeVars

-----------------------------------------------------------------------------
StoreTypeOK ==
    /\ catalog \in SUBSET Labels /\ labels \in SUBSET Labels
    /\ records \in Records /\ cache \in Records
    /\ marker \in Markers
    /\ daemon \in {"down", "starting", "up"}
    /\ blocked \in BOOLEAN
    /\ commit \in [at: Steps, plan: Plan \cup {Absent}]
    /\ blocked => commit = Idle
    /\ commit.at \in {"cataloging", "recording", "committing"} => Prepared
    /\ read \in [workspace: Workspaces, record: Record] \cup {NoRead}
    /\ overwritten \in SUBSET Workspaces

(***************************************************************************)
(* The pair a restart would serve and the pair that is served, without the *)
(* workspaces whose labels a plain mutation changed                        *)
(***************************************************************************)
Seen(recs) == [w \in Workspaces |-> IF w \in overwritten THEN Absent ELSE recs[w]]
Stored == [catalog |-> RestartCatalog, records |-> Seen(Restarted(records))]
Served == IF daemon = "up" THEN [catalog |-> labels, records |-> Seen(cache)] ELSE Stored
Mode   == IF daemon # "up" THEN "down"
          ELSE IF blocked \/ (At("failed") /\ marker = Committed) THEN "uncertain" ELSE "up"

\* The pairs that one whole operation makes of a pair: an operation on labels, or
\* one on the records that leaves their labels alone or drops them from the pair
PairChanges(p) ==
    {[catalog |-> plan.catalog, records |-> Relabelled(p.records, plan.assigned)] :
        plan \in Plans(p.catalog, p.records)}
    \cup {[p EXCEPT !.records = recs] :
        recs \in {r \in Records : \A w \in Present(r) :
                     LabelsOf(r, w) = LabelsOf(p.records, w)}}
    \* a label made for a workspace that the pair leaves out
    \cup {[p EXCEPT !.catalog = p.catalog \cup {l}] :
        l \in {k \in Labels : Present(p.records) # Workspaces}}

StoredPair == INSTANCE LabelPair WITH
    stored <- Stored, served <- Served, mode <- Mode,
    Initial <- [catalog |-> {}, records |-> Unlabelled],
    Changes <- PairChanges

(***************************************************************************)
(* Label operations are atomic over both files and the memory, whatever    *)
(* write fails and wherever the daemon stops: an operation takes effect as *)
(* a whole at its commit point, a rejected one never does, and only an     *)
(* uncertain one may wait for the restart.                                 *)
(***************************************************************************)
LabelsAreAtomic == StoredPair!Spec

(***************************************************************************)
(* A workspace carries only labels of the catalog, both in what is served  *)
(* and in what a restart would serve, unless an upsert put old labels back *)
(***************************************************************************)
Defined(p) == \A w \in Present(p.records) : p.records[w].labels \subseteq p.catalog
DefinedUnlessOverwritten == Defined(Stored) /\ Defined(Served)

(***************************************************************************)
(* "Workspaces store label names, so a rename and a delete rewrite         *)
(* workspace assignments through one serialized compound commit"           *)
(* (docs/data-model.md:500): a served workspace carries only labels of the *)
(* catalog.                                                                *)
(***************************************************************************)
AssignedIsDefined ==
    daemon = "up" => \A w \in Present(cache) : cache[w].labels \subseteq labels
==============================================================================
