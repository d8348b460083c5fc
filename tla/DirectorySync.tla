---------------------------- MODULE DirectorySync ----------------------------
(***************************************************************************)
(* How the workspace directories of apps follow the daemon's workspaces:   *)
(* fetch_workspaces and workspace updates in session.ts, the collection of *)
(* directory-sync/index.ts that all sessions share, and the app's          *)
(* runtime/directory-sync.                                                 *)
(*                                                                         *)
(* A session subscribes and reads the list of workspaces, which takes a    *)
(* while; the list replaces the collection, and the app gets what is new   *)
(* after its cursor.  Each change of a workspace makes every session build *)
(* a descriptor, put it in the collection and send it; what is ready       *)
(* before the list is answered is kept and follows it.                     *)
(***************************************************************************)
EXTENDS VersionedCollection, SequencesExt

CONSTANTS
    Sessions,    \* one app each
    Faces,       \* the values of each status
    Unset,       \* nothing read, sent, kept or known
    MaxChanges,  \* bound: changes of workspaces
    MaxLosses,   \* bound: lost connections
    MaxLives     \* bound: lives of the daemon

Position == [generation: 1..MaxLives, afterSeq: Nat]
Update   == [id: Ids, value: Values \cup {Gone}, seq: Nat]
List     == [mode: {"changes", "snapshot"}, entries: SUBSET Ids, removals: SUBSET Ids,
             values: Entries, headSeq: Nat]

ASSUME DirectoryAssumption ==
    /\ Unset \notin Values \cup {Gone} \cup Entries \cup List \cup Position
    /\ Values # {} /\ Faces \subseteq SUBSET Values /\ UNION Faces = Values
    /\ MaxChanges \in Nat /\ MaxLosses \in Nat /\ MaxLives \in Nat \ {0}

VARIABLES
    truth,       \* the workspaces of the host
    life,        \* the generation
    observers,   \* the daemon's side of each session
    outbox,      \* messages to each app, in order
    apps,        \* the apps
    changes, lost

directoryVars == <<collectionVars, truth, life, observers, outbox, apps, changes, lost>>

Nothing == [id \in Ids |-> Unset]

\* building holds descriptors being built, kept those that wait for the list, sent is
\* lastEmittedByWorkspaceId; since are the workspaces that changed after the flush (history)
Unsubscribed == [at |-> "none", listed |-> Unset, due |-> {}, building |-> Nothing,
                 kept |-> <<>>, sent |-> Nothing, since |-> {}]
\* recorded are the updates that arrive while a refresh is not complete; told is the number
\* up to which the app was given each workspace (history)
NoApp == [refreshing |-> FALSE, answer |-> Unset, recorded |-> <<>>, replica |-> NoEntries,
          cursor |-> Unset, told |-> [id \in Ids |-> 0]]

DirectoryInit ==
    /\ CollectionInit
    /\ truth \in [Ids -> {Gone, CHOOSE v \in Values : TRUE}]
    /\ life = 1
    /\ observers = [s \in Sessions |-> Unsubscribed]
    /\ outbox = [s \in Sessions |-> <<>>]
    /\ apps = [s \in Sessions |-> NoApp]
    /\ changes = 0 /\ lost = 0

-----------------------------------------------------------------------------
(***************************************************************************)
(* The daemon                                                              *)
(***************************************************************************)
Linked(s) == observers[s].at # "none"

\* Every subscription is told which workspace to look at
Changes(id, v) ==
    /\ changes < MaxChanges /\ changes' = changes + 1
    /\ truth[id] # v /\ truth' = [truth EXCEPT ![id] = v]
    /\ observers' = [s \in Sessions |->
          IF Linked(s)
          THEN [observers[s] EXCEPT
                  !.due = @ \cup {id},
                  !.since = IF observers[s].at = "live" THEN @ \cup {id} ELSE @]
          ELSE observers[s]]
    /\ UNCHANGED <<collectionVars, life, outbox, apps, lost>>

\* listDescriptors
ReadsList(s) ==
    /\ observers[s].at = "starting" /\ observers[s].listed = Unset
    /\ observers' = [observers EXCEPT ![s].listed = truth]
    /\ UNCHANGED <<collectionVars, truth, life, outbox, apps, changes, lost>>

\* buildDescriptorMap: updates of one workspace wait for each other
Builds(s, id) ==
    /\ id \in observers[s].due /\ observers[s].building[id] = Unset
    /\ observers' = [observers EXCEPT ![s].building[id] = truth[id], ![s].due = @ \ {id}]
    /\ UNCHANGED <<collectionVars, truth, life, outbox, apps, changes, lost>>

\* The last update of a row counts
Shown(rows, updates) ==
    [id \in Ids |->
        LET own == {i \in DOMAIN updates : updates[i].id = id}
        IN IF own = {} THEN rows[id] ELSE updates[Max(own)].value]

Post(s, messages) == outbox' = [outbox EXCEPT ![s] = @ \o messages]
Live(update)      == [kind |-> "update", update |-> update]

\* pendingUpdatesByWorkspaceId is a Map: the update of a workspace keeps its place
Keep(kept, update) ==
    IF \E i \in DOMAIN kept : kept[i].id = update.id
    THEN [i \in DOMAIN kept |-> IF kept[i].id = update.id THEN update ELSE kept[i]]
    ELSE Append(kept, update)

\* The removal of a workspace that the app was not sent is skipped; an equal descriptor
\* counts but is not sent again
Emits(s, id) ==
    LET observer == observers[s]
        value    == observer.building[id]
        built    == [observer EXCEPT !.building[id] = Unset]
        update   == [id |-> id, value |-> value, seq |-> seqs'[id]]
    IN /\ value # Unset
       /\ IF value = Gone /\ observer.sent[id] \in {Unset, Gone}
          THEN observers' = [observers EXCEPT ![s] = built] /\ UNCHANGED <<collectionVars, outbox>>
          ELSE /\ Write([i \in {id} |-> value])
               /\ IF value = observer.sent[id]
                  THEN observers' = [observers EXCEPT ![s] = built] /\ UNCHANGED outbox
                  ELSE IF observer.at # "live"
                  THEN observers' = [observers EXCEPT ![s] =
                          [built EXCEPT !.kept = Keep(@, update),
                                        !.sent[id] = IF value = Gone THEN Unset ELSE @]]
                       /\ UNCHANGED outbox
                  ELSE observers' = [observers EXCEPT ![s] = [built EXCEPT !.sent[id] = value]]
                       /\ Post(s, <<Live(update)>>)
       /\ UNCHANGED <<truth, life, apps, changes, lost>>

\* directory-sync read: the number of a cursor of this generation
NumberOf(place) == IF place = Unset \/ place.generation # life THEN -1 ELSE place.afterSeq

\* The list replaces the collection and the answer is read from it
Answers(s) ==
    /\ observers[s].at = "starting" /\ observers[s].listed # Unset
    /\ Write(observers[s].listed)
    /\ \E after \in {NumberOf(apps[s].cursor)} :
         \E read \in {ReadAfter(after)'} :
            /\ Post(s, <<[kind |-> "list", read |-> read]>>)
            /\ observers' = [observers EXCEPT
                   ![s].at = "answered", ![s].listed = read,
                   ![s].sent = [id \in Ids |->
                       IF id \in read.entries THEN read.values[id] ELSE @[id]]]
    /\ UNCHANGED <<truth, life, apps, changes, lost>>

\* shouldEmitPendingBootstrapUpdate: what differs in its status from the list
IsNews(update, read) ==
    \A face \in Faces :
        ~(update.id \in read.entries /\ {update.value, read.values[update.id]} \subseteq face)

News(kept, read) ==
    LET upTo[i \in 0..Len(kept)] ==
          IF i = 0 THEN <<>>
          ELSE IF IsNews(kept[i], read) THEN Append(upTo[i - 1], kept[i]) ELSE upTo[i - 1]
    IN upTo[Len(kept)]

\* Git observers are reconciled between the answer and this
Flushes(s) ==
    LET observer == observers[s]
        flushed  == News(observer.kept, observer.listed)
    IN /\ observer.at = "answered"
       /\ Post(s, [i \in DOMAIN flushed |-> Live(flushed[i])])
       /\ observers' = [observers EXCEPT ![s] =
             [observer EXCEPT !.at = "live", !.listed = Unset, !.kept = <<>>,
                              !.sent = Shown(@, flushed)]]
       /\ UNCHANGED <<collectionVars, truth, life, apps, changes, lost>>

-----------------------------------------------------------------------------
(***************************************************************************)
(* The app                                                                 *)
(***************************************************************************)
\* A connection subscribes and begins a refresh from the rows and the cursor of the app
Connects(s) ==
    /\ ~Linked(s)
    /\ observers' = [observers EXCEPT ![s].at = "starting"]
    /\ apps' = [apps EXCEPT ![s].refreshing = TRUE]
    /\ UNCHANGED <<collectionVars, truth, life, outbox, changes, lost>>

\* writeCursor: a cursor of the generation only grows
Placed(place, seq) ==
    IF place # Unset /\ place.generation = life /\ place.afterSeq >= seq
    THEN place ELSE [generation |-> life, afterSeq |-> seq]

\* noteLiveCursor: an update can be without a number
Noted(place, seq) == IF seq = 0 THEN place ELSE Placed(place, seq)

NotedAll(place, updates) ==
    FoldLeft(LAMBDA at, update : Noted(at, update.seq), place, updates)

Told(told, updates) ==
    FoldLeft(LAMBDA upTo, update : [upTo EXCEPT ![update.id] = IF @ < update.seq THEN update.seq ELSE @],
             told, updates)

Takes(s) ==
    /\ outbox[s] # <<>>
    /\ outbox' = [outbox EXCEPT ![s] = Tail(@)]
    /\ UNCHANGED <<collectionVars, truth, life, observers, changes, lost>>

TakesList(s) ==
    /\ Takes(s) /\ Head(outbox[s]).kind = "list"
    /\ apps' = [apps EXCEPT ![s].answer = Head(outbox[s]).read]

\* Mutant: an update that arrives during a refresh is left to its answer
TakesUpdateIfComplete(s) ==
    /\ Takes(s) /\ Head(outbox[s]).kind = "update"
    /\ LET update == Head(outbox[s]).update IN
       apps' = IF apps[s].refreshing THEN apps
               ELSE [apps EXCEPT ![s].replica[update.id] = update.value,
                                 ![s].cursor = Noted(@, update.seq),
                                 ![s].told = Told(@, <<update>>)]

TakesUpdate(s) ==
    /\ Takes(s) /\ Head(outbox[s]).kind = "update"
    /\ LET update == Head(outbox[s]).update IN
       apps' = IF apps[s].refreshing
               THEN [apps EXCEPT ![s].recorded = Append(@, update)]
               ELSE [apps EXCEPT ![s].replica[update.id] = update.value,
                                 ![s].cursor = Noted(@, update.seq),
                                 ![s].told = Told(@, <<update>>)]

\* The answer and the updates that came after it are committed together
CompletesRefresh(s) ==
    LET app == apps[s] IN
    /\ app.answer # Unset
    /\ apps' = [apps EXCEPT ![s] =
          [refreshing |-> FALSE, answer |-> Unset, recorded |-> <<>>,
           replica |-> Shown(Caught(app.replica, app.answer), app.recorded),
           cursor  |-> NotedAll(Placed(app.cursor, app.answer.headSeq), app.recorded),
           told    |-> Told([id \in Ids |-> app.answer.headSeq], app.recorded)]]
    /\ UNCHANGED <<collectionVars, truth, life, observers, outbox, changes, lost>>

\* A refresh that is cut off commits the updates, not their numbers
CutOff(app) ==
    [refreshing |-> FALSE, answer |-> Unset, recorded |-> <<>>,
     replica |-> Shown(app.replica, app.recorded), cursor |-> app.cursor,
     told |-> Told(app.told, app.recorded)]

Disconnects(s) ==
    /\ Linked(s) /\ lost < MaxLosses /\ lost' = lost + 1
    /\ observers' = [observers EXCEPT ![s] = Unsubscribed]
    /\ outbox' = [outbox EXCEPT ![s] = <<>>]
    /\ apps' = [apps EXCEPT ![s] = CutOff(@)]
    /\ UNCHANGED <<collectionVars, truth, life, changes>>

DirectoryRestarts ==
    /\ life < MaxLives /\ life' = life + 1
    /\ Forget
    /\ observers' = [s \in Sessions |-> Unsubscribed]
    /\ outbox' = [s \in Sessions |-> <<>>]
    /\ apps' = [s \in Sessions |-> CutOff(apps[s])]
    /\ UNCHANGED <<truth, changes, lost>>

DirectoryNext ==
    \/ \E id \in Ids, v \in Values \cup {Gone} : Changes(id, v)
    \/ \E s \in Sessions :
          \/ Connects(s) \/ ReadsList(s) \/ Answers(s) \/ Flushes(s)
          \/ \E id \in Ids : Builds(s, id) \/ Emits(s, id)
          \/ TakesList(s) \/ TakesUpdate(s) \/ CompletesRefresh(s) \/ Disconnects(s)
    \/ DirectoryRestarts

DirectorySpec == DirectoryInit /\ [][DirectoryNext]_directoryVars

-----------------------------------------------------------------------------
OrUnset(S) == S \cup {Unset}
DirectoryTypeOK ==
    /\ truth \in Entries /\ values \in Entries /\ seqs \in [Ids -> 0..headSeq]
    /\ expired \in 0..headSeq /\ life \in 1..MaxLives
    /\ Cardinality({id \in Ids : values[id] = Gone /\ seqs[id] # 0}) <= MaxTombstones
    /\ observers \in [Sessions ->
          [at: {"none", "starting", "answered", "live"}, listed: OrUnset(Entries \cup List),
           due: SUBSET Ids, building: [Ids -> Values \cup {Gone, Unset}],
           kept: Seq(Update), sent: [Ids -> Values \cup {Gone, Unset}],
           since: SUBSET Ids]]
    /\ \A s \in Sessions :
          apps[s].replica \in Entries /\ apps[s].cursor \in OrUnset(Position)
            /\ apps[s].recorded \in Seq(Update)

(***************************************************************************)
(* "the daemon returns each entity's latest projection when its sequence   *)
(* is newer, plus tombstones" (docs/architecture.md:131): an app resumes   *)
(* from a cursor, so the cursor it has when the connection is lost never   *)
(* stands for a change it was not given.                                   *)
(***************************************************************************)
CursorIsTold ==
    \A s \in Sessions, id \in Ids :
        LET app == apps[s] IN
        /\ ~Linked(s) /\ app.cursor # Unset /\ app.cursor.generation = life
        /\ seqs[id] <= app.cursor.afterSeq
        => app.told[id] >= seqs[id] \/ app.replica[id] = values[id]

(***************************************************************************)
(* Changes that an app follows are shown: when everything was built, sent  *)
(* and applied, a workspace that changed after the app's subscription went *)
(* live and exists is shown as it is.                                      *)
(***************************************************************************)
Quiet(s) ==
    /\ observers[s].at = "live" /\ observers[s].due = {} /\ observers[s].building = Nothing
    /\ outbox[s] = <<>> /\ ~apps[s].refreshing

FollowedChangesShow ==
    \A s \in Sessions : Quiet(s) =>
        \A id \in observers[s].since : truth[id] \in {Gone, apps[s].replica[id]}
==============================================================================
