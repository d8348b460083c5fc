------------------------------ MODULE LabelSync ------------------------------
(***************************************************************************)
(* How the app's replica of a host's label catalog follows it: the change  *)
(* sequence of workspace-labels/internal/sequence.ts, the list request of  *)
(* session.ts, the owned subscription of client/src/connection/owned.ts    *)
(* and the app's host-replica.ts.                                          *)
(*                                                                         *)
(* Every committed edit of the catalog gets the next number of the running *)
(* daemon's generation and goes to the subscribed client.  A client that   *)
(* lost its connection asks with its cursor, and gets the changes since    *)
(* then while the bounded journal still has them, or a snapshot.  An edit  *)
(* is one step here: service.ts runs one operation at a time, and          *)
(* LabelStore shows that it is atomic.                                     *)
(***************************************************************************)
EXTENDS Naturals, Sequences

CONSTANTS
    Names,           \* keys of labels: names up to case
    Colors,
    None,            \* no label, no previous name, no cursor
    JournalLimit,    \* entries the journal keeps (256 in the code)
    MaxSeq,          \* bound: edits in the first life of the daemon, one less in each later one
    MaxServerLives,  \* bound: lives of the daemon
    MaxLinkLosses    \* bound: lost connections

Catalog == [Names -> Colors \cup {None}]
NoLabels == [n \in Names |-> None]

\* An upsert carries the previous name of a rename; a removal has color None
Change == [name: Names, color: Colors \cup {None}, previous: Names \cup {None}]
Entry  == [seq: 1..MaxSeq, change: Change]
Cursor == [generation: 1..MaxServerLives, afterSeq: 0..MaxSeq]
Request == [subscribe: BOOLEAN, at: Cursor \cup {None}]
Subscribe   == [subscribe |-> TRUE, at |-> None]
Refresh(at) == [subscribe |-> FALSE, at |-> at]

ASSUME SyncAssumption ==
    /\ None \notin Names \cup Colors /\ None \notin Cursor
    /\ JournalLimit \in Nat \ {0} /\ MaxSeq \in Nat
    /\ MaxServerLives \in Nat \ {0} /\ MaxLinkLosses \in Nat

VARIABLES
    held,        \* the catalog of the daemon
    generation,  \* its generation, made anew in each life
    lastSeq,     \* number of its last change
    journal,     \* the last changes
    versions,    \* the catalog after each change of the generation (history)
    linked,      \* whether the connection is up
    subscribed,  \* whether the daemon sends live changes on it
    requests,    \* list requests on their way, in order
    inbox,       \* responses and updates on their way, in order
    replica,     \* the labels the app shows
    cursor,      \* its place in the sequence, or None
    exact,       \* whether it comes from a snapshot and live changes only (history)
    losses

syncVars == <<held, generation, lastSeq, journal, versions, linked, subscribed, requests,
              inbox, replica, cursor, exact, losses>>
server == <<held, generation, lastSeq, journal, versions>>
client == <<replica, cursor, exact>>

SyncInit ==
    /\ held \in {NoLabels} \cup {[NoLabels EXCEPT ![n] = c] : n \in Names, c \in Colors}
    /\ generation = 1 /\ lastSeq = 0 /\ journal = <<>>
    /\ versions = <<held>>
    /\ linked = FALSE /\ subscribed = FALSE
    /\ requests = <<>> /\ inbox = <<>>
    /\ replica = NoLabels /\ cursor = None /\ exact = TRUE
    /\ losses = 0

-----------------------------------------------------------------------------
(***************************************************************************)
(* The sequence: publish and synchronize                                   *)
(***************************************************************************)
\* HostWorkspaceLabelReplica.applyUpdate, and what an edit does to the catalog
Applied(labels, change) ==
    [n \in Names |-> IF n = change.name THEN change.color
                     ELSE IF n = change.previous THEN None ELSE labels[n]]

Trimmed(entries) ==
    IF Len(entries) > JournalLimit THEN Tail(entries) ELSE entries

\* What the exported edits publish: a creation or new color, a rename, a deletion
Edits ==
    {change \in Change :
        \/ change.color # None /\ change.previous = None /\ held[change.name] # change.color
        \/ /\ change.color # None /\ change.previous # None /\ held[change.previous] # None
           /\ change.name = change.previous \/ held[change.name] = None
        \/ change.color = None /\ change.previous = None /\ held[change.name] # None}

Publishes(change) ==
    /\ lastSeq + generation <= MaxSeq
    /\ change \in Edits
    /\ held' = Applied(held, change)
    /\ lastSeq' = lastSeq + 1
    /\ LET entry == [seq |-> lastSeq', change |-> change] IN
       /\ journal' = Trimmed(Append(journal, entry))
       /\ inbox' = IF subscribed THEN Append(inbox, [kind |-> "update", entry |-> entry]) ELSE inbox
    /\ versions' = Append(versions, held')
    /\ UNCHANGED <<generation, linked, subscribed, requests, client, losses>>

(***************************************************************************)
(* The loop of synchronize over the entries of a catch-up.  A removal, or  *)
(* the old name of a rename, that meets an upsert of the window withdraws  *)
(* that upsert; otherwise it is sent.                                      *)
(***************************************************************************)
Withdraw(net, n) ==
    IF n = None THEN net
    ELSE IF n \in net.upserts THEN [net EXCEPT !.upserts = @ \ {n}]
    ELSE [net EXCEPT !.removals = @ \cup {n}]

Collect(net, change) ==
    IF change.color = None THEN Withdraw(net, change.name)
    ELSE LET left == Withdraw(net, change.previous) IN
         [upserts |-> left.upserts \cup {change.name},
          removals |-> left.removals \ {change.name}]

\* What the loop has after each entry of the journal; those up to the cursor are filtered out
NetSteps(afterSeq) ==
    LET f[i \in 0..Len(journal)] ==
          IF i = 0 THEN [upserts |-> {}, removals |-> {}]
          ELSE IF journal[i].seq > afterSeq THEN Collect(f[i - 1], journal[i].change)
          ELSE f[i - 1]
    IN f

Net(afterSeq) == NetSteps(afterSeq)[Len(journal)]

Oldest == IF journal = <<>> THEN lastSeq + 1 ELSE journal[1].seq

\* Mutant: the change right after the cursor may be gone already
CanCatchUpWithGap(at) ==
    /\ at # None
    /\ at.generation = generation
    /\ at.afterSeq <= lastSeq /\ at.afterSeq + 1 >= Oldest - 1

CanCatchUp(at) ==
    /\ at # None
    /\ at.generation = generation
    /\ at.afterSeq <= lastSeq /\ at.afterSeq >= Oldest - 1

\* The last upsert of a name that stands carries the color the catalog has
Synchronize(at) ==
    LET net == IF CanCatchUp(at) THEN Net(at.afterSeq)
                                 ELSE [upserts |-> {n \in Names : held[n] # None}, removals |-> {}]
    IN [mode |-> IF CanCatchUp(at) THEN "changes" ELSE "snapshot",
        labels |-> [n \in net.upserts |-> held[n]],
        removals |-> net.removals,
        head |-> [generation |-> generation, afterSeq |-> lastSeq]]

-----------------------------------------------------------------------------
(***************************************************************************)
(* Requests and their answers.  A subscription asks without a cursor, a    *)
(* refresh with the cursor the replica has when it is sent.                *)
(***************************************************************************)
AnswersList ==
    /\ requests # <<>>
    /\ requests' = Tail(requests)
    /\ LET asked == Head(requests) IN
       /\ inbox' = Append(inbox, [kind |-> "list", list |-> Synchronize(asked.at)])
       /\ subscribed' = (subscribed \/ asked.subscribe)
    /\ UNCHANGED <<server, linked, client, losses>>

\* applyList
Lists ==
    /\ inbox # <<>> /\ Head(inbox).kind = "list"
    /\ LET list == Head(inbox).list IN
       /\ replica' = [n \in Names |->
                        IF n \in DOMAIN list.labels THEN list.labels[n]
                        ELSE IF list.mode = "snapshot" \/ n \in list.removals THEN None
                        ELSE replica[n]]
       /\ cursor' = list.head
       /\ exact' = (list.mode = "snapshot")
    /\ inbox' = Tail(inbox)
    /\ UNCHANGED <<server, linked, subscribed, requests, losses>>

\* applyUpdate: only the very next change is applied; another one makes the app ask
Updates ==
    /\ inbox # <<>> /\ Head(inbox).kind = "update"
    /\ LET entry == Head(inbox).entry IN
       IF cursor # None /\ cursor.generation = generation /\ entry.seq = cursor.afterSeq + 1
       THEN /\ replica' = Applied(replica, entry.change)
            /\ cursor' = [cursor EXCEPT !.afterSeq = entry.seq]
            /\ UNCHANGED <<requests, exact>>
       ELSE /\ requests' = Append(requests, Refresh(cursor))
            /\ UNCHANGED <<replica, cursor, exact>>
    /\ inbox' = Tail(inbox)
    /\ UNCHANGED <<server, linked, subscribed, losses>>

-----------------------------------------------------------------------------
(***************************************************************************)
(* Connections.  A new one restores the subscription, and the controller   *)
(* refreshes the replica it kept; either request may go first.             *)
(***************************************************************************)
\* Mutant: a replica that has a cursor does not subscribe again
ConnectsUnsubscribed ==
    /\ ~linked
    /\ linked' = TRUE
    /\ requests' = IF cursor = None THEN <<Subscribe>> ELSE <<Refresh(cursor)>>
    /\ UNCHANGED <<server, subscribed, inbox, client, losses>>

ConnectsClient ==
    /\ ~linked
    /\ linked' = TRUE
    /\ requests' \in IF cursor = None THEN {<<Subscribe>>}
                     ELSE {<<Subscribe, Refresh(cursor)>>, <<Refresh(cursor), Subscribe>>}
    /\ UNCHANGED <<server, subscribed, inbox, client, losses>>

Drop == linked' = FALSE /\ subscribed' = FALSE /\ requests' = <<>> /\ inbox' = <<>>

LosesLink ==
    /\ linked /\ losses < MaxLinkLosses
    /\ Drop
    /\ losses' = losses + 1
    /\ UNCHANGED <<server, client>>

\* A restart keeps the catalog and forgets the sequence
SyncRestarts ==
    /\ generation < MaxServerLives
    /\ generation' = generation + 1
    /\ lastSeq' = 0 /\ journal' = <<>> /\ versions' = <<held>>
    /\ Drop
    /\ UNCHANGED <<held, client, losses>>

SyncNext ==
    \/ \E change \in Change : Publishes(change)
    \/ AnswersList \/ Lists \/ Updates \/ ConnectsClient \/ LosesLink \/ SyncRestarts

\* Requests are answered, messages arrive, and the client reconnects
SyncFairness ==
    /\ WF_syncVars(AnswersList) /\ WF_syncVars(Lists) /\ WF_syncVars(Updates)
    /\ WF_syncVars(ConnectsClient)

SyncSpec == SyncInit /\ [][SyncNext]_syncVars /\ SyncFairness

-----------------------------------------------------------------------------
SyncTypeOK ==
    /\ held \in Catalog /\ replica \in Catalog
    /\ generation \in 1..MaxServerLives /\ lastSeq \in 0..MaxSeq
    /\ journal \in Seq(Entry) /\ Len(journal) <= JournalLimit
    /\ versions \in Seq(Catalog) /\ Len(versions) = lastSeq + 1
    /\ requests \in Seq(Request)
    /\ cursor \in Cursor \cup {None}
    /\ linked \in BOOLEAN /\ subscribed \in BOOLEAN /\ exact \in BOOLEAN

\* The catalog as it was at the replica's place in the sequence
Current == cursor # None /\ cursor.generation = generation
AtCursor == versions[cursor.afterSeq + 1]

(***************************************************************************)
(* Whatever it missed and however it caught up, a replica lacks no label   *)
(* of the catalog at its cursor and shows it in the right color; one made  *)
(* of a snapshot and the live changes after it is that catalog: no change  *)
(* of the subscription is lost, repeated or applied out of order.          *)
(***************************************************************************)
ReplicaIsTrue ==
    Current => /\ \A n \in Names : AtCursor[n] # None => replica[n] = AtCursor[n]
               /\ exact => replica = AtCursor

(***************************************************************************)
(* Once edits and losses are over the app shows the catalog: the snapshot  *)
(* of the restored subscription also clears what a catch-up left behind.   *)
(* (A catch-up alone may leave a removed label: Withdraw takes the removal *)
(* of a label the client has for that of one made in the window.)          *)
(***************************************************************************)
ReplicaConverges == <>[](replica = held)
==============================================================================
