---------------------------- MODULE TerminalStream ----------------------------
(***************************************************************************)
(* One viewer of one terminal: the worker process that keeps its screen,   *)
(* the daemon (worker-terminal-manager.ts, terminal-session-controller.ts) *)
(* and the app's copy of the screen.                                       *)
(*                                                                         *)
(* Live output and replays of the whole screen come to the daemon over one *)
(* connection; a viewer gets a replay first and again after a reconnection *)
(* or when its transport is backed up, and meanwhile the daemon keeps its  *)
(* live output.  What it shows must be what the terminal printed, in order *)
(* and once.  The terminal's outputs are numbered; the number is also the  *)
(* worker's revision.  What the daemon sends, the app takes at once.       *)
(***************************************************************************)
EXTENDS Naturals, Sequences, SequencesExt

CONSTANTS
    MaxOutput,     \* bound: outputs
    MaxViews,      \* bound: subscriptions, numbered
    MaxCuts,       \* bound: losses of the connection to the worker
    MaxPressures,  \* bound: flushes that find the transport backed up
    MaxTimeouts    \* bound: requests that time out and buffers that overflow

ASSUME StreamAssumption ==
    {MaxOutput, MaxViews, MaxCuts, MaxPressures, MaxTimeouts} \subseteq Nat

VARIABLES
    terminal,  \* the worker's session: what it printed, what of it left the coalescer
    replays,   \* the replays that the worker has been asked for, by subscription
    socket,    \* the messages from worker to daemon that have not been handled
    channel,   \* the connection
    recorded,  \* the daemon has a record of the terminal
    view,      \* the daemon's stream for the viewer
    screen,    \* what the app shows
    counts     \* views, cuts, pressures and timeouts so far

streamVars == <<terminal, replays, socket, channel, recorded, view, screen, counts>>

Outputs   == 0..MaxOutput
\* Some outputs in a row; "revision" is that of the last
Chunk     == [first: 1..MaxOutput, last: 1..MaxOutput]
NoReplay  == [at |-> "none", cut |-> 0]
Replay    == [at: {"none", "asked", "begun", "ended"}, cut: Outputs]
WorkerMessage ==
    [kind: {"output", "begin", "end", "reply", "gone", "exit", "listed", "unlisted"},
     for: 0..MaxViews, first: Outputs, last: Outputs]

\* needs is needsSnapshot and request the replay in flight; snapshotReady follows the
\* subscription before any other event
NewView(v) == [number |-> v, needs |-> TRUE, request |-> "none", cut |-> 0, buffer |-> <<>>,
               out |-> <<>>, skipped |-> <<>>, exiting |-> "no", restored |-> FALSE]
NoView     == NewView(0)
View       == [number: 0..MaxViews, needs: BOOLEAN,
               request: {"none", "waits", "pending", "resolved", "absent", "failed"},
               cut: Outputs, buffer: Seq(Chunk), out: Seq(Chunk), skipped: Seq(Chunk),
               exiting: {"no", "exit", "gone"}, restored: BOOLEAN]

Viewed   == view.number # 0
SnapshotInFlight == view.request # "none"

StreamInit ==
    /\ terminal = [printed |-> 0, sent |-> 0, alive |-> TRUE]
    /\ replays = [v \in 1..MaxViews |-> NoReplay]
    /\ socket = <<>> /\ channel = [at |-> "up", reconnecting |-> FALSE] /\ recorded = TRUE
    /\ view = NoView
    \* shown is the last of the outputs that it shows; exact when those are all up to it
    /\ screen = [shown |-> 0, exact |-> TRUE, replaying |-> FALSE, closed |-> FALSE]
    /\ counts = [views |-> 0, cuts |-> 0, pressures |-> 0, timeouts |-> 0]

-----------------------------------------------------------------------------
Says(kind, v, first, last) == [kind |-> kind, for |-> v, first |-> first, last |-> last]
Connected == channel.at # "down" /\ channel.at # "lost"
\* Without a controller the worker's messages are dropped
SendsToController(messages) == socket' = IF Connected THEN socket \o messages ELSE socket
Held == IF terminal.sent < terminal.printed
        THEN <<Says("output", 0, terminal.sent + 1, terminal.printed)>> ELSE <<>>

Prints ==
    /\ terminal.alive /\ terminal.printed < MaxOutput
    /\ terminal' = [terminal EXCEPT !.printed = @ + 1]
    /\ UNCHANGED <<replays, socket, channel, recorded, view, screen, counts>>

\* The worker's coalescer: at once, or after a while with what else was printed
FlushesWorker ==
    /\ terminal.alive /\ Held # <<>>
    /\ SendsToController(Held) /\ terminal' = [terminal EXCEPT !.sent = terminal.printed]
    /\ UNCHANGED <<replays, channel, recorded, view, screen, counts>>

TerminalExits ==
    /\ terminal.alive
    /\ terminal' = [terminal EXCEPT !.alive = FALSE, !.sent = terminal.printed]
    /\ SendsToController(Append(Held, Says("exit", 0, 0, 0)))
    /\ UNCHANGED <<replays, channel, recorded, view, screen, counts>>

\* FlushesStream and capture share one turn
StartsReplay(v) ==
    /\ replays[v].at = "asked" /\ terminal.alive
    /\ terminal' = [terminal EXCEPT !.sent = terminal.printed]
    /\ replays' = [replays EXCEPT ![v] = [at |-> "begun", cut |-> terminal.printed]]
    /\ SendsToController(Append(Held, Says("begin", v, 0, 0)))
    /\ UNCHANGED <<channel, recorded, view, screen, counts>>

\* The end of the replay, and the answer to its request, which has the revision captured
EndsReplay(v) ==
    /\ \/ /\ replays[v].at = "begun"
          /\ SendsToController(<<Says("end", v, 0, replays[v].cut)>>)
          /\ replays' = [replays EXCEPT ![v].at = "ended"]
       \/ /\ replays[v].at = "ended"
          /\ SendsToController(<<Says("reply", v, 0, replays[v].cut)>>)
          /\ replays' = [replays EXCEPT ![v] = NoReplay]
       \/ /\ replays[v].at = "asked" /\ ~terminal.alive
          /\ SendsToController(<<Says("gone", v, 0, 0)>>)
          /\ replays' = [replays EXCEPT ![v] = NoReplay]
    /\ UNCHANGED <<terminal, channel, recorded, view, screen, counts>>

-----------------------------------------------------------------------------
(***************************************************************************)
(* The app's screen.                                                       *)
(***************************************************************************)
Drawn(s, batch) ==
    IF s.exact /\ ~s.replaying /\ batch.first = s.shown + 1
    THEN [s EXCEPT !.shown = batch.last]
    ELSE [s EXCEPT !.exact = FALSE]
\* The screen after each batch
DrawSteps(s, batches) ==
    LET f[i \in 0..Len(batches)] == IF i = 0 THEN s ELSE Drawn(f[i - 1], batches[i])
    IN f
DrawnAll(s, batches) == DrawSteps(s, batches)[Len(batches)]
Reset(s) == [s EXCEPT !.replaying = TRUE]
Restored(s, cut) == [s EXCEPT !.replaying = FALSE, !.exact = TRUE, !.shown = cut]

-----------------------------------------------------------------------------
(***************************************************************************)
(* The daemon's stream.                                                    *)
(***************************************************************************)
\* sendRequest, when no replay is in flight: it is sent, waits for a reconnection, or fails
Asked(w) ==
    IF w.request # "none" THEN w
    ELSE [w EXCEPT !.request = IF Connected THEN "pending"
                               ELSE IF channel.reconnecting THEN "waits" ELSE "failed"]
AsksReplay(w) ==
    /\ view' = Asked(w)
    /\ replays' = IF w.request = "none" /\ Connected
                  THEN [replays EXCEPT ![w.number].at = "asked"] ELSE replays

\* The continuation of a settled promise runs before the daemon turns to anything but the
\* worker's messages that arrived together
Settling == \/ view.request \in {"resolved", "absent", "failed"} \/ channel.at = "listed"
            \/ view.exiting # "no" /\ ~SnapshotInFlight

Attaches ==
    /\ ~Settling /\ ~Viewed /\ recorded /\ counts.views < MaxViews
    /\ counts' = [counts EXCEPT !.views = @ + 1]
    /\ AsksReplay(NewView(counts.views + 1))
    /\ UNCHANGED <<terminal, socket, channel, recorded, screen>>

\* The registration is gone; its replay goes on and is ignored
Releases == view' = NoView
Detaches ==
    /\ ~Settling /\ Viewed /\ Releases
    /\ UNCHANGED <<terminal, replays, socket, channel, recorded, screen, counts>>

\* The coalescer of the stream; a batch that finds the transport backed up is kept, and a
\* replay asked for in its place
FlushesStream ==
    /\ Viewed /\ view.out # <<>>
    /\ \/ /\ screen' = DrawnAll(screen, view.out)
          /\ view' = [view EXCEPT !.out = <<>>] /\ UNCHANGED <<replays, counts>>
       \/ /\ view.exiting = "no" /\ counts.pressures < MaxPressures
          /\ counts' = [counts EXCEPT !.pressures = @ + 1]
          /\ AsksReplay([view EXCEPT !.out = <<>>, !.skipped = view.out, !.needs = TRUE])
          /\ UNCHANGED screen
    /\ UNCHANGED <<terminal, socket, channel, recorded>>

\* Mutant: the live output that the replay has is drawn again
AllBuffered(batches, cut) == batches
\* Batches that the replay has are dropped
BeyondSteps(batches, cut) ==
    LET f[i \in 0..Len(batches)] ==
          IF i = 0 THEN <<>>
          ELSE IF batches[i].last > cut THEN Append(f[i - 1], batches[i]) ELSE f[i - 1]
    IN f
BeyondCut(batches, cut) == BeyondSteps(batches, cut)[Len(batches)]

\* The answer to the request for a replay, or its failure
SnapshotReturns ==
    /\ Viewed
    /\ \/ /\ view.request = "resolved"
          /\ view' = [view EXCEPT !.request = "none", !.needs = FALSE, !.restored = TRUE,
                                  !.out = @ \o BeyondCut(view.buffer, view.cut),
                                  !.buffer = <<>>, !.skipped = <<>>]
       \/ /\ view.request = "absent"
          /\ view' = [view EXCEPT !.request = "none",
                                  !.exiting = IF @ = "no" THEN "gone" ELSE @]
       \/ /\ view.request = "failed"
          /\ IF view.exiting = "no" THEN Releases ELSE view' = [view EXCEPT !.request = "none"]
    /\ UNCHANGED <<terminal, replays, socket, channel, recorded, screen, counts>>

\* The terminal has exited: after the replay in flight, what is left is drawn
CompletesStream ==
    /\ Viewed /\ view.exiting # "no" /\ ~SnapshotInFlight
    /\ screen' = [DrawnAll(screen, view.out \o view.skipped \o view.buffer) EXCEPT
                     !.closed = view.exiting = "exit" /\ view.restored]
    /\ Releases
    /\ UNCHANGED <<terminal, replays, socket, channel, recorded, counts>>

RequestTimesOut ==
    /\ ~Settling /\ view.request = "pending" /\ view' = [view EXCEPT !.request = "failed"]
    /\ counts.timeouts < MaxTimeouts /\ counts' = [counts EXCEPT !.timeouts = @ + 1]
    /\ UNCHANGED <<terminal, replays, socket, channel, recorded, screen>>

-----------------------------------------------------------------------------
(***************************************************************************)
(* What the daemon does with a message of the worker.                      *)
(***************************************************************************)
Exited(how) == view' = IF Viewed /\ view.exiting = "no" THEN [view EXCEPT !.exiting = how]
                       ELSE view
Awaited(message) == Viewed /\ view.number = message.for /\ view.request = "pending"

HandlesOutput(message) ==
    LET batch == [first |-> message.first, last |-> message.last] IN
    /\ message.kind = "output"
    /\ IF ~Viewed THEN UNCHANGED <<view, counts>>
       ELSE IF ~view.needs /\ ~SnapshotInFlight
       THEN view' = [view EXCEPT !.out = Append(@, batch)] /\ UNCHANGED counts
       ELSE \/ view' = [view EXCEPT !.buffer = Append(@, batch)] /\ UNCHANGED counts
            \* The buffer is full
            \/ /\ Releases
               /\ counts.timeouts < MaxTimeouts
               /\ counts' = [counts EXCEPT !.timeouts = @ + 1]
    /\ UNCHANGED <<recorded, screen, channel>>

HandlesReplay(message) ==
    /\ message.kind \in {"begin", "end", "reply", "gone"}
    /\ screen' = IF Awaited(message) /\ message.kind = "begin" THEN Reset(screen)
                 ELSE IF Awaited(message) /\ message.kind = "end"
                 THEN Restored(screen, message.last) ELSE screen
    /\ view' = IF Awaited(message) /\ message.kind \in {"reply", "gone"}
               THEN [view EXCEPT !.request = IF message.kind = "reply" THEN "resolved"
                                             ELSE "absent",
                                 !.cut = message.last]
               ELSE view
    /\ UNCHANGED <<recorded, counts, channel>>

\* Before the connection is adopted the exit follows output that was dropped
HandlesExit(message) ==
    /\ message.kind = "exit"
    /\ recorded' = FALSE
    /\ IF recorded THEN Exited(IF channel.at = "up" THEN "exit" ELSE "gone")
       ELSE UNCHANGED view
    /\ UNCHANGED <<screen, counts, channel>>

\* adoptTerminals: terminals that are not listed have exited
HandlesList(message) ==
    /\ message.kind \in {"listed", "unlisted"}
    /\ channel' = [channel EXCEPT !.at = "listed"]
    /\ recorded' = (recorded /\ message.kind = "listed")
    /\ IF recorded /\ message.kind = "unlisted" THEN Exited("gone") ELSE UNCHANGED view
    /\ UNCHANGED <<screen, counts>>

Handles ==
    /\ socket # <<>> /\ socket' = Tail(socket)
    /\ LET message == Head(socket)
       IN HandlesOutput(message) \/ HandlesReplay(message) \/ HandlesExit(message)
          \/ HandlesList(message)
    /\ UNCHANGED <<terminal, replays>>

-----------------------------------------------------------------------------
(***************************************************************************)
(* Loss of the connection to the worker, which goes on, and recovery.      *)
(***************************************************************************)
\* The close rejects every request; one that breaks an adoption off leaves reconnecting
\* null, as the promise broken off clears it when the next one is there already
ChannelCloses ==
    /\ ~Settling /\ channel.at \in {"up", "listing"} /\ counts.cuts < MaxCuts
    /\ counts' = [counts EXCEPT !.cuts = @ + 1]
    /\ channel' = [at |-> "down", reconnecting |-> channel.at = "up"]
    /\ socket' = <<>> /\ replays' = [v \in 1..MaxViews |-> NoReplay]
    /\ view' = IF view.request = "pending"
                  \/ (view.request = "waits" /\ channel.at = "listing")
               THEN [view EXCEPT !.request = "failed"] ELSE view
    /\ UNCHANGED <<terminal, recorded, screen>>

\* The worker is reached again and lists its terminals as it finds them
Reconnects ==
    /\ ~Settling /\ channel.at = "down"
    /\ channel' = [at |-> "listing", reconnecting |-> TRUE]
    /\ socket' = <<Says(IF terminal.alive THEN "listed" ELSE "unlisted", 0, 0, 0)>>
    /\ UNCHANGED <<terminal, replays, recorded, view, screen, counts>>

\* Mutant: the streams are not told that a new screen is there
AdoptsSilently ==
    /\ channel.at = "listed" /\ channel' = [at |-> "up", reconnecting |-> FALSE]
    /\ IF view.request = "waits" THEN AsksReplay([view EXCEPT !.request = "none"])
       ELSE UNCHANGED <<view, replays>>
    /\ UNCHANGED <<terminal, socket, recorded, screen, counts>>

\* Every stream gets snapshotReady, then the requests that waited are sent
Adopts ==
    /\ channel.at = "listed" /\ channel' = [at |-> "up", reconnecting |-> FALSE]
    /\ IF Viewed /\ recorded
       THEN /\ screen' = DrawnAll(screen, view.out)
            /\ AsksReplay([view EXCEPT !.out = <<>>, !.needs = TRUE, !.restored = FALSE,
                                       !.request = IF @ = "waits" THEN "none" ELSE @])
       ELSE /\ UNCHANGED screen
            /\ IF view.request = "waits" THEN AsksReplay([view EXCEPT !.request = "none"])
               ELSE UNCHANGED <<view, replays>>
    /\ UNCHANGED <<terminal, socket, recorded, counts>>

\* The worker is not reached: its terminals have exited
GivesUp ==
    /\ ~Settling /\ channel.at = "down" /\ channel' = [at |-> "lost", reconnecting |-> FALSE]
    /\ recorded' = FALSE
    /\ LET waiting == [view EXCEPT !.request = IF @ = "waits" THEN "failed" ELSE @]
       IN view' = IF Viewed /\ recorded /\ view.exiting = "no"
                  THEN [waiting EXCEPT !.exiting = "gone"] ELSE waiting
    /\ terminal' = [terminal EXCEPT !.alive = FALSE]
    /\ UNCHANGED <<replays, socket, screen, counts>>

StreamSteps ==
    \/ FlushesWorker \/ \E v \in 1..MaxViews : StartsReplay(v) \/ EndsReplay(v)
    \/ Handles \/ FlushesStream \/ SnapshotReturns \/ CompletesStream
    \/ Reconnects \/ Adopts

StreamNext ==
    \/ StreamSteps \/ Prints \/ TerminalExits \/ Attaches \/ Detaches
    \/ RequestTimesOut \/ ChannelCloses \/ GivesUp

(***************************************************************************)
(* Timers fire, messages arrive and are handled, a worker that is there is *)
(* reached again: some step is taken while there is one.                   *)
(***************************************************************************)
StreamSpec == StreamInit /\ [][StreamNext]_streamVars /\ WF_streamVars(StreamSteps)

-----------------------------------------------------------------------------
\* The types of the variables.
StreamTypeOK ==
    /\ terminal \in [printed: Outputs, sent: Outputs, alive: BOOLEAN]
    /\ replays \in [1..MaxViews -> Replay]
    /\ socket \in Seq(WorkerMessage)
    /\ channel \in [at: {"up", "down", "listing", "listed", "lost"}, reconnecting: BOOLEAN]
    /\ recorded \in BOOLEAN /\ view \in View
    /\ screen \in [shown: Outputs, exact: BOOLEAN, replaying: BOOLEAN, closed: BOOLEAN]
    /\ counts \in [views: 0..MaxViews, cuts: 0..MaxCuts, pressures: 0..MaxPressures,
                  timeouts: 0..MaxTimeouts]

(***************************************************************************)
(* However replays, live output, losses of the connection and pressure     *)
(* meet, a viewer shows every output up to some one, in order and once; it *)
(* is in the middle of a replay only while that goes on, and wrong only    *)
(* until the connection is adopted again, which asks for a replay.  A      *)
(* viewer that had its first replay and sees the terminal exit has the     *)
(* last output.                                                            *)
(***************************************************************************)
ScreenIsExact ==
    /\ Viewed => /\ screen.exact \/ channel.at # "up" \/ view.needs \/ view.exiting = "gone"
                 /\ screen.replaying => SnapshotInFlight \/ view.exiting # "no"
    /\ screen.closed /\ screen.exact /\ ~screen.replaying => screen.shown = terminal.printed

(***************************************************************************)
(* A viewer that stays has, again and again, all that was printed: no      *)
(* replay is forgotten that an attach, pressure or a reconnection calls    *)
(* for.                                                                    *)
(***************************************************************************)
ScreenCatchesUp ==
    []<>(Viewed => screen.exact /\ ~screen.replaying /\ screen.shown = terminal.printed)
=============================================================================
