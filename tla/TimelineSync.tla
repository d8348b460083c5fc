---------------------------- MODULE TimelineSync ----------------------------
(***************************************************************************)
(* How an app follows the timeline of one visible agent chat:              *)
(* viewed-timeline-sync.ts and session-stream-reducers.ts in the app, the  *)
(* timeline store and the timeline requests of the daemon's session.       *)
(*                                                                         *)
(* The daemon numbers the rows of an epoch from 1 and sends each to the    *)
(* subscribed app; a rewind starts another epoch.  After the subscription  *)
(* is acknowledged the app fetches what it lacks: the rows after its       *)
(* cursor, or the tail.  Rows and pages come over one connection in order; *)
(* requests are answered in order, and equal requests in flight are one.   *)
(***************************************************************************)
EXTENDS Naturals, Sequences, SequencesExt, FiniteSets

CONSTANTS
    StartRows,    \* rows of the timeline at first, and the fewest after a rewind
    PageSize,     \* rows of a page
    MaxRows,      \* bound: rows of an epoch
    MaxEpochs,    \* bound: epochs
    MaxDrops,     \* bound: lost connections
    MaxFailures,  \* bound: requests that fail
    MaxUses       \* bound: returns to the app, retries, scrolls to the history

ASSUME TimelineAssumption ==
    /\ {StartRows, MaxDrops, MaxFailures, MaxUses} \subseteq Nat
    /\ {PageSize, MaxRows, MaxEpochs} \subseteq Nat \ {0} /\ StartRows <= MaxRows

VARIABLES
    timeline,  \* the daemon's epoch and its last row
    link,      \* the connection: up, subscribed, requests asked, messages on their way down
    chat,      \* the app's side of the chat
    missed,    \* the first catch-up or a fetch after a replacement failed (history)
    used       \* what was used of the bounds

timelineVars == <<timeline, link, chat, missed, used>>

\* The rows of a range or of a page
Rows(range) == {<<range.epoch, seq>> : seq \in (range.from..range.to) \ {0}}

NoRange == [epoch |-> 0, from |-> 0, to |-> 0]
Span(epoch, from, to) == IF to = 0 THEN NoRange ELSE [epoch |-> epoch, from |-> from, to |-> to]

NoRequest  == [dir |-> "none", epoch |-> 0, seq |-> 0]
LatestRows == [dir |-> "tail", epoch |-> 0, seq |-> 0]
RowsAfter(epoch, seq)  == [dir |-> "after", epoch |-> epoch, seq |-> seq]
RowsBefore(epoch, seq) == [dir |-> "before", epoch |-> epoch, seq |-> seq]

\* request is what the catch-up began with, at the page it waits for; one that was not asked
\* to begin at a place may fall back to the latest tail, which is then forced
NoCatchUp == [status |-> "none", request |-> NoRequest, at |-> NoRequest,
              fallback |-> FALSE, forcing |-> FALSE]

\* The catch-up with what the app owes and tells; the timeline of the store, with the range
\* of the replica cache in range until it is synced; the pending initialization; a fetch
\* after a replacement and one of older rows
NewChat(range) ==
    [member |-> "none", catchUp |-> NoCatchUp, owed |-> NoRequest,
     pending |-> TRUE, error |-> FALSE, retrying |-> FALSE, forced |-> FALSE,
     synced |-> FALSE, rows |-> Rows(range),
     overlay |-> {}, range |-> range, older |-> range.from > 1, newer |-> FALSE,
     init |-> "none", replacing |-> FALSE, scroll |-> NoRequest]

NoLink == [up |-> FALSE, subscribed |-> FALSE, asked |-> <<>>, down |-> <<>>]

\* A chat opened for the first time, or one that the cache knows up to its first row
TimelineInit ==
    /\ timeline = [epoch |-> 1, last |-> StartRows]
    /\ link = NoLink
    /\ chat \in {NewChat(range) : range \in {NoRange} \cup
                     (IF StartRows > 0 THEN {Span(1, 1, 1)} ELSE {})}
    /\ missed = FALSE
    /\ used = [drops |-> 0, failures |-> 0, uses |-> 0]

UsesUp(field, bound) == used[field] < bound /\ used' = [used EXCEPT ![field] = @ + 1]

-----------------------------------------------------------------------------
(***************************************************************************)
(* The daemon                                                              *)
(***************************************************************************)
Sent(l, message) == IF l.subscribed THEN [l EXCEPT !.down = Append(@, message)] ELSE l
LiveRow(epoch, seq) == [kind |-> "row", epoch |-> epoch, seq |-> seq]

AppendsRow ==
    /\ timeline.last < MaxRows
    /\ timeline' = [timeline EXCEPT !.last = @ + 1]
    /\ link' = Sent(link, LiveRow(timeline'.epoch, timeline'.last))
    /\ UNCHANGED <<chat, missed, used>>

\* A rewind installs the rows of a new epoch and tells the subscribers; a restart of the
\* daemon rebuilds them from the provider's history
Rewinds ==
    /\ timeline.epoch < MaxEpochs
    /\ \E last \in StartRows..timeline.last :
          timeline' = [epoch |-> timeline.epoch + 1, last |-> last]
    /\ link' = Sent(link, [kind |-> "replaced"])
    /\ UNCHANGED <<chat, missed, used>>

\* fetch: a cursor of another epoch gets the tail
PageOf(request) ==
    LET stale == request.dir # "tail" /\ request.epoch # timeline.epoch
        last  == timeline.last
        dir   == IF stale THEN "tail" ELSE request.dir
        from  == CASE dir = "tail"   -> IF last > PageSize THEN last - PageSize + 1 ELSE 1
                   [] dir = "after"  -> request.seq + 1
                   [] dir = "before" -> IF request.seq > PageSize THEN request.seq - PageSize ELSE 1
        to    == CASE dir = "tail"   -> last
                   [] dir = "after"  -> IF request.seq + PageSize < last
                                        THEN request.seq + PageSize ELSE last
                   [] dir = "before" -> request.seq - 1
        empty == from > to
    IN [kind |-> "page", request |-> request, dir |-> request.dir, reset |-> stale,
        epoch |-> timeline.epoch, last |-> last,
        from |-> IF empty THEN 0 ELSE from, to |-> IF empty THEN 0 ELSE to,
        older |-> ~empty /\ from > 1,
        newer |-> dir = "before" \/ (dir = "after" /\ ~empty /\ to < last)]

AnswersRequest ==
    /\ link.asked # <<>>
    /\ link' = [link EXCEPT !.asked = Tail(@), !.down = Append(@, PageOf(Head(link.asked)))]
    /\ UNCHANGED <<timeline, chat, missed, used>>

\* The subscription is acknowledged before any row, or refused
Subscribes ==
    /\ chat.member = "asking" /\ link.up /\ ~link.subscribed
    /\ \A i \in DOMAIN link.down : link.down[i].kind # "refused"
    /\ \/ /\ link' = [link EXCEPT !.subscribed = TRUE,
                                  !.down = Append(@, [kind |-> "acknowledged"])]
          /\ UNCHANGED used
       \/ /\ UsesUp("failures", MaxFailures)
          /\ link' = [link EXCEPT !.down = Append(@, [kind |-> "refused"])]
    /\ UNCHANGED <<timeline, chat, missed>>

-----------------------------------------------------------------------------
(***************************************************************************)
(* Catch-ups: createViewedTimelineSync                                     *)
(***************************************************************************)
Acknowledged(c) == c.member = "acknowledged"

ResumeRequest(c) ==
    IF c.range = NoRange THEN LatestRows ELSE RowsAfter(c.range.epoch, c.range.to)

\* fetchPage initializes a chat that is not synced
Fetches(c, request) ==
    [c EXCEPT !.init = IF c.synced \/ c.init # "none" THEN @ ELSE request.dir]

BeginsCatchUp(c, request, fallback) ==
    Fetches([c EXCEPT !.owed = NoRequest,
                      !.catchUp = [status |-> "running", request |-> request, at |-> request,
                                   fallback |-> fallback, forcing |-> FALSE]], request)

\* startCatchUp with decideCatchUp: a tail that is running is not superseded, the request
\* waits for it
StartsCatchUp(c, request, supersede) ==
    LET next    == IF request = NoRequest THEN ResumeRequest(c) ELSE request
        running == c.catchUp.status = "running"
    IN CASE ~Acknowledged(c) -> IF request = NoRequest THEN c ELSE [c EXCEPT !.owed = request]
         [] Acknowledged(c) /\ c.catchUp # NoCatchUp
              /\ (~supersede \/ (running /\ c.catchUp.request = next)) -> c
         [] Acknowledged(c) /\ supersede /\ running /\ c.catchUp.request # next
              /\ c.catchUp.request.dir = "tail" -> [c EXCEPT !.owed = next]
         [] OTHER -> BeginsCatchUp(c, next, request = NoRequest /\ next.dir = "after")

StartsAcknowledged(c) ==
    IF Acknowledged(c) /\ (c.catchUp = NoCatchUp
                          \/ (c.catchUp.status = "complete" /\ c.owed # NoRequest))
    THEN StartsCatchUp(c, c.owed, c.owed # NoRequest) ELSE c

RecoversGap(c, epoch, seq) ==
    IF c.catchUp.status = "error" THEN c ELSE StartsCatchUp(c, RowsAfter(epoch, seq), TRUE)

Ready(c)  == [c EXCEPT !.pending = FALSE, !.error = FALSE, !.retrying = FALSE]
Failed(c) == [c EXCEPT !.pending = FALSE, !.error = TRUE, !.retrying = FALSE]
CatchUpCancelled(c) == [c EXCEPT !.catchUp = NoCatchUp, !.owed = NoRequest]

-----------------------------------------------------------------------------
(***************************************************************************)
(* What the store does with rows and pages                                 *)
(***************************************************************************)
\* processTimelineSequencingGate; before the first page rows are an overlay, and beside a
\* range with newer rows they are dropped
TakesRow(c, epoch, seq) ==
    CASE ~c.synced -> [c EXCEPT !.overlay = @ \cup {<<epoch, seq>>}]
      [] c.synced /\ c.newer -> c
      [] c.synced /\ ~c.newer /\ c.range = NoRange ->
           [c EXCEPT !.rows = @ \cup {<<epoch, seq>>}, !.range = Span(epoch, seq, seq)]
      [] c.synced /\ ~c.newer /\ c.range # NoRange /\ c.range.epoch # epoch ->
           IF seq = 1 THEN [c EXCEPT !.rows = {<<epoch, 1>>}, !.range = Span(epoch, 1, 1)]
           ELSE c
      [] OTHER ->
           IF seq <= c.range.to THEN c
           ELSE IF seq = c.range.to + 1
           THEN [c EXCEPT !.rows = @ \cup {<<epoch, seq>>}, !.range.to = seq]
           ELSE RecoversGap(c, c.range.epoch, c.range.to)

Bootstraps(c, p) == p.dir = "tail" /\ ~p.reset /\ c.init # "none"

\* deriveResumeTailPolicy: a tail page against a known range
OfKnownRange(c, p) == p.dir = "tail" /\ ~p.reset /\ ~Bootstraps(c, p) /\ c.range # NoRange
Discards(c, p) == OfKnownRange(c, p) /\ c.range.epoch = p.epoch /\ p.last = c.range.to
Replaces(c, p) ==
    \/ p.reset \/ Bootstraps(c, p)
    \/ /\ OfKnownRange(c, p)
       /\ \/ c.range.epoch # p.epoch \/ p.last < c.range.to
          \/ p.last > c.range.to /\ p.from > c.range.to + 1

\* Mutant: a page of the same epoch does not take the place of the rows shown
PageBeside(c, p) ==
    [c EXCEPT !.rows = {r \in @ : r[1] = p.epoch} \cup Rows(p),
              !.overlay = {r \in @ : r[1] = p.epoch /\ r[2] > p.to},
              !.range = Span(p.epoch, p.from, p.to), !.older = p.older]

\* applyTimelineReplacePath: of the rows shown before only live ones beyond the page remain
PageAlone(c, p) ==
    [c EXCEPT !.rows = Rows(p),
              !.overlay = {r \in @ : r[1] = p.epoch /\ r[2] > p.to},
              !.range = Span(p.epoch, p.from, p.to), !.older = p.older]

\* acceptIncrementalTimelineUnits and acceptOlderTimelineUnits
Extended(c, p) ==
    CASE p.to = 0 -> c
      [] p.to # 0 /\ p.dir = "before" ->
           IF c.range.epoch = p.epoch /\ p.to + 1 = c.range.from
           THEN [c EXCEPT !.rows = @ \cup Rows(p),
                          !.range.from = p.from, !.older = p.older]
           ELSE c
      [] OTHER ->
           IF c.range = NoRange
           THEN [c EXCEPT !.rows = @ \cup Rows(p),
                          !.range = Span(p.epoch, p.from, p.to)]
           ELSE IF c.range.epoch # p.epoch \/ p.to <= c.range.to THEN c
           ELSE IF p.from <= c.range.to + 1
           THEN [c EXCEPT !.rows = @ \cup Rows(p), !.range.to = p.to]
           ELSE c

\* The bookkeeping of commitProcessedTimeline: until the timeline is synced the range of
\* the cache counts
Installed(c, p, result) ==
    LET synced == c.synced \/ (p.dir # "before" /\ (p.dir = "tail" \/ ~p.newer))
        full   == [result EXCEPT
                     !.synced = synced,
                     !.newer = IF p.dir = "before" THEN c.synced /\ c.newer ELSE p.newer,
                     !.rows = IF synced THEN @ \cup result.overlay ELSE @,
                     !.overlay = IF synced THEN {} ELSE @]
    IN IF synced THEN full ELSE [full EXCEPT !.range = c.range]

\* applyAuthoritativeTimelineResponse
Reconciled(c, page) ==
    LET p        == [page EXCEPT !.reset = @ \/ (page.dir = "tail" /\ c.forced)]
        result   == IF Replaces(c, p) THEN PageAlone(c, p) ELSE Extended(c, p)
        done     == [IF Discards(c, p) THEN [c EXCEPT !.newer = p.newer]
                     ELSE Installed(c, p, result) EXCEPT !.forced = @ /\ p.dir # "tail"]
        gap      == ~Discards(c, p) /\ ~Replaces(c, p) /\ p.dir # "before" /\ p.to # 0
                    /\ c.range # NoRange /\ c.range.epoch = p.epoch /\ p.from > c.range.to + 1
        followed == IF Bootstraps(c, p) /\ p.to # 0 THEN RecoversGap(done, p.epoch, p.to)
                    ELSE IF gap THEN RecoversGap(done, c.range.epoch, c.range.to) ELSE done
        resolves == p.reset \/ (p.dir = c.init /\ ~(p.dir = "after" /\ p.newer))
    IN [followed EXCEPT !.init = IF resolves THEN "none" ELSE @]

\* Mutant: a request that waited for the tail is forgotten
EndsForgetting(c) == IF c.owed # NoRequest THEN [c EXCEPT !.owed = NoRequest] ELSE Ready(c)
EndsCatchUp(c)    == IF c.owed # NoRequest THEN StartsCatchUp(c, c.owed, TRUE) ELSE Ready(c)

\* fetchUntilCurrent after a page
Continues(c, p) ==
    LET complete == [c EXCEPT !.catchUp.status = "complete", !.catchUp.forcing = FALSE]
    IN IF c.catchUp.forcing THEN StartsAcknowledged(Ready(complete))
       ELSE IF p.newer /\ p.to # 0
       THEN IF c.catchUp.fallback
            THEN [c EXCEPT !.catchUp.at = LatestRows, !.catchUp.forcing = TRUE, !.forced = TRUE]
            ELSE Fetches([c EXCEPT !.catchUp.at = RowsAfter(p.epoch, p.to)],
                         RowsAfter(p.epoch, p.to))
       ELSE EndsCatchUp(complete)

-----------------------------------------------------------------------------
(***************************************************************************)
(* The app                                                                 *)
(***************************************************************************)
Wants(c, request) ==
    \/ c.catchUp.status = "running" /\ c.catchUp.at = request
    \/ c.replacing /\ request = LatestRows
    \/ c.scroll = request /\ request # NoRequest

InFlight(l) == ToSet(l.asked) \cup
    {l.down[i].request : i \in {j \in DOMAIN l.down : l.down[j].kind = "page"}}

\* What the app awaits and is not in flight is asked for (fetchAgentTimelineOnce)
Asking(l, c, request) ==
    IF Wants(c, request) /\ request \notin InFlight(l)
    THEN [l EXCEPT !.asked = Append(@, request)] ELSE l
AsksFor(l, c) == Asking(Asking(Asking(l, c, c.catchUp.at), c, LatestRows), c, c.scroll)

\* next is bound once: TLC takes it as a value
AppGoes(l, c) == \E next \in {c} : chat' = next /\ link' = AsksFor(l, next)

\* The catch-up goes on from its page unless the page began another one
AfterPage(c, applied, p) ==
    LET mine  == /\ c.catchUp.status = "running" /\ c.catchUp.at = p.request
                 /\ applied.catchUp = c.catchUp
        after == IF mine THEN Continues(applied, p) ELSE applied
    IN [after EXCEPT !.replacing = @ /\ p.request # LatestRows,
                     !.scroll = IF @ = p.request THEN NoRequest ELSE @]

Noticed(c, message) ==
    CASE message.kind = "acknowledged" ->
           StartsAcknowledged([c EXCEPT !.member = "acknowledged"])
      [] message.kind = "refused" -> Failed(CatchUpCancelled([c EXCEPT !.member = "failed"]))
      [] message.kind = "row" -> TakesRow(c, message.epoch, message.seq)
      [] message.kind = "replaced" -> [c EXCEPT !.replacing = TRUE]

Receives ==
    /\ link.down # <<>>
    /\ LET message == Head(link.down)
           rest    == [link EXCEPT !.down = Tail(@)]
       IN IF message.kind = "page"
          THEN \E applied \in {Reconciled(chat, message)} :
                  AppGoes(rest, AfterPage(chat, applied, message))
          ELSE AppGoes(rest, Noticed(chat, message))
    /\ UNCHANGED <<timeline, missed, used>>

\* The request, or the answer on its way, is gone
Without(l, request) ==
    {[l EXCEPT !.asked = RemoveAt(@, i)] : i \in {j \in DOMAIN l.asked : l.asked[j] = request}}
    \cup {[l EXCEPT !.down = RemoveAt(@, i)] :
             i \in {j \in DOMAIN l.down : l.down[j].kind = "page" /\ l.down[j].request = request}}

\* A request fails or times out; its answer, if any, is ignored
RequestFails(request) ==
    LET mine == chat.catchUp.status = "running" /\ chat.catchUp.at = request
        c    == [chat EXCEPT !.replacing = @ /\ request # LatestRows,
                             !.forced = @ /\ request # LatestRows,
                             !.scroll = IF @ = request THEN NoRequest ELSE @]
    IN /\ request \in InFlight(link) /\ UsesUp("failures", MaxFailures)
       /\ missed' = (missed \/ (request = LatestRows /\ chat.replacing) \/ (mine /\ ~chat.synced))
       /\ \E l \in Without(link, request) : AppGoes(l,
               IF ~mine THEN c
               ELSE Failed([c EXCEPT
                        !.catchUp.status = "error", !.catchUp.forcing = FALSE,
                        !.catchUp.request = IF chat.catchUp.forcing THEN @ ELSE request,
                        !.init = IF chat.catchUp.forcing THEN @ ELSE "none"]))
       /\ UNCHANGED timeline

LinkUp ==
    /\ ~link.up
    /\ AppGoes([NoLink EXCEPT !.up = TRUE], [chat EXCEPT !.member = "asking"])
    /\ UNCHANGED <<timeline, missed, used>>

\* The daemon's subscription ends with the connection; every request fails
LinkDown ==
    /\ link.up /\ UsesUp("drops", MaxDrops)
    /\ link' = NoLink
    /\ chat' = [CatchUpCancelled(chat) EXCEPT
                  !.member = "none", !.pending = TRUE, !.error = FALSE, !.retrying = FALSE,
                  !.forced = FALSE, !.init = "none", !.replacing = FALSE, !.scroll = NoRequest]
    /\ UNCHANGED <<timeline, missed>>

\* setActive: the app comes to the foreground
ReturnsToApp ==
    /\ UsesUp("uses", MaxUses) /\ ~chat.error
    /\ AppGoes(link, StartsCatchUp([chat EXCEPT !.pending = TRUE], NoRequest, TRUE))
    /\ UNCHANGED <<timeline, missed>>

\* retryVisibleAgentTimeline
Retries ==
    /\ link.up /\ ~chat.retrying /\ UsesUp("uses", MaxUses)
    /\ \/ /\ chat.member = "failed"
          /\ AppGoes(link, [chat EXCEPT !.retrying = TRUE, !.member = "asking"])
       \/ /\ chat.member # "failed" /\ chat.catchUp.status = "error"
          /\ AppGoes(link, StartsCatchUp([chat EXCEPT !.retrying = TRUE], chat.catchUp.request, TRUE))
    /\ UNCHANGED <<timeline, missed>>

\* loadOlderAgentHistory
Scrolls ==
    /\ link.up /\ UsesUp("uses", MaxUses)
    /\ chat.synced /\ chat.range # NoRange /\ chat.older /\ chat.scroll = NoRequest
    /\ AppGoes(link, [chat EXCEPT !.scroll = RowsBefore(chat.range.epoch, chat.range.from)])
    /\ UNCHANGED <<timeline, missed>>

TimelineNext ==
    \/ AppendsRow \/ Rewinds \/ AnswersRequest \/ Subscribes
    \/ Receives \/ LinkUp \/ LinkDown
    \/ ReturnsToApp \/ Retries \/ Scrolls
    \/ \E request \in InFlight(link) : RequestFails(request)

\* The connection comes back, and both ends handle what they received
TimelineSteps == LinkUp \/ Subscribes \/ AnswersRequest \/ Receives
TimelineFairness == WF_timelineVars(TimelineSteps)
TimelineSpec == TimelineInit /\ [][TimelineNext]_timelineVars /\ TimelineFairness

-----------------------------------------------------------------------------
TimelineTypeOK ==
    /\ timeline \in [epoch: 1..MaxEpochs, last: StartRows..MaxRows]
    /\ link.up \in BOOLEAN /\ link.subscribed \in BOOLEAN
    /\ IsInjective(link.asked)
    /\ chat.member \in {"none", "asking", "acknowledged", "failed"}
    /\ chat.catchUp.status \in {"none", "running", "complete", "error"}
    /\ chat.init \in {"none", "tail", "after"}
    /\ chat.retrying => chat.error

Status == CASE chat.retrying -> "retrying" [] ~chat.retrying /\ chat.error -> "error"
            [] ~chat.retrying /\ ~chat.error /\ chat.pending -> "pending" [] OTHER -> "ready"

(***************************************************************************)
(* "It never retains two discontiguous canonical ranges"                   *)
(* (docs/timeline-sync.md:132): the rows of a synchronized chat are those  *)
(* of its range, whatever came in between.                                 *)
(***************************************************************************)
ShownIsRange ==
    chat.synced /\ ~missed => chat.rows = Rows(chat.range)

(***************************************************************************)
(* "Opening or resuming an agent establishes the daemon's current tail     *)
(* [...] with older history reachable through backward pagination"         *)
(* (docs/timeline-sync.md:24-26): when the chat is said to be ready and    *)
(* nothing is under way, its range ends at the daemon's last row, live     *)
(* rows are taken, and what precedes the range can be loaded.              *)
(***************************************************************************)
NothingMoves == link.up /\ link.asked = <<>> /\ link.down = <<>>
ReadyIsCurrent ==
    Status = "ready" /\ NothingMoves /\ chat.member = "acknowledged" /\ ~missed =>
        /\ chat.synced /\ ~chat.newer
        /\ chat.range.to = timeline.last
        /\ timeline.last > 0 => chat.range.epoch = timeline.epoch
        /\ chat.range.from <= 1 \/ chat.older

\* What a chat shows is one range of the daemon's rows, and its end once it is said to be ready
\* (session-stream-reducers.ts, viewed-timeline-sync.ts).
ChatIsTrue == ShownIsRange /\ ReadyIsCurrent

(***************************************************************************)
(* However often it is superseded, parked or begun again, a catch-up ends: *)
(* while connected the chat gets ready, or the user is told of the error.  *)
(***************************************************************************)
CatchUpSettles == []<>(link.up => Status \in {"ready", "error"})
=============================================================================
