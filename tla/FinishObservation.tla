------------------------- MODULE FinishObservation -------------------------
(***************************************************************************)
(* What an accepted finish subscription hears of its child: the events of  *)
(* AgentManager that observation.ts publishes, one answer of               *)
(* waitForAgentEvent, the buffer where both meet (observation-buffer.ts)   *)
(* and the caller, who takes from it one result after another.             *)
(*                                                                         *)
(* The child's turns are those of AgentTurns, here as little more than     *)
(* what they emit.  A result is a permission result, naming requests, or   *)
(* final: whether it says finished, canceled, errored or closed is left    *)
(* out.                                                                    *)
(***************************************************************************)
EXTENDS Naturals, Sequences

CONSTANTS
    MaxAsks,  \* bound: permission requests
    MaxRuns   \* bound: prompts and turns of the provider's own

ASSUME ObservationAssumption == MaxAsks \in Nat /\ MaxRuns \in Nat

AskId == 1..MaxAsks
NoAsk == 0

VARIABLES
    child,    \* lifecycle, run (none, pending its start, turn) and pendingReplacement
    open,     \* its pending permissions
    asks,     \* requests made so far
    begun,    \* prompts and turns so far
    at,       \* the observation: opening, watching, over
    updates,  \* published, their handler not yet run
    wait,     \* the initial wait
    buffer,
    telling,  \* the result that the caller is being told
    noticed,  \* requests of the notice acknowledged last
    \* History
    cleared,  \* requests whose resolution reached the buffer
    told,     \* requests the caller was told of
    rested,   \* the child was at rest since the subscription was accepted
    hushed    \* it came to rest and nothing that is observed said so

childVars == <<child, open, asks, begun>>
watchVars == <<at, updates, wait, buffer, telling, noticed>>
observationVars == <<childVars, watchVars, cleared, told, rested, hushed>>

NewWait   == [at |-> "unasked", started |-> FALSE]
NewBuffer == [delivered |-> {}, entries |-> <<>>, early |-> {}, initial |-> TRUE,
              terminal |-> FALSE]
Nothing   == [kind |-> "nothing", names |-> {}]

Busy == child.life = "running"
Rests(c) == c.life # "running" /\ c.run = "none"

ObservationInit ==
    /\ child \in {[life |-> "running", run |-> "turn", hold |-> FALSE],
                  [life |-> "idle", run |-> "pending", hold |-> FALSE],
                  [life |-> "idle", run |-> "none", hold |-> FALSE],
                  [life |-> "closed", run |-> "none", hold |-> FALSE]}
    /\ open = {} /\ asks = 0 /\ begun = 0
    /\ at = "opening" /\ updates = <<>> /\ wait = NewWait /\ buffer = NewBuffer
    /\ telling = Nothing /\ noticed = {}
    /\ cleared = {} /\ told = {} /\ rested = Rests(child) /\ hushed = FALSE

-----------------------------------------------------------------------------
(***************************************************************************)
(* Events of the manager: agent_state, and four kinds of agent_stream      *)
(***************************************************************************)
Emitted(kind, r, life, some) == [kind |-> kind, id |-> r, life |-> life, pending |-> some]
State(life, requests)  == Emitted("state", NoAsk, life, requests # {})
Stream(kind, life)     == Emitted(kind, NoAsk, life, FALSE)
RequestOf(r, life)         == Emitted("requested", r, life, TRUE)
Resolved(r, life)      == Emitted("resolved", r, life, FALSE)
\* All that are pending, in the order of the requests
ResolvedSteps(life) ==
    LET f[r \in 0..MaxAsks] == IF r = 0 THEN <<>>
                              ELSE IF r \in open THEN Append(f[r - 1], Resolved(r, life))
                              ELSE f[r - 1]
    IN f
ResolvedAll(life) == ResolvedSteps(life)[MaxAsks]

\* Mutant: an end counts whatever the agent is said to do after it
IsTerminalAnyEnd(e) ==
    e.life \in {"closed", "error"} \/ e.kind = "ended"
IsTerminal(e) ==
    e.life \in {"closed", "error"} \/ (e.life = "idle" /\ e.kind = "ended")

\* What observeState makes of an event is in the snapshot taken when it is published
ObserveState(e) ==
    CASE e.kind = "resolved"  -> <<[kind |-> "resolved", id |-> e.id]>>
      [] e.kind = "requested" -> <<[kind |-> "requested", id |-> e.id]>>
      [] e.kind \in {"state", "ended"} /\ IsTerminal(e) ->
             <<[kind |-> "terminal", id |-> NoAsk]>>
      [] OTHER -> <<>>

\* The subscriber of waitForAgentEvent, until it has its answer
Hearing(w, e) ==
    CASE w.at # "armed" -> w
      [] e.kind = "requested" \/ (e.kind = "state" /\ e.pending) -> [w EXCEPT !.at = "permission"]
      [] e.kind = "state" /\ ~e.pending /\ e.life = "running" -> [w EXCEPT !.started = TRUE]
      [] e.kind = "state" /\ ~e.pending /\ e.life # "running" /\ w.started ->
             [w EXCEPT !.at = "settled"]
      [] e.kind = "ended" -> [w EXCEPT !.started = TRUE]
      [] OTHER -> w

\* The updates and the wait after each event
QueueSteps(events) ==
    LET f[i \in 0..Len(events)] ==
          IF i = 0 THEN updates ELSE f[i - 1] \o ObserveState(events[i])
    IN f
HearSteps(events) ==
    LET f[i \in 0..Len(events)] == IF i = 0 THEN wait ELSE Hearing(f[i - 1], events[i])
    IN f

Emits(events) ==
    /\ updates' = IF at = "watching" THEN QueueSteps(events)[Len(events)] ELSE updates
    /\ wait' = HearSteps(events)[Len(events)]
    /\ UNCHANGED <<at, buffer, telling, noticed, cleared, told>>

Becomes(c, requests) ==
    child' = c /\ open' = requests /\ rested' = (rested \/ Rests(c))

-----------------------------------------------------------------------------
(***************************************************************************)
(* The child                                                               *)
(***************************************************************************)
\* A prompt is admitted: nothing tells of a run that is pending
PromptComes ==
    /\ child.run = "none" /\ child.life # "closed" /\ begun < MaxRuns
    /\ Becomes([child EXCEPT !.run = "pending"], open) /\ Emits(<<>>)
    /\ begun' = begun + 1 /\ hushed' = FALSE /\ UNCHANGED asks

RunStarts ==
    /\ child.run = "pending"
    /\ Becomes([life |-> "running", run |-> "turn", hold |-> FALSE], open)
    /\ Emits(<<Stream("started", "running"), State("running", open)>>)
    /\ UNCHANGED <<asks, begun, hushed>>

\* A turn of the provider's own
TurnStarts ==
    /\ child.run = "none" /\ child.life # "closed" /\ ~child.hold /\ begun < MaxRuns
    /\ Becomes([child EXCEPT !.life = "running", !.run = "turn"], open)
    /\ Emits(<<State("running", open), Stream("started", "running")>>)
    /\ begun' = begun + 1 /\ hushed' = FALSE /\ UNCHANGED asks

StartFails ==
    /\ child.run = "pending"
    /\ Becomes([life |-> "error", run |-> "none", hold |-> FALSE], {})
    /\ Emits(ResolvedAll("error") \o
             <<State("error", {}), Stream("ended", "error"), State("error", {})>>)
    /\ UNCHANGED <<asks, begun, hushed>>

\* Of a child that comes to rest without a turn event, only a wait that is armed and has seen
\* the run start, or one that is still to come, can tell
Hushed == hushed' = (hushed \/ wait'.at \notin {"unasked", "dispatch", "settled"})

\* The provider's session is of a plugin that was reloaded: the run ends without an event
StartIsStale ==
    /\ child.run = "pending"
    /\ Becomes([life |-> "idle", run |-> "none", hold |-> FALSE], open)
    /\ Emits(<<>>) /\ Hushed /\ UNCHANGED <<asks, begun>>

\* A Stop, or a replacement, whose run has not started in time
StartIsGivenUp ==
    /\ child.run = "pending"
    /\ LET life == IF child.hold THEN child.life ELSE "idle" IN
       /\ Becomes([child EXCEPT !.life = life, !.run = "none"], {})
       /\ Emits((IF child.hold THEN <<>> ELSE <<State("idle", open)>>)
                \o (IF open = {} THEN <<>> ELSE ResolvedAll(life) \o <<State(life, {})>>))
       /\ IF Rests(child') THEN Hushed ELSE UNCHANGED hushed
    /\ UNCHANGED <<asks, begun>>

ReplaceBegins ==
    /\ (child.run # "none" \/ Busy) /\ ~child.hold /\ begun < MaxRuns
    /\ Becomes([child EXCEPT !.life = "running", !.hold = TRUE], open)
    /\ Emits(<<State("running", open)>>)
    /\ UNCHANGED <<asks, begun, hushed>>

ReplaceRefused ==
    /\ child.hold /\ child.run # "none"
    /\ Becomes([child EXCEPT !.hold = FALSE], open) /\ Emits(<<>>)
    /\ UNCHANGED <<asks, begun, hushed>>

\* A terminal event: the state is emitted first, unless it is held busy for a replacement
TurnEnds(outcome) ==
    /\ child.run = "turn"
    /\ LET life == IF outcome = "failed" THEN "error" ELSE IF child.hold THEN "running" ELSE "idle"
           left == IF outcome = "completed" THEN open ELSE {} IN
       /\ Becomes([child EXCEPT !.life = life, !.run = "none"], left)
       /\ Emits((IF outcome = "completed" THEN <<>> ELSE ResolvedAll("running"))
                \o (IF life = "running" THEN <<>> ELSE <<State(life, left)>>)
                \o <<Stream("ended", life)>>)
    /\ UNCHANGED <<asks, begun, hushed>>

Asks ==
    /\ child.run = "turn" /\ asks < MaxAsks
    /\ Becomes(child, open \cup {asks + 1})
    /\ Emits(<<State(child.life, open'), RequestOf(asks + 1, child.life)>>)
    /\ asks' = asks + 1 /\ UNCHANGED <<begun, hushed>>

\* The user's answer, the caller's, or the provider's own resolution
Answered(r) ==
    /\ r \in open
    /\ Becomes(child, open \ {r})
    /\ Emits(<<State(child.life, open'), Resolved(r, child.life)>>)
    /\ UNCHANGED <<asks, begun, hushed>>

ChildCloses ==
    /\ child.life # "closed"
    /\ Becomes([life |-> "closed", run |-> "none", hold |-> FALSE], {})
    /\ Emits(<<State("closed", {})>>)
    /\ UNCHANGED <<asks, begun, hushed>>

-----------------------------------------------------------------------------
(***************************************************************************)
(* The observation                                                         *)
(***************************************************************************)
\* It subscribes, then asks for the wait.  Of the state found there, only a stored child's
\* matters: a live one's is published as if a turn had started
Opens ==
    /\ at = "opening"
    /\ at' = "watching"
    /\ updates' = IF child.life = "closed"
                  THEN ObserveState(State("closed", {})) ELSE <<>>
    /\ wait' = [wait EXCEPT !.at = "dispatch"]
    /\ UNCHANGED <<childVars, buffer, telling, noticed, cleared, told, rested, hushed>>

\* The queued messages of the child are dispatched, and waitForAgentEvent is called: it answers
\* at once for a request or a child at rest
WaitBegins ==
    /\ at = "watching" /\ wait.at = "dispatch"
    /\ wait' = [at |-> IF open # {} THEN "permission" ELSE IF Rests(child) THEN "settled" ELSE "armed",
                started |-> Busy \/ child.run = "turn"]
    /\ hushed' = (hushed \/ (open # {} /\ Rests(child)))
    /\ UNCHANGED <<childVars, at, updates, buffer, telling, noticed, cleared, told, rested>>

OtherSteps(entries, ids) ==
    LET f[i \in 0..Len(entries)] ==
          IF i = 0 THEN <<>>
          ELSE IF entries[i].id \in ids THEN f[i - 1] ELSE Append(f[i - 1], entries[i])
    IN f
Others(entries, ids) == OtherSteps(entries, ids)[Len(entries)]
\* permissions.set: an entry that is there keeps its place
SetEntry(entries, r, names) ==
    IF \E i \in DOMAIN entries : entries[i].id = r
    THEN [i \in DOMAIN entries |-> IF entries[i].id = r THEN [id |-> r, names |-> names]
                                   ELSE entries[i]]
    ELSE Append(entries, [id |-> r, names |-> names])
\* One result for all the requests it names
PushSteps(b, names) ==
    LET f[r \in 0..MaxAsks] == IF r = 0 THEN b.entries
                              ELSE IF r \in names \ b.delivered
                              THEN SetEntry(f[r - 1], r, names) ELSE f[r - 1]
    IN f
PushPermission(b, names) == [b EXCEPT !.entries = PushSteps(b, names)[MaxAsks]]

\* pushInitial, with the child's state of now
PushInitial(b) ==
    LET names  == open \ b.early
        closed == [b EXCEPT !.initial = FALSE, !.early = {}] IN
    IF wait.at = "permission" THEN PushPermission(closed, names)
    ELSE [closed EXCEPT !.terminal = @ \/ ~Busy]

WaitAnswers ==
    /\ at = "watching" /\ wait.at \in {"permission", "settled"}
    /\ buffer' = PushInitial(buffer)
    /\ wait' = [wait EXCEPT !.at = "over"]
    /\ UNCHANGED <<childVars, at, updates, telling, noticed, cleared, told, rested, hushed>>

Resolves(b, r) ==
    [b EXCEPT !.early = IF b.initial THEN @ \cup {r} ELSE @,
              !.delivered = @ \ {r}, !.entries = Others(@, {r})]

\* The handlers run one after another, each after it read the child's last message
HandlesUpdate ==
    /\ at = "watching" /\ updates # <<>>
    /\ LET u == Head(updates) IN
       /\ buffer' = CASE u.kind = "resolved"  -> Resolves(buffer, u.id)
                      [] u.kind = "requested" -> PushPermission(buffer, {u.id})
                      [] u.kind = "terminal"  -> [buffer EXCEPT !.terminal = TRUE]
       /\ cleared' = IF u.kind = "resolved" THEN cleared \cup {u.id} ELSE cleared
    /\ updates' = Tail(updates)
    /\ UNCHANGED <<childVars, at, wait, telling, noticed, told, rested, hushed>>

\* next: a caller who waits is woken at once
\* Mutant: one result is kept at a time, so taking one forgets the end that came meanwhile
TakesForgetting ==
    /\ at = "watching" /\ telling = Nothing /\ (buffer.entries # <<>> \/ buffer.terminal)
    /\ telling' = IF buffer.entries # <<>>
                  THEN [kind |-> "permission", names |-> Head(buffer.entries).names]
                  ELSE [kind |-> "finish", names |-> {}]
    /\ buffer' = [buffer EXCEPT !.delivered = @ \cup telling'.names, !.terminal = FALSE,
                                !.entries = Others(@, telling'.names)]
    /\ UNCHANGED <<childVars, at, updates, wait, noticed, cleared, told, rested, hushed>>
HasResult == buffer.entries # <<>> \/ buffer.terminal
Takes ==
    /\ at = "watching" /\ telling = Nothing /\ HasResult
    /\ telling' = IF buffer.entries # <<>>
                  THEN [kind |-> "permission", names |-> Head(buffer.entries).names]
                  ELSE [kind |-> "finish", names |-> {}]
    /\ buffer' = [buffer EXCEPT !.delivered = @ \cup telling'.names,
                                !.terminal = @ /\ telling'.kind # "finish",
                                !.entries = Others(@, telling'.names)]
    /\ UNCHANGED <<childVars, at, updates, wait, noticed, cleared, told, rested, hushed>>

\* deliver: the notices of the requests that were not in the one before are acknowledged
Announced == telling.names \ noticed
Tells ==
    /\ telling # Nothing
    /\ told' = told \cup Announced
    /\ noticed' = IF telling.kind = "permission" THEN telling.names ELSE noticed
    /\ at' = IF telling.kind = "finish" THEN "over" ELSE at
    /\ telling' = Nothing
    /\ UNCHANGED <<childVars, updates, wait, buffer, cleared, rested, hushed>>

ChildMoves ==
    \/ PromptComes \/ RunStarts \/ TurnStarts \/ StartFails \/ StartIsStale \/ StartIsGivenUp
    \/ ReplaceBegins \/ ReplaceRefused \/ Asks \/ ChildCloses
    \/ \E outcome \in {"completed", "canceled", "failed"} : TurnEnds(outcome)
    \/ \E r \in AskId : Answered(r)
ObservationSteps == Opens \/ WaitBegins \/ WaitAnswers \/ HandlesUpdate \/ Takes \/ Tells

\* Nothing but the caller moves while there is a result it waits for; and after the last notice the
\* subscription is removed
ObservationNext ==
    \/ Takes
    \/ /\ ~(at = "watching" /\ telling = Nothing /\ HasResult) /\ at # "over"
       /\ ChildMoves \/ Opens \/ WaitBegins \/ WaitAnswers \/ HandlesUpdate \/ Tells

ObservationSpec ==
    ObservationInit /\ [][ObservationNext]_observationVars /\ WF_observationVars(ObservationSteps)

-----------------------------------------------------------------------------
\* The types of the variables.
ObservationTypeOK ==
    /\ child \in [life : {"idle", "running", "error", "closed"},
                  run : {"none", "pending", "turn"}, hold : BOOLEAN]
    /\ open \subseteq 1..asks /\ asks \in 0..MaxAsks /\ begun \in 0..MaxRuns
    /\ at \in {"opening", "watching", "over"}
    /\ \A i \in DOMAIN updates : updates[i].kind \in {"resolved", "requested", "terminal"}
    /\ wait.at \in {"unasked", "dispatch", "armed", "permission", "settled", "over"}
    /\ buffer.delivered \subseteq 1..asks /\ buffer.early \subseteq 1..asks
    /\ \A i, j \in DOMAIN buffer.entries : buffer.entries[i].id = buffer.entries[j].id => i = j
    /\ \A i \in DOMAIN buffer.entries : buffer.entries[i].id \in buffer.entries[i].names
    /\ noticed \cup cleared \cup told \subseteq 1..asks

(***************************************************************************)
(* A final notice is never about a turn that was replaced, or about a      *)
(* child that has not been at rest since the subscription was accepted;    *)
(* and a notice of a permission is about one whose resolution is not known *)
(* yet, however late the initial wait answers                              *)
(* (observation-stream.test.ts:118 and :159).                              *)
(***************************************************************************)
NoticesAreTrue ==
    [][telling' # Nothing /\ telling = Nothing =>
          IF telling'.kind = "finish" THEN rested
          ELSE \E r \in telling'.names : r \notin cleared]_observationVars

(***************************************************************************)
(* "The caller is notified again after a permission response when the      *)
(* child finishes, errors, or requests another permission"                 *)
(* (docs/agent-lifecycle.md:182): a child that comes to rest and stays so  *)
(* is reported, and so is a request that stays open, whether it happened   *)
(* before the subscription to its events, during the initial wait or while *)
(* the caller was being told of something else.                            *)
(***************************************************************************)
SettlementIsHeard ==
    []<>(at = "over" \/ ((~Rests(child) \/ hushed) /\ open \subseteq told))

(***************************************************************************)
(* "late initial permission snapshot cannot resurrect an already resolved  *)
(* request" (observation-stream.test.ts:118): no notice asks the caller to *)
(* answer one.  Not so when the initial wait answers with several, which   *)
(* share one result: one of them is resolved while the caller is told of   *)
(* an earlier event, and its name goes out with the next (Finish_shared).  *)
(***************************************************************************)
ResolvedIsNotAsked ==
    [][telling' # Nothing /\ telling = Nothing =>
          (telling'.names \ noticed) \cap cleared = {}]_observationVars
=============================================================================
