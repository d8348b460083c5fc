---------------------------- MODULE AgentMessages ----------------------------
(***************************************************************************)
(* The messages of one recipient agent: agent-messages/delivery.ts with    *)
(* the receipts of message-receipts/index.ts in front of it, as session.ts *)
(* puts them together for send_agent_message_request.                      *)
(*                                                                         *)
(* A client that names its message may send it again, to this daemon or,   *)
(* after a restart, to the next one: a receipt on disk decides.  Messages  *)
(* from agents wait for a quiet window and go to the provider in batches,  *)
(* one dispatch at a time; a human's prompt goes there directly; the       *)
(* daemon's own notices have no receipt.                                   *)
(***************************************************************************)
EXTENDS Naturals, Sequences, SequencesExt

CONSTANTS
    Queued,       \* named messages from agents
    Direct,       \* named messages from humans
    Notices,      \* messages of the daemon itself, enqueued once
    Interrupting, \* those that interrupt the active turn; the others steer it
    Modes,        \* session modes a message may ask for
    AnyMode,      \* no mode asked for
    ModeOf,       \* the mode each message asks for
    MaxSends,     \* bound: messages sent
    MaxRestarts   \* bound: restarts of the daemon

Named    == Queued \cup Direct
Enqueued == Queued \cup Notices
Message  == Named \cup Notices

ASSUME MessagesAssumption ==
    /\ Queued \cap Direct = {} /\ Named \cap Notices = {}
    /\ Interrupting \subseteq Enqueued
    /\ AnyMode \notin Modes /\ ModeOf \in [Enqueued -> Modes \cup {AnyMode}]
    /\ MaxSends \in Nat \ {0} /\ MaxRestarts \in Nat

Batch == [number: Nat \ {0}, messages: Seq(Enqueued)]

VARIABLES
    receipts,     \* the receipt files
    calls,        \* the send of each named message that is under way
    repeats,      \* sends of the same message that wait for it
    sends,        \* how many were sent
    quiet,        \* the pending entry: messages in the quiet window
    batches,      \* dispatches in the order of their promises, the first one running
    handed,       \* whether the provider has the running one
    lastDispatch, \* the entry of dispatching: the number of the last one, or 0
    made,         \* how many dispatches were made
    outcome,      \* how the promise of each message settled
    delivery,     \* "open", "closing" or "closed"
    awaited,      \* the dispatch that close waits for
    admitted,     \* the messages in the order of their admission (history)
    got,          \* the admitted ones the provider got in this life of the daemon (history)
    times,        \* how often the provider got each message (history)
    restarts

messageVars == <<receipts, calls, repeats, sends, quiet, batches, handed, lastDispatch, made,
                 outcome, delivery, awaited, admitted, got, times, restarts>>
sending  == <<receipts, calls, repeats, sends>>
dispatch == <<batches, handed, lastDispatch, made>>
provider == <<got, times>>
closing  == <<delivery, awaited>>

CallSteps == {"idle", "read", "prepare", "mark", "send", "await", "complete"}
Fresh == [m \in Enqueued |-> "none"]

MessagesInit ==
    /\ receipts = [m \in Named |-> "none"]
    /\ calls = [m \in Named |-> "idle"]
    /\ repeats = [m \in Named |-> 0] /\ sends = 0
    /\ quiet = <<>> /\ batches = <<>> /\ handed = FALSE
    /\ lastDispatch = 0 /\ made = 0
    /\ outcome = Fresh
    /\ delivery = "open" /\ awaited = 0
    /\ admitted = <<>> /\ got = <<>> /\ times = [m \in Message |-> 0]
    /\ restarts = 0

-----------------------------------------------------------------------------
(***************************************************************************)
(* Receipts: send and sendOnce.  A second send waits for the first.        *)
(***************************************************************************)
Send(m) ==
    /\ sends < MaxSends /\ delivery # "closed"
    /\ sends' = sends + 1
    /\ IF calls[m] = "idle"
       THEN calls' = [calls EXCEPT ![m] = "read"] /\ UNCHANGED repeats
       ELSE repeats' = [repeats EXCEPT ![m] = @ + 1] /\ UNCHANGED calls
    /\ UNCHANGED <<receipts, quiet, dispatch, outcome, closing, admitted, provider, restarts>>

CallGoes(m, step) == calls' = [calls EXCEPT ![m] = step] /\ UNCHANGED repeats
CallEnds(m) ==
    IF repeats[m] > 0
    THEN calls' = [calls EXCEPT ![m] = "read"] /\ repeats' = [repeats EXCEPT ![m] = @ - 1]
    ELSE calls' = [calls EXCEPT ![m] = "idle"] /\ UNCHANGED repeats

\* Mutant: a pending message is sent again
ReadsCompletedOnly(m) ==
    /\ calls[m] = "read"
    /\ IF receipts[m] = "completed" THEN CallEnds(m)
       ELSE CallGoes(m, IF m \in Direct THEN "prepare" ELSE "mark")
    /\ UNCHANGED <<receipts, sends, quiet, dispatch, outcome, closing, admitted, provider,
                   restarts>>

\* completed is answered, pending is reported as unknown; both end the call
ReadsReceipt(m) ==
    /\ calls[m] = "read"
    /\ IF receipts[m] # "none" THEN CallEnds(m)
       ELSE CallGoes(m, IF m \in Direct THEN "prepare" ELSE "mark")
    /\ UNCHANGED <<receipts, sends, quiet, dispatch, outcome, closing, admitted, provider,
                   restarts>>

\* prepareAgentMessage loads the agent for a human's prompt
Prepares(m) ==
    /\ calls[m] = "prepare"
    /\ CallGoes(m, "mark") \/ CallEnds(m)
    /\ UNCHANGED <<receipts, sends, quiet, dispatch, outcome, closing, admitted, provider,
                   restarts>>

WritesReceipt(m, step, state, next) ==
    /\ calls[m] = step
    /\ \/ receipts' = [receipts EXCEPT ![m] = state]
          /\ (IF next = "idle" THEN CallEnds(m) ELSE CallGoes(m, next))
       \/ UNCHANGED receipts /\ CallEnds(m)
    /\ UNCHANGED <<sends, quiet, dispatch, outcome, closing, admitted, provider, restarts>>

MarksPending(m) == WritesReceipt(m, "mark", "pending", "send")
Completes(m)    == WritesReceipt(m, "complete", "completed", "idle")

Gets(messages) == times' = [m \in Message |-> times[m] + (IF Contains(messages, m) THEN 1 ELSE 0)]

\* sendPromptToAgent for a human: it may fail after the provider got the prompt
SendsDirectly(m) ==
    /\ m \in Direct /\ calls[m] = "send"
    /\ \/ Gets(<<m>>) /\ (CallGoes(m, "complete") \/ CallEnds(m))
       \/ UNCHANGED times /\ CallEnds(m)
    /\ UNCHANGED <<receipts, sends, quiet, dispatch, outcome, closing, admitted, got, restarts>>

-----------------------------------------------------------------------------
(***************************************************************************)
(* Delivery.  enqueue restarts the quiet window; flush splits the messages *)
(* into batches and appends them to the recipient's chain of dispatches.   *)
(***************************************************************************)
Enqueue(m) ==
    /\ quiet' = Append(quiet, m)
    /\ admitted' = Append(admitted, m)
    /\ outcome' = [outcome EXCEPT ![m] = "waiting"]

\* enqueue throws once delivery is closed
SendsQueued(m) ==
    /\ m \in Queued /\ calls[m] = "send"
    /\ \/ delivery = "open" /\ Enqueue(m) /\ CallGoes(m, "await")
       \/ delivery # "open" /\ CallEnds(m) /\ UNCHANGED <<quiet, admitted, outcome>>
    /\ UNCHANGED <<receipts, sends, dispatch, closing, provider, restarts>>

Notifies(m) ==
    /\ delivery = "open" /\ outcome[m] = "none"
    /\ sends < MaxSends /\ sends' = sends + 1
    /\ Enqueue(m)
    /\ UNCHANGED <<receipts, calls, repeats, dispatch, closing, provider, restarts>>

\* A group keeps its first behavior and the first mode any of its messages asks for
ModeIn(group) ==
    LET asked == SelectSeq(group, LAMBDA m : ModeOf[m] # AnyMode)
    IN IF asked = <<>> THEN AnyMode ELSE ModeOf[asked[1]]

Joins(m, group) ==
    /\ (m \in Interrupting) = (group[1] \in Interrupting)
    /\ AnyMode \in {ModeOf[m], ModeIn(group)} \/ ModeOf[m] = ModeIn(group)

\* The groups after each message
GroupSteps(messages) ==
    LET f[i \in 0..Len(messages)] ==
          IF i = 0 THEN <<>>
          ELSE IF f[i - 1] # <<>> /\ Joins(messages[i], Last(f[i - 1]))
               THEN Front(f[i - 1]) \o <<Append(Last(f[i - 1]), messages[i])>>
               ELSE Append(f[i - 1], <<messages[i]>>)
    IN f

\* Mutant: the last group is never closed
GroupsButLast(messages) ==
    IF messages = <<>> THEN <<>> ELSE Front(GroupSteps(messages)[Len(messages)])

Groups(messages) == GroupSteps(messages)[Len(messages)]

Flush ==
    LET groups == Groups(quiet) IN
    /\ quiet' = <<>>
    /\ batches' = batches \o
          [i \in 1..Len(groups) |-> [number |-> made + i, messages |-> groups[i]]]
    /\ made' = made + Len(groups)
    /\ lastDispatch' = IF groups = <<>> THEN lastDispatch ELSE made'
    /\ UNCHANGED handed

\* The quiet window is over
QuietEnds ==
    /\ quiet # <<>>
    /\ Flush
    /\ UNCHANGED <<sending, outcome, closing, admitted, provider, restarts>>

Delivers ==
    /\ batches # <<>> /\ ~handed
    /\ handed' = TRUE
    /\ Gets(Head(batches).messages) /\ got' = got \o Head(batches).messages
    /\ UNCHANGED <<sending, quiet, batches, lastDispatch, made, outcome, closing, admitted,
                   restarts>>

\* A dispatch may fail before the provider has it, or after, when the run does not start
DispatchSettles(how) ==
    /\ batches # <<>>
    /\ how = "resolved" => handed
    /\ outcome' = [m \in Enqueued |-> IF Contains(Head(batches).messages, m) THEN how
                                                                            ELSE outcome[m]]
    /\ batches' = Tail(batches) /\ handed' = FALSE
    /\ lastDispatch' = IF lastDispatch = Head(batches).number THEN 0 ELSE lastDispatch
    /\ UNCHANGED <<sending, quiet, made, closing, admitted, provider, restarts>>

\* The send that waits for the promise of its message
Awaits(m) ==
    /\ m \in Queued /\ calls[m] = "await"
    /\ \/ outcome[m] = "resolved" /\ CallGoes(m, "complete")
       \/ outcome[m] = "rejected" /\ CallEnds(m)
    /\ UNCHANGED <<receipts, sends, quiet, dispatch, outcome, closing, admitted, provider,
                   restarts>>

-----------------------------------------------------------------------------
(***************************************************************************)
(* close flushes and waits for the dispatches there are; then the daemon   *)
(* stops.  It may also stop anywhere else, and starts again.               *)
(***************************************************************************)
CloseBegins ==
    /\ delivery = "open" /\ delivery' = "closing"
    /\ Flush
    /\ awaited' = lastDispatch'
    /\ UNCHANGED <<sending, outcome, admitted, provider, restarts>>

CloseEnds ==
    /\ delivery = "closing" /\ delivery' = "closed"
    /\ \A i \in DOMAIN batches : batches[i].number # awaited
    /\ UNCHANGED <<sending, quiet, dispatch, outcome, awaited, admitted, provider, restarts>>

Restarts ==
    /\ restarts < MaxRestarts /\ restarts' = restarts + 1
    /\ calls' = [m \in Named |-> "idle"] /\ repeats' = [m \in Named |-> 0]
    /\ quiet' = <<>> /\ batches' = <<>> /\ handed' = FALSE
    /\ lastDispatch' = 0 /\ made' = 0
    /\ outcome' = Fresh
    /\ delivery' = "open" /\ awaited' = 0
    /\ admitted' = <<>> /\ got' = <<>>
    /\ UNCHANGED <<receipts, sends, times>>

SendSteps(m) ==
    \/ ReadsReceipt(m) \/ Prepares(m) \/ MarksPending(m) \/ SendsDirectly(m)
    \/ SendsQueued(m) \/ Awaits(m) \/ Completes(m)

Settles == \E how \in {"resolved", "rejected"} : DispatchSettles(how)

MessagesNext ==
    \/ \E m \in Named : Send(m) \/ SendSteps(m)
    \/ \E m \in Notices : Notifies(m)
    \/ QuietEnds \/ Delivers \/ Settles
    \/ CloseBegins \/ CloseEnds \/ Restarts

\* The timer fires, promises settle, and the provider answers a dispatch
MessagesFairness ==
    /\ WF_messageVars(QuietEnds) /\ WF_messageVars(Settles) /\ WF_messageVars(CloseEnds)

MessagesSpec == MessagesInit /\ [][MessagesNext]_messageVars /\ MessagesFairness

-----------------------------------------------------------------------------
MessagesTypeOK ==
    /\ receipts \in [Named -> {"none", "pending", "completed"}]
    /\ calls \in [Named -> CallSteps]
    /\ repeats \in [Named -> 0..MaxSends] /\ sends \in 0..MaxSends
    /\ quiet \in Seq(Enqueued) /\ batches \in Seq(Batch)
    /\ handed \in BOOLEAN /\ made \in Nat
    /\ lastDispatch # 0 => batches # <<>> /\ Last(batches).number = lastDispatch
    /\ outcome \in [Enqueued -> {"none", "waiting", "resolved", "rejected"}]
    /\ delivery \in {"open", "closing", "closed"} /\ awaited \in Nat
    /\ admitted \in Seq(Enqueued) /\ got \in Seq(Enqueued)
    /\ times \in [Message -> Nat]

(***************************************************************************)
(* The provider gets a named message at most once, over repeated sends,    *)
(* failed dispatches, failed writes and restarts, and a receipt says       *)
(* completed only of a message the provider got.  Agents' messages reach   *)
(* it in the order they were admitted, however split into batches.         *)
(***************************************************************************)
Place(m) == CHOOSE i \in DOMAIN admitted : admitted[i] = m
OnceAndInOrder ==
    /\ \A m \in Named : times[m] <= 1 /\ (receipts[m] = "completed" => times[m] = 1)
    /\ \A i, j \in DOMAIN got : i < j => Place(got[i]) < Place(got[j])

(***************************************************************************)
(* hasPending, which keeps an idle runtime from being collected: it is     *)
(* true as long as a message of the recipient is not settled; and close    *)
(* ends only when all of them are.                                         *)
(***************************************************************************)
hasPending == quiet # <<>> \/ lastDispatch # 0
PendingIsKnown ==
    (\E m \in Enqueued : outcome[m] = "waiting") => hasPending /\ delivery # "closed"

\* What a message may rely on: it is delivered once, in its turn, and not forgotten meanwhile
\* (agent-messages/delivery.ts, message-receipts/index.ts).
MessagesAreKept == OnceAndInOrder /\ PendingIsKnown

(***************************************************************************)
(* Every admitted message is settled, unless the daemon stops: again and   *)
(* again none is waiting and no close is.  No more than MaxSends are       *)
(* admitted, so this is that each one's dispatch is made and its promise   *)
(* settles, in whatever batch it went and whether the one before it failed, *)
(* and that close, which waits for the last dispatch, ends.                *)
(***************************************************************************)
MessagesSettle == []<>(delivery # "closing" /\ \A m \in Enqueued : outcome[m] # "waiting")
=============================================================================
