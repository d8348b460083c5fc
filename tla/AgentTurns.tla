----------------------------- MODULE AgentTurns -----------------------------
(***************************************************************************)
(* The foreground-turn machinery of one managed agent: AgentManager in     *)
(* packages/server/src/server/agent/agent-manager.ts and AgentRunState in  *)
(* agent-run-state.ts.  Several client calls (send, run, steer, stop) and  *)
(* one provider session act on the agent's single run slot.                *)
(*                                                                         *)
(* The daemon is one JavaScript thread.  An action is the code between two *)
(* awaits.  Promise reactions run before the next timer, message or I/O    *)
(* callback, so actions started from outside wait until the thread is      *)
(* Quiet; among ready reactions the order is left open.                    *)
(*                                                                         *)
(* A foreground turn carries the name of the call that asked for it: every *)
(* call asks the provider for at most one turn.  turn_completed and        *)
(* turn_canceled have the same effect here and are one event, "ended".     *)
(***************************************************************************)
EXTENDS Naturals, SequencesExt

CONSTANTS Calls,   \* client calls, each issued at most once
          Autos,   \* turns the provider may start on its own
          Kinds,   \* the kinds of call that clients issue
          CanSteer,\* the session has steerActiveTurn
          MaxHeld, \* bound on the events a pending run and a barrier hold
          None

ASSUME CallsAssumption == /\ Calls \cap Autos = {}
                          /\ None \notin Calls \cup Autos
                          /\ "autonomous" \notin Calls \cup {None}
                          /\ Kinds \subseteq {"send", "run", "steer", "stop"}
                          /\ CanSteer \in BOOLEAN
                          /\ MaxHeld \in Nat

Turns == Calls \cup Autos
Event == [type : {"started", "ended", "failed"}, turn : Turns]
Run   == [kind : {"none", "foreground", "autonomous"}, by : Calls \cup {None},
          turn : Turns \cup {None}, replacement : BOOLEAN]
Agent == [lifecycle : {"idle", "running", "error"}, fg : Turns \cup {None},
          active : Turns \cup {None}, replacing : BOOLEAN, failed : BOOLEAN]

VARIABLES
    agent,      \* lifecycle, activeForegroundTurnId, activeTurnId, pendingReplacement, lastError
    finalized,  \* finalizedForegroundTurnIds (50 are kept; Turns is smaller)
    run,        \* the tracked run; a foreground run without a turn is pending
    staged,     \* pendingRun.stagedEvents
    held,       \* the steer event barrier's events
    queue,      \* sessionEventTails: events accepted and not yet dispatched
    lane,       \* foregroundMutationTails: calls in the lane, its owner first
    settled,    \* the run captured by the lane owner's cancellation has been cleared
    before,     \* calls whose turn predates the interrupt in flight
    pc,         \* where each call stands
    kind,       \* what each call is
    expects,    \* expectedTurnId of a steer admission
    prov        \* the provider's own state of every turn

vars == <<agent, finalized, run, staged, held, queue, lane, settled, before,
          pc, kind, expects, prov>>

calls     == <<pc, kind, expects>>
buffers   == <<staged, held, queue>>

\* The event by which the provider says that a turn runs
Start(t) == [type |-> "started", turn |-> t]

NoRun == [kind |-> "none", by |-> None, turn |-> None, replacement |-> FALSE]

\* PendingForegroundRun, before its startTurn answers
PendingRun(c) == [kind |-> "foreground", by |-> c, turn |-> None,
                  replacement |-> agent.replacing]

\* Mutant: the run of an autonomous turn is recorded as that turn's own call
AutonomousRunMadeByItsTurn(t) == [kind |-> "autonomous", by |-> t, turn |-> t,
                                  replacement |-> FALSE]

\* AutonomousAgentRun; its turn is None when only the lifecycle says "running"
AutonomousRun(t) == [kind |-> "autonomous", by |-> None, turn |-> t,
                     replacement |-> FALSE]

Steps == {"new", "awaitingStart", "steerQueued", "steering", "accepted",
          "unavailable", "rejected", "fallback", "cancelQueued", "interrupting", "settlingAcked",
          "settlingRefused", "forced", "resuming", "starting", "streaming",
          "done", "failed", "refused"}

ProviderStates == {"none", "asked", "live", "stopped", "over", "spent"}

\* Steps taken while owning the lane
OwnerSteps == {"steering", "accepted", "unavailable", "rejected",
               "interrupting", "settlingAcked", "settlingRefused", "forced"}

\* The state keeps its shape: a run is one of the two kinds agent-run-state.ts tracks
TypeOK ==
    /\ agent \in Agent
    /\ finalized \subseteq Turns
    /\ run \in Run
    /\ staged \in Seq(Event) /\ held \in Seq(Event) /\ queue \in Seq(Event)
    /\ lane \in Seq(Calls)
    /\ settled \in BOOLEAN
    /\ before \subseteq Calls
    /\ pc \in [Calls -> Steps]
    /\ kind \in [Calls -> Kinds \cup {"none"}]
    /\ expects \in [Calls -> Turns \cup {None}]
    /\ prov \in [Turns -> ProviderStates]

Init ==
    /\ agent = [lifecycle |-> "idle", fg |-> None, active |-> None,
                replacing |-> FALSE, failed |-> FALSE]
    /\ finalized = {} /\ run = NoRun
    /\ staged = <<>> /\ held = <<>> /\ queue = <<>>
    /\ lane = <<>> /\ settled = FALSE /\ before = {}
    /\ pc = [c \in Calls |-> "new"]
    /\ kind = [c \in Calls |-> "none"]
    /\ expects = [c \in Calls |-> None]
    /\ prov = [t \in Turns |-> "none"]

-----------------------------------------------------------------------------
(* Reading the state *)

Pending     == run.kind = "foreground" /\ run.turn = None
BarrierUp   == \E c \in Calls : pc[c] = "steering"
HasInFlightRun == agent.lifecycle = "running" \/ agent.fg # None \/ run # NoRun
Owns(c)     == lane # <<>> /\ Head(lane) = c
CurrentTurn == IF agent.fg # None THEN agent.fg ELSE agent.active

\* waitForForegroundStart: the run the call saw has its turn, or is gone
StartKnown(c) == ~(Pending /\ run.by = expects[c])

\* The next call in the lane starts before the caller of the previous one resumes:
\* its reaction is fewer promise hops away
LaneStarted == \A c \in Calls : ~(pc[c] \in {"steerQueued", "cancelQueued"} /\ Owns(c))

\* A promise reaction is ready to run
Ready(c) ==
    \/ pc[c] = "awaitingStart" /\ StartKnown(c)
    \/ pc[c] \in {"steerQueued", "cancelQueued"} /\ Owns(c)
    \/ pc[c] \in {"settlingAcked", "settlingRefused", "forced"} /\ settled
    \/ pc[c] \in {"accepted", "unavailable", "rejected", "fallback", "resuming"}

Quiet == queue = <<>> /\ \A c \in Calls : ~Ready(c)

\* Mutant: the barrier of a steer admission is ignored
EnqueuePastBarrier(e) ==
    /\ Len(held) + Len(staged) < MaxHeld
    /\ staged' = IF Pending THEN Append(staged, e) ELSE staged
    /\ queue'  = IF Pending THEN queue ELSE Append(queue, e)
    /\ UNCHANGED held

\* enqueueSessionEvent: the barrier first, then a pending run, then the queue
Enqueue(e) ==
    /\ Len(held) + Len(staged) < MaxHeld
    /\ held'   = IF BarrierUp THEN Append(held, e) ELSE held
    /\ staged' = IF ~BarrierUp /\ Pending THEN Append(staged, e) ELSE staged
    /\ queue'  = IF ~BarrierUp /\ ~Pending THEN Append(queue, e) ELSE queue

-----------------------------------------------------------------------------
(* Terminal events: handleStreamEvent with its handlers, settleTerminalRun *)
(* and finalizeForegroundTurn.  A terminal without a turn id has t = None  *)
(* after attachManagedTurnIdentity found no current turn.                  *)

IsForeground(t) == t # None /\ agent.fg = t
IsStale(t)      == t # None /\ agent.active # None /\ agent.active # t

\* onStreamTurnCompleted / Canceled / Failed, after applyActiveTurnTerminal
TerminalHandled(t, type) ==
    IF IsStale(t) THEN agent
    ELSE [agent EXCEPT
            !.active = None,
            !.failed = (type = "failed"),
            !.lifecycle = IF agent.fg # None THEN @
                          ELSE IF type = "failed" THEN "error"
                          ELSE IF agent.replacing THEN @ ELSE "idle"]

\* finalizeForegroundTurn: a replacement in progress keeps the agent busy
Finalized(a, t) ==
    [a EXCEPT !.fg = None,
              !.active = IF t = None \/ @ = t THEN None ELSE @,
              !.lifecycle = IF a.failed THEN "error"
                            ELSE IF a.replacing THEN "running" ELSE "idle"]

\* Mutant: a foreground run is left to its stream to clear
SettlesAutonomousOnly(t) ==
    run.kind = "autonomous" /\ (run.turn = None \/ t = None \/ run.turn = t)

\* settleTerminalRun
Settles(t) ==
    \/ run.kind = "foreground" /\ run.turn # None /\ run.turn = t
    \/ run.kind = "autonomous" /\ (run.turn = None \/ t = None \/ run.turn = t)

\* The effect of one terminal event; a finalized turn's terminal has none
Terminal(t, type) ==
    IF t # None /\ t \in finalized THEN UNCHANGED <<agent, finalized, run>>
    ELSE /\ agent' = IF IsForeground(t) THEN Finalized(TerminalHandled(t, type), t)
                     ELSE TerminalHandled(t, type)
         /\ finalized' = IF IsForeground(t) THEN finalized \cup {t} ELSE finalized
         /\ run' = IF Settles(t) THEN NoRun ELSE run

\* Mutant: the waiters are not told
StreamGoesOn(t) == pc

\* notifyWaiters: the stream of the turn's call gets its terminal and ends
StreamEnds(t) == [pc EXCEPT ![t] = IF t \notin finalized /\ @ = "streaming"
                                   THEN "done" ELSE @]

\* clearRun resolves the promise that a cancellation in the lane is waiting for
Cancelling  == \E c \in Calls : pc[c] \in {"interrupting", "settlingAcked", "settlingRefused"}
SettledUnnoticed == settled' = settled   \* mutant: clearing a run resolves nothing
NoteSettled == settled' = (settled \/ (Cancelling /\ run' = NoRun))

-----------------------------------------------------------------------------
(* The provider session *)

\* The provider accepts the turn it was asked for
TurnBegins(c) ==
    /\ Quiet
    /\ prov[c] = "asked"
    /\ prov' = [prov EXCEPT ![c] = "live"]
    /\ Enqueue(Start(c))
    /\ UNCHANGED <<agent, finalized, run, lane, settled, before, calls>>

\* The provider wakes up on its own, between the turns it was asked for
AutonomousBegins(a) ==
    /\ Quiet
    /\ prov[a] = "none"
    /\ \A t \in Turns : prov[t] # "live"
    /\ prov' = [prov EXCEPT ![a] = "live"]
    /\ Enqueue(Start(a))
    /\ UNCHANGED <<agent, finalized, run, lane, settled, before, calls>>

\* A turn's terminal event: when it ends, late after an interrupt, or once again
TurnEnds(t, type) ==
    /\ Quiet
    /\ prov[t] \in {"live", "stopped", "over"}
    /\ prov' = [prov EXCEPT ![t] = IF @ = "over" THEN "spent" ELSE "over"]
    /\ Enqueue([type |-> type, turn |-> t])
    /\ UNCHANGED <<agent, finalized, run, lane, settled, before, calls>>

-----------------------------------------------------------------------------
(* The session event queue *)

\* onStreamTurnStarted: no effect while a foreground turn is active
Started(t) ==
    /\ IF agent.fg # None THEN UNCHANGED <<agent, run>>
       ELSE /\ run' = IF run = NoRun THEN AutonomousRun(t) ELSE run
            /\ agent' = [agent EXCEPT !.active = t, !.failed = FALSE,
                                      !.lifecycle = "running"]
    /\ UNCHANGED <<finalized, pc>>

\* dispatchSessionEvent
Dispatch ==
    /\ queue # <<>>
    /\ LET e == Head(queue)
       IN  IF e.type = "started" THEN Started(e.turn)
           ELSE /\ Terminal(e.turn, e.type)
                /\ pc' = IF e.turn \in Calls THEN StreamEnds(e.turn) ELSE pc
    /\ queue' = Tail(queue)
    /\ NoteSettled
    /\ UNCHANGED <<staged, held, lane, before, kind, expects, prov>>

-----------------------------------------------------------------------------
(* Starting a run *)

CanStreamWhilePending == agent.fg = None   \* mutant: only a published turn is in the way
CanStream == agent.fg = None /\ run = NoRun

\* streamAgent up to the call of startTurn
StreamAgent(c) ==
    /\ run' = PendingRun(c)
    /\ staged' = <<>>
    /\ agent' = [agent EXCEPT !.failed = FALSE]
    /\ prov' = [prov EXCEPT ![c] = "asked"]
    /\ pc' = [pc EXCEPT ![c] = "starting"]
    /\ UNCHANGED <<finalized, held, queue, settled, before>>

\* The step that holds the agent busy and queues the cancellation
BeginReplacement(c) ==
    /\ agent' = [agent EXCEPT !.replacing = TRUE, !.lifecycle = "running"]
    /\ lane' = Append(lane, c)
    /\ pc' = [pc EXCEPT ![c] = "cancelQueued"]
    /\ UNCHANGED <<finalized, run, buffers, settled, before, prov>>

\* startOrReplaceRun with replaceRunning; replaceAgentRun asks the same question
SendOrReplace(c) ==
    \/ /\ HasInFlightRun
       /\ BeginReplacement(c)
    \/ /\ ~HasInFlightRun
       /\ StreamAgent(c)
       /\ UNCHANGED lane

\* Mutant: the start is published after what the run staged
StartLast(c) == Append(RemoveFirst(staged, Start(c)), Start(c))

\* The run's own turn_started among its staged events: its start is published when startTurn
\* answers, before they are, and is not dispatched a second time.
Unstaged(c) == RemoveFirst(staged, Start(c))

\* startTurn answered with a turn: the rest of streamForwarder up to its stream
RunStarted(c) ==
    /\ Quiet
    /\ pc[c] = "starting"
    /\ prov[c] \in {"live", "stopped", "over", "spent"}
    /\ IF run.by = c
       THEN /\ agent' = [agent EXCEPT !.fg = c, !.active = c, !.lifecycle = "running",
                            !.replacing = IF run.replacement THEN FALSE ELSE @]
            /\ run' = [run EXCEPT !.turn = c]
            /\ IF BarrierUp THEN held' = held \o Unstaged(c) /\ UNCHANGED queue
                           ELSE queue' = queue \o Unstaged(c) /\ UNCHANGED held
            /\ staged' = <<>>
            /\ pc' = [pc EXCEPT ![c] = "streaming"]
       ELSE /\ pc' = [pc EXCEPT ![c] = "failed"]   \* canceled before its turn started
            /\ UNCHANGED <<agent, run, buffers>>
    /\ UNCHANGED <<finalized, lane, settled, before, kind, expects, prov>>

\* startTurn failed: the failure is handled like a turn_failed without a turn id,
\* the turn is finalized without one, and the run is cleared with what it staged.
RunRejected(c) ==
    /\ Quiet
    /\ pc[c] = "starting"
    /\ prov[c] \in {"asked", "stopped"}
    /\ prov' = [prov EXCEPT ![c] = "spent"]
    /\ pc' = [pc EXCEPT ![c] = "failed"]
    /\ IF run.by = c
       THEN /\ agent' = LET t == CurrentTurn
                            a == IF t # None /\ t \in finalized THEN agent
                                 ELSE TerminalHandled(t, "failed")
                        IN  Finalized([a EXCEPT !.replacing = FALSE], None)
            /\ run' = NoRun
            /\ staged' = <<>>
       ELSE UNCHANGED <<agent, run, staged>>
    /\ NoteSettled
    /\ UNCHANGED <<finalized, held, queue, lane, before, kind, expects>>

\* startTurn found its session retired (isStaleProviderSessionError)
RunWentStale(c) ==
    /\ Quiet
    /\ pc[c] = "starting"
    /\ prov[c] \in {"asked", "stopped"}
    /\ run.by = c
    /\ prov' = [prov EXCEPT ![c] = "spent"]
    /\ pc' = [pc EXCEPT ![c] = "failed"]
    /\ agent' = [agent EXCEPT !.replacing = FALSE,
                    !.lifecycle = IF agent.fg = None THEN "idle" ELSE @]
    /\ run' = NoRun
    /\ staged' = <<>>
    /\ NoteSettled
    /\ UNCHANGED <<finalized, held, queue, lane, before, kind, expects>>

-----------------------------------------------------------------------------
(* Client calls *)

Issue(c, k) == /\ Quiet
               /\ pc[c] = "new"
               /\ k \in Kinds
               /\ kind' = [kind EXCEPT ![c] = k]

\* A prompt that interrupts whatever runs
Send(c) ==
    /\ Issue(c, "send")
    /\ SendOrReplace(c)
    /\ UNCHANGED <<held, queue, finalized, settled, before, expects>>

\* runAgent: a prompt that expects the agent to be free
RunAgent(c) ==
    /\ Issue(c, "run")
    /\ IF CanStream THEN StreamAgent(c)
       ELSE /\ pc' = [pc EXCEPT ![c] = "failed"]
            /\ UNCHANGED <<agent, finalized, run, buffers, settled, before, prov>>
    /\ UNCHANGED <<lane, expects>>

\* steerOrReplaceActiveTurn notes the start it has to wait for
Steer(c) ==
    /\ Issue(c, "steer")
    /\ pc' = [pc EXCEPT ![c] = "awaitingStart"]
    /\ expects' = [expects EXCEPT ![c] = IF Pending THEN run.by ELSE None]
    /\ UNCHANGED <<agent, finalized, run, buffers, lane, settled, before, prov>>

\* cancelAgentRun: Stop
Stop(c) ==
    /\ Issue(c, "stop")
    /\ pc' = [pc EXCEPT ![c] = "cancelQueued"]
    /\ lane' = Append(lane, c)
    /\ UNCHANGED <<agent, finalized, run, buffers, settled, before, expects, prov>>

\* The steer found no turn of its own to steer: startAgentRunInner sends it
SendInstead(c) ==
    /\ SendOrReplace(c)
    /\ expects' = [expects EXCEPT ![c] = None]
    /\ UNCHANGED <<held, queue, finalized, settled, before, kind>>

\* After the wait: choose the turn to steer and queue the admission
SteerChoose(c) ==
    /\ pc[c] = "awaitingStart"
    /\ StartKnown(c)
    /\ \/ CurrentTurn = None /\ SendInstead(c)
       \/ /\ CurrentTurn # None
          /\ expects' = [expects EXCEPT ![c] = CurrentTurn]
          /\ pc' = [pc EXCEPT ![c] = IF CanSteer THEN "steerQueued" ELSE "fallback"]
          /\ lane' = IF CanSteer THEN Append(lane, c) ELSE lane
          /\ UNCHANGED <<agent, finalized, run, buffers, settled, before, kind, prov>>

\* runSteerAdmission: the queue is drained, then the barrier holds new events
SteerAdmit(c) ==
    /\ pc[c] = "steerQueued"
    /\ Owns(c)
    /\ queue = <<>>
    /\ IF agent.active = expects[c]
       THEN pc' = [pc EXCEPT ![c] = "steering"] /\ UNCHANGED lane
       ELSE pc' = [pc EXCEPT ![c] = "failed"] /\ lane' = Tail(lane)
    /\ UNCHANGED <<agent, finalized, run, buffers, settled, before, kind, expects, prov>>

\* The provider's answer drops the barrier and releases the held events
SteerAnswered(c, answer) ==
    /\ Quiet
    /\ pc[c] = "steering"
    /\ pc' = [pc EXCEPT ![c] = answer]
    /\ held' = <<>>
    /\ staged' = IF Pending THEN staged \o held ELSE staged
    /\ queue' = IF Pending THEN queue ELSE queue \o held
    /\ UNCHANGED <<agent, finalized, run, lane, settled, before, kind, expects, prov>>

\* The admission ends once those events are dispatched
SteerReturns(c) ==
    /\ pc[c] \in {"accepted", "unavailable", "rejected"}
    /\ queue = <<>>
    /\ lane' = Tail(lane)
    /\ pc' = [pc EXCEPT ![c] = CASE pc[c] = "accepted"    -> "done"
                                 [] pc[c] = "unavailable" -> "fallback"
                                 [] pc[c] = "rejected"    -> "failed"]
    /\ UNCHANGED <<agent, finalized, run, buffers, settled, before, kind, expects, prov>>

\* Steering was unavailable: send instead, give up, or replace the admitted turn
SteerFallback(c) ==
    /\ pc[c] = "fallback"
    /\ LaneStarted
    /\ \/ /\ agent.fg = None /\ agent.active = expects[c]
          /\ SendInstead(c)
       \/ /\ agent.active # expects[c]
          /\ pc' = [pc EXCEPT ![c] = "failed"]
          /\ UNCHANGED <<agent, finalized, run, buffers, lane, settled, before,
                         kind, expects, prov>>
       \/ /\ agent.fg # None /\ agent.active = expects[c]
          /\ BeginReplacement(c)
          /\ UNCHANGED <<kind, expects>>

-----------------------------------------------------------------------------
(* Cancelling: cancelAgentRunNow, in the lane *)

\* cancelAgentRun returns: Stop is answered, a replacement goes on to its own run
Returns(c, to) ==
    /\ lane' = Tail(lane)
    /\ pc' = [pc EXCEPT ![c] = IF to = "refused" THEN "refused"
                               ELSE IF kind[c] = "stop" THEN "done" ELSE "resuming"]
    /\ settled' = FALSE
    /\ before' = {}

CancelBegins(c) ==
    /\ pc[c] = "cancelQueued"
    /\ Owns(c)
    /\ IF run = NoRun /\ agent.lifecycle # "running"
       THEN Returns(c, "not_running") /\ UNCHANGED run
       ELSE /\ run' = IF run = NoRun THEN AutonomousRun(None) ELSE run
            /\ settled' = FALSE
            /\ before' = {d \in Calls : prov[d] # "none"}
            /\ pc' = [pc EXCEPT ![c] = "interrupting"]
            /\ UNCHANGED lane
    /\ UNCHANGED <<agent, finalized, buffers, kind, expects, prov>>

\* interrupt() resolved: no foreground turn that predates it can still run
InterruptAcked(c) ==
    /\ Quiet
    /\ pc[c] = "interrupting"
    /\ pc' = [pc EXCEPT ![c] = "settlingAcked"]
    /\ prov' = [t \in Turns |-> IF t \in before /\ prov[t] \in {"asked", "live"}
                                THEN "stopped" ELSE prov[t]]
    /\ UNCHANGED <<agent, finalized, run, buffers, lane, settled, before, kind, expects>>

\* interrupt() rejected, or its own timeout passed
InterruptRefused(c) ==
    /\ Quiet
    /\ pc[c] = "interrupting"
    /\ pc' = [pc EXCEPT ![c] = "settlingRefused"]
    /\ UNCHANGED <<agent, finalized, run, buffers, lane, settled, before, kind, expects, prov>>

\* The captured run was cleared
CancelSettled(c) ==
    /\ pc[c] \in {"settlingAcked", "settlingRefused", "forced"}
    /\ settled
    /\ Returns(c, "settled")
    /\ UNCHANGED <<agent, finalized, run, buffers, kind, expects, prov>>

\* The captured run is still there when the wait for it times out, after a refusal
CancelRefused(c) ==
    /\ Quiet
    /\ pc[c] = "settlingRefused"
    /\ ~settled
    /\ Returns(c, "refused")
    /\ agent' = [agent EXCEPT !.replacing = IF kind[c] = "stop" THEN @ ELSE FALSE]
    /\ UNCHANGED <<finalized, run, buffers, kind, expects, prov>>

\* ... after an acknowledgement, when the run has a turn: force its terminal
ForceTurn(c) ==
    /\ run.turn # None
    /\ Terminal(run.turn, "ended")
    /\ pc' = [(IF run.turn \in Calls THEN StreamEnds(run.turn) ELSE pc)
                 EXCEPT ![c] = "forced"]
    /\ NoteSettled
    /\ UNCHANGED <<lane, buffers, before>>

\* ... when it is still waiting for its turn: clear it
ForcePending(c) ==
    /\ Pending
    /\ Returns(c, "settled")
    /\ run' = NoRun
    /\ staged' = <<>>
    /\ agent' = [agent EXCEPT !.lifecycle = IF agent.replacing THEN @ ELSE "idle"]
    /\ UNCHANGED <<finalized, held, queue>>

\* ... when it is autonomous and nobody named its turn: force the current terminal
ForceUnnamed(c) ==
    /\ run.kind = "autonomous" /\ run.turn = None
    /\ Terminal(CurrentTurn, "ended")
    /\ Returns(c, "settled")
    /\ UNCHANGED buffers

\* Mutant: the forced clear does not ask whether the interrupt was acknowledged
SettlementForcedAnyway(c) ==
    /\ Quiet
    /\ pc[c] \in {"settlingAcked", "settlingRefused"}
    /\ ~settled
    /\ ForceTurn(c) \/ ForcePending(c) \/ ForceUnnamed(c)
    /\ UNCHANGED <<kind, expects, prov>>

SettlementTimesOut(c) ==
    /\ Quiet
    /\ pc[c] = "settlingAcked"
    /\ ~settled
    /\ ForceTurn(c) \/ ForcePending(c) \/ ForceUnnamed(c)
    /\ UNCHANGED <<kind, expects, prov>>

\* A replacement streams its prompt, or finds that another run got in first
Resume(c) ==
    /\ pc[c] = "resuming"
    /\ LaneStarted
    /\ IF CanStream THEN StreamAgent(c)
       ELSE /\ pc' = [pc EXCEPT ![c] = "failed"]
            /\ agent' = [agent EXCEPT !.replacing = FALSE]
            /\ UNCHANGED <<finalized, run, buffers, settled, before, prov>>
    /\ UNCHANGED <<lane, kind, expects>>

-----------------------------------------------------------------------------

CallStep(c) ==
    \/ SteerChoose(c) \/ SteerAdmit(c) \/ SteerReturns(c) \/ SteerFallback(c)
    \/ CancelBegins(c) \/ CancelSettled(c) \/ Resume(c)

TimerStep(c) == CancelRefused(c) \/ SettlementTimesOut(c)

ClientStep(c) == Send(c) \/ RunAgent(c) \/ Steer(c) \/ Stop(c)

SessionStep(c) ==
    \/ TurnBegins(c) \/ RunStarted(c) \/ RunRejected(c) \/ RunWentStale(c)
    \/ InterruptAcked(c) \/ InterruptRefused(c)
    \/ \E answer \in {"accepted", "unavailable", "rejected"} : SteerAnswered(c, answer)

Next ==
    \/ Dispatch
    \/ \E c \in Calls : CallStep(c) \/ TimerStep(c) \/ ClientStep(c) \/ SessionStep(c)
    \/ \E a \in Autos : AutonomousBegins(a)
    \/ \E t \in Turns, type \in {"ended", "failed"} : TurnEnds(t, type)

Spec == Init /\ [][Next]_vars

\* The thread runs what is ready, timers fire, interrupt() is bounded by one, and
\* the provider answers a steer (nothing bounds that answer in the code).  Clients
\* need not call, turns need not begin or end, startTurn need not answer.
Fairness ==
    /\ WF_vars(Dispatch)
    /\ \A c \in Calls : /\ WF_vars(CallStep(c))
                        /\ WF_vars(TimerStep(c))
                        /\ WF_vars(InterruptAcked(c) \/ InterruptRefused(c))
                        /\ WF_vars(\E answer \in {"accepted", "unavailable", "rejected"} :
                                      SteerAnswered(c, answer))

FairSpec == Spec /\ Fairness

-----------------------------------------------------------------------------
(* Properties *)

\* The provider is never asked for a foreground turn, nor runs one, unless that
\* turn's call owns the run slot: accepting new work while an older turn may
\* still run would split the session in two (docs/agent-lifecycle.md, Cancellation).
NoSplitBrain == \A c \in Calls : prov[c] \in {"asked", "live"} => run.by = c

\* The published foreground turn is the tracked run's turn and the active turn, it has not been
\* finalized, and the agent shows it as running.  A call whose prompt stream is open still has
\* its run, so a terminal event or a forced cancellation can still end the stream (streamForwarder).
ForegroundOwned ==
    agent.fg # None => /\ run.kind = "foreground" /\ run.by = agent.fg
                       /\ run.turn = agent.fg /\ agent.active = agent.fg
                       /\ agent.fg \notin finalized
                       /\ agent.lifecycle = "running"
StreamsOwned == \A c \in Calls : pc[c] = "streaming" => run.by = c /\ run.turn = c
TurnsAreOwned == ForegroundOwned /\ StreamsOwned

\* Someone is between holding the agent busy and its own startTurn
Replacing == \E c \in Calls : /\ pc[c] \in {"cancelQueued", "interrupting", "settlingAcked",
                                           "settlingRefused", "forced", "resuming"}
                             /\ kind[c] # "stop"

\* An agent shown as running has a run, a turn, or a replacement on its way
RunningHasWork == agent.lifecycle = "running" => run # NoRun \/ agent.active # None \/ Replacing

\* When the turn that a replacement interrupts ends, the agent is not shown idle:
\* pendingReplacement holds it busy until the replacement's own turn starts.
ReplacementHoldsBusy ==
    [][(\E c \in Calls : /\ pc[c] \in {"interrupting", "settlingAcked", "settlingRefused"}
                         /\ kind[c] # "stop")
       /\ ~settled /\ settled' /\ agent.fg # None /\ agent'.fg = None
       => agent'.lifecycle # "idle"]_vars

\* While a steer of a foreground turn is with the provider, that turn stays active
\* and owns the run: the barrier holds every event and the lane every cancellation
\* (runSteerAdmission), so an accepted steer is recorded on the turn it was meant for.
AdmittedTurnStaysActive ==
    \A c \in Calls : pc[c] = "steering" /\ expects[c] \in Calls
        => agent.active = expects[c] /\ run.turn = expects[c]

\* A finalized turn does not come back, however late its events are
NoResurrection == agent.active \notin finalized

\* A steer that falls back to replacing interrupts the turn it was admitted for
SteerInterruptsOnlyItsTurn ==
    [][\A c \in Calls : pc[c] = "cancelQueued" /\ pc'[c] = "interrupting" /\ expects[c] # None
          => run = NoRun \/ run.turn = expects[c]]_vars

\* Every call that enters the foreground lane leaves it: a hung interrupt, a turn
\* that never ends or a terminal event that never comes cannot block the next call.
LaneMoves ==
    \A c \in Calls : pc[c] \in {"cancelQueued", "steerQueued"}
        ~> pc[c] \notin {"cancelQueued", "steerQueued"} \cup OwnerSteps

\* A turn whose terminal event the provider sent gives up the run it holds
FinishedRunIsReleased == \A c \in Calls : prov[c] = "over" /\ run.turn = c ~> run.turn # c

\* AgentTurns as RunSlot sees it: who holds the slot, whose turns may be running,
\* and whose have been asked for
SlotOwner == IF run.kind = "autonomous" THEN "autonomous" ELSE run.by
Working   == {c \in Calls : prov[c] \in {"asked", "live"}}
Served    == {c \in Calls : prov[c] # "none"}

Slot == INSTANCE RunSlot WITH owner <- SlotOwner, working <- Working, served <- Served,
                              Autonomous <- "autonomous"

\* One owner at a time, no prompt admitted while an earlier one may still run, and no
\* second admission of the same call: the run slot of RunSlot (trackedRun in
\* AgentRunState, and the guards of streamAgent and cancelAgentRunNow).
SlotSpec == Slot!Spec

=============================================================================
