---------------------------- MODULE BotAutoResume ----------------------------
(***************************************************************************)
(* The retries of an interrupted Bots chat: patches/vibing/                *)
(* bot-auto-resume.ts, with what agent-manager.ts tells it of prompts,     *)
(* cancellations and turns.                                                *)
(*                                                                         *)
(* A live turn that fails opens a window of time; until it ends a timer    *)
(* tries to go on with the conversation.  A Stop, a permission request, a  *)
(* close and a normal completion end that; a prompt begins anew.  One      *)
(* eligible chat of one live agent is modelled; time goes in ticks.        *)
(***************************************************************************)
EXTENDS Naturals

CONSTANTS
    Interval,     \* ticks between retries (30 s in the code)
    Window,       \* ticks of the window (5 minutes)
    MaxAttempts,  \* retries of a window (10)
    Horizon,      \* bound: ticks
    MaxPrompts    \* bound: prompts, turns of the provider's own, requests of permission

ASSUME BotAssumption ==
    /\ {Interval, Window, MaxAttempts} \subseteq Nat \ {0}
    /\ Horizon \in Nat \ {0} /\ MaxPrompts \in Nat

VARIABLES
    clock,     \* ticks so far
    turn,      \* the run in flight: who asked for it, whether its turn was announced;
               \* until is history: when the next timer runs out, for a retry that starts
    bot,       \* the agent: gone, waiting for a permission, stopped
    recovery,  \* the entry of the chat in chats
    silent,    \* history: stopped, or completed, since the last prompt
    retries,   \* history: retries since the last prompt or completion
    late,      \* history: those whose turn was announced after a later timer had closed the window
    asked      \* what was used of MaxPrompts

botVars == <<clock, turn, bot, recovery, silent, retries, late, asked>>

Never      == 0
NoTurn     == [by |-> "nobody", live |-> FALSE, until |-> Never]
NoRecovery == [kept |-> FALSE, deadline |-> Never, due |-> Never, attempts |-> 0]
NewEntry   == [NoRecovery EXCEPT !.kept = TRUE]

BotInit ==
    /\ clock = 1 /\ turn = NoTurn /\ recovery = NoRecovery
    /\ bot = [gone |-> FALSE, asking |-> FALSE, stopped |-> FALSE]
    /\ silent = TRUE /\ retries = 0 /\ late = 0 /\ asked = 0

-----------------------------------------------------------------------------
\* schedule: the timer runs out at the end of the window at the latest
Scheduled(r) ==
    IF clock > r.deadline THEN NoRecovery
    ELSE [r EXCEPT !.due = clock + (IF Interval < r.deadline - clock + 1 THEN Interval
                                    ELSE r.deadline - clock + 1)]

\* observe: a turn started, failed or was canceled
\* Mutant: a turn after a Stop opens an entry
AnnouncedAnyway(r) == IF r.kept THEN r ELSE NewEntry
\* Mutant: every turn has a window of its own
AnnouncedAfresh(r) == IF bot.stopped THEN r ELSE NewEntry
Announced(r)   == IF bot.stopped \/ r.kept THEN r ELSE NewEntry
CutShort(r) ==
    IF r.kept
    THEN Scheduled([r EXCEPT !.deadline = IF @ = Never THEN clock + Window ELSE @])
    ELSE r

\* streamAgent for a prompt that is no retry
BotPrompted ==
    /\ turn = NoTurn /\ ~bot.gone /\ asked < MaxPrompts
    /\ asked' = asked + 1
    /\ turn' = [by |-> "user", live |-> FALSE, until |-> Never]
    /\ recovery' = NoRecovery /\ bot' = [bot EXCEPT !.stopped = FALSE]
    /\ silent' = FALSE /\ retries' = 0 /\ late' = 0
    /\ UNCHANGED clock

\* A retry that is still starting when a later timer has closed its window (history)
IsLate == turn.by = "retry" /\ clock >= turn.until /\ ~recovery.kept

TurnAnnounced ==
    /\ turn # NoTurn /\ ~turn.live
    /\ turn' = [turn EXCEPT !.live = TRUE, !.until = Never]
    /\ recovery' = Announced(recovery)
    /\ late' = IF IsLate THEN late + 1 ELSE late
    /\ UNCHANGED <<clock, bot, silent, retries, asked>>

\* A start that fails is reported as a failed turn, unless the run was canceled or the
\* provider's session was stale
StartRejected ==
    /\ turn # NoTurn /\ ~turn.live
    /\ turn' = NoTurn
    /\ recovery' \in {recovery, CutShort(recovery)}
    /\ UNCHANGED <<clock, bot, silent, retries, late, asked>>

TurnCompleted ==
    /\ turn.live
    /\ turn' = NoTurn /\ recovery' = NoRecovery
    /\ silent' = TRUE /\ retries' = 0 /\ late' = 0
    /\ UNCHANGED <<clock, bot, asked>>

\* It failed, or was canceled by the provider or by a client that allows a retry
TurnInterrupted ==
    /\ turn.live
    /\ turn' = NoTurn /\ recovery' = CutShort(recovery)
    /\ UNCHANGED <<clock, bot, silent, retries, late, asked>>

\* A turn that the provider starts by itself
ProviderTurn ==
    /\ turn = NoTurn /\ ~bot.gone /\ asked < MaxPrompts
    /\ asked' = asked + 1
    /\ turn' = [by |-> "provider", live |-> TRUE, until |-> Never]
    /\ recovery' = Announced(recovery)
    /\ silent' = bot.stopped /\ retries' = 0 /\ late' = 0
    /\ UNCHANGED <<clock, bot>>

\* stop: cancelAgentRun, preventBotAutoResume; the turn's own end follows
BotStopped ==
    /\ ~bot.gone
    /\ recovery' = NoRecovery /\ bot' = [bot EXCEPT !.stopped = TRUE] /\ silent' = TRUE
    /\ UNCHANGED <<clock, turn, retries, late, asked>>

AsksPermission ==
    /\ turn.live /\ ~bot.asking /\ asked < MaxPrompts
    /\ asked' = asked + 1
    /\ recovery' = NoRecovery /\ bot' = [bot EXCEPT !.stopped = TRUE, !.asking = TRUE]
    /\ silent' = TRUE
    /\ UNCHANGED <<clock, turn, retries, late>>

PermissionSettled ==
    /\ bot.asking /\ bot' = [bot EXCEPT !.asking = FALSE]
    /\ UNCHANGED <<clock, turn, recovery, silent, retries, late, asked>>

\* closeAgentRuntime, or the shutdown
BotGone ==
    /\ ~bot.gone
    /\ recovery' = NoRecovery /\ bot' = [bot EXCEPT !.stopped = TRUE, !.gone = TRUE]
    /\ turn' = NoTurn /\ silent' = TRUE
    /\ UNCHANGED <<clock, retries, late, asked>>

\* retry; resume admits no run beside another or while a message waits for the agent
TimerFires ==
    /\ recovery.kept /\ recovery.due = clock
    /\ \/ /\ bot.gone \/ bot.asking \/ recovery.attempts >= MaxAttempts
             \/ clock > recovery.deadline
          /\ recovery' = NoRecovery /\ UNCHANGED <<turn, retries>>
       \/ /\ ~bot.gone /\ ~bot.asking /\ recovery.attempts < MaxAttempts
          /\ clock <= recovery.deadline
          /\ \/ recovery' = Scheduled(recovery) /\ UNCHANGED <<turn, retries>>
             \/ /\ turn = NoTurn
                /\ recovery' = [Scheduled(recovery) EXCEPT !.attempts = @ + 1]
                /\ turn' = [by |-> "retry", live |-> FALSE, until |-> Scheduled(recovery).due]
                /\ retries' = retries + 1
    /\ UNCHANGED <<clock, bot, silent, late, asked>>

Tick ==
    /\ clock < Horizon /\ clock' = clock + 1
    /\ recovery.due # Never => recovery.due > clock
    /\ UNCHANGED <<turn, bot, recovery, silent, retries, late, asked>>

BotNext ==
    \/ BotPrompted \/ TurnAnnounced \/ StartRejected \/ TurnCompleted \/ TurnInterrupted
    \/ ProviderTurn \/ BotStopped \/ AsksPermission \/ PermissionSettled \/ BotGone
    \/ TimerFires \/ Tick

BotSpec == BotInit /\ [][BotNext]_botVars

-----------------------------------------------------------------------------
BotTypeOK ==
    /\ clock \in 1..Horizon /\ asked \in 0..MaxPrompts /\ silent \in BOOLEAN
    /\ retries \in Nat /\ late \in Nat
    /\ turn \in [by: {"nobody", "user", "provider", "retry"}, live: BOOLEAN, until: Nat]
    /\ bot \in [gone: BOOLEAN, asking: BOOLEAN, stopped: BOOLEAN]
    /\ recovery \in [kept: BOOLEAN, deadline: Nat, due: Nat, attempts: 0..MaxAttempts]
    /\ recovery.due # Never => recovery.kept /\ recovery.deadline # Never

(***************************************************************************)
(* "Closing/offloading, permissions, and a new prompt cancel pending       *)
(* recovery", and so do an explicit Stop and a normal completion           *)
(* (docs/vibing-patches.md:42-49): whatever turns are still starting or    *)
(* ending then, no retry is sent before another prompt.                    *)
(***************************************************************************)
StopHolds == [][turn = NoTurn /\ turn'.by = "retry" => ~silent]_botVars

(***************************************************************************)
(* "The bounded retry window" (docs/vibing-patches.md:44), as the code     *)
(* bounds it: between two prompts, or completions, there are MaxAttempts   *)
(* retries at most, however long turns take to start and however they end, *)
(* and as many again only for each retry that was still starting when a    *)
(* timer after its own had closed the window: it opens another one         *)
(* (bot-auto-resume.ts:116).                                               *)
(***************************************************************************)
RetriesBounded == retries <= MaxAttempts * (late + 1)

(***************************************************************************)
(* The same sentence as it reads: one window, whatever turns do in it.  It *)
(* is not so.                                                              *)
(***************************************************************************)
WindowIsBounded == retries <= MaxAttempts
=============================================================================
