----------------------------- MODULE RecordsProofs -----------------------------
(***************************************************************************)
(* Bot auto-resume, schedules and restarts: after a Stop nothing is        *)
(* retried, a window has its number of retries, the runs of a schedule     *)
(* follow one another, and what a stop interrupts is resumed once, for any *)
(* intervals, limits, workers, times, agents and stops.                    *)
(***************************************************************************)
EXTENDS BotAutoResume, Schedules, RestartRecovery, FiniteSetTheorems, WellFoundedInduction,
        TLAPS

-----------------------------------------------------------------------------
(* Bot auto-resume *)

Entry == [kept: BOOLEAN, deadline: Nat, due: Nat, attempts: 0..MaxAttempts]
Turn  == [by: {"nobody", "user", "provider", "retry"}, live: BOOLEAN, until: Nat]
Bot   == [gone: BOOLEAN, asking: BOOLEAN, stopped: BOOLEAN]

\* After a Stop or a completion nothing is left that could lead to a retry
Silence ==
    /\ silent => ~recovery.kept /\ (bot.stopped \/ turn = NoTurn)
    /\ bot.stopped => silent

BotInv == BotTypeOK /\ Silence

LEMMA Entries ==
    /\ NoRecovery \in Entry /\ ~NoRecovery.kept /\ NoRecovery.due = Never
    /\ NewEntry \in Entry /\ NewEntry.kept /\ NewEntry.due = Never /\ NewEntry.attempts = 0
    /\ NoTurn \in Turn /\ NoTurn.by = "nobody" /\ ~NoTurn.live
<1>1. 0 \in 0..MaxAttempts
  BY BotAssumption
<1>2. NoRecovery \in Entry /\ ~NoRecovery.kept /\ NoRecovery.due = Never /\ NoRecovery.attempts = 0
  BY <1>1 DEF NoRecovery, Entry, Never
<1>3. NewEntry \in Entry /\ NewEntry.kept /\ NewEntry.due = NoRecovery.due
      /\ NewEntry.attempts = NoRecovery.attempts
  BY <1>2 DEF NewEntry, Entry
<1>4. NoTurn \in Turn /\ NoTurn.by = "nobody" /\ ~NoTurn.live
  BY DEF NoTurn, Turn, Never
<1> QED
  BY <1>2, <1>3, <1>4

\* What schedule and observe make of an entry
LEMMA ScheduledIs ==
    ASSUME NEW r \in Entry, clock \in Nat, r.kept, r.deadline # Never
    PROVE  /\ Scheduled(r) \in Entry
           /\ Scheduled(r).due # Never => Scheduled(r).kept /\ Scheduled(r).deadline # Never
           /\ clock <= r.deadline => /\ Scheduled(r).kept /\ Scheduled(r).attempts = r.attempts
                                     /\ Scheduled(r).due > clock
           /\ Scheduled(r).kept => Scheduled(r).attempts = r.attempts
<1>1. CASE clock > r.deadline
  BY <1>1, Entries DEF Scheduled, Entry
<1>2. CASE ~(clock > r.deadline)
  <2> DEFINE wait == IF Interval < r.deadline - clock + 1 THEN Interval
                     ELSE r.deadline - clock + 1
  <2>1. wait \in Nat \ {0}
    BY <1>2, BotAssumption DEF Entry
  <2>2. Scheduled(r) = [r EXCEPT !.due = clock + wait]
    BY <1>2 DEF Scheduled
  <2> HIDE DEF wait
  <2> QED
    BY <1>2, <2>1, <2>2 DEF Entry
<1> QED
  BY <1>1, <1>2

LEMMA CutShortIs ==
    ASSUME NEW r \in Entry, clock \in Nat, r.due # Never => r.kept /\ r.deadline # Never
    PROVE  /\ CutShort(r) \in Entry
           /\ CutShort(r).due # Never => CutShort(r).kept /\ CutShort(r).deadline # Never
           /\ CutShort(r).kept => r.kept /\ CutShort(r).attempts = r.attempts
<1>1. CASE r.kept
  <2> DEFINE opened == [r EXCEPT !.deadline = IF @ = Never THEN clock + Window ELSE @]
  <2>1. /\ opened \in Entry /\ opened.kept /\ opened.deadline # Never
        /\ opened.attempts = r.attempts
    BY <1>1, BotAssumption DEF Entry, Never
  <2>2. CutShort(r) = Scheduled(opened)
    BY <1>1 DEF CutShort
  <2> HIDE DEF opened
  <2> QED
    BY <1>1, <2>1, <2>2, ScheduledIs
<1>2. CASE ~r.kept
  BY <1>2 DEF CutShort
<1> QED
  BY <1>1, <1>2


\* A turn that was announced, and the states of a bot
LEMMA AnnouncedIs ==
    ASSUME NEW r \in Entry
    PROVE  Announced(r) = r \/ (Announced(r) = NewEntry /\ ~r.kept /\ ~bot.stopped)
BY DEF Announced

LEMMA BotSteps ==
    ASSUME BotInv, [BotNext]_botVars
    PROVE  /\ BotInv'
           /\ turn = NoTurn /\ turn'.by = "retry" => TimerFires /\ ~silent
<1> USE DEF BotInv
<1>1. /\ clock \in Nat /\ recovery \in Entry /\ turn \in Turn /\ bot \in Bot
      /\ recovery.due # Never => recovery.kept /\ recovery.deadline # Never
      /\ clock \in 1..Horizon /\ asked \in 0..MaxPrompts /\ silent \in BOOLEAN
      /\ retries \in Nat /\ late \in Nat
  BY DEF BotTypeOK, Entry, Turn, Bot
<1> DEFINE Typed == /\ clock' \in 1..Horizon /\ asked' \in 0..MaxPrompts /\ silent' \in BOOLEAN
                    /\ retries' \in Nat /\ late' \in Nat /\ turn' \in Turn /\ bot' \in Bot
                    /\ recovery' \in Entry
                    /\ recovery'.due # Never => recovery'.kept /\ recovery'.deadline # Never
           Goal == /\ Typed /\ Silence'
                   /\ turn = NoTurn /\ turn'.by = "retry" => TimerFires /\ ~silent
<1>2. Goal => BotInv' /\ (turn = NoTurn /\ turn'.by = "retry" => TimerFires /\ ~silent)
  BY DEF BotTypeOK, Entry, Turn, Bot
<1>3. /\ bot.stopped \in BOOLEAN /\ Never = 0 /\ NoTurn.by # "retry"
      /\ \A yes \in BOOLEAN :
            /\ [bot EXCEPT !.stopped = yes] \in Bot
            /\ [bot EXCEPT !.stopped = yes].stopped = yes
      /\ [bot EXCEPT !.stopped = TRUE, !.asking = TRUE] \in Bot
      /\ [bot EXCEPT !.stopped = TRUE, !.asking = TRUE].stopped
      /\ [bot EXCEPT !.stopped = TRUE, !.gone = TRUE] \in Bot
      /\ [bot EXCEPT !.stopped = TRUE, !.gone = TRUE].stopped
      /\ [bot EXCEPT !.asking = FALSE] \in Bot
      /\ [bot EXCEPT !.asking = FALSE].stopped = bot.stopped
  BY <1>1, Entries DEF Bot, Never
<1>4. asked < MaxPrompts /\ asked' = asked + 1 => asked' \in 0..MaxPrompts
  BY <1>1, BotAssumption
<1>a. CASE BotPrompted
  <2>1. turn' \in Turn /\ turn'.by = "user"
    BY <1>a DEF BotPrompted, Turn, Never
  <2>2. bot' \in Bot /\ ~bot'.stopped /\ silent' = FALSE /\ recovery' = NoRecovery
        /\ retries' = 0 /\ late' = 0
        /\ clock' = clock /\ asked' \in 0..MaxPrompts
    BY <1>3, <1>4, <1>a DEF BotPrompted
  <2>3. Goal
    BY <1>1, <2>1, <2>2, Entries DEF Silence
  <2> QED
    BY <1>2, <2>3
<1>b. CASE TurnAnnounced
  <2>1. turn' \in Turn
    BY <1>1, <1>b DEF TurnAnnounced, Turn, Never
  <2>2. late' \in Nat
    BY <1>1, <1>b DEF TurnAnnounced
  <2>3. turn # NoTurn
    BY <1>b DEF TurnAnnounced
  <2>4. Goal
    BY <1>1, <1>b, <2>1, <2>2, <2>3, Entries, AnnouncedIs DEF TurnAnnounced, Silence
  <2> QED
    BY <1>2, <2>4
<1>c. CASE StartRejected \/ TurnInterrupted
  <2>1. /\ recovery' = recovery \/ recovery' = CutShort(recovery)
        /\ turn' = NoTurn /\ UNCHANGED <<clock, bot, silent, retries, late, asked>>
    BY <1>c DEF StartRejected, TurnInterrupted
  <2>2. Goal
    BY <1>1, <2>1, Entries, CutShortIs DEF Silence
  <2> QED
    BY <1>2, <2>2
<1>d. CASE TurnCompleted
  <2>2. Goal
    BY <1>1, <1>d, Entries DEF TurnCompleted, Silence
  <2> QED
    BY <1>2, <2>2
<1>e. CASE ProviderTurn
  <2>1. turn' \in Turn /\ turn'.by = "provider"
    BY <1>e DEF ProviderTurn, Turn, Never
  <2>3. asked' \in 0..MaxPrompts
    BY <1>4, <1>e DEF ProviderTurn
  <2>4. bot.stopped \in BOOLEAN
    BY <1>1 DEF Bot
  <2>5. recovery' = recovery \/ (recovery' = NewEntry /\ ~recovery.kept /\ ~bot.stopped)
    BY <1>1, <1>e, AnnouncedIs DEF ProviderTurn
  <2>6. Silence'
    <3>1. silent' = bot.stopped /\ bot' = bot
      BY <1>e DEF ProviderTurn
    <3>2. bot.stopped => ~recovery.kept
      BY DEF Silence
    <3> QED
      BY <2>4, <2>5, <3>1, <3>2 DEF Silence
  <2>2. Goal
    BY <1>1, <1>e, <2>1, <2>3, <2>4, <2>5, <2>6, Entries DEF ProviderTurn
  <2> QED
    BY <1>2, <2>2
<1>f. CASE BotStopped \/ BotGone
  <2>2. Goal
    BY <1>1, <1>3, <1>f, Entries DEF BotStopped, BotGone, Silence
  <2> QED
    BY <1>2, <2>2
<1>g. CASE AsksPermission
  <2>1. bot' \in Bot /\ bot'.stopped /\ silent' /\ recovery' = NoRecovery
        /\ UNCHANGED <<clock, turn, retries, late>> /\ asked' \in 0..MaxPrompts /\ turn.live
    BY <1>3, <1>4, <1>g DEF AsksPermission
  <2>2. Goal
    BY <1>1, <2>1, Entries DEF Silence
  <2> QED
    BY <1>2, <2>2
<1>h. CASE PermissionSettled
  <2>2. Goal
    BY <1>1, <1>3, <1>h, Entries DEF PermissionSettled, Silence
  <2> QED
    BY <1>2, <2>2
<1>i. CASE Tick
  <2>2. Goal
    BY <1>1, <1>i, Entries, BotAssumption DEF Tick, Silence
  <2> QED
    BY <1>2, <2>2
<1>j. CASE TimerFires
  <2> HIDE DEF Goal, Typed
  <2>1. recovery.kept /\ ~silent /\ recovery.due # Never /\ recovery.deadline # Never
    BY <1>1, <1>j DEF TimerFires, Silence, Never
  <2>2. UNCHANGED <<clock, bot, silent, late, asked>>
    BY <1>j DEF TimerFires
  <2>3. /\ turn' \in Turn /\ retries' \in Nat
    <3> DEFINE retry == [by |-> "retry", live |-> FALSE, until |-> Scheduled(recovery).due]
    <3>0. Scheduled(recovery) \in Entry
      BY <1>1, <2>1, ScheduledIs
    <3>1. retry \in Turn
      BY <3>0 DEF Turn, Entry
    <3>2. \/ turn' = turn /\ retries' = retries
          \/ turn' = retry /\ retries' = retries + 1
      BY <1>j DEF TimerFires
    <3> HIDE DEF retry
    <3> QED
      BY <1>1, <3>1, <3>2
  <2>4. /\ recovery' \in Entry
        /\ recovery'.due # Never => recovery'.kept /\ recovery'.deadline # Never
    <3> DEFINE again == Scheduled(recovery)
    <3>1. /\ again \in Entry
          /\ again.due # Never => again.kept /\ again.deadline # Never
          /\ again.kept => again.attempts = recovery.attempts
          /\ clock <= recovery.deadline => again.kept
      BY <1>1, <2>1, ScheduledIs
    <3> HIDE DEF again
    <3> DEFINE counted == [again EXCEPT !.attempts = @ + 1]
    <3>2. clock <= recovery.deadline /\ recovery.attempts < MaxAttempts =>
             counted \in Entry /\ counted.due = again.due /\ counted.kept
             /\ counted.deadline = again.deadline
      <4> SUFFICES ASSUME clock <= recovery.deadline, recovery.attempts < MaxAttempts
                   PROVE  counted \in Entry /\ counted.due = again.due /\ counted.kept
                          /\ counted.deadline = again.deadline
        OBVIOUS
      <4>1. again.attempts + 1 \in 0..MaxAttempts
        BY <1>1, <3>1, BotAssumption DEF Entry
      <4> DEFINE count == again.attempts + 1
      <4>2. counted = [again EXCEPT !.attempts = count] /\ count \in 0..MaxAttempts
        BY <3>1, <4>1 DEF Entry
      <4>3. MaxAttempts \in Nat
        BY BotAssumption
      <4>4. again \in Entry /\ again.kept
        BY <3>1
      <4> HIDE DEF count, counted
      <4> QED
        BY <4>4, <4>2, <4>3 DEF Entry
    <3>3. \/ recovery' = NoRecovery
          \/ recovery' = again
          \/ recovery' = counted /\ clock <= recovery.deadline /\ recovery.attempts < MaxAttempts
      BY <1>j DEF TimerFires, again
    <3> HIDE DEF counted
    <3>4. CASE recovery' = counted /\ clock <= recovery.deadline /\ recovery.attempts < MaxAttempts
      BY <3>1, <3>2, <3>4
    <3>5. CASE recovery' = again
      BY <3>1, <3>5
    <3>6. CASE recovery' = NoRecovery
      BY <3>6, Entries
    <3> QED
      BY <3>3, <3>4, <3>5, <3>6
  <2>5. Goal
    BY <1>1, <1>j, <2>1, <2>2, <2>3, <2>4 DEF Silence, Goal, Typed
  <2> QED
    BY <1>2, <2>5
<1>k. CASE UNCHANGED botVars
  <2>2. Goal
    BY <1>1, <1>k, Entries DEF botVars, Silence
  <2> QED
    BY <1>2, <2>2
<1> QED
  BY <1>a, <1>b, <1>c, <1>d, <1>e, <1>f, <1>g, <1>h, <1>i, <1>j, <1>k DEF BotNext

(***************************************************************************)
(* The number of retries: an entry counts those since it was opened, and a *)
(* further one is opened only for a retry that is late, since the entry of *)
(* a retry stays until the timer that was set with it runs out.            *)
(***************************************************************************)
Starting == turn # NoTurn /\ ~turn.live
Counted ==
    /\ RetriesBounded
    /\ recovery.kept => retries <= recovery.attempts + MaxAttempts * late
    /\ Starting => turn.by \in {"user", "retry"}
    /\ Starting /\ turn.by = "user" => retries = 0
    /\ Starting /\ turn.by = "retry" /\ clock < turn.until /\ ~bot.stopped =>
          recovery.kept /\ recovery.due = turn.until

\* One more window
LEMMA OneMore ==
    ASSUME NEW k \in Nat, NEW n \in Nat
    PROVE  /\ k * n \in Nat /\ k * (n + 1) \in Nat
           /\ k * (n + 1) = k * n + k /\ k * (n + 1) <= k * ((n + 1) + 1)
OBVIOUS

LEMMA CountedSteps ==
    ASSUME BotInv, Counted, [BotNext]_botVars
    PROVE  Counted'
<1>1. /\ clock \in Nat /\ recovery \in Entry /\ turn \in Turn /\ bot \in Bot
      /\ recovery.due # Never => recovery.kept /\ recovery.deadline # Never
      /\ retries \in Nat /\ late \in Nat /\ MaxAttempts \in Nat /\ recovery.attempts \in Nat
      /\ recovery.attempts <= MaxAttempts /\ recovery.due \in Nat
  BY BotAssumption DEF BotInv, BotTypeOK, Entry, Turn, Bot
<1> DEFINE few  == MaxAttempts * late
           many == MaxAttempts * (late + 1)
<1>m. few \in Nat /\ many \in Nat /\ many = few + MaxAttempts /\ 0 <= MaxAttempts * (0 + 1)
  BY <1>1, OneMore
<1>n. ASSUME late' = late
      PROVE  MaxAttempts * late' = few /\ MaxAttempts * (late' + 1) = many
  BY <1>n
<1>o. ASSUME late' = 0, retries' = 0
      PROVE  /\ RetriesBounded' /\ MaxAttempts * late' = 0
             /\ \A k \in Nat : retries' <= k + MaxAttempts * late'
  BY <1>1, <1>o DEF RetriesBounded
<1>p. retries <= many /\ (recovery.kept => retries <= recovery.attempts + few)
  BY DEF Counted, RetriesBounded
<1>q. NoTurn.by = "nobody" /\ ~NoRecovery.kept /\ NewEntry.attempts = 0
  BY Entries
<1> HIDE DEF few, many
<1>2. CASE BotPrompted
  <2>1. recovery' = NoRecovery /\ retries' = 0 /\ late' = 0 /\ turn'.by = "user"
    BY <1>2 DEF BotPrompted
  <2> QED
    BY <1>o, <1>q, <2>1 DEF Counted
<1>3. CASE TurnAnnounced
  <2>1. /\ ~Starting' /\ UNCHANGED <<clock, bot, retries>> /\ Starting
        /\ recovery' = Announced(recovery) /\ late' = IF IsLate THEN late + 1 ELSE late
    BY <1>1, <1>3 DEF TurnAnnounced, Starting, Turn
  <2>2. CASE IsLate
    <3>1. late' = late + 1 /\ ~recovery.kept
      BY <2>1, <2>2 DEF IsLate
    <3>2. MaxAttempts * late' = many /\ many <= MaxAttempts * (late' + 1)
      BY <1>1, <3>1, OneMore DEF many
    <3>3. RetriesBounded'
      <4>1. MaxAttempts * (late' + 1) \in Nat
        BY <1>1, <3>1
      <4> QED
        BY <1>1, <1>m, <1>p, <2>1, <3>2, <4>1 DEF RetriesBounded
    <3>4. recovery'.kept => recovery'.attempts = 0
      BY <1>1, <1>q, <2>1, <3>1, AnnouncedIs
    <3> QED
      BY <1>1, <1>m, <1>p, <2>1, <3>2, <3>3, <3>4 DEF Counted
  <2>3. CASE ~IsLate
    <3>1. late' = late
      BY <2>1, <2>3
    <3>2. CASE recovery' = recovery
      BY <1>1, <1>n, <1>m, <1>p, <2>1, <3>1, <3>2 DEF Counted, RetriesBounded, few, many
    <3>3. CASE recovery' = NewEntry /\ ~recovery.kept /\ ~bot.stopped
      <4>1. turn.by # "retry"
        <5> SUFFICES ASSUME turn.by = "retry" PROVE FALSE
          OBVIOUS
        <5>1. clock < turn.until
          BY <1>1, <2>3, <3>3 DEF IsLate, Turn
        <5> QED
          BY <2>1, <3>3, <5>1 DEF Counted
      <4>2. retries = 0
        BY <2>1, <4>1 DEF Counted
      <4> QED
        BY <1>1, <1>n, <1>m, <1>p, <1>q, <2>1, <3>1, <3>3, <4>2
        DEF Counted, RetriesBounded, few, many
    <3> QED
      BY <1>1, <2>1, <3>2, <3>3, AnnouncedIs
  <2> QED
    BY <2>2, <2>3
<1>4. CASE StartRejected \/ TurnInterrupted
  <2>1. /\ recovery' = recovery \/ recovery' = CutShort(recovery)
        /\ turn' = NoTurn /\ UNCHANGED <<clock, bot, retries, late>>
    BY <1>4 DEF StartRejected, TurnInterrupted
  <2>2. recovery'.kept => recovery.kept /\ recovery'.attempts = recovery.attempts
    BY <1>1, <2>1, CutShortIs
  <2>3. RetriesBounded' /\ ~Starting'
    BY <2>1 DEF Counted, RetriesBounded, Starting
  <2> QED
    BY <1>p, <2>1, <2>2, <2>3 DEF Counted, few
<1>5. CASE TurnCompleted
  <2>1. recovery' = NoRecovery /\ retries' = 0 /\ late' = 0 /\ turn' = NoTurn
    BY <1>5 DEF TurnCompleted
  <2> QED
    BY <1>o, <1>q, <2>1 DEF Counted, Starting
<1>6. CASE ProviderTurn
  <2>1. ~Starting' /\ retries' = 0 /\ late' = 0 /\ recovery' = Announced(recovery)
    BY <1>6 DEF ProviderTurn, Starting
  <2>2. recovery'.attempts \in Nat
    BY <1>1, <1>q, <2>1, AnnouncedIs
  <2> QED
    BY <1>o, <2>1, <2>2 DEF Counted
<1>7. CASE BotStopped \/ AsksPermission \/ BotGone
  <2>1. /\ recovery' = NoRecovery /\ bot'.stopped /\ retries' = retries /\ late' = late
        /\ turn' = turn \/ turn' = NoTurn
    BY <1>1, <1>7 DEF BotStopped, AsksPermission, BotGone, Bot
  <2>2. RetriesBounded' /\ (Starting' => Starting /\ turn' = turn)
    BY <2>1 DEF Counted, RetriesBounded, Starting
  <2> QED
    BY <1>q, <2>1, <2>2 DEF Counted
<1>8. CASE PermissionSettled
  <2>1. bot'.stopped = bot.stopped /\ UNCHANGED <<clock, turn, recovery, retries, late>>
    BY <1>1, <1>8 DEF PermissionSettled, Bot
  <2> QED
    BY <2>1 DEF Counted, Starting, RetriesBounded
<1>9. CASE Tick
  <2>1. clock' = clock + 1 /\ UNCHANGED <<turn, bot, recovery, retries, late>>
    BY <1>9 DEF Tick
  <2>2. RetriesBounded' /\ (Starting' <=> Starting)
    BY <2>1 DEF Counted, RetriesBounded, Starting
  <2>3. turn.until \in Nat /\ (clock' < turn.until => clock < turn.until)
    BY <1>1, <2>1 DEF Turn
  <2> QED
    BY <2>1, <2>2, <2>3 DEF Counted
<1>10. CASE TimerFires
  <2>1. /\ recovery.kept /\ recovery.due = clock /\ recovery.deadline # Never
        /\ clock' = clock /\ bot' = bot /\ late' = late
    BY <1>1, <1>10 DEF TimerFires, BotTypeOK, BotInv, Never
  <2> DEFINE again == Scheduled(recovery)
             counted == [again EXCEPT !.attempts = @ + 1]
  <2>2. /\ again \in Entry
        /\ clock <= recovery.deadline => /\ again.kept /\ again.attempts = recovery.attempts
                                         /\ again.due > clock
    BY <1>1, <2>1, ScheduledIs
  <2>9. Starting /\ turn.by = "retry" /\ ~bot.stopped => ~(clock < turn.until)
    BY <1>1, <2>1 DEF Counted, Turn
  <2> HIDE DEF again
  <2>3. CASE recovery' = NoRecovery /\ UNCHANGED <<turn, retries>>
    <3>1. RetriesBounded' /\ (Starting' <=> Starting)
      BY <2>1, <2>3 DEF Counted, RetriesBounded, Starting
    <3> QED
      BY <1>q, <2>1, <2>3, <2>9, <3>1 DEF Counted
  <2>4. CASE recovery' = again /\ clock <= recovery.deadline /\ UNCHANGED <<turn, retries>>
    <3>1. RetriesBounded' /\ (Starting' <=> Starting)
      BY <2>1, <2>4 DEF Counted, RetriesBounded, Starting
    <3> QED
      BY <2>1, <2>2, <2>4, <2>9, <3>1 DEF Counted
  <2>5. CASE /\ recovery' = counted /\ clock <= recovery.deadline /\ retries' = retries + 1
             /\ recovery.attempts < MaxAttempts
             /\ turn' = [by |-> "retry", live |-> FALSE, until |-> again.due]
    <3>1. /\ counted.kept /\ counted.due = again.due
          /\ counted.attempts = again.attempts + 1
      BY <2>2, <2>5 DEF Entry
    <3>2. /\ recovery'.kept /\ recovery'.due = turn'.until /\ turn'.by = "retry"
          /\ recovery'.attempts = recovery.attempts + 1
      BY <2>2, <2>5, <3>1
    <3>3. retries' <= recovery'.attempts + few /\ retries' <= many
      BY <1>1, <1>m, <1>p, <2>1, <2>5, <3>2
    <3>4. RetriesBounded'
      BY <2>1, <3>3 DEF RetriesBounded, many
    <3> QED
      BY <2>1, <3>2, <3>3, <3>4 DEF Counted, few
  <2> QED
    BY <1>10, <2>3, <2>4, <2>5 DEF TimerFires, again
<1>11. CASE UNCHANGED botVars
  BY <1>11 DEF botVars, Counted, Starting, RetriesBounded
<1> QED
  BY <1>2, <1>3, <1>4, <1>5, <1>6, <1>7, <1>8, <1>9, <1>10, <1>11 DEF BotNext

LEMMA InitBot == BotInit => BotInv /\ Counted
<1> SUFFICES ASSUME BotInit PROVE BotInv /\ Counted
  OBVIOUS
<1>1. clock \in 1..Horizon
  <2> SUFFICES 1 \in 1..Horizon
    BY DEF BotInit
  <2> QED
    BY BotAssumption
<1>2. BotInv
  BY <1>1, Entries, BotAssumption DEF BotInit, BotInv, BotTypeOK, Silence, Entry, Turn
<1>3. RetriesBounded
  BY BotAssumption DEF BotInit, RetriesBounded
<1> QED
  BY <1>2, <1>3, Entries DEF BotInit, Counted, Starting

(***************************************************************************)
(* "Closing/offloading, permissions, and a new prompt cancel pending       *)
(* recovery" (docs/vibing-patches.md:42-49), with a Stop and a completion: *)
(* none of them leaves an entry or a turn that could lead to a retry.      *)
(***************************************************************************)
THEOREM StopHoldsAlways == BotSpec => StopHolds
<1>1. BotInit => BotInv
  BY InitBot
<1>2. BotInv /\ [BotNext]_botVars => BotInv'
  BY BotSteps
<1>3. BotInv /\ [BotNext]_botVars => [turn = NoTurn /\ turn'.by = "retry" => ~silent]_botVars
  BY BotSteps
<1> QED
  BY <1>1, <1>2, <1>3, PTL DEF BotSpec, StopHolds

(***************************************************************************)
(* "The bounded retry window" (docs/vibing-patches.md:44), whatever the    *)
(* interval and the window, however turns end and however long they take   *)
(* to start: MaxAttempts retries follow a prompt, and as many again only   *)
(* for each retry that was starting until a later timer closed its window. *)
(***************************************************************************)
THEOREM RetriesBoundedHolds == BotSpec => []RetriesBounded
<1>1. BotInit => BotInv /\ Counted
  BY InitBot
<1>2. BotInv /\ Counted /\ [BotNext]_botVars => (BotInv /\ Counted)'
  BY BotSteps, CountedSteps
<1>3. BotInv /\ Counted => RetriesBounded
  BY DEF Counted
<1> QED
  BY <1>1, <1>2, <1>3, PTL DEF BotSpec

-----------------------------------------------------------------------------
(* Schedules *)

LEMMA LeastIndex ==
    ASSUME NEW S \in SUBSET Nat, S # {}
    PROVE  \E n \in S : \A m \in S : n <= m
<1> DEFINE Less == OpToRel(<, Nat)
<1>1. IsWellFoundedOn(Less, Nat)
  BY NatLessThanWellFounded
<1> HIDE DEF Less
<1>2. PICK n \in S : \A m \in S : ~(<<m, n>> \in Less)
  BY <1>1, WFMin
<1>3. \A m \in Nat, k \in Nat : m < k => <<m, k>> \in Less
  BY DEF Less, OpToRel
<1>4. ASSUME NEW m \in S PROVE n <= m
  <2>1. m \in Nat /\ n \in Nat /\ ~(m < n)
    BY <1>2, <1>3
  <2> QED
    BY <2>1
<1> QED
  BY <1>4

\* A slot that is computed lies behind the time it is computed from
LEMMA SlotsAreLater ==
    ASSUME NEW cadence \in Cadences, NEW slot \in Nat, NEW now \in Nat
    PROVE  /\ SlotAfter(cadence, now) \in Nat /\ SlotAfter(cadence, now) > now
           /\ AdvancedPast(cadence, slot, now) \in Nat
           /\ AdvancedPast(cadence, slot, now) > now
           /\ AdvancedPast(cadence, slot, now) # Unplanned
           /\ SlotAfter(cadence, now) # Unplanned
<1>1. cadence \in Nat \ {0}
  BY SchedulesAssumption
<1>2. (now \div cadence + 1) * cadence \in Nat /\ (now \div cadence + 1) * cadence > now
  BY <1>1
<1> QED
  BY <1>2 DEF SlotAfter, AdvancedPast, Unplanned

\* A claimed slot is followed by a later one
LEMMA NextClaimIsLater ==
    ASSUME NEW cadence \in Cadences, NEW slot \in Nat, NEW now \in Nat, slot <= now
    PROVE  /\ AdvancedPast(cadence, SlotAfter(cadence, slot), now) \in Nat
           /\ AdvancedPast(cadence, SlotAfter(cadence, slot), now) > now
BY SlotsAreLater

\* Nothing but the ends of runs differs
SameRuns(s, t) ==
    /\ Len(t.runs) = Len(s.runs)
    /\ \A i \in 1..Len(s.runs) : /\ t.runs[i].slot = s.runs[i].slot
                                 /\ t.runs[i].started = s.runs[i].started
                                 /\ t.runs[i].byTick = s.runs[i].byTick

LEMMA RunsTyped ==
    ASSUME NEW s \in Schedule
    PROVE  /\ s.runs \in Seq(OneRun) /\ Len(s.runs) \in Nat /\ DOMAIN s.runs = 1..Len(s.runs)
           /\ \A i \in 1..Len(s.runs) :
                 /\ s.runs[i] \in OneRun /\ s.runs[i].slot \in Nat /\ s.runs[i].slot >= 1
                 /\ s.runs[i].started \in Nat /\ s.runs[i].ended \in BOOLEAN
                 /\ s.runs[i].byTick \in BOOLEAN
           /\ s.next \in Nat /\ s.cadence \in Cadences /\ s.limit \in RunLimits
           /\ s.expires \in Expiries /\ s.status \in {"active", "paused", "completed"}
<1>1. /\ s.runs \in Seq(OneRun)
      /\ s.next \in Nat /\ s.cadence \in Cadences /\ s.limit \in RunLimits
      /\ s.expires \in Expiries /\ s.status \in {"active", "paused", "completed"}
  BY DEF Schedule
<1>2. \A r \in OneRun : /\ r.slot \in 1..LastMoment /\ r.started \in 1..LastMoment
                        /\ r.ended \in BOOLEAN /\ r.byTick \in BOOLEAN
  BY DEF OneRun
<1>3. /\ Len(s.runs) \in Nat /\ DOMAIN s.runs = 1..Len(s.runs)
      /\ \A i \in 1..Len(s.runs) : s.runs[i] \in OneRun
  BY <1>1
<1>4. ASSUME NEW i \in 1..Len(s.runs)
      PROVE  /\ s.runs[i].slot \in Nat /\ s.runs[i].slot >= 1 /\ s.runs[i].started \in Nat
             /\ s.runs[i].ended \in BOOLEAN /\ s.runs[i].byTick \in BOOLEAN
  <2>1. s.runs[i] \in OneRun
    BY <1>3
  <2>2. s.runs[i].slot \in 1..LastMoment /\ s.runs[i].started \in 1..LastMoment
        /\ s.runs[i].ended \in BOOLEAN /\ s.runs[i].byTick \in BOOLEAN
    BY <1>2, <2>1
  <2> QED
    BY <2>2, SchedulesAssumption
<1> QED
  BY <1>1, <1>3, <1>4

\* The end of one run
LEMMA EndsRun ==
    ASSUME NEW s \in Schedule, NEW i \in 1..Len(s.runs)
    PROVE  LET t == [s EXCEPT !.runs[i].ended = TRUE] IN
           /\ t \in Schedule /\ SameRuns(s, t)
           /\ t.next = s.next /\ t.status = s.status /\ t.cadence = s.cadence
           /\ t.limit = s.limit /\ t.expires = s.expires
           /\ ~s.runs[i].ended => EndedRuns(t) = EndedRuns(s) + 1
<1> DEFINE run  == [s.runs[i] EXCEPT !.ended = TRUE]
           list == [s.runs EXCEPT ![i] = run]
           t    == [s EXCEPT !.runs = list]
<1>1. [s EXCEPT !.runs[i].ended = TRUE] = t
  BY DEF Schedule
<1>2. /\ run \in OneRun /\ run.ended /\ run.slot = s.runs[i].slot
      /\ run.started = s.runs[i].started /\ run.byTick = s.runs[i].byTick
  <2>1. s.runs[i] \in OneRun
    BY RunsTyped
  <2> QED
    BY <2>1 DEF OneRun
<1> HIDE DEF run
<1>3. /\ list \in Seq(OneRun) /\ Len(list) = Len(s.runs) /\ list[i] = run
      /\ \A j \in 1..Len(s.runs) : j # i => list[j] = s.runs[j]
  BY <1>2, RunsTyped
<1> HIDE DEF list
<1>4. /\ t \in Schedule /\ t.runs = list /\ t.next = s.next /\ t.status = s.status
      /\ t.cadence = s.cadence /\ t.limit = s.limit /\ t.expires = s.expires
  BY <1>3 DEF Schedule
<1> HIDE DEF t
<1>5. SameRuns(s, t)
  BY <1>2, <1>3, <1>4 DEF SameRuns
<1>6. ASSUME ~s.runs[i].ended PROVE EndedRuns(t) = EndedRuns(s) + 1
  <2>1. Ended(t) = Ended(s) \cup {i} /\ i \notin Ended(s)
    <3>1. DOMAIN t.runs = 1..Len(s.runs) /\ DOMAIN s.runs = 1..Len(s.runs)
      BY <1>3, <1>4, RunsTyped
    <3>2. \A j \in 1..Len(s.runs) : t.runs[j].ended <=> (s.runs[j].ended \/ j = i)
      BY <1>2, <1>3, <1>4
    <3>3. Ended(t) = {j \in 1..Len(s.runs) : t.runs[j].ended}
      BY <3>1 DEF Ended
    <3>4. Ended(s) = {j \in 1..Len(s.runs) : s.runs[j].ended}
      BY <3>1 DEF Ended
    <3> QED
      BY <1>6, <3>2, <3>3, <3>4
  <2>2. IsFiniteSet(1..Len(s.runs)) /\ Ended(s) \in SUBSET (1..Len(s.runs))
    <3>1. 1 \in Int /\ Len(s.runs) \in Int /\ DOMAIN s.runs = 1..Len(s.runs)
      BY RunsTyped
    <3>2. IsFiniteSet(1..Len(s.runs))
      BY <3>1, FS_Interval
    <3>3. Ended(s) \in SUBSET (DOMAIN s.runs)
      BY DEF Ended
    <3> QED
      BY <3>1, <3>2, <3>3
  <2>3. IsFiniteSet(Ended(s))
    BY <2>2, FS_Subset
  <2> QED
    BY <2>1, <2>3, FS_AddElement DEF EndedRuns
<1> QED
  BY <1>1, <1>4, <1>5, <1>6

-----------------------------------------------------------------------------
(* What holds of the workers, of the schedule, and of one that has no next slot *)
Engaged(w)  == workers[w].at \in {"running", "failing"}
Busy(w)     == workers[w].at \in {"starting", "running", "failing"}
AllWorkers  == Ticks \cup Demands

WorkersOK ==
    /\ \A w \in AllWorkers :
          /\ workers[w].now <= moment
          /\ Busy(w) => reserved
          /\ Engaged(w) /\ Exists => /\ workers[w].run \in 1..Len(schedule.runs)
                                     /\ ~schedule.runs[workers[w].run].ended
          /\ service # "ticking" => workers[w].at = "resting"
    /\ \A v, w \in AllWorkers : Busy(v) /\ Busy(w) => v = w

Orderly(s, time, from) ==
    /\ Len(s.runs) <= MaxRuns
    /\ s.next # Unplanned => s.status = "active"
    /\ \A i \in 1..Len(s.runs) :
          /\ s.runs[i].slot <= s.runs[i].started /\ s.runs[i].started <= time
          /\ i > from /\ s.runs[i].byTick =>
                /\ s.next # Unplanned => s.runs[i].slot < s.next
                /\ \A j \in i + 1..Len(s.runs) :
                      s.runs[j].byTick => s.runs[i].slot < s.runs[j].slot

\* Its last run goes on, or was cut off by the stop
Awake ==
    schedule.status = "active" /\ schedule.next = Unplanned /\ ~lapsed =>
       \/ service = "ticking" /\ \E w \in Ticks : Engaged(w)
       \/ /\ service = "down" /\ schedule.limit # Unlimited
          /\ EndedRuns(schedule) + 1 >= schedule.limit /\ Unended(schedule) # {}

ScheduleInv ==
    /\ ScheduleTypeOK /\ WorkersOK
    /\ Exists => Orderly(schedule, moment, renewed) /\ Awake

\* A worker with the file's contents left or changed under it
LEMMA OrderlyAgain ==
    ASSUME NEW s \in Schedule, NEW t \in Schedule, SameRuns(s, t),
           NEW time \in Nat, NEW from \in Nat, NEW since \in Nat, Orderly(s, time, from),
           t.next # Unplanned => t.status = "active",
           \/ since = from /\ (t.next = Unplanned \/ t.next = s.next \/ t.next > time)
           \/ since = Len(s.runs)
    PROVE  Orderly(t, time, since)
<1>1. /\ Len(s.runs) \in Nat /\ s.next \in Nat /\ t.next \in Nat
      /\ \A i \in 1..Len(s.runs) : s.runs[i].slot \in Nat /\ s.runs[i].started \in Nat
  BY RunsTyped
<1>2. Len(t.runs) = Len(s.runs) /\ Len(t.runs) <= MaxRuns
  BY DEF SameRuns, Orderly
<1>3. ASSUME NEW i \in 1..Len(s.runs)
      PROVE  /\ t.runs[i].slot <= t.runs[i].started /\ t.runs[i].started <= time
             /\ i > since /\ t.runs[i].byTick =>
                   /\ t.next # Unplanned => t.runs[i].slot < t.next
                   /\ \A j \in i + 1..Len(s.runs) :
                         t.runs[j].byTick => t.runs[i].slot < t.runs[j].slot
  <2>1. /\ t.runs[i].slot = s.runs[i].slot /\ t.runs[i].started = s.runs[i].started
        /\ t.runs[i].byTick = s.runs[i].byTick
        /\ s.runs[i].slot <= s.runs[i].started /\ s.runs[i].started <= time
        /\ s.runs[i].slot \in Nat /\ s.runs[i].started \in Nat
    BY <1>1 DEF SameRuns, Orderly
  <2>2. CASE since = Len(s.runs)
    BY <1>1, <2>1, <2>2
  <2>3. CASE since = from /\ (t.next = Unplanned \/ t.next = s.next \/ t.next > time)
    <3> SUFFICES ASSUME i > since, t.runs[i].byTick
                 PROVE  /\ t.next # Unplanned => t.runs[i].slot < t.next
                        /\ \A j \in i + 1..Len(s.runs) :
                              t.runs[j].byTick => t.runs[i].slot < t.runs[j].slot
      BY <2>1
    <3>1. /\ s.next # Unplanned => s.runs[i].slot < s.next
          /\ \A j \in i + 1..Len(s.runs) : s.runs[j].byTick => s.runs[i].slot < s.runs[j].slot
      BY <2>1, <2>3 DEF Orderly
    <3>2. t.next # Unplanned => t.runs[i].slot < t.next
      BY <1>1, <2>1, <2>3, <3>1
    <3>3. ASSUME NEW j \in i + 1..Len(s.runs), t.runs[j].byTick
          PROVE  t.runs[i].slot < t.runs[j].slot
      <4>1. j \in 1..Len(s.runs)
        BY <1>1
      <4>2. t.runs[j].slot = s.runs[j].slot /\ s.runs[j].byTick
        BY <3>3, <4>1 DEF SameRuns
      <4> QED
        BY <2>1, <3>1, <4>2
    <3> QED
      BY <3>2, <3>3
  <2> QED
    BY <2>2, <2>3
<1> QED
  BY <1>2, <1>3 DEF Orderly

LEMMA SameRunsItself == ASSUME NEW s, NEW t, t.runs = s.runs PROVE SameRuns(s, t)
BY DEF SameRuns

LEMMA CompletedIs ==
    ASSUME NEW s \in Schedule
    PROVE  /\ CompletedNow(s) \in Schedule /\ CompletedNow(s).runs = s.runs
           /\ CompletedNow(s).next = Unplanned /\ CompletedNow(s).status = "completed"
BY DEF CompletedNow, Schedule, Unplanned

LEMMA WorkersTyped ==
    ASSUME ScheduleTypeOK, NEW w \in AllWorkers
    PROVE  /\ workers \in [AllWorkers -> Worker] /\ workers[w] \in Worker
           /\ workers[w].now \in Nat /\ workers[w].now \in 1..LastMoment
           /\ workers[w].run \in Nat /\ moment \in Nat /\ moment \in 1..LastMoment
           /\ renewed \in Nat
           /\ Resting \in Worker /\ Resting.now = 1 /\ Resting.at = "resting"
<1>1. workers \in [AllWorkers -> Worker] /\ workers[w] \in Worker
  BY DEF ScheduleTypeOK, AllWorkers
<1>2. workers[w].now \in 1..LastMoment /\ workers[w].run \in 0..MaxRuns
  BY <1>1 DEF Worker
<1>3. LastMoment \in Nat \ {0} /\ MaxRuns \in Nat
  BY SchedulesAssumption
<1>4. 1 \in 1..LastMoment /\ 0 \in 0..MaxRuns
  BY <1>3
<1>5. Resting \in Worker /\ Resting.now = 1 /\ Resting.at = "resting"
  BY <1>4 DEF Resting, Worker
<1>6. moment \in 1..LastMoment /\ renewed \in 0..MaxRuns
  BY DEF ScheduleTypeOK
<1> QED
  BY <1>1, <1>2, <1>3, <1>5, <1>6

\* A step of one worker
LEMMA WorkerStep ==
    ASSUME ScheduleTypeOK, WorkersOK, NEW w \in AllWorkers, NEW new \in Worker,
           workers' = [workers EXCEPT ![w] = new], new.now <= moment,
           moment' = moment, service' = service, service = "ticking",
           new.at \in {"starting", "running", "failing"} =>
              reserved' /\ \A v \in AllWorkers \ {w} : ~Busy(v),
           \A v \in AllWorkers \ {w} : Busy(v) => reserved',
           \A v \in AllWorkers \ {w} : Engaged(v) /\ schedule' # Deleted =>
              schedule # Deleted /\ schedule'.runs = schedule.runs,
           new.at \in {"running", "failing"} /\ schedule' # Deleted =>
              new.run \in 1..Len(schedule'.runs) /\ ~schedule'.runs[new.run].ended
    PROVE  WorkersOK'
<1>1. workers \in [AllWorkers -> Worker]
  BY DEF ScheduleTypeOK, AllWorkers
<1>2. workers'[w] = new /\ \A v \in AllWorkers \ {w} : workers'[v] = workers[v]
  BY <1>1
<1>3. ASSUME NEW v \in AllWorkers
      PROVE  /\ workers'[v].now <= moment'
             /\ Busy(v)' => reserved'
             /\ Engaged(v)' /\ Exists' => /\ workers'[v].run \in 1..Len(schedule'.runs)
                                          /\ ~schedule'.runs[workers'[v].run].ended
             /\ service' # "ticking" => workers'[v].at = "resting"
  <2>1. CASE v = w
    BY <1>2, <2>1 DEF Busy, Engaged, Exists
  <2>2. CASE v # w
    BY <1>2, <2>2 DEF Busy, Engaged, Exists, WorkersOK
  <2> QED
    BY <2>1, <2>2
<1>4. ASSUME NEW u \in AllWorkers, NEW v \in AllWorkers, Busy(u)', Busy(v)' PROVE u = v
  BY <1>2, <1>4 DEF Busy, WorkersOK
<1> QED
  BY <1>3, <1>4 DEF WorkersOK, AllWorkers

\* What of an invariant a step of a worker has to show
LEMMA ScheduleKept ==
    ASSUME ScheduleInv, NEW w \in AllWorkers, NEW new \in Worker,
           workers' = [workers EXCEPT ![w] = new], WorkersOK',
           UNCHANGED <<moment, service, target, renewed>>,
           reserved' \in BOOLEAN, lapsed' \in BOOLEAN, events' \in 0..MaxEvents,
           schedule' \in Schedule \cup {Deleted},
           Exists' => Orderly(schedule, moment, renewed)' /\ Awake'
    PROVE  ScheduleInv'
<1>1. workers' \in [AllWorkers -> Worker]
  BY WorkersTyped DEF ScheduleInv
<1> QED
  BY <1>1 DEF ScheduleInv, ScheduleTypeOK, AllWorkers

\* A run is entered: the clock's own takes the slot that was next
LEMMA AppendsOne ==
    ASSUME NEW s \in Schedule, NEW run \in OneRun, NEW next \in Nat,
           NEW time \in Nat, NEW from \in Nat, Orderly(s, time, from), Len(s.runs) < MaxRuns,
           run.slot <= run.started, run.started <= time,
           next # Unplanned => s.status = "active",
           run.byTick => s.next # Unplanned /\ run.slot = s.next
                         /\ (next # Unplanned => run.slot < next),
           ~run.byTick => next = s.next,
           NEW t, t.runs = Append(s.runs, run), t.next = next, t.status = s.status
    PROVE  /\ Orderly(t, time, from)
           /\ Len(t.runs) = Len(s.runs) + 1 /\ t.runs[Len(s.runs) + 1] = run
<1> DEFINE list == Append(s.runs, run)
           n    == Len(s.runs)
<1>2. /\ n \in Nat /\ s.runs \in Seq(OneRun) /\ s.next \in Nat /\ run.slot \in Nat
      /\ run.started \in Nat
      /\ \A i \in 1..n : s.runs[i].slot \in Nat /\ s.runs[i].started \in Nat
  <2>1. run.slot \in 1..LastMoment /\ run.started \in 1..LastMoment
    BY DEF OneRun
  <2> QED
    BY <2>1, RunsTyped, SchedulesAssumption
<1>1. t.runs = list
  OBVIOUS
<1>3. /\ list \in Seq(OneRun) /\ Len(list) = n + 1 /\ list[n + 1] = run
      /\ \A i \in 1..n : list[i] = s.runs[i]
  BY <1>2
<1> HIDE DEF list
<1>4. t.runs = list /\ t.next = next /\ t.status = s.status
  BY <1>1
<1> HIDE DEF n
<1>5. n < MaxRuns /\ MaxRuns \in Nat
  BY SchedulesAssumption DEF n
<1>6. ASSUME NEW i \in 1..n
      PROVE  /\ s.runs[i].slot <= s.runs[i].started /\ s.runs[i].started <= time
             /\ i > from /\ s.runs[i].byTick =>
                   /\ s.next # Unplanned => s.runs[i].slot < s.next
                   /\ \A j \in i + 1..n : s.runs[j].byTick => s.runs[i].slot < s.runs[j].slot
  BY <1>6 DEF Orderly, n
<1>7. ASSUME NEW i \in 1..n + 1
      PROVE  /\ t.runs[i].slot <= t.runs[i].started /\ t.runs[i].started <= time
             /\ i > from /\ t.runs[i].byTick =>
                   /\ t.next # Unplanned => t.runs[i].slot < t.next
                   /\ \A j \in i + 1..n + 1 :
                         t.runs[j].byTick => t.runs[i].slot < t.runs[j].slot
  <2>1. CASE i = n + 1
    BY <1>2, <1>3, <1>4, <2>1
  <2>2. CASE i # n + 1
    <3>1. i \in 1..n /\ t.runs[i] = s.runs[i]
      BY <1>2, <1>3, <1>4, <2>2
    <3> SUFFICES ASSUME i > from, s.runs[i].byTick
                 PROVE  /\ t.next # Unplanned => s.runs[i].slot < t.next
                        /\ \A j \in i + 1..n + 1 :
                              t.runs[j].byTick => s.runs[i].slot < t.runs[j].slot
      BY <1>6, <3>1
    <3>2. t.next # Unplanned => s.runs[i].slot < t.next
      BY <1>2, <1>4, <1>6, <3>1
    <3>3. ASSUME NEW j \in i + 1..n + 1, t.runs[j].byTick
          PROVE  s.runs[i].slot < t.runs[j].slot
      <4>1. CASE j = n + 1
        BY <1>2, <1>3, <1>4, <1>6, <3>1, <3>3, <4>1
      <4>2. CASE j # n + 1
        <5>1. j \in i + 1..n /\ j \in 1..n
          BY <1>2, <3>1, <4>2
        <5>2. t.runs[j] = s.runs[j]
          BY <1>3, <1>4, <5>1
        <5> QED
          BY <1>6, <3>1, <3>3, <5>1, <5>2
      <4> QED
        BY <4>1, <4>2
    <3> QED
      BY <3>2, <3>3
  <2> QED
    BY <2>1, <2>2
<1>8. Orderly(t, time, from)
  BY <1>2, <1>3, <1>4, <1>5, <1>7 DEF Orderly
<1> QED
  BY <1>3, <1>4, <1>8 DEF n

LEMMA InitSchedule == ScheduleInit => ScheduleInv
<1> SUFFICES ASSUME ScheduleInit PROVE ScheduleInv
  OBVIOUS
<1>1. PICK limit \in RunLimits, expires \in Expiries, cadence \in Cadences, atOnce \in BOOLEAN :
         schedule = [status |-> "active", cadence |-> cadence, limit |-> limit,
                     next |-> IF atOnce THEN 1 ELSE SlotAfter(cadence, 1),
                     expires |-> expires, runs |-> <<>>]
  BY DEF ScheduleInit
<1> DEFINE next == IF atOnce THEN 1 ELSE SlotAfter(cadence, 1)
           none == <<>>
<1>2. next \in Nat \ {0} /\ none \in Seq(OneRun) /\ Len(none) = 0
  BY SlotsAreLater
<1>3. schedule = [status |-> "active", cadence |-> cadence, limit |-> limit,
                  next |-> next, expires |-> expires, runs |-> none]
  BY <1>1
<1> HIDE DEF next, none
<1>4. /\ schedule \in Schedule /\ schedule.next = next /\ schedule.runs = none
      /\ schedule.status = "active"
  BY <1>2, <1>3 DEF Schedule
<1>5. LastMoment \in Nat \ {0} /\ MaxRuns \in Nat /\ MaxEvents \in Nat
  BY SchedulesAssumption
<1>6. 1 \in 1..LastMoment /\ 0 \in 0..MaxRuns /\ 0 \in 0..MaxEvents
  BY <1>5
<1>7. Resting \in Worker /\ Resting.now = 1 /\ Resting.at = "resting"
  BY <1>6 DEF Resting, Worker
<1>8. workers \in [AllWorkers -> Worker] /\ \A w \in AllWorkers : workers[w] = Resting
  BY <1>7 DEF ScheduleInit, AllWorkers
<1>9. moment = 1 /\ renewed = 0 /\ service = "ticking"
  BY DEF ScheduleInit
<1>10. ScheduleTypeOK
  BY <1>4, <1>6, <1>8 DEF ScheduleInit, ScheduleTypeOK, AllWorkers
<1>11. WorkersOK
  BY <1>7, <1>8, <1>9 DEF WorkersOK, Busy, Engaged
<1>12. Orderly(schedule, moment, renewed)
  BY <1>2, <1>4, <1>5 DEF Orderly
<1>13. Awake
  BY <1>2, <1>4 DEF Awake, Unplanned
<1> QED
  BY <1>10, <1>11, <1>12, <1>13 DEF ScheduleInv

\* A worker that runs nothing looks at the schedule, or leaves it
LEMMA LooksStep ==
    ASSUME ScheduleInv, NEW w \in AllWorkers, NEW new \in Worker,
           workers' = [workers EXCEPT ![w] = new], schedule' = schedule, OnlyWorkers,
           service = "ticking", ~Engaged(w), new.at \notin {"running", "failing"},
           new.now <= moment, reserved' \in BOOLEAN, reserved => reserved',
           new.at = "starting" => reserved' /\ ~reserved
    PROVE  ScheduleInv'
<1>1. /\ workers \in [AllWorkers -> Worker] /\ ScheduleTypeOK /\ WorkersOK
      /\ events \in 0..MaxEvents /\ lapsed \in BOOLEAN
      /\ schedule \in Schedule \cup {Deleted}
  BY WorkersTyped DEF ScheduleInv, ScheduleTypeOK
<1>2. UNCHANGED <<moment, service, target, events, lapsed, renewed>>
  BY DEF OnlyWorkers, NoHistory
<1>3. WorkersOK'
  <2>1. \A v \in AllWorkers : Busy(v) => reserved
    BY <1>1 DEF WorkersOK
  <2>2. \A v \in AllWorkers : Engaged(v) => Busy(v)
    BY DEF Busy, Engaged
  <2> QED
    BY <1>1, <1>2, <2>1, <2>2, WorkerStep
<1>4. ASSUME Exists' PROVE Orderly(schedule, moment, renewed)' /\ Awake'
  <2>1. Exists
    BY <1>4 DEF Exists
  <2>2. Orderly(schedule, moment, renewed)'
    BY <1>2, <2>1 DEF ScheduleInv, Orderly
  <2>3. \A v \in Ticks : Engaged(v) => Engaged(v)'
    BY <1>1 DEF Engaged, AllWorkers
  <2>4. Awake'
    BY <1>2, <2>1, <2>3 DEF ScheduleInv, Awake, EndedRuns, Ended, Unended
  <2> QED
    BY <2>2, <2>4
<1> QED
  BY <1>1, <1>2, <1>3, <1>4, ScheduleKept

LEMMA TickingKept ==
    ASSUME ScheduleInv, NEW w \in Ticks, Ticking(w) PROVE ScheduleInv'
<1>1. PICK at \in {"mayRun", "mayComplete"} :
         workers' = [workers EXCEPT ![w].at = at, ![w].now = moment]
  BY DEF Ticking
<1>2. w \in AllWorkers /\ workers \in [AllWorkers -> Worker] /\ moment \in 1..LastMoment
      /\ moment \in Nat
  BY WorkersTyped DEF ScheduleInv, AllWorkers
<1> DEFINE new == [workers[w] EXCEPT !.at = at, !.now = moment]
<1>3. /\ new \in Worker /\ new.at = at /\ new.now = moment
      /\ workers' = [workers EXCEPT ![w] = new]
  BY <1>1, <1>2 DEF Worker
<1> HIDE DEF new
<1>4. /\ service = "ticking" /\ ~Engaged(w) /\ schedule' = schedule /\ reserved' = reserved
      /\ OnlyWorkers /\ reserved \in BOOLEAN
  BY DEF Ticking, Engaged, ScheduleInv, ScheduleTypeOK
<1>5. new.now <= moment
  BY <1>2, <1>3
<1> QED
  BY <1>1, <1>2, <1>3, <1>4, <1>5, LooksStep

LEMMA InspectsKept ==
    ASSUME ScheduleInv, NEW w \in Demands, RunOnceInspects(w) PROVE ScheduleInv'
<1>2. w \in AllWorkers /\ workers \in [AllWorkers -> Worker]
  BY WorkersTyped DEF ScheduleInv, AllWorkers
<1> DEFINE new == [workers[w] EXCEPT !.at = "mayRun"]
<1>3. /\ new \in Worker /\ new.at = "mayRun" /\ new.now = workers[w].now
      /\ workers' = [workers EXCEPT ![w] = new]
  BY <1>2 DEF RunOnceInspects, Moves, Worker
<1> HIDE DEF new
<1>4. /\ service = "ticking" /\ ~Engaged(w) /\ schedule' = schedule /\ reserved' = reserved
      /\ OnlyWorkers /\ reserved \in BOOLEAN
  BY DEF RunOnceInspects, Engaged, ScheduleInv, ScheduleTypeOK
<1>5. new.now <= moment
  BY <1>2, <1>3 DEF ScheduleInv, WorkersOK
<1> QED
  BY <1>2, <1>3, <1>4, <1>5, LooksStep

LEMMA VisitsKept ==
    ASSUME ScheduleInv, NEW w \in AllWorkers, Visits(w) PROVE ScheduleInv'
<1>1. /\ workers \in [AllWorkers -> Worker] /\ workers[w] \in Worker
      /\ workers[w].now <= moment /\ moment \in 1..LastMoment /\ moment \in Nat
      /\ Resting \in Worker /\ Resting.now = 1 /\ Resting.at = "resting"
      /\ reserved \in BOOLEAN
  BY WorkersTyped DEF ScheduleInv, WorkersOK, ScheduleTypeOK
<1>2. schedule' = schedule /\ OnlyWorkers
  BY DEF Visits
<1>3. workers[w].at \in {"mayRun", "mayComplete"}
  BY DEF Visits
<1>4. service = "ticking" /\ ~Engaged(w)
  BY <1>3 DEF Engaged, ScheduleInv, WorkersOK
<1>5. 1 <= moment
  BY <1>1
<1> DEFINE left == [workers[w] EXCEPT !.at = "completing"]
           made == [workers[w] EXCEPT !.at = "starting",
                                      !.now = IF w \in Demands THEN moment ELSE @]
<1>6. /\ left \in Worker /\ left.at = "completing" /\ left.now = workers[w].now
      /\ Moves(w, "completing") => workers' = [workers EXCEPT ![w] = left]
  BY <1>1 DEF Moves, Worker
<1>7. /\ made \in Worker /\ made.at = "starting"
      /\ made.now = moment \/ made.now = workers[w].now
      /\ workers' = [workers EXCEPT ![w].at = "starting",
                                    ![w].now = IF w \in Demands THEN moment ELSE @]
            => workers' = [workers EXCEPT ![w] = made]
  BY <1>1 DEF Worker
<1> HIDE DEF left, made
<1>8. CASE Rests(w) /\ UNCHANGED reserved
  BY <1>1, <1>2, <1>4, <1>5, <1>8, LooksStep DEF Rests
<1>9. CASE Moves(w, "completing") /\ UNCHANGED reserved
  BY <1>1, <1>2, <1>4, <1>6, <1>9, LooksStep
<1>10. CASE /\ workers' = [workers EXCEPT ![w].at = "starting",
                                          ![w].now = IF w \in Demands THEN moment ELSE @]
            /\ ~reserved /\ reserved' = TRUE
  <2>1. made.now <= moment
    BY <1>1, <1>7
  <2> QED
    BY <1>1, <1>2, <1>4, <1>7, <1>10, <2>1, LooksStep
<1> QED
  BY <1>8, <1>9, <1>10 DEF Visits

\* A worker that has the reservation is done
LEMMA ReleaseStep ==
    ASSUME ScheduleInv, NEW w \in AllWorkers, Busy(w), Releases(w),
           UNCHANGED <<moment, service, target, renewed>>, events' \in 0..MaxEvents,
           lapsed' \in BOOLEAN, lapsed => lapsed',
           schedule' \in Schedule \cup {Deleted},
           Exists' => /\ Exists /\ Orderly(schedule', moment, renewed)
                      /\ schedule'.status = "active" /\ schedule'.next = Unplanned =>
                            \/ lapsed'
                            \/ /\ schedule.status = "active" /\ schedule.next = Unplanned
                               /\ ~(w \in Ticks /\ Engaged(w))
    PROVE  ScheduleInv'
<1>1. /\ ScheduleTypeOK /\ WorkersOK /\ service = "ticking"
      /\ Resting \in Worker /\ Resting.at = "resting" /\ Resting.now <= moment
      /\ workers' = [workers EXCEPT ![w] = Resting] /\ reserved' = FALSE
  <2>1. Resting \in Worker /\ Resting.at = "resting" /\ Resting.now = 1 /\ moment \in 1..LastMoment
        /\ moment \in Nat
    BY WorkersTyped DEF ScheduleInv
  <2> QED
    BY <2>1 DEF ScheduleInv, WorkersOK, Busy, Releases, Rests
<1>2. \A v \in AllWorkers : Busy(v) => v = w
  BY <1>1 DEF WorkersOK
<1>3. \A v \in AllWorkers : Engaged(v) => v = w
  BY <1>2 DEF Busy, Engaged
<1>4. WorkersOK'
  BY <1>1, <1>2, <1>3, WorkerStep
<1>5. ASSUME Exists' PROVE Orderly(schedule, moment, renewed)' /\ Awake'
  <2>1. Orderly(schedule, moment, renewed)'
    <3>1. Orderly(schedule', moment, renewed) /\ moment' = moment /\ renewed' = renewed
      BY <1>5
    <3> QED
      BY <3>1 DEF Orderly
  <2>2. ASSUME schedule'.status = "active", schedule'.next = Unplanned PROVE lapsed'
    <3> SUFFICES ASSUME ~lapsed' PROVE FALSE
      OBVIOUS
    <3>1. /\ schedule.status = "active" /\ schedule.next = Unplanned
          /\ ~(w \in Ticks /\ Engaged(w)) /\ ~lapsed
      BY <1>5, <2>2
    <3>2. \E v \in Ticks : Engaged(v)
      BY <1>1, <1>5, <3>1 DEF ScheduleInv, Awake
    <3> QED
      BY <1>3, <3>1, <3>2 DEF AllWorkers
  <2>3. Awake'
    BY <2>2 DEF Awake
  <2> QED
    BY <2>1, <2>3
<1> QED
  BY <1>1, <1>4, <1>5, ScheduleKept

LEMMA CompletesKept ==
    ASSUME ScheduleInv, NEW w \in Ticks, CompletesIfDue(w) PROVE ScheduleInv'
<1>1. /\ w \in AllWorkers /\ workers[w].at = "completing" /\ service = "ticking" /\ ~Engaged(w)
      /\ WorkersOK /\ ScheduleTypeOK /\ reserved \in BOOLEAN
      /\ schedule \in Schedule \cup {Deleted} /\ lapsed \in BOOLEAN /\ events \in 0..MaxEvents
  BY DEF CompletesIfDue, AllWorkers, ScheduleInv, WorkersOK, Engaged, ScheduleTypeOK
<1>2. Resting \in Worker /\ Resting.at = "resting" /\ Resting.now <= moment
      /\ moment \in Nat /\ renewed \in Nat
  BY <1>1, WorkersTyped
<1>3. /\ workers' = [workers EXCEPT ![w] = Resting] /\ reserved' = reserved /\ OnlyWorkers
      /\ schedule' = schedule \/ (Exists /\ schedule' = CompletedNow(schedule))
  BY DEF CompletesIfDue, Rests
<1>4. CASE schedule' = schedule
  BY <1>1, <1>2, <1>3, <1>4, LooksStep
<1>5. CASE Exists /\ schedule' = CompletedNow(schedule)
  <2>1. /\ schedule \in Schedule /\ schedule' \in Schedule /\ schedule'.runs = schedule.runs
        /\ schedule'.next = Unplanned /\ schedule'.status = "completed"
    BY <1>1, <1>5, CompletedIs DEF Exists
  <2>2. UNCHANGED <<moment, service, target, events, lapsed, renewed>>
    BY <1>3 DEF OnlyWorkers, NoHistory
  <2>3. WorkersOK'
    <3>1. \A v \in AllWorkers : Busy(v) => reserved'
      BY <1>1, <1>3 DEF WorkersOK
    <3>2. schedule # Deleted
      BY <1>5 DEF Exists
    <3> QED
      BY <1>1, <1>2, <1>3, <2>1, <2>2, <3>1, <3>2, WorkerStep
  <2>4. Orderly(schedule', moment, renewed)
    <3>1. Orderly(schedule, moment, renewed)
      BY <1>5 DEF ScheduleInv
    <3>2. SameRuns(schedule, schedule')
      BY <2>1, SameRunsItself
    <3> QED
      BY <1>2, <2>1, <3>1, <3>2, OrderlyAgain
  <2>5. Orderly(schedule, moment, renewed)' /\ Awake'
    BY <2>1, <2>2, <2>4 DEF Orderly, Awake
  <2> QED
    BY <1>1, <1>2, <1>3, <2>1, <2>2, <2>3, <2>5, ScheduleKept
<1> QED
  BY <1>3, <1>4, <1>5

\* A run begins, with the slot that comes after it
LEMMA BeginsKept ==
    ASSUME ScheduleInv, NEW w \in AllWorkers, workers[w].at = "starting", Exists,
           NEW next \in Nat, Begins(w, next), OnlyWorkers,
           next # Unplanned => schedule.status = "active",
           w \in Ticks => /\ schedule.next # Unplanned /\ schedule.next <= workers[w].now
                          /\ next # Unplanned => schedule.next < next,
           w \notin Ticks => next = schedule.next
    PROVE  ScheduleInv'
<1> DEFINE n   == Len(schedule.runs)
           now == workers[w].now
           run == [slot |-> IF w \in Ticks THEN schedule.next ELSE now, started |-> now,
                   ended |-> FALSE, byTick |-> w \in Ticks]
           new == [at |-> "running", now |-> 1, run |-> n + 1]
           t   == [schedule EXCEPT !.next = next, !.runs = Append(@, run)]
<1>1. /\ schedule \in Schedule /\ ScheduleTypeOK /\ WorkersOK /\ Orderly(schedule, moment, renewed)
      /\ moment \in Nat /\ renewed \in Nat /\ now \in 1..LastMoment /\ now <= moment
      /\ moment \in 1..LastMoment
      /\ events \in 0..MaxEvents /\ lapsed \in BOOLEAN
  BY WorkersTyped DEF ScheduleInv, ScheduleTypeOK, Exists, WorkersOK
<1>2. LastMoment \in Nat \ {0} /\ MaxRuns \in Nat /\ n \in Nat
  BY <1>1, SchedulesAssumption, RunsTyped
<1>3. /\ n < MaxRuns /\ schedule' = t /\ workers' = [workers EXCEPT ![w] = new]
      /\ reserved' = reserved
  BY DEF Begins
<1>4. /\ run \in OneRun /\ run.slot <= run.started /\ run.started <= moment /\ ~run.ended
      /\ run.byTick <=> w \in Ticks
      /\ w \in Ticks => run.slot = schedule.next
  <2> DEFINE slot == IF w \in Ticks THEN schedule.next ELSE now
             clocks == w \in Ticks
  <2>1. slot \in 1..LastMoment /\ slot <= now /\ (clocks => slot = schedule.next)
    <3>1. CASE w \in Ticks
      <4>1. schedule.next \in Nat /\ schedule.next # 0 /\ schedule.next <= now
        BY <1>1, <3>1, RunsTyped DEF Unplanned
      <4> QED
        BY <1>1, <1>2, <3>1, <4>1
    <3>2. CASE w \notin Ticks
      BY <1>1, <3>2
    <3> QED
      BY <3>1, <3>2
  <2>2. run = [slot |-> slot, started |-> now, ended |-> FALSE, byTick |-> clocks]
    OBVIOUS
  <2>3. clocks \in BOOLEAN /\ (clocks <=> w \in Ticks)
    OBVIOUS
  <2> HIDE DEF run, slot, clocks, now
  <2>4. /\ run \in OneRun /\ run.slot = slot /\ run.started = now /\ ~run.ended
        /\ run.byTick = clocks
    BY <1>1, <2>1, <2>2, <2>3 DEF OneRun
  <2> QED
    BY <1>1, <2>1, <2>3, <2>4
<1>5. 1 \in 1..LastMoment /\ n + 1 \in 0..MaxRuns /\ 1 <= moment /\ n + 1 \in 1..n + 1
  BY <1>1, <1>2, <1>3
<1>6. new \in Worker /\ new.at = "running" /\ new.now = 1 /\ new.run = n + 1
  BY <1>5 DEF Worker
<1> HIDE DEF run
<1>7. /\ t \in Schedule /\ Orderly(t, moment, renewed) /\ t.next = next
      /\ t.status = schedule.status /\ Len(t.runs) = n + 1 /\ t.runs[n + 1] = run
  <2>1. run.byTick => schedule.next # Unplanned /\ run.slot = schedule.next
                      /\ (next # Unplanned => run.slot < next)
    BY <1>4
  <2>2. ~run.byTick => next = schedule.next
    BY <1>4
  <2>3. Len(schedule.runs) < MaxRuns /\ run \in OneRun /\ run.slot <= run.started
        /\ run.started <= moment
    BY <1>3, <1>4
  <2> DEFINE list == Append(schedule.runs, run)
  <2>4. list \in Seq(OneRun) /\ t = [schedule EXCEPT !.next = next, !.runs = list]
    BY <1>1, <2>3, RunsTyped DEF Schedule
  <2> HIDE DEF t, list
  <2>5. t \in Schedule /\ t.runs = list /\ t.next = next /\ t.status = schedule.status
    BY <1>1, <2>4 DEF Schedule
  <2>6. t.runs = Append(schedule.runs, run)
    BY <2>5 DEF list
  <2> QED
    BY <1>1, <2>1, <2>2, <2>3, <2>5, <2>6, AppendsOne
<1> HIDE DEF t, new, n, now
<1>8. UNCHANGED <<moment, service, target, events, lapsed, renewed>>
  BY DEF OnlyWorkers, NoHistory
<1>9. Busy(w) /\ reserved = TRUE /\ service = "ticking"
  <2>1. Busy(w)
    BY DEF Busy
  <2> QED
    BY <1>1, <2>1 DEF WorkersOK, ScheduleTypeOK, Busy
<1>10. \A v \in AllWorkers : Busy(v) => v = w
  BY <1>1, <1>9 DEF WorkersOK
<1>11. \A v \in AllWorkers \ {w} : ~Busy(v) /\ ~Engaged(v)
  BY <1>10 DEF Busy, Engaged
<1>12. new.run \in 1..Len(schedule'.runs) /\ ~schedule'.runs[new.run].ended
  BY <1>3, <1>4, <1>5, <1>6, <1>7
<1>13. WorkersOK'
  <2>1. new.now <= moment
    BY <1>5, <1>6
  <2> QED
    BY <1>1, <1>3, <1>6, <1>8, <1>9, <1>11, <1>12, <2>1, WorkerStep
<1>14. Orderly(schedule, moment, renewed)'
  BY <1>3, <1>7, <1>8 DEF Orderly
<1>15. Awake'
  <2> SUFFICES ASSUME schedule.status = "active", next = Unplanned, ~lapsed
               PROVE  service' = "ticking" /\ \E v \in Ticks : Engaged(v)'
    BY <1>3, <1>7, <1>8 DEF Awake
  <2>1. CASE w \in Ticks
    <3>1. workers'[w] = new
      BY <1>1, <1>3 DEF ScheduleTypeOK, AllWorkers
    <3>2. Engaged(w)'
      BY <1>6, <3>1 DEF Engaged
    <3> QED
      BY <1>8, <1>9, <2>1, <3>2
  <2>2. CASE w \notin Ticks
    <3>1. \E v \in Ticks : Engaged(v)
      BY <1>9, <2>2 DEF ScheduleInv, Awake
    <3> QED
      BY <1>11, <2>2, <3>1 DEF AllWorkers
  <2> QED
    BY <2>1, <2>2
<1> QED
  BY <1>1, <1>3, <1>6, <1>7, <1>8, <1>13, <1>14, <1>15, <1>9, ScheduleKept

LEMMA LeavesKept ==
    ASSUME ScheduleInv, NEW w \in AllWorkers, workers[w].at = "starting",
           Releases(w), UNCHANGED schedule, OnlyWorkers
    PROVE  ScheduleInv'
<1>1. Busy(w) /\ ~Engaged(w)
  BY DEF Busy, Engaged
<1>2. UNCHANGED <<moment, service, target, events, lapsed, renewed>>
  BY DEF OnlyWorkers, NoHistory
<1>3. /\ events \in 0..MaxEvents /\ lapsed \in BOOLEAN /\ schedule \in Schedule \cup {Deleted}
      /\ Exists => Orderly(schedule, moment, renewed)
  BY DEF ScheduleInv, ScheduleTypeOK
<1>4. Exists' => Exists
  BY DEF Exists
<1> QED
  BY <1>1, <1>2, <1>3, <1>4, ReleaseStep

LEMMA ClaimsKept ==
    ASSUME ScheduleInv, NEW w \in Ticks, ClaimsSlot(w) PROVE ScheduleInv'
<1> DEFINE now == workers[w].now
           may == Exists /\ Due(schedule, now) /\ ~Exhausted(schedule, now)
<1>1. w \in AllWorkers /\ workers[w].at = "starting" /\ OnlyWorkers
  BY DEF AllWorkers, ClaimsSlot
<1>2. CASE may
  <2>1. /\ Exists /\ schedule.status = "active" /\ schedule.next # Unplanned
        /\ schedule.next <= now
    BY <1>2 DEF Due
  <2>2. schedule \in Schedule /\ now \in Nat
    BY <1>1, <2>1, WorkersTyped DEF ScheduleInv, ScheduleTypeOK, Exists
  <2>3. schedule.next \in Nat /\ schedule.cadence \in Cadences
    BY <2>2, RunsTyped
  <2>4. /\ NextOfClaim(now) \in Nat
        /\ NextOfClaim(now) # Unplanned => schedule.next < NextOfClaim(now)
    <3> DEFINE slot == AdvancedPast(schedule.cadence,
                                    SlotAfter(schedule.cadence, schedule.next), now)
    <3>1. slot \in Nat /\ slot > now
      BY <2>1, <2>2, <2>3, NextClaimIsLater
    <3>2. schedule.next < slot
      BY <2>1, <2>2, <2>3, <3>1
    <3>3. NextOfClaim(now) = Unplanned \/ NextOfClaim(now) = slot
      BY DEF NextOfClaim
    <3> HIDE DEF slot, now
    <3> QED
      BY <3>1, <3>2, <3>3 DEF Unplanned
  <2>5. Begins(w, NextOfClaim(now))
    BY <1>2 DEF ClaimsSlot
  <2> QED
    BY <1>1, <2>1, <2>4, <2>5, BeginsKept
<1>3. CASE ~may
  BY <1>1, <1>3, LeavesKept DEF ClaimsSlot
<1> QED
  BY <1>2, <1>3

LEMMA AppendsKept ==
    ASSUME ScheduleInv, NEW w \in Demands, AppendsRun(w) PROVE ScheduleInv'
<1>1. w \in AllWorkers /\ workers[w].at = "starting" /\ OnlyWorkers /\ w \notin Ticks
  BY SchedulesAssumption DEF AllWorkers, AppendsRun
<1>2. CASE Exists
  <2>1. schedule.next \in Nat /\ (schedule.next # Unplanned => schedule.status = "active")
    BY <1>2, RunsTyped DEF ScheduleInv, ScheduleTypeOK, Exists, Orderly
  <2>2. Begins(w, schedule.next)
    BY <1>2 DEF AppendsRun
  <2> QED
    BY <1>1, <1>2, <2>1, <2>2, BeginsKept
<1>3. CASE ~Exists
  BY <1>1, <1>3, LeavesKept DEF AppendsRun
<1> QED
  BY <1>2, <1>3

\* What finishRun leaves of a schedule of which one run just ended
LEMMA FinishedIs ==
    ASSUME ScheduleInv, NEW w \in AllWorkers, Engaged(w), Exists
    PROVE  LET s == Finished(w, WithEnd(w)) IN
           /\ s \in Schedule /\ Orderly(s, moment, renewed)
           /\ s.status = "active" /\ s.next = Unplanned =>
                 schedule.status = "active" /\ schedule.next = Unplanned /\ w \notin Ticks
<1> DEFINE k == workers[w].run
           u == WithEnd(w)
           s == Finished(w, u)
<1>1. /\ schedule \in Schedule /\ Orderly(schedule, moment, renewed)
      /\ k \in 1..Len(schedule.runs) /\ moment \in Nat /\ renewed \in Nat
  BY WorkersTyped DEF ScheduleInv, ScheduleTypeOK, Exists, WorkersOK
<1>2. /\ u \in Schedule /\ SameRuns(schedule, u) /\ u.next = schedule.next
      /\ u.status = schedule.status /\ u.cadence = schedule.cadence
  BY <1>1, EndsRun DEF WithEnd
<1> HIDE DEF u, k
<1>3. Orderly(u, moment, renewed)
  <2>1. u.next # Unplanned => u.status = "active"
    BY <1>1, <1>2 DEF Orderly
  <2> QED
    BY <1>1, <1>2, <2>1, OrderlyAgain
<1>4. ASSUME NEW next \in Nat, NEW t, t = [u EXCEPT !.next = next],
             next # Unplanned => u.status = "active" /\ next > moment
      PROVE  t \in Schedule /\ Orderly(t, moment, renewed) /\ t.next = next /\ t.status = u.status
  <2>1. t \in Schedule /\ t.runs = u.runs /\ t.next = next /\ t.status = u.status
    BY <1>2, <1>4 DEF Schedule
  <2>2. SameRuns(u, t)
    BY <2>1, SameRunsItself
  <2>3. \/ t.next = Unplanned
        \/ t.next > moment
    BY <1>4, <2>1
  <2> QED
    BY <1>1, <1>2, <1>3, <1>4, <2>1, <2>2, <2>3, OrderlyAgain
<1>5. CASE u.status = "completed" \/ w \in Demands
  <2>1. s = u
    BY <1>5 DEF Finished
  <2> QED
    BY <1>2, <1>3, <1>5, <2>1, SchedulesAssumption DEF u
<1>6. CASE ~(u.status = "completed" \/ w \in Demands) /\ Exhausted(u, moment)
  <2>1. s = CompletedNow(u)
    BY <1>6 DEF Finished
  <2>2. /\ s \in Schedule /\ s.runs = u.runs /\ s.next = Unplanned /\ s.status = "completed"
    BY <1>2, <2>1, CompletedIs
  <2>3. Orderly(s, moment, renewed)
    BY <1>1, <1>2, <1>3, <2>2, SameRunsItself, OrderlyAgain
  <2> QED
    BY <2>2, <2>3 DEF u
<1>7. CASE ~(u.status = "completed" \/ w \in Demands) /\ ~Exhausted(u, moment)
           /\ u.status = "paused"
  <2>1. s = [u EXCEPT !.next = Unplanned]
    BY <1>7 DEF Finished
  <2>2. Unplanned \in Nat
    BY DEF Unplanned
  <2>3. s \in Schedule /\ Orderly(s, moment, renewed) /\ s.status = u.status
    BY <1>4, <2>1, <2>2
  <2> QED
    BY <1>7, <2>3 DEF u
<1>8. CASE ~(u.status = "completed" \/ w \in Demands) /\ ~Exhausted(u, moment)
           /\ u.status # "paused"
  <2> DEFINE own   == u.runs[k].slot
             first == IF u.next # Unplanned THEN u.next ELSE SlotAfter(u.cadence, own)
             next  == AdvancedPast(u.cadence, first, moment)
  <2>1. s = [u EXCEPT !.next = next]
    BY <1>8 DEF Finished, k
  <2>2. own \in Nat /\ u.next \in Nat /\ u.cadence \in Cadences /\ u.status = "active"
    BY <1>1, <1>2, <1>8, RunsTyped DEF SameRuns
  <2> HIDE DEF own
  <2>3. first \in Nat
    BY <2>2, SlotsAreLater
  <2> HIDE DEF first
  <2>4. next \in Nat /\ next > moment /\ next # Unplanned
    BY <1>1, <2>2, <2>3, SlotsAreLater
  <2> HIDE DEF next, s
  <2>5. s \in Schedule /\ Orderly(s, moment, renewed) /\ s.next = next
    BY <1>4, <2>1, <2>2, <2>4
  <2> QED
    BY <2>4, <2>5 DEF s, u
<1> QED
  BY <1>5, <1>6, <1>7, <1>8

LEMMA RunEndsKept ==
    ASSUME ScheduleInv, NEW w \in AllWorkers, NEW gone \in BOOLEAN, ScheduleRunEnds(w, gone)
    PROVE  ScheduleInv'
<1>1. /\ Engaged(w) /\ Busy(w) /\ Releases(w)
      /\ UNCHANGED <<moment, service, target, events, lapsed, renewed>>
  BY DEF ScheduleRunEnds, Engaged, Busy, OnlyWorkers, NoHistory
<1>2. /\ events \in 0..MaxEvents /\ lapsed \in BOOLEAN /\ schedule \in Schedule \cup {Deleted}
      /\ moment \in Nat /\ renewed \in Nat
  BY WorkersTyped DEF ScheduleInv, ScheduleTypeOK
<1>3. CASE ~Exists
  <2>1. schedule' = Deleted
    BY <1>3 DEF ScheduleRunEnds
  <2>2. ~Exists'
    BY <2>1 DEF Exists
  <2> QED
    BY <1>1, <1>2, <2>1, <2>2, ReleaseStep
<1>4. CASE Exists /\ gone
  <2> DEFINE u == WithEnd(w)
  <2>1. /\ schedule \in Schedule /\ Orderly(schedule, moment, renewed)
        /\ workers[w].run \in 1..Len(schedule.runs)
    BY <1>1, <1>2, <1>4 DEF ScheduleInv, Exists, WorkersOK
  <2>2. /\ u \in Schedule /\ SameRuns(schedule, u) /\ u.next = schedule.next
        /\ u.status = schedule.status
    BY <2>1, EndsRun DEF WithEnd
  <2>4. schedule' = CompletedNow(u)
    BY <1>4 DEF ScheduleRunEnds
  <2> HIDE DEF u
  <2>3. Orderly(u, moment, renewed)
    <3>1. u.next # Unplanned => u.status = "active"
      BY <2>1, <2>2 DEF Orderly
    <3> QED
      BY <1>2, <2>1, <2>2, <3>1, OrderlyAgain
  <2>5. /\ schedule' \in Schedule /\ schedule'.runs = u.runs /\ schedule'.next = Unplanned
        /\ schedule'.status = "completed"
    BY <2>2, <2>4, CompletedIs
  <2>6. Orderly(schedule', moment, renewed)
    BY <1>2, <2>2, <2>3, <2>5, SameRunsItself, OrderlyAgain
  <2> QED
    BY <1>1, <1>2, <1>4, <2>5, <2>6, ReleaseStep
<1>5. CASE Exists /\ ~gone
  <2> DEFINE s == Finished(w, WithEnd(w))
  <2>1. schedule' = s
    BY <1>5 DEF ScheduleRunEnds
  <2>2. /\ s \in Schedule /\ Orderly(s, moment, renewed)
        /\ s.status = "active" /\ s.next = Unplanned =>
              schedule.status = "active" /\ schedule.next = Unplanned /\ w \notin Ticks
    BY <1>1, <1>5, FinishedIs
  <2> HIDE DEF s
  <2> QED
    BY <1>1, <1>2, <1>5, <2>1, <2>2, ReleaseStep
<1> QED
  BY <1>3, <1>4, <1>5

LEMMA EndNotWrittenKept ==
    ASSUME ScheduleInv, NEW w \in AllWorkers, NEW success \in BOOLEAN, EndNotWritten(w, success)
    PROVE  ScheduleInv'
<1>1. /\ Engaged(w) /\ Busy(w) /\ Exists /\ UNCHANGED <<schedule, moment, service, target, renewed>>
  BY DEF EndNotWritten, Engaged, Busy
<1>2. /\ events' \in 0..MaxEvents /\ lapsed \in BOOLEAN /\ schedule \in Schedule
      /\ reserved \in BOOLEAN /\ Orderly(schedule, moment, renewed)
      /\ ScheduleTypeOK /\ WorkersOK /\ service = "ticking"
  <2>1. events \in 0..MaxEvents /\ events < MaxEvents /\ events' = events + 1 /\ MaxEvents \in Nat
    BY SchedulesAssumption DEF EndNotWritten, Happening, ScheduleInv, ScheduleTypeOK
  <2>2. events' \in 0..MaxEvents
    BY <2>1
  <2> QED
    BY <1>1, <2>2 DEF ScheduleInv, ScheduleTypeOK, Exists, WorkersOK, Engaged
<1>3. CASE success
  <2> DEFINE new == [workers[w] EXCEPT !.at = "failing"]
  <2>1. workers \in [AllWorkers -> Worker] /\ workers[w] \in Worker
    BY <1>2, WorkersTyped
  <2>2. /\ new \in Worker /\ new.at = "failing" /\ new.now = workers[w].now
        /\ new.run = workers[w].run /\ workers' = [workers EXCEPT ![w] = new]
        /\ reserved' = reserved /\ lapsed' = lapsed
    BY <1>3, <2>1 DEF EndNotWritten, Moves, Worker
  <2> HIDE DEF new
  <2>3. /\ workers[w].now <= moment /\ reserved = TRUE
        /\ workers[w].run \in 1..Len(schedule.runs) /\ ~schedule.runs[workers[w].run].ended
        /\ \A v \in AllWorkers \ {w} : ~Busy(v)
    BY <1>1, <1>2 DEF WorkersOK
  <2>4. \A v \in AllWorkers \ {w} : ~Engaged(v)
    BY <2>3 DEF Busy, Engaged
  <2>5. new.run \in 1..Len(schedule'.runs) /\ ~schedule'.runs[new.run].ended /\ new.now <= moment
    BY <1>1, <2>2, <2>3
  <2>6. WorkersOK'
    BY <1>1, <1>2, <2>2, <2>3, <2>4, <2>5, WorkerStep
  <2>7. Orderly(schedule, moment, renewed)'
    BY <1>1, <1>2 DEF Orderly
  <2>8. Awake'
    <3>1. \A v \in Ticks : Engaged(v) => Engaged(v)'
      <4>1. Engaged(w)'
        BY <2>1, <2>2 DEF Engaged
      <4> QED
        BY <2>4, <4>1 DEF AllWorkers
    <3>2. Awake
      BY <1>1 DEF ScheduleInv
    <3> QED
      BY <1>1, <1>2, <2>2, <3>1, <3>2 DEF Awake
  <2> QED
    BY <1>1, <1>2, <2>2, <2>6, <2>7, <2>8, ScheduleKept
<1>4. CASE ~success
  <2>1. Releases(w) /\ lapsed' = TRUE
    BY <1>4 DEF EndNotWritten
  <2> QED
    BY <1>1, <1>2, <2>1, ReleaseStep
<1> QED
  BY <1>3, <1>4

\* A change that leaves the runs and the workers as they are
LEMMA RewriteStep ==
    ASSUME ScheduleInv, UNCHANGED <<moment, service, reserved, workers, lapsed>>,
           target' \in {"there", "archived", "gone"}, events' \in 0..MaxEvents,
           renewed' = renewed \/ (Exists /\ renewed' = Len(schedule.runs)),
           schedule' \in Schedule \cup {Deleted},
           Exists' => /\ Exists /\ schedule'.runs = schedule.runs
                      /\ schedule'.next # Unplanned => schedule'.status = "active"
                      /\ \/ renewed' = Len(schedule.runs)
                         \/ /\ renewed' = renewed
                            /\ \/ schedule'.next = Unplanned
                               \/ schedule'.next = schedule.next
                               \/ schedule'.next > moment
                      /\ schedule'.status = "active" /\ schedule'.next = Unplanned =>
                            schedule.status = "active" /\ schedule.next = Unplanned
                            /\ service = "ticking"
    PROVE  ScheduleInv'
<1>1. /\ ScheduleTypeOK /\ WorkersOK /\ moment \in Nat /\ renewed \in Nat
      /\ renewed \in 0..MaxRuns /\ schedule \in Schedule \cup {Deleted} /\ MaxRuns \in Nat
  <2>1. moment \in 1..LastMoment
    BY DEF ScheduleInv, ScheduleTypeOK
  <2> QED
    BY <2>1, SchedulesAssumption DEF ScheduleInv, ScheduleTypeOK
<1>2. ASSUME Exists
      PROVE  schedule \in Schedule /\ Len(schedule.runs) \in 0..MaxRuns
             /\ Orderly(schedule, moment, renewed) /\ Awake
  <2>1. schedule \in Schedule /\ Orderly(schedule, moment, renewed) /\ Awake
    BY <1>1, <1>2 DEF ScheduleInv, Exists
  <2>2. Len(schedule.runs) \in Nat /\ Len(schedule.runs) <= MaxRuns
    BY <2>1, RunsTyped DEF Orderly
  <2> QED
    BY <1>1, <2>1, <2>2
<1>3. renewed' \in 0..MaxRuns /\ renewed' \in Nat
  <2>1. renewed' \in 0..MaxRuns
    BY <1>1, <1>2
  <2> QED
    BY <1>1, <2>1
<1>4. WorkersOK'
  BY <1>1 DEF WorkersOK, Busy, Engaged, Exists
<1>5. ASSUME Exists' PROVE Orderly(schedule, moment, renewed)' /\ Awake'
  <2>1. /\ Exists /\ schedule' \in Schedule /\ SameRuns(schedule, schedule')
        /\ Len(schedule.runs) = Len(schedule'.runs)
    BY <1>5, SameRunsItself DEF Exists
  <2>2. Orderly(schedule', moment, renewed')
    BY <1>1, <1>2, <1>3, <1>5, <2>1, OrderlyAgain
  <2>3. Orderly(schedule, moment, renewed)'
    BY <2>2 DEF Orderly
  <2>4. Awake'
    BY <1>2, <1>5, <2>1 DEF Awake, Engaged
  <2> QED
    BY <2>3, <2>4
<1>6. ScheduleTypeOK'
  BY <1>1, <1>3 DEF ScheduleTypeOK
<1> QED
  BY <1>4, <1>5, <1>6 DEF ScheduleInv

LEMMA RewritesKept ==
    ASSUME ScheduleInv,
           \/ Pauses \/ Resumes \/ Removes
           \/ \E cadence \in Cadences : Reschedules(cadence)
           \/ \E limit \in RunLimits : \/ \E expires \in Expiries : Relimits(limit, expires)
                                       \/ \E atOnce \in BOOLEAN : Recreates(limit, atOnce)
    PROVE  ScheduleInv'
<1>1. /\ schedule \in Schedule \cup {Deleted} /\ moment \in Nat /\ moment >= 1
      /\ events \in 0..MaxEvents /\ MaxEvents \in Nat
      /\ target \in {"there", "archived", "gone"}
  <2>1. moment \in 1..LastMoment
    BY DEF ScheduleInv, ScheduleTypeOK
  <2> QED
    BY <2>1, SchedulesAssumption DEF ScheduleInv, ScheduleTypeOK
<1>2. ASSUME NEW s, Rewrites(s)
      PROVE  /\ service = "ticking" /\ Exists /\ schedule' = s
             /\ UNCHANGED <<moment, service, reserved, workers, target, lapsed>>
             /\ events' \in 0..MaxEvents
  <2>1. events < MaxEvents /\ events' = events + 1
    BY <1>2 DEF Rewrites, Happening
  <2>2. events' \in 0..MaxEvents
    BY <1>1, <2>1
  <2> QED
    BY <1>2, <2>2 DEF Rewrites
<1>3. ASSUME Exists
      PROVE  /\ schedule \in Schedule /\ schedule.next \in Nat /\ schedule.cadence \in Cadences
             /\ schedule.status \in {"active", "paused", "completed"}
             /\ schedule.next # Unplanned => schedule.status = "active"
  BY <1>1, <1>3, RunsTyped DEF Exists, ScheduleInv, Orderly
<1>4. ASSUME NEW s, Rewrites(s), s \in Schedule, s.runs = schedule.runs,
             renewed' = renewed \/ renewed' = Len(schedule.runs),
             s.next # Unplanned => s.status = "active",
             \/ renewed' = Len(schedule.runs)
             \/ /\ renewed' = renewed
                /\ s.next = Unplanned \/ s.next = schedule.next \/ s.next > moment,
             s.status = "active" /\ s.next = Unplanned =>
                schedule.status = "active" /\ schedule.next = Unplanned
      PROVE  ScheduleInv'
  BY <1>1, <1>2, <1>4, RewriteStep
<1>5. CASE Pauses
  <2> DEFINE s == [schedule EXCEPT !.status = "paused", !.next = Unplanned]
  <2>1. Exists /\ Rewrites(s) /\ renewed' = renewed
    BY <1>5 DEF Pauses
  <2>2. /\ s \in Schedule /\ s.runs = schedule.runs /\ s.next = Unplanned
        /\ s.status = "paused"
    BY <1>3, <2>1 DEF Schedule, Unplanned
  <2> HIDE DEF s
  <2> QED
    BY <1>4, <2>1, <2>2
<1>6. CASE Resumes
  <2> DEFINE next == SlotAfter(schedule.cadence, moment)
             s    == [schedule EXCEPT !.status = "active", !.next = next]
  <2>1. Exists /\ Rewrites(s) /\ renewed' = renewed
    BY <1>6 DEF Resumes
  <2>2. next \in Nat /\ next > moment /\ next # Unplanned
    BY <1>1, <1>3, <2>1, SlotsAreLater
  <2> HIDE DEF next
  <2>3. s \in Schedule /\ s.runs = schedule.runs /\ s.next = next /\ s.status = "active"
    BY <1>3, <2>1, <2>2 DEF Schedule
  <2> HIDE DEF s
  <2> QED
    BY <1>4, <2>1, <2>2, <2>3
<1>7. CASE Removes
  <2>1. Rewrites(Deleted) /\ renewed' = renewed
    BY <1>7 DEF Removes
  <2>2. ~Exists'
    BY <1>2, <2>1 DEF Exists
  <2> QED
    BY <1>1, <1>2, <2>1, <2>2, RewriteStep
<1>8. ASSUME NEW cadence \in Cadences, Reschedules(cadence) PROVE ScheduleInv'
  <2> DEFINE slot == SlotAfter(cadence, moment)
             next == IF schedule.status = "active" THEN slot ELSE Unplanned
             s    == [schedule EXCEPT !.cadence = cadence, !.next = next]
  <2>1. Exists /\ Rewrites(s) /\ renewed' = renewed
    BY <1>8 DEF Reschedules
  <2>2. slot \in Nat /\ slot > moment /\ slot # Unplanned
    BY <1>1, SlotsAreLater
  <2> HIDE DEF slot
  <2>3. /\ next \in Nat
        /\ schedule.status = "active" => next > moment /\ next # Unplanned
        /\ schedule.status # "active" => next = Unplanned
    BY <2>2 DEF Unplanned
  <2> HIDE DEF next
  <2>4. s \in Schedule /\ s.runs = schedule.runs /\ s.next = next /\ s.status = schedule.status
    BY <1>3, <2>1, <2>3 DEF Schedule
  <2> HIDE DEF s
  <2> QED
    BY <1>4, <2>1, <2>3, <2>4
<1>9. ASSUME NEW limit \in RunLimits, NEW expires \in Expiries, Relimits(limit, expires)
      PROVE  ScheduleInv'
  <2> DEFINE s == [schedule EXCEPT !.limit = limit, !.expires = expires]
  <2>1. Exists /\ Rewrites(s) /\ renewed' = renewed
    BY <1>9 DEF Relimits
  <2>2. /\ s \in Schedule /\ s.runs = schedule.runs /\ s.next = schedule.next
        /\ s.status = schedule.status
    BY <1>3, <2>1 DEF Schedule
  <2> HIDE DEF s
  <2> QED
    BY <1>3, <1>4, <2>1, <2>2
<1>10. ASSUME NEW limit \in RunLimits, NEW atOnce \in BOOLEAN, Recreates(limit, atOnce)
       PROVE  ScheduleInv'
  <2> DEFINE next == IF atOnce THEN moment ELSE SlotAfter(schedule.cadence, moment)
             s    == [schedule EXCEPT !.status = "active", !.limit = limit,
                                      !.expires = Unlimited, !.next = next]
  <2>1. Exists /\ Rewrites(s) /\ renewed' = Len(schedule.runs)
    BY <1>10 DEF Recreates
  <2>2. next \in Nat /\ next # Unplanned /\ (next = moment \/ next > moment)
    BY <1>1, <1>3, <2>1, SlotsAreLater DEF Unplanned
  <2> HIDE DEF next
  <2>3. s \in Schedule /\ s.runs = schedule.runs /\ s.next = next /\ s.status = "active"
    BY <1>3, <2>1, <2>2, SchedulesAssumption DEF Schedule
  <2> HIDE DEF s
  <2> QED
    BY <1>4, <2>1, <2>2, <2>3
<1> QED
  BY <1>5, <1>6, <1>7, <1>8, <1>9, <1>10

LEMMA ArchivingKept ==
    ASSUME ScheduleInv, TargetArchived \/ CompletesForAgent PROVE ScheduleInv'
<1>1. /\ schedule \in Schedule \cup {Deleted} /\ events \in 0..MaxEvents /\ MaxEvents \in Nat
      /\ service \in {"down", "recovered", "ticking"}
  BY SchedulesAssumption DEF ScheduleInv, ScheduleTypeOK
<1>2. CASE CompletesForAgent
  <2>1. /\ UNCHANGED <<moment, service, reserved, workers, lapsed, renewed, events>>
        /\ target' = "gone"
        /\ schedule' = IF Exists THEN CompletedNow(schedule) ELSE schedule
    BY <1>2 DEF CompletesForAgent, NoHistory
  <2>2. CASE Exists
    <3>1. /\ schedule' \in Schedule /\ schedule'.runs = schedule.runs
          /\ schedule'.next = Unplanned /\ schedule'.status = "completed"
      BY <1>1, <2>1, <2>2, CompletedIs DEF Exists
    <3> QED
      BY <1>1, <2>1, <2>2, <3>1, RewriteStep
  <2>3. CASE ~Exists
    <3>1. ~Exists' /\ schedule' = schedule
      BY <2>1, <2>3 DEF Exists
    <3> QED
      BY <1>1, <2>1, <3>1, RewriteStep
  <2> QED
    BY <2>2, <2>3
<1>3. CASE TargetArchived
  <2>1. UNCHANGED <<schedule, moment, service, reserved, workers, lapsed, renewed>>
        /\ target' = "archived" /\ service = "ticking"
    BY <1>3 DEF TargetArchived, NoHistory
  <2>2. events' \in 0..MaxEvents
    <3>1. events < MaxEvents /\ events' = events + 1
      BY <1>3 DEF TargetArchived, Happening
    <3> QED
      BY <1>1, <3>1
  <2>3. Exists => (schedule.next # Unplanned => schedule.status = "active")
    BY DEF ScheduleInv, Orderly
  <2>4. Exists' <=> Exists
    BY <2>1 DEF Exists
  <2> QED
    BY <1>1, <2>1, <2>2, <2>3, <2>4, RewriteStep
<1> QED
  BY <1>2, <1>3

LEMMA EndedIs ==
    ASSUME NEW s \in Schedule
    PROVE  EndedRuns(s) \in Nat /\ Unended(s) \in SUBSET (1..Len(s.runs))
<1>1. DOMAIN s.runs = 1..Len(s.runs) /\ 1 \in Int /\ Len(s.runs) \in Int
  BY RunsTyped
<1>2. IsFiniteSet(1..Len(s.runs))
  BY <1>1, FS_Interval
<1>3. Ended(s) \subseteq DOMAIN s.runs /\ Unended(s) \subseteq DOMAIN s.runs
  BY DEF Ended, Unended
<1>4. IsFiniteSet(Ended(s))
  BY <1>1, <1>2, <1>3, FS_Subset
<1>5. EndedRuns(s) \in Nat
  BY <1>4, FS_CardinalityType DEF EndedRuns
<1> QED
  BY <1>1, <1>3, <1>5

LEMMA StopsKept == ASSUME ScheduleInv, ServiceStops PROVE ScheduleInv'
<1>1. /\ service' = "down" /\ service # "down" /\ reserved' = FALSE
      /\ schedule' = schedule /\ moment' = moment /\ renewed' = renewed
      /\ workers' = [w \in AllWorkers |-> Resting]
      /\ target' = IF target = "archived" THEN "gone" ELSE target
      /\ events < MaxEvents /\ events' = events + 1
  BY DEF ServiceStops, Happening, AllWorkers
<1>2. /\ ScheduleTypeOK /\ WorkersOK /\ events \in 0..MaxEvents /\ MaxEvents \in Nat
      /\ lapsed \in BOOLEAN
  BY SchedulesAssumption DEF ScheduleInv, ScheduleTypeOK
<1>3. LastMoment \in Nat \ {0} /\ MaxRuns \in Nat
  BY SchedulesAssumption
<1>4. 1 \in 1..LastMoment /\ 0 \in 0..MaxRuns /\ moment \in 1..LastMoment
  BY <1>2, <1>3 DEF ScheduleTypeOK
<1>5. Resting \in Worker /\ Resting.now = 1 /\ Resting.at = "resting" /\ 1 <= moment
  BY <1>4 DEF Resting, Worker
<1>6. workers' \in [AllWorkers -> Worker] /\ \A w \in AllWorkers : workers'[w] = Resting
  BY <1>1, <1>5
<1>7. events' \in 0..MaxEvents
  BY <1>1, <1>2
<1>8. lapsed' \in BOOLEAN /\ (lapsed => lapsed')
  BY <1>2 DEF ServiceStops
<1>9. ScheduleTypeOK'
  BY <1>1, <1>2, <1>6, <1>7, <1>8 DEF ScheduleTypeOK, AllWorkers
<1>10. WorkersOK'
  BY <1>1, <1>5, <1>6 DEF WorkersOK, Busy, Engaged
<1>11. ASSUME Exists' PROVE Orderly(schedule, moment, renewed)' /\ Awake'
  <2>1. Exists /\ Orderly(schedule, moment, renewed) /\ Awake /\ schedule \in Schedule
    BY <1>1, <1>2, <1>11 DEF Exists, ScheduleInv, ScheduleTypeOK
  <2>2. Orderly(schedule, moment, renewed)'
    BY <1>1, <2>1 DEF Orderly
  <2>3. ASSUME schedule.status = "active", schedule.next = Unplanned, ~lapsed'
        PROVE  /\ schedule.limit # Unlimited /\ EndedRuns(schedule) + 1 >= schedule.limit
               /\ Unended(schedule) # {}
    <3>1. /\ schedule.limit # Unlimited /\ ~(EndedRuns(schedule) + 1 < schedule.limit) /\ ~lapsed
      BY <1>2, <2>1, <2>3 DEF ServiceStops
    <3>2. schedule.limit \in Nat /\ EndedRuns(schedule) \in Nat
      BY <2>1, <3>1, EndedIs, RunsTyped, SchedulesAssumption
    <3>3. PICK w \in Ticks : Engaged(w)
      BY <1>1, <2>1, <2>3, <3>1 DEF Awake
    <3>4. workers[w].run \in 1..Len(schedule.runs) /\ ~schedule.runs[workers[w].run].ended
      BY <1>2, <2>1, <3>3 DEF WorkersOK, AllWorkers
    <3>5. workers[w].run \in Unended(schedule)
      BY <2>1, <3>4, RunsTyped DEF Unended, Ended
    <3> QED
      BY <3>1, <3>2, <3>5
  <2>4. Awake'
    BY <1>1, <2>3 DEF Awake, EndedRuns, Ended, Unended
  <2> QED
    BY <2>2, <2>4
<1> QED
  BY <1>9, <1>10, <1>11 DEF ScheduleInv

LEMMA TimeKept == ASSUME ScheduleInv, TimePasses PROVE ScheduleInv'
<1>1. /\ moment < LastMoment /\ moment' = moment + 1 /\ moment \in 1..LastMoment
      /\ LastMoment \in Nat
      /\ UNCHANGED <<schedule, service, reserved, workers, target, events, lapsed, renewed>>
  BY SchedulesAssumption DEF TimePasses, NoHistory, ScheduleInv, ScheduleTypeOK
<1>2. moment' \in 1..LastMoment /\ \A n \in Nat : n <= moment => n <= moment'
  BY <1>1
<1>3. ScheduleTypeOK'
  BY <1>1, <1>2 DEF ScheduleInv, ScheduleTypeOK
<1>4. WorkersOK'
  <2>1. \A w \in AllWorkers : workers[w].now \in Nat
    BY WorkersTyped DEF ScheduleInv
  <2> QED
    BY <1>1, <1>2, <2>1 DEF ScheduleInv, WorkersOK, Busy, Engaged, Exists
<1>5. ASSUME Exists' PROVE Orderly(schedule, moment, renewed)' /\ Awake'
  <2>1. Exists /\ Orderly(schedule, moment, renewed) /\ Awake /\ schedule \in Schedule
    BY <1>1, <1>5 DEF Exists, ScheduleInv, ScheduleTypeOK
  <2>2. \A i \in 1..Len(schedule.runs) : schedule.runs[i].started \in Nat
    BY <2>1, RunsTyped
  <2>3. Orderly(schedule, moment, renewed)'
    BY <1>1, <1>2, <2>1, <2>2 DEF Orderly
  <2>4. Awake'
    BY <1>1, <2>1 DEF Awake, Engaged
  <2> QED
    BY <2>3, <2>4
<1> QED
  BY <1>3, <1>4, <1>5 DEF ScheduleInv

\* What recovery leaves of a schedule
LEMMA RecoveredIs ==
    ASSUME NEW s \in Schedule, NEW from \in Nat, moment \in Nat, Orderly(s, moment, from)
    PROVE  /\ Recovered(s) \in Schedule /\ Orderly(Recovered(s), moment, from)
           /\ Recovered(s).status = "active" /\ Recovered(s).next = Unplanned =>
                 /\ s.status = "active" /\ s.next = Unplanned
                 /\ ~(/\ s.limit # Unlimited /\ EndedRuns(s) + 1 >= s.limit
                      /\ Unended(s) # {})
<1> DEFINE first  == CHOOSE i \in Unended(s) : \A j \in Unended(s) : i <= j
           f      == IF Unended(s) = {} THEN s ELSE [s EXCEPT !.runs[first].ended = TRUE]
           t      == Recovered(s)
<1>1. /\ f \in Schedule /\ SameRuns(s, f) /\ f.next = s.next /\ f.status = s.status
      /\ f.cadence = s.cadence /\ f.limit = s.limit
      /\ Unended(s) # {} => EndedRuns(f) = EndedRuns(s) + 1
  <2>1. CASE Unended(s) = {}
    BY <2>1, SameRunsItself
  <2>2. CASE Unended(s) # {}
    <3>1. Unended(s) \in SUBSET Nat
      BY EndedIs
    <3>2. \E n \in Unended(s) : \A m \in Unended(s) : n <= m
      BY <2>2, <3>1, LeastIndex
    <3>3. first \in Unended(s)
      BY <3>2
    <3> HIDE DEF first
    <3>4. first \in 1..Len(s.runs)
      BY <3>3, EndedIs
    <3>5. ~s.runs[first].ended
      BY <3>3 DEF Unended, Ended
    <3>6. f = [s EXCEPT !.runs[first].ended = TRUE]
      BY <2>2
    <3> QED
      BY <2>2, <3>4, <3>5, <3>6, EndsRun
  <2> QED
    BY <2>1, <2>2
<1>2. t = IF Unended(s) # {} /\ Exhausted(f, moment) THEN CompletedNow(f)
          ELSE IF Due(f, moment)
          THEN [f EXCEPT !.next = AdvancedPast(s.cadence, SlotAfter(s.cadence, s.next), moment)]
          ELSE f
  BY DEF Recovered
<1> HIDE DEF f, t, first
<1>3. Orderly(f, moment, from)
  <2>1. f.next # Unplanned => f.status = "active"
    BY <1>1 DEF Orderly
  <2> QED
    BY <1>1, <2>1, OrderlyAgain
<1>4. CASE Unended(s) # {} /\ Exhausted(f, moment)
  <2>1. t \in Schedule /\ t.runs = f.runs /\ t.next = Unplanned /\ t.status = "completed"
    BY <1>1, <1>2, <1>4, CompletedIs
  <2>2. Orderly(t, moment, from)
    BY <1>1, <1>3, <2>1, SameRunsItself, OrderlyAgain
  <2> QED
    BY <2>1, <2>2 DEF t
<1>5. CASE ~(Unended(s) # {} /\ Exhausted(f, moment)) /\ Due(f, moment)
  <2> DEFINE next == AdvancedPast(s.cadence, SlotAfter(s.cadence, s.next), moment)
  <2>1. s.cadence \in Cadences /\ s.next \in Nat /\ s.next <= moment
    BY <1>1, <1>5, RunsTyped DEF Due
  <2>2. next \in Nat /\ next > moment /\ next # Unplanned
    <3>1. next \in Nat /\ next > moment
      BY <2>1, NextClaimIsLater
    <3> HIDE DEF next
    <3> QED
      BY <3>1 DEF Unplanned
  <2>3. t = [f EXCEPT !.next = next] /\ f.status = "active"
    BY <1>2, <1>5 DEF Due
  <2> HIDE DEF next
  <2>4. t \in Schedule /\ t.runs = f.runs /\ t.next = next /\ t.status = "active"
    BY <1>1, <2>2, <2>3 DEF Schedule
  <2>5. Orderly(t, moment, from)
    BY <1>1, <1>3, <2>2, <2>4, SameRunsItself, OrderlyAgain
  <2> QED
    BY <2>2, <2>4, <2>5 DEF t
<1>6. CASE ~(Unended(s) # {} /\ Exhausted(f, moment)) /\ ~Due(f, moment)
  <2>1. t = f
    BY <1>2, <1>6
  <2>2. ~(/\ s.limit # Unlimited /\ EndedRuns(s) + 1 >= s.limit /\ Unended(s) # {})
    BY <1>1, <1>6 DEF Exhausted
  <2> QED
    BY <1>1, <1>3, <2>1, <2>2 DEF t
<1> QED
  BY <1>4, <1>5, <1>6

LEMMA RestartKept == ASSUME ScheduleInv, Recovers \/ SweepsOrphans PROVE ScheduleInv'
<1>1. /\ service \in {"down", "recovered"} /\ service' \in {"recovered", "ticking"}
      /\ UNCHANGED <<moment, reserved, workers, target, events, lapsed, renewed>>
  BY DEF Recovers, SweepsOrphans, NoHistory
<1>2. /\ ScheduleTypeOK /\ WorkersOK /\ schedule \in Schedule \cup {Deleted}
      /\ moment \in Nat /\ renewed \in Nat
  <2>1. moment \in 1..LastMoment /\ renewed \in 0..MaxRuns
    BY DEF ScheduleInv, ScheduleTypeOK
  <2> QED
    BY <2>1, SchedulesAssumption DEF ScheduleInv, ScheduleTypeOK
<1>3. /\ schedule' \in Schedule \cup {Deleted}
      /\ Exists' => /\ Exists /\ Orderly(schedule', moment, renewed)
                    /\ schedule'.status = "active" /\ schedule'.next = Unplanned => lapsed
  <2>1. CASE ~Exists
    BY <1>1, <1>2, <2>1 DEF Recovers, SweepsOrphans, Exists
  <2>2. CASE Exists
    <3>1. schedule \in Schedule /\ Orderly(schedule, moment, renewed) /\ Awake
      BY <1>2, <2>2 DEF Exists, ScheduleInv
    <3>2. CASE Recovers
      <4>1. schedule' = Recovered(schedule) /\ service = "down"
        BY <2>2, <3>2 DEF Recovers
      <4>2. /\ schedule' \in Schedule /\ Orderly(schedule', moment, renewed)
            /\ schedule'.status = "active" /\ schedule'.next = Unplanned =>
                  /\ schedule.status = "active" /\ schedule.next = Unplanned
                  /\ ~(/\ schedule.limit # Unlimited
                       /\ EndedRuns(schedule) + 1 >= schedule.limit
                       /\ Unended(schedule) # {})
        BY <1>2, <3>1, <4>1, RecoveredIs
      <4> QED
        BY <2>2, <3>1, <4>1, <4>2 DEF Awake
    <3>3. CASE SweepsOrphans
      <4>1. /\ schedule' = CompletedNow(schedule) \/ schedule' = schedule
            /\ service = "recovered"
        BY <3>3 DEF SweepsOrphans
      <4>2. CASE schedule' = schedule
        BY <2>2, <3>1, <4>1, <4>2 DEF Awake
      <4>3. CASE schedule' = CompletedNow(schedule)
        <5>1. /\ schedule' \in Schedule /\ schedule'.runs = schedule.runs
              /\ schedule'.next = Unplanned /\ schedule'.status = "completed"
          BY <3>1, <4>3, CompletedIs
        <5>2. Orderly(schedule', moment, renewed)
          BY <1>2, <3>1, <5>1, SameRunsItself, OrderlyAgain
        <5> QED
          BY <2>2, <5>1, <5>2
      <4> QED
        BY <4>1, <4>2, <4>3
    <3> QED
      BY <3>2, <3>3
  <2> QED
    BY <2>1, <2>2
<1>4. ScheduleTypeOK'
  BY <1>1, <1>2, <1>3 DEF ScheduleTypeOK
<1>5. WorkersOK'
  <2>1. \A w \in AllWorkers : workers[w].at = "resting"
    BY <1>1, <1>2 DEF WorkersOK
  <2> QED
    BY <1>1, <1>2, <2>1 DEF WorkersOK, Busy, Engaged
<1>6. ASSUME Exists' PROVE Orderly(schedule, moment, renewed)' /\ Awake'
  <2>1. Orderly(schedule', moment, renewed)
    BY <1>3, <1>6
  <2>2. Orderly(schedule, moment, renewed)'
    BY <1>1, <2>1 DEF Orderly
  <2>3. Awake'
    BY <1>1, <1>3, <1>6 DEF Awake
  <2> QED
    BY <2>2, <2>3
<1> QED
  BY <1>4, <1>5, <1>6 DEF ScheduleInv

LEMMA ScheduleSteps == ScheduleInv /\ [ScheduleNext]_scheduleVars => ScheduleInv'
<1> SUFFICES ASSUME ScheduleInv, [ScheduleNext]_scheduleVars PROVE ScheduleInv'
  OBVIOUS
<1>1. CASE \E w \in Ticks : Ticking(w) \/ CompletesIfDue(w) \/ ClaimsSlot(w)
  BY <1>1, TickingKept, CompletesKept, ClaimsKept
<1>2. CASE \E w \in Demands : RunOnceInspects(w) \/ AppendsRun(w)
  BY <1>2, InspectsKept, AppendsKept
<1>3. CASE \E w \in Ticks \cup Demands :
              Visits(w) \/ \E yes \in BOOLEAN : ScheduleRunEnds(w, yes) \/ EndNotWritten(w, yes)
  BY <1>3, VisitsKept, RunEndsKept, EndNotWrittenKept DEF AllWorkers
<1>4. CASE \/ Pauses \/ Resumes \/ Removes
           \/ \E cadence \in Cadences : Reschedules(cadence)
           \/ \E limit \in RunLimits : \/ \E expires \in Expiries : Relimits(limit, expires)
                                       \/ \E atOnce \in BOOLEAN : Recreates(limit, atOnce)
  BY <1>4, RewritesKept
<1>5. CASE TargetArchived \/ CompletesForAgent
  BY <1>5, ArchivingKept
<1>6. CASE ServiceStops \/ Recovers \/ SweepsOrphans \/ TimePasses
  BY <1>6, StopsKept, RestartKept, TimeKept
<1>7. CASE UNCHANGED scheduleVars
  <2>1. UNCHANGED <<schedule, moment, service, reserved, workers, target, lapsed, renewed, events>>
    BY <1>7 DEF scheduleVars
  <2> QED
    BY <2>1 DEF ScheduleInv, ScheduleTypeOK, WorkersOK, Busy, Engaged, Exists, Orderly, Awake,
                EndedRuns, Ended, Unended
<1> QED
  BY <1>1, <1>2, <1>3, <1>4, <1>5, <1>6, <1>7 DEF ScheduleNext

(***************************************************************************)
(* The file's queue, the reservation and the conditions of claimDueRun     *)
(* (schedule/store.ts) keep the runs of the clock apart, for any number of *)
(* ticks and demands, any cadences, limits and expiries.                   *)
(***************************************************************************)
THEOREM RunsFollowOneAnotherHolds == ScheduleSpec => []RunsFollowOneAnother
<1>1. ScheduleInit => ScheduleInv
  BY InitSchedule
<1>2. ScheduleInv /\ [ScheduleNext]_scheduleVars => ScheduleInv'
  BY ScheduleSteps
<1>3. ScheduleInv => RunsFollowOneAnother
  <2> SUFFICES ASSUME ScheduleInv PROVE RunsFollowOneAnother
    OBVIOUS
  <2>1. ASSUME Exists, NEW j \in DOMAIN schedule.runs, schedule.runs[j].byTick
        PROVE  /\ schedule.runs[j].slot <= schedule.runs[j].started
               /\ \A i \in renewed + 1..j - 1 :
                     schedule.runs[i].byTick => schedule.runs[i].slot < schedule.runs[j].slot
    <3>1. schedule \in Schedule /\ Orderly(schedule, moment, renewed) /\ renewed \in 0..MaxRuns
      BY <2>1 DEF ScheduleInv, ScheduleTypeOK, Exists
    <3>2. j \in 1..Len(schedule.runs) /\ Len(schedule.runs) \in Nat /\ renewed \in Nat
      BY <2>1, <3>1, RunsTyped, SchedulesAssumption
    <3>3. ASSUME NEW i \in renewed + 1..j - 1, schedule.runs[i].byTick
          PROVE  schedule.runs[i].slot < schedule.runs[j].slot
      <4>1. i \in 1..Len(schedule.runs) /\ i > renewed /\ j \in i + 1..Len(schedule.runs)
        BY <3>2
      <4> QED
        BY <2>1, <3>1, <3>3, <4>1 DEF Orderly
    <3> QED
      BY <3>1, <3>2, <3>3 DEF Orderly
  <2> DEFINE running == {w \in Ticks \cup Demands : workers[w].at \in {"running", "failing"}}
  <2>2. Cardinality(running) <= 1
    <3>1. \A v, w \in running : v = w
      BY DEF ScheduleInv, WorkersOK, Busy, AllWorkers
    <3>2. CASE running = {}
      <4>1. Cardinality(running) = 0
        BY <3>2, FS_EmptySet
      <4> QED
        BY <4>1
    <3>3. CASE running # {}
      <4>1. PICK w \in running : TRUE
        BY <3>3
      <4>2. running = {w}
        BY <3>1, <4>1
      <4> HIDE DEF running
      <4>3. Cardinality(running) = 1
        BY <4>2, FS_Singleton
      <4> QED
        BY <4>3
    <3> QED
      BY <3>2, <3>3
  <2> QED
    BY <2>1, <2>2 DEF RunsFollowOneAnother
<1> QED
  BY <1>1, <1>2, <1>3, PTL DEF ScheduleSpec

(***************************************************************************)
(* Whatever changes a schedule while its last run goes on, and wherever a  *)
(* stop comes: finishRun and recoverInterruptedSchedule leave no active    *)
(* schedule without a next slot, but for the two exceptions of lapsed.     *)
(***************************************************************************)
THEOREM ActiveIsPlannedHolds == ScheduleSpec => []ActiveIsPlanned
<1>1. ScheduleInit => ScheduleInv
  BY InitSchedule
<1>2. ScheduleInv /\ [ScheduleNext]_scheduleVars => ScheduleInv'
  BY ScheduleSteps
<1>3. ScheduleInv => ActiveIsPlanned
  BY DEF ScheduleInv, Orderly, Awake, ActiveIsPlanned, Engaged
<1> QED
  BY <1>1, <1>2, <1>3, PTL DEF ScheduleSpec

-----------------------------------------------------------------------------
(***************************************************************************)
(* What a restart resumes.  The invariant says of each agent where its     *)
(* queue stands (Stands), what is true while a resume is in hand (InHand), *)
(* that a flag on disk is of an interruption (Flagged) and that an agent   *)
(* is cut only while its capture counts (Cut).  Unless a provider ends a   *)
(* turn while its session closes, an interruption is on disk until it is   *)
(* in hand (Kept).                                                         *)
(***************************************************************************)

Replacing == {"consume", "archive"}
Late      == {"capturing", "closing"}

PendingWrite ==
    {AsNow} \cup {Copy(life) : life \in {"idle", "running", "closed"}}
    \cup {Whole(by, record) : by \in Replacing \cup {"capture"}, record \in AgentRecord}

ResumeStages == {"none", "chosen", "consuming", "consumed", "reopening", "sending"}

Holds(queue, kind) == \E i \in 1..Len(queue) : queue[i].kind = kind
Shows(w, life)     == w.kind = "copy" /\ w.life = life

\* A write of a queue: i is its place and n the writes that the flush waits for
Placed(w, i, queue, life, closing, n) ==
    /\ w.kind = "live" => life # "none"
    /\ Shows(w, "closed") => closing = "closed" /\ i = Len(queue)
    /\ w.kind = "consume" => i = 1 /\ ~w.record.resume
    /\ w.kind = "archive" => w.record.archived
    /\ w.kind \in Replacing => stage = "up" \/ (stage = "flushing" /\ i <= n)
    /\ w.kind = "capture" => /\ stage = "capturing" /\ w.record.status = "running"
                             /\ ~w.record.archived /\ w.record.resume = setting

Queued(queue, life, closing, n) ==
    \A i \in 1..Len(queue) : Placed(queue[i], i, queue, life, closing, n)

\* A copy of the idle agent that no capture follows: the flag is on its way out
Cleared(queue) ==
    \E i \in 1..Len(queue) :
        Shows(queue[i], "idle") /\ \A j \in i..Len(queue) : queue[j].kind # "capture"

Stands(x) ==
    /\ pendingWrites[x] \in Seq(PendingWrite)
    /\ Queued(pendingWrites[x], runtimes[x], closings[x], awaited[x])
    /\ stage \in {"down", "preparing"} =>
          /\ pendingWrites[x] = <<>> /\ runtimes[x] = "none" /\ closings[x] = "open"
          /\ resuming[x] \in {"none", "chosen"}
    /\ stage = "down" \/ (stage = "preparing" /\ x \in todo) => resuming[x] = "none"
    /\ closings[x] # "open" => stage = "closing"
    /\ stage = "capturing" => listed[x].archived = agentFiles[x].archived
    /\ Holds(pendingWrites[x], "capture") => ~agentFiles[x].archived

\* Before its record is prepared
Unprepared(x) == stage = "down" \/ (stage = "preparing" /\ x \in todo)

\* A flag that a start would take
Flag(x) == agentFiles[x].resume /\ ~agentFiles[x].archived

\* How far a resume has come
InHand(x) ==
    /\ resuming[x] = "chosen" => stage = "preparing" /\ Flag(x)
    /\ resuming[x] = "consuming" =>
          Flag(x) /\ pendingWrites[x] # <<>> /\ pendingWrites[x][1].kind = "consume"
    /\ Holds(pendingWrites[x], "consume") => resuming[x] = "consuming"
    /\ resuming[x] # "none" => owed[x] \/ x \in overtaken \/ agentFiles[x].archived
    /\ resuming[x] = "sending" => ~agentFiles[x].archived /\ ~Holds(pendingWrites[x], "archive")

\* The flag is of an interruption
Flagged(x) ==
    /\ Unprepared(x) /\ (Flag(x) \/ ShownRunning(x)) => owed[x] \/ x \in overtaken
    /\ stage = "preparing" /\ x \notin todo => (agentFiles[x].resume <=> resuming[x] = "chosen")
                                               /\ agentFiles[x].status # "running"
    /\ stage \in {"up", "flushing"} /\ Flag(x) => resuming[x] = "consuming"
    /\ stage \in Late =>
          /\ Flag(x) => setting
          /\ (Flag(x) \/ Holds(pendingWrites[x], "capture")) /\ x \notin overtaken =>
                x \in captured \/ Cleared(pendingWrites[x])
          /\ Flag(x) /\ agentFiles[x].status # "running" => x \in overtaken \cup cut

\* What is captured is cut when its session is closed
Cut(x) ==
    /\ x \in captured => stage \in Late /\ runtimes[x] # "none"
    /\ x \in cut => x \in captured /\ closings[x] # "open" /\ setting
    /\ x \in captured /\ closings[x] # "open" /\ setting => x \in cut

\* An interruption is on disk until its resume is in hand
Kept(x) ==
    /\ owed[x] => \/ resuming[x] # "none"
                  \/ Unprepared(x) /\ (agentFiles[x].resume \/ agentFiles[x].status = "running")
    /\ x \in captured /\ setting =>
          /\ runtimes[x] = "running" /\ ~Cleared(pendingWrites[x])
          /\ agentFiles[x].resume \/ Holds(pendingWrites[x], "capture")

Recorded(x) == Stands(x) /\ InHand(x) /\ Flagged(x) /\ Cut(x) /\ (CloseCancels \/ Kept(x))

RestartTyped ==
    RestartTypeOK /\ setting \in BOOLEAN /\ pendingWrites = [x \in Agents |-> pendingWrites[x]]

RestartInv ==
    RestartTyped /\ surplus \subseteq overtaken /\ \A x \in Agents : Recorded(x)
-----------------------------------------------------------------------------
(* Queues *)

LEMMA Kinds ==
    /\ AsNow \in PendingWrite /\ AsNow.kind = "live"
    /\ \A life \in {"idle", "running", "closed"} :
          /\ Copy(life) \in PendingWrite /\ Copy(life).kind = "copy" /\ Copy(life).life = life
    /\ \A by \in {"consume", "archive", "capture"}, record \in AgentRecord :
          /\ Whole(by, record) \in PendingWrite
          /\ Whole(by, record).kind = by /\ Whole(by, record).record = record
<1>1. AsNow \in PendingWrite /\ AsNow.kind = "live"
  BY DEF PendingWrite, AsNow
<1>2. ASSUME NEW life \in {"idle", "running", "closed"}
      PROVE  Copy(life) \in PendingWrite /\ Copy(life).kind = "copy" /\ Copy(life).life = life
  <2>1. Copy(life) \in PendingWrite
    BY DEF PendingWrite
  <2> QED
    BY <2>1 DEF Copy
<1>3. ASSUME NEW by \in {"consume", "archive", "capture"}, NEW record \in AgentRecord
      PROVE  /\ Whole(by, record) \in PendingWrite
             /\ Whole(by, record).kind = by /\ Whole(by, record).record = record
  <2>1. Whole(by, record) \in PendingWrite
    BY DEF PendingWrite, Replacing
  <2> QED
    BY <2>1 DEF Whole
<1> QED
  BY <1>1, <1>2, <1>3

\* One more write at the end
Pushes(s, t, a) ==
    /\ t \in Seq(PendingWrite) /\ Len(t) = Len(s) + 1 /\ t # <<>>
    /\ \A i \in 1..Len(s) : t[i] = s[i]
    /\ t[Len(t)] = a

LEMMA Push ==
    ASSUME NEW s \in Seq(PendingWrite), NEW a \in PendingWrite
    PROVE  Pushes(s, s \o <<a>>, a)
BY DEF Pushes

LEMMA PushTwo ==
    ASSUME NEW s \in Seq(PendingWrite), NEW a \in PendingWrite, NEW b \in PendingWrite
    PROVE  \E t \in Seq(PendingWrite) : Pushes(s, t, a) /\ Pushes(t, s \o <<a, b>>, b)
<1> DEFINE t == s \o <<a>>
<1>1. Pushes(s, t, a)
  BY Push
<1>2. Pushes(t, s \o <<a, b>>, b)
  BY DEF Pushes
<1> QED
  BY <1>1, <1>2 DEF Pushes

\* What a queue holds after it
PushHolds(s, t, a) ==
    /\ \A k \in {"consume", "archive", "capture"} : Holds(t, k) <=> Holds(s, k) \/ a.kind = k
    /\ Cleared(t) <=> Shows(a, "idle") \/ (a.kind # "capture" /\ Cleared(s))
    /\ s # <<>> => t[1] = s[1]

LEMMA PushKeeps ==
    ASSUME NEW s \in Seq(PendingWrite), NEW t, NEW a, Pushes(s, t, a)
    PROVE  PushHolds(s, t, a)
<1>1. /\ Len(s) \in Nat /\ Len(t) = Len(s) + 1 /\ Len(t) \in 1..Len(t)
      /\ \A i \in 1..Len(t) : i \in 1..Len(s) \/ i = Len(t)
      /\ \A i \in 1..Len(s) : i \in 1..Len(t) /\ i # Len(t) /\ t[i] = s[i]
      /\ t[Len(t)] = a
  BY DEF Pushes
<1>2. ASSUME NEW k PROVE Holds(t, k) <=> Holds(s, k) \/ a.kind = k
  BY <1>1 DEF Holds
<1>3. ASSUME Cleared(t) PROVE Shows(a, "idle") \/ (a.kind # "capture" /\ Cleared(s))
  <2>1. PICK i \in 1..Len(t) :
            Shows(t[i], "idle") /\ \A j \in i..Len(t) : t[j].kind # "capture"
    BY <1>3 DEF Cleared
  <2>2. CASE i = Len(t)
    BY <2>1, <2>2, <1>1
  <2>3. CASE i \in 1..Len(s)
    <3>1. a.kind # "capture"
      BY <2>1, <2>3, <1>1
    <3>2. Shows(s[i], "idle") /\ \A j \in i..Len(s) : s[j].kind # "capture"
      BY <2>1, <2>3, <1>1
    <3> QED
      BY <3>1, <3>2, <2>3 DEF Cleared
  <2> QED
    BY <2>2, <2>3, <1>1
<1>4. ASSUME Shows(a, "idle") PROVE Cleared(t)
  <2>1. Shows(t[Len(t)], "idle") /\ \A j \in Len(t)..Len(t) : t[j].kind # "capture"
    BY <1>1, <1>4 DEF Shows
  <2> QED
    BY <1>1, <2>1 DEF Cleared
<1>5. ASSUME a.kind # "capture", Cleared(s) PROVE Cleared(t)
  <2>1. PICK i \in 1..Len(s) :
            Shows(s[i], "idle") /\ \A j \in i..Len(s) : s[j].kind # "capture"
    BY <1>5 DEF Cleared
  <2>2. Shows(t[i], "idle") /\ i \in 1..Len(t)
    BY <1>1, <2>1
  <2>3. \A j \in i..Len(t) : t[j].kind # "capture"
    <3>1. \A j \in i..Len(t) : j \in i..Len(s) \/ j = Len(t)
      BY <1>1
    <3>2. \A j \in i..Len(s) : j \in 1..Len(s)
      BY <1>1
    <3> QED
      BY <3>1, <3>2, <1>1, <1>5, <2>1
  <2> QED
    BY <2>2, <2>3 DEF Cleared
<1>6. s # <<>> => t[1] = s[1]
  <2>1. s # <<>> => 1 \in 1..Len(s)
    OBVIOUS
  <2> QED
    BY <1>1, <2>1
<1> QED
  BY <1>2, <1>3, <1>4, <1>5, <1>6 DEF PushHolds

LEMMA PushQueued ==
    ASSUME NEW s \in Seq(PendingWrite), NEW t, NEW a, Pushes(s, t, a),
           NEW life, NEW after, NEW closing, NEW ending, NEW n,
           life # "none" => after # "none", closing # "closed",
           Queued(s, life, closing, n), Placed(a, Len(t), t, after, ending, n)
    PROVE  Queued(t, after, ending, n)
<1>1. /\ \A i \in 1..Len(t) : i \in 1..Len(s) \/ i = Len(t)
      /\ \A i \in 1..Len(s) : t[i] = s[i]
      /\ t[Len(t)] = a
  BY DEF Pushes
<1>2. \A i \in 1..Len(s) : Placed(s[i], i, s, life, closing, n)
  BY DEF Queued
<1>3. \A i \in 1..Len(s) : Placed(s[i], i, t, after, ending, n)
  BY <1>2 DEF Placed
<1> QED
  BY <1>1, <1>3 DEF Queued

\* The first write taken out
Pops(s, t) ==
    /\ t \in Seq(PendingWrite) /\ Len(s) = Len(t) + 1
    /\ \A i \in 1..Len(t) : t[i] = s[i + 1] /\ i + 1 \in 1..Len(s)

LEMMA Pop ==
    ASSUME NEW s \in Seq(PendingWrite), s # <<>>
    PROVE  Pops(s, Tail(s)) /\ Head(s) = s[1] /\ s[1] \in PendingWrite /\ 1 \in 1..Len(s)
<1>1. /\ Tail(s) \in Seq(PendingWrite) /\ Len(s) = Len(Tail(s)) + 1 /\ Len(Tail(s)) \in Nat
      /\ \A i \in 1..Len(Tail(s)) : Tail(s)[i] = s[i + 1]
  OBVIOUS
<1>2. \A i \in 1..Len(Tail(s)) : i + 1 \in 1..Len(s)
  BY <1>1
<1>3. Head(s) = s[1] /\ s[1] \in PendingWrite /\ 1 \in 1..Len(s)
  OBVIOUS
<1> QED
  BY <1>1, <1>2, <1>3 DEF Pops

PopHolds(s, t) ==
    /\ \A k \in {"consume", "archive", "capture"} : Holds(s, k) <=> Holds(t, k) \/ s[1].kind = k
    /\ Cleared(t) => Cleared(s)
    /\ Cleared(s) /\ ~Cleared(t) => Shows(s[1], "idle") /\ ~Holds(t, "capture")

LEMMA PopKeeps ==
    ASSUME NEW s \in Seq(PendingWrite), NEW t, Pops(s, t)
    PROVE  PopHolds(s, t)
<1>1. /\ Len(t) \in Nat /\ Len(s) = Len(t) + 1 /\ 1 \in 1..Len(s)
      /\ \A i \in 1..Len(t) : t[i] = s[i + 1] /\ i + 1 \in 1..Len(s)
      /\ \A i \in 1..Len(s) : i = 1 \/ (i - 1 \in 1..Len(t) /\ s[i] = t[i - 1])
  <2>1. Len(t) \in Nat /\ Len(s) = Len(t) + 1 /\ 1 \in 1..Len(s)
    BY DEF Pops
  <2>2. \A i \in 1..Len(t) : t[i] = s[i + 1] /\ i + 1 \in 1..Len(s)
    BY DEF Pops
  <2>3. ASSUME NEW i \in 1..Len(s), i # 1 PROVE i - 1 \in 1..Len(t) /\ s[i] = t[i - 1]
    <3>1. i - 1 \in 1..Len(t) /\ (i - 1) + 1 = i
      BY <2>1, <2>3
    <3> QED
      BY <2>2, <3>1
  <2> QED
    BY <2>1, <2>2, <2>3
<1>2. ASSUME NEW k PROVE Holds(s, k) <=> Holds(t, k) \/ s[1].kind = k
  BY <1>1 DEF Holds
<1>3. ASSUME Cleared(t) PROVE Cleared(s)
  <2>1. PICK i \in 1..Len(t) :
            Shows(t[i], "idle") /\ \A j \in i..Len(t) : t[j].kind # "capture"
    BY <1>3 DEF Cleared
  <2>2. Shows(s[i + 1], "idle") /\ i + 1 \in 1..Len(s)
    BY <1>1, <2>1
  <2>3. ASSUME NEW j \in (i + 1)..Len(s) PROVE s[j].kind # "capture"
    <3>1. j - 1 \in i..Len(t) /\ j \in 1..Len(s) /\ j # 1
      BY <1>1
    <3> QED
      BY <3>1, <2>1, <1>1
  <2> QED
    BY <2>2, <2>3 DEF Cleared
<1>4. ASSUME Cleared(s), ~Cleared(t) PROVE Shows(s[1], "idle") /\ ~Holds(t, "capture")
  <2>1. PICK i \in 1..Len(s) :
            Shows(s[i], "idle") /\ \A j \in i..Len(s) : s[j].kind # "capture"
    BY <1>4 DEF Cleared
  <2>2. ASSUME i # 1 PROVE FALSE
    <3>1. i - 1 \in 1..Len(t) /\ Shows(t[i - 1], "idle")
      BY <2>1, <2>2, <1>1
    <3>2. ASSUME NEW j \in (i - 1)..Len(t) PROVE t[j].kind # "capture"
      <4>1. j \in 1..Len(t) /\ j + 1 \in i..Len(s)
        BY <1>1, <3>1
      <4> QED
        BY <4>1, <1>1, <2>1
    <3> QED
      BY <3>1, <3>2, <1>4 DEF Cleared
  <2>3. ASSUME NEW j \in 1..Len(t) PROVE t[j].kind # "capture"
    <3>1. i = 1 /\ j + 1 \in 1..Len(s)
      BY <2>2, <1>1
    <3> QED
      BY <3>1, <1>1, <2>1
  <2> QED
    BY <2>1, <2>2, <2>3 DEF Holds
<1> QED
  BY <1>2, <1>3, <1>4 DEF PopHolds

LEMMA PopQueued ==
    ASSUME NEW s \in Seq(PendingWrite), NEW t, Pops(s, t),
           NEW life, NEW closing, NEW n \in Nat, Queued(s, life, closing, n)
    PROVE  Queued(t, life, closing, IF n > 0 THEN n - 1 ELSE 0) /\ ~Holds(t, "consume")
<1>1. /\ Len(t) \in Nat /\ Len(s) = Len(t) + 1
      /\ \A i \in 1..Len(t) : t[i] = s[i + 1] /\ i + 1 \in 1..Len(s)
  BY DEF Pops
<1>2. ASSUME NEW i \in 1..Len(t)
      PROVE  /\ Placed(t[i], i, t, life, closing, IF n > 0 THEN n - 1 ELSE 0)
             /\ t[i].kind # "consume"
  <2>1. Placed(t[i], i + 1, s, life, closing, n)
    BY <1>1 DEF Queued
  <2>2. /\ i + 1 # 1 /\ (i + 1 = Len(s) => i = Len(t))
        /\ (i + 1 <= n => i <= IF n > 0 THEN n - 1 ELSE 0)
    BY <1>1
  <2> QED
    BY <2>1, <2>2 DEF Placed
<1> QED
  BY <1>2 DEF Queued, Holds

-----------------------------------------------------------------------------
(* Types *)

LEMMA WriteIs ==
    ASSUME NEW w \in PendingWrite
    PROVE  \/ w.kind = "live"
           \/ w.kind = "copy" /\ w.life \in {"idle", "running", "closed"}
           \/ w.kind \in {"consume", "archive", "capture"} /\ w.record \in AgentRecord
<1>1. CASE w = AsNow
  BY <1>1 DEF AsNow
<1>2. CASE \E life \in {"idle", "running", "closed"} : w = Copy(life)
  BY <1>2 DEF Copy
<1>3. CASE \E by \in Replacing \cup {"capture"}, record \in AgentRecord : w = Whole(by, record)
  BY <1>3 DEF Whole, Replacing
<1> QED
  BY <1>1, <1>2, <1>3 DEF PendingWrite

\* The record r that the write w leaves
LandsAs(x, w, r) ==
    /\ r \in AgentRecord
    /\ w.kind = "live" =>
          /\ r.status = runtimes[x] /\ r.archived = agentFiles[x].archived
          /\ r.resume <=> agentFiles[x].resume /\ runtimes[x] # "idle"
    /\ w.kind = "copy" =>
          /\ r.status = w.life /\ r.archived = agentFiles[x].archived
          /\ r.resume <=> agentFiles[x].resume /\ w.life # "idle"
    /\ w.kind \in {"consume", "archive", "capture"} => r = w.record

LEMMA SnapshotIs ==
    ASSUME NEW record \in AgentRecord, NEW life \in {"idle", "running", "closed"}
    PROVE  /\ Snapshot(record, life) \in AgentRecord
           /\ Snapshot(record, life).status = life
           /\ Snapshot(record, life).archived = record.archived
           /\ Snapshot(record, life).resume <=> record.resume /\ life # "idle"
BY DEF Snapshot, AgentRecord

LEMMA Lands ==
    ASSUME RestartTyped, NEW x \in Agents, Stands(x), NEW w, pendingWrites[x] # <<>>,
           w = pendingWrites[x][1]
    PROVE  LandsAs(x, w, Contents(x, w)) /\ w \in PendingWrite
<1>1. w \in PendingWrite /\ (w.kind = "live" => runtimes[x] # "none")
  <2>1. w \in PendingWrite /\ 1 \in 1..Len(pendingWrites[x])
    BY Pop DEF Stands
  <2> QED
    BY <2>1 DEF Stands, Queued, Placed
<1>2. agentFiles[x] \in AgentRecord /\ runtimes[x] \in {"none", "idle", "running"}
  BY DEF RestartTyped, RestartTypeOK
<1>3. CASE w.kind = "live"
  <2>1. Contents(x, w) = Snapshot(agentFiles[x], runtimes[x])
    BY <1>3 DEF Contents
  <2>2. runtimes[x] \in {"idle", "running", "closed"}
    BY <1>1, <1>2, <1>3
  <2> QED
    BY <1>1, <1>2, <1>3, <2>1, <2>2, SnapshotIs DEF LandsAs
<1>4. CASE w.kind = "copy" /\ w.life \in {"idle", "running", "closed"}
  <2>1. Contents(x, w) = Snapshot(agentFiles[x], w.life)
    BY <1>4 DEF Contents
  <2> QED
    BY <1>1, <1>2, <1>4, <2>1, SnapshotIs DEF LandsAs
<1>5. CASE w.kind \in {"consume", "archive", "capture"} /\ w.record \in AgentRecord
  <2>1. Contents(x, w) = w.record
    BY <1>5 DEF Contents
  <2> QED
    BY <1>1, <1>5, <2>1 DEF LandsAs
<1> QED
  BY <1>1, <1>3, <1>4, <1>5, WriteIs

LEMMA RestartTypes ==
    ASSUME RestartInv, [RestartNext]_restartVars
    PROVE  RestartTypeOK'
<1>1. RestartTypeOK /\ RestartTyped /\ \A x \in Agents : Stands(x)
  BY DEF RestartInv, RestartTyped, Recorded
<1>2. ASSUME NEW x \in Agents, WriteLands(x) PROVE RestartTypeOK'
  <2>1. Contents(x, pendingWrites[x][1]) \in AgentRecord /\ Head(pendingWrites[x]) = pendingWrites[x][1]
    BY <1>1, <1>2, Lands, Pop DEF WriteLands, LandsAs, Stands
  <2>2. awaited' \in [Agents -> Nat]
    BY <1>1, <1>2 DEF WriteLands, RestartTypeOK
  <2>3. agentFiles' \in [Agents -> AgentRecord]
    <3>1. agentFiles' = [agentFiles EXCEPT ![x] = Contents(x, pendingWrites[x][1])]
      BY <1>2, <2>1 DEF WriteLands
    <3> QED
      BY <1>1, <2>1, <3>1 DEF RestartTypeOK
  <2>4. /\ resuming' \in [Agents -> {"none", "chosen", "consuming", "consumed", "reopening", "sending"}]
        /\ owed' \in [Agents -> BOOLEAN]
    BY <1>1, <1>2 DEF WriteLands, RestartTypeOK
  <2> QED
    BY <1>1, <1>2, <2>2, <2>3, <2>4 DEF WriteLands, RestartTypeOK
<1>3. ASSUME NEW x \in Agents, Prepares(x) PROVE RestartTypeOK'
  <2> DEFINE pending == setting /\ (agentFiles[x].resume \/ agentFiles[x].status = "running")
                        /\ ~agentFiles[x].archived
             status  == IF agentFiles[x].status = "running" THEN "closed" ELSE agentFiles[x].status
  <2>1. agentFiles' = [agentFiles EXCEPT ![x] = [agentFiles[x] EXCEPT !.resume = pending,
                                                     !.status = status]]
    BY <1>1, <1>3 DEF Prepares, RestartTypeOK, AgentRecord
  <2>2. /\ resuming' = [resuming EXCEPT ![x] = IF pending THEN "chosen" ELSE "none"]
        /\ owed' = [owed EXCEPT ![x] = owed[x] /\ pending]
        /\ todo' = todo \ {x}
        /\ UNCHANGED <<runtimes, closings, stage, listed, awaited, captured, cut, overtaken, surplus>>
    BY <1>1, <1>3 DEF Prepares, RestartTypeOK
  <2>3. pending \in BOOLEAN /\ status \in {"idle", "running", "closed"} /\ agentFiles[x] \in AgentRecord
    BY <1>1 DEF RestartTypeOK, AgentRecord
  <2>4. (owed[x] /\ pending) \in BOOLEAN
    OBVIOUS
  <2> HIDE DEF pending, status
  <2>5. [agentFiles[x] EXCEPT !.resume = pending, !.status = status] \in AgentRecord
    BY <2>3 DEF AgentRecord
  <2>6. agentFiles' \in [Agents -> AgentRecord] /\ resuming' \in [Agents -> ResumeStages]
    BY <1>1, <2>1, <2>2, <2>5 DEF RestartTypeOK, ResumeStages
  <2>7. owed' \in [Agents -> BOOLEAN]
    BY <1>1, <2>2, <2>4 DEF RestartTypeOK
  <2> QED
    BY <1>1, <2>2, <2>6, <2>7 DEF RestartTypeOK, ResumeStages
<1>4. ASSUME NEW x \in Agents,
             \/ Reopens(x) \/ SendsResume(x) \/ LoadsAgent(x) \/ BeginsTurn(x) \/ EndsTurn(x)
             \/ ReportsCanceled(x) \/ ResumeChecks(x) \/ ResumeFails(x) \/ ArchivesAgent(x)
      PROVE  RestartTypeOK'
  <2>1. CASE LoadsAgent(x) \/ BeginsTurn(x) \/ EndsTurn(x) \/ ReportsCanceled(x) \/ ArchivesAgent(x)
    BY <1>1, <2>1 DEF LoadsAgent, BeginsTurn, EndsTurn, ReportsCanceled, ArchivesAgent, Becomes,
          RestartTypeOK, stopping, ghosts
  <2>2. CASE ResumeChecks(x) \/ ResumeFails(x)
    BY <1>1, <2>2 DEF ResumeChecks, ResumeFails, Abandons, RestartTypeOK, stopping
  <2>3. CASE Reopens(x)
    BY <1>1, <2>3 DEF Reopens, Becomes, RestartTypeOK, stopping, ghosts
  <2>4. CASE SendsResume(x)
    BY <1>1, <2>4 DEF SendsResume, Becomes, RestartTypeOK, stopping
  <2> QED
    BY <1>4, <2>1, <2>2, <2>3, <2>4
<1>5. ASSUME NEW x \in Agents, Captures(x) \/ ClosesSession(x) \/ SessionCloses(x)
      PROVE  RestartTypeOK'
  <2>1. CASE Captures(x)
    BY <1>1, <2>1 DEF Captures, RestartTypeOK, ghosts
  <2>2. CASE ClosesSession(x) \/ SessionCloses(x)
    BY <1>1, <2>2 DEF ClosesSession, SessionCloses, RestartTypeOK, ghosts
  <2> QED
    BY <1>5, <2>1, <2>2
<1>6. CASE \/ StartsDaemon \/ Opens \/ SwitchesSetting \/ ListsRecords \/ ClosesAgents
  BY <1>1, <1>6 DEF StartsDaemon, Opens, SwitchesSetting, ListsRecords, ClosesAgents,
        RestartTypeOK, stopping, ghosts
<1>7. CASE ShutsDown
  <2>1. \A x \in Agents : Len(pendingWrites[x]) \in Nat
    BY <1>1 DEF Stands
  <2> QED
    BY <1>1, <1>7, <2>1 DEF ShutsDown, RestartTypeOK, ghosts
<1>8. CASE ExitsDaemon \/ CrashesDaemon
  <2>1. owed' \in [Agents -> BOOLEAN]
    BY <1>1, <1>8 DEF ExitsDaemon, CrashesDaemon, RestartTypeOK
  <2> QED
    BY <1>1, <1>8, <2>1 DEF ExitsDaemon, CrashesDaemon, GoesDown, RestartTypeOK
<1>9. CASE UNCHANGED restartVars
  BY <1>1, <1>9 DEF restartVars, RestartTypeOK
<1> QED
  BY <1>2, <1>3, <1>4, <1>5, <1>6, <1>7, <1>8, <1>9 DEF RestartNext

LEMMA OtherTypes ==
    ASSUME RestartTyped, [RestartNext]_restartVars
    PROVE  setting' \in BOOLEAN /\ pendingWrites' = [x \in Agents |-> pendingWrites'[x]]
<1>1. setting \in BOOLEAN /\ pendingWrites = [x \in Agents |-> pendingWrites[x]]
  BY DEF RestartTyped
<1>2. setting' \in BOOLEAN
  BY <1>1 DEF RestartNext, restartVars, WriteLands, StartsDaemon, Prepares, Opens, ResumeChecks,
        Reopens, ResumeFails, SendsResume, LoadsAgent, BeginsTurn, EndsTurn, ArchivesAgent,
        SwitchesSetting, ShutsDown, ListsRecords, Captures, ClosesAgents, ClosesSession,
        ReportsCanceled, SessionCloses, GoesDown, ExitsDaemon, CrashesDaemon
<1>3. \/ UNCHANGED pendingWrites
      \/ \E x \in Agents : \E queue : pendingWrites' = [pendingWrites EXCEPT ![x] = queue]
      \/ \E f : pendingWrites' = [x \in Agents |-> f[x]]
  <2>1. ASSUME NEW x \in Agents, NEW writes, Queues(x, writes)
        PROVE  \E queue : pendingWrites' = [pendingWrites EXCEPT ![x] = queue]
    BY <1>1, <2>1 DEF Queues
  <2>2. ASSUME NEW x \in Agents, WriteLands(x)
        PROVE  \E queue : pendingWrites' = [pendingWrites EXCEPT ![x] = queue]
    BY <1>1, <2>2 DEF WriteLands
  <2>3. ASSUME NEW x \in Agents,
               \/ Reopens(x) \/ SendsResume(x) \/ LoadsAgent(x) \/ BeginsTurn(x) \/ EndsTurn(x)
               \/ ReportsCanceled(x) \/ ArchivesAgent(x) \/ Captures(x) \/ SessionCloses(x)
        PROVE  UNCHANGED pendingWrites \/ \E writes : Queues(x, writes)
    BY <2>3 DEF Reopens, SendsResume, LoadsAgent, BeginsTurn, EndsTurn, ReportsCanceled,
          ArchivesAgent, Captures, SessionCloses, Becomes
  <2>4. CASE Opens \/ ExitsDaemon \/ CrashesDaemon
    <3>1. \E f : pendingWrites' = [x \in Agents |-> f[x]]
      <4>1. CASE Opens
        <5> DEFINE f == [x \in Agents |-> IF resuming[x] = "chosen"
              THEN <<Whole("consume", [agentFiles[x] EXCEPT !.resume = FALSE])>> ELSE <<>>]
        <5>1. pendingWrites' = f /\ f = [x \in Agents |-> f[x]]
          BY <4>1 DEF Opens
        <5> QED
          BY <5>1
      <4>2. CASE ExitsDaemon \/ CrashesDaemon
        <5> DEFINE f == [x \in Agents |-> <<>>]
        <5>1. pendingWrites' = f /\ f = [x \in Agents |-> f[x]]
          BY <4>2 DEF ExitsDaemon, CrashesDaemon, GoesDown
        <5> QED
          BY <5>1
      <4> QED
        BY <2>4, <4>1, <4>2
    <3> QED
      BY <3>1
  <2>5. CASE \/ StartsDaemon \/ SwitchesSetting \/ ShutsDown \/ ListsRecords \/ ClosesAgents
             \/ UNCHANGED restartVars
    BY <2>5 DEF StartsDaemon, SwitchesSetting, ShutsDown, ListsRecords, ClosesAgents, restartVars
  <2>6. ASSUME NEW x \in Agents, Prepares(x) \/ ResumeChecks(x) \/ ResumeFails(x) \/ ClosesSession(x)
        PROVE  UNCHANGED pendingWrites
    BY <2>6 DEF Prepares, ResumeChecks, ResumeFails, ClosesSession
  <2> QED
    BY <2>1, <2>2, <2>3, <2>4, <2>5, <2>6 DEF RestartNext
<1>4. ASSUME NEW x \in Agents, NEW queue, pendingWrites' = [pendingWrites EXCEPT ![x] = queue]
      PROVE  pendingWrites' = [y \in Agents |-> pendingWrites'[y]]
  BY <1>1, <1>4
<1>5. ASSUME NEW f, pendingWrites' = [x \in Agents |-> f[x]]
      PROVE  pendingWrites' = [y \in Agents |-> pendingWrites'[y]]
  BY <1>5
<1> QED
  BY <1>1, <1>2, <1>3, <1>4, <1>5

LEMMA TypedSteps ==
    ASSUME RestartInv, [RestartNext]_restartVars
    PROVE  RestartTyped'
BY RestartTypes, OtherTypes DEF RestartInv, RestartTyped

-----------------------------------------------------------------------------
(* One agent moves *)

Same(x) ==
    /\ agentFiles'[x] = agentFiles[x] /\ pendingWrites'[x] = pendingWrites[x]
    /\ runtimes'[x] = runtimes[x] /\ closings'[x] = closings[x] /\ awaited'[x] = awaited[x]
    /\ listed'[x] = listed[x] /\ resuming'[x] = resuming[x] /\ owed'[x] = owed[x]
    /\ x \in todo' <=> x \in todo
    /\ x \in captured' <=> x \in captured
    /\ x \in cut' <=> x \in cut
    /\ x \in overtaken' <=> x \in overtaken

LEMMA SameRecorded ==
    ASSUME NEW x \in Agents, Recorded(x), Same(x), stage' = stage, setting' = setting
    PROVE  Recorded(x)'
<1>1. Stands(x)'
  BY DEF Recorded, Stands, Same, Queued, Placed
<1>2. InHand(x)'
  BY DEF Recorded, InHand, Flag, Same
<1>3. Flagged(x)'
  BY DEF Recorded, Flagged, Same, Unprepared, Flag, ShownRunning
<1>4. Cut(x)'
  BY DEF Recorded, Cut, Same
<1>5. Kept(x) => Kept(x)'
  BY DEF Kept, Same, Unprepared
<1> QED
  BY <1>1, <1>2, <1>3, <1>4, <1>5 DEF Recorded

LEMMA OneMoves ==
    ASSUME RestartInv, RestartTyped', NEW x \in Agents, Recorded(x)',
           \A y \in Agents : y # x => Same(y), stage' = stage, setting' = setting,
           surplus' \subseteq overtaken'
    PROVE  RestartInv'
<1>1. ASSUME NEW y \in Agents PROVE Recorded(y)'
  <2>1. CASE y # x
    BY <2>1, SameRecorded DEF RestartInv
  <2> QED
    BY <2>1
<1> QED
  BY <1>1 DEF RestartInv

\* The two snapshots of a change
BecomesTo(x, life) ==
    /\ runtimes'[x] = life
    /\ \A k \in {"consume", "archive", "capture"} :
          Holds(pendingWrites'[x], k) <=> Holds(pendingWrites[x], k)
    /\ Cleared(pendingWrites'[x]) <=> life = "idle" \/ Cleared(pendingWrites[x])
    /\ pendingWrites[x] # <<>> => pendingWrites'[x][1] = pendingWrites[x][1]
    /\ pendingWrites'[x] # <<>>
    /\ \A y \in Agents : y # x => /\ runtimes'[y] = runtimes[y]
                                  /\ pendingWrites'[y] = pendingWrites[y]

LEMMA BecomesStands ==
    ASSUME RestartTyped, NEW x \in Agents, Stands(x), NEW life \in {"idle", "running"},
           Becomes(x, life), closings[x] # "closed", stage \notin {"down", "preparing"},
           UNCHANGED <<agentFiles, stopping, setting>>
    PROVE  Stands(x)' /\ BecomesTo(x, life)
<1> DEFINE s == pendingWrites[x]
           u == s \o <<AsNow, Copy(life)>>
<1>1. /\ runtimes' = [runtimes EXCEPT ![x] = life] /\ pendingWrites' = [pendingWrites EXCEPT ![x] = u]
      /\ s \in Seq(PendingWrite) /\ Queued(s, runtimes[x], closings[x], awaited[x])
  BY DEF Becomes, Queues, Stands
<1>2. x \in DOMAIN runtimes
  BY DEF RestartTyped, RestartTypeOK
<1>3. AsNow \in PendingWrite /\ Copy(life) \in PendingWrite
  BY Kinds
<1>4. PICK t \in Seq(PendingWrite) : Pushes(s, t, AsNow) /\ Pushes(t, u, Copy(life))
  BY <1>1, <1>3, PushTwo
<1> HIDE DEF s, u
<1>5. /\ PushHolds(s, t, AsNow) /\ PushHolds(t, u, Copy(life))
  BY <1>1, <1>4, PushKeeps
<1>6. Queued(t, life, closings[x], awaited[x])
  <2>1. Placed(AsNow, Len(t), t, life, closings[x], awaited[x])
    BY Kinds DEF Placed, Shows, Replacing
  <2> QED
    BY <1>1, <1>4, <2>1, PushQueued
<1>7. Queued(u, life, closings[x], awaited[x])
  <2>1. Placed(Copy(life), Len(u), u, life, closings[x], awaited[x])
    BY Kinds DEF Placed, Shows, Replacing
  <2> QED
    BY <1>1, <1>4, <1>6, <2>1, PushQueued
<1>8. s \in Seq(PendingWrite) /\ u \in Seq(PendingWrite) /\ u # <<>> /\ t # <<>>
  BY <1>1, <1>4 DEF Pushes
<1>9. pendingWrites'[x] = u /\ pendingWrites[x] = s /\ runtimes'[x] = life
      /\ \A y \in Agents : y # x => /\ runtimes'[y] = runtimes[y]
                                    /\ pendingWrites'[y] = pendingWrites[y]
  <2>1. DOMAIN pendingWrites = Agents /\ DOMAIN runtimes = Agents
    BY DEF RestartTyped, RestartTypeOK
  <2> QED
    BY <1>1, <2>1 DEF s
<1>10. BecomesTo(x, life)
  BY <1>5, <1>8, <1>9, Kinds DEF BecomesTo, PushHolds, Shows
<1>11. Queued(pendingWrites[x], runtimes[x], closings[x], awaited[x])'
  <2>1. closings' = closings /\ awaited' = awaited /\ stage' = stage /\ setting' = setting
    BY DEF stopping
  <2> QED
    BY <1>7, <1>9, <2>1 DEF Queued, Placed
<1>12. Stands(x)'
  <2>1. UNCHANGED <<closings, awaited, stage, setting, listed, todo, agentFiles>>
    BY DEF stopping
  <2> QED
    BY <1>8, <1>9, <1>10, <1>11, <2>1 DEF Stands, BecomesTo
<1> QED
  BY <1>10, <1>12

\* The resume of an agent that changes: it goes on, is about to be sent, or was
Goes(x) ==
    \/ resuming'[x] = resuming[x] /\ owed'[x] = owed[x]
    \/ /\ resuming[x] = "reopening" /\ resuming'[x] = "sending" /\ owed'[x] = owed[x]
       /\ ~agentFiles[x].archived /\ ~Holds(pendingWrites[x], "archive")
    \/ resuming[x] = "sending" /\ resuming'[x] = "none" /\ ~owed'[x]

LEMMA Changes ==
    ASSUME RestartInv, NEW x \in Agents, NEW life \in {"idle", "running"}, Becomes(x, life),
           closings[x] # "closed", stage \notin {"down", "preparing"}, Goes(x),
           UNCHANGED <<agentFiles, stopping, setting, cut, overtaken>>,
           x \in captured' => x \in captured /\ (life = "running" \/ CloseCancels),
           x \in captured /\ x \notin captured' => life = "idle" /\ closings[x] = "open"
    PROVE  Recorded(x)'
<1>1. RestartTyped /\ Recorded(x)
  BY DEF RestartInv
<1>2. Stands(x)' /\ BecomesTo(x, life)
  BY <1>1, BecomesStands DEF Recorded
<1>3. UNCHANGED <<agentFiles, closings, stage, todo, listed, awaited, setting, cut, overtaken>>
  BY DEF stopping
<1>4. InHand(x)'
  BY <1>1, <1>2, <1>3 DEF Recorded, InHand, Flag, BecomesTo, Goes
<1>5. Flagged(x)'
  BY <1>1, <1>2, <1>3 DEF Recorded, Flagged, BecomesTo, Goes, Unprepared, Flag, ShownRunning, Late
<1>6. Cut(x)'
  BY <1>1, <1>2, <1>3 DEF Recorded, Cut, BecomesTo, Late
<1>7. ASSUME Kept(x), ~CloseCancels PROVE Kept(x)'
  BY <1>1, <1>2, <1>3, <1>7 DEF Kept, BecomesTo, Goes, Unprepared
<1>8. CloseCancels \/ Kept(x)'
  BY <1>1, <1>7 DEF Recorded
<1> QED
  BY <1>2, <1>4, <1>5, <1>6, <1>8 DEF Recorded

\* Of the other agents nothing changes
LEMMA OthersStay ==
    ASSUME RestartInv, NEW x \in Agents, NEW life, Becomes(x, life),
           UNCHANGED <<agentFiles, stopping, cut, overtaken>>,
           \A y \in Agents : y # x => /\ resuming'[y] = resuming[y] /\ owed'[y] = owed[y]
                                      /\ y \in captured' <=> y \in captured
    PROVE  \A y \in Agents : y # x => Same(y)
<1>1. \A y \in Agents : y # x => runtimes'[y] = runtimes[y] /\ pendingWrites'[y] = pendingWrites[y]
  <2>1. DOMAIN runtimes = Agents /\ DOMAIN pendingWrites = Agents
    BY DEF RestartInv, RestartTyped, RestartTypeOK
  <2> QED
    BY <2>1 DEF Becomes, Queues
<1> QED
  BY <1>1 DEF Same, stopping

LEMMA WaitsIs ==
    ASSUME NEW x \in Agents, Stands(x), NEW k
    PROVE  Waits(x, k) <=> Holds(pendingWrites[x], k)
BY DEF Stands, Waits, Holds

LEMMA ReopensStep ==
    ASSUME RestartInv, RestartTyped', NEW x \in Agents, Reopens(x)
    PROVE  RestartInv'
<1>1. RestartTyped /\ Recorded(x) /\ Stands(x)
  BY DEF RestartInv, Recorded
<1>2. /\ resuming[x] = "reopening" /\ ~agentFiles[x].archived /\ ~Waits(x, "archive")
      /\ UNCHANGED <<agentFiles, stopping, setting, owed, captured, cut, overtaken, surplus>>
      /\ resuming'[x] = "sending" /\ \A y \in Agents : y # x => resuming'[y] = resuming[y]
  BY <1>1 DEF Reopens, RestartTyped, RestartTypeOK, ghosts
<1>3. ~Holds(pendingWrites[x], "archive")
  BY <1>1, <1>2, WaitsIs
<1>4. Goes(x)
  BY <1>2, <1>3 DEF Goes
<1>5. stage \notin {"down", "preparing"} /\ stage' = stage
  BY <1>1, <1>2 DEF Stands, stopping
<1>6. CASE runtimes[x] # "none"
  <2>1. UNCHANGED <<pendingWrites, runtimes>>
    BY <1>6 DEF Reopens
  <2>2. UNCHANGED <<closings, stage, todo, listed, awaited, setting, cut, overtaken, captured>>
    BY <1>2 DEF stopping
  <2>3. Stands(x)'
    BY <1>1, <1>2, <1>5, <2>1, <2>2 DEF Stands, Queued, Placed
  <2>4. InHand(x)'
    BY <1>1, <1>2, <1>3, <2>1, <2>2 DEF Recorded, InHand, Flag
  <2>5. Flagged(x)'
    BY <1>1, <1>2, <1>5, <2>1, <2>2 DEF Recorded, Flagged, Unprepared, Flag, ShownRunning
  <2>6. Cut(x)' /\ (CloseCancels \/ Kept(x)')
    BY <1>1, <1>2, <2>1, <2>2 DEF Recorded, Cut, Kept, Unprepared
  <2>7. Recorded(x)'
    BY <2>3, <2>4, <2>5, <2>6 DEF Recorded
  <2>8. \A y \in Agents : y # x => Same(y)
    BY <1>2, <2>1, <2>2 DEF Same
  <2> QED
    BY <1>2, <2>2, <2>7, <2>8, OneMoves DEF RestartInv
<1>7. CASE runtimes[x] = "none"
  <2>1. stage = "up" /\ Becomes(x, "idle") /\ closings[x] = "open" /\ x \notin captured
    BY <1>1, <1>7 DEF Reopens, Stands, Recorded, Cut
  <2>2. Recorded(x)'
    BY <1>2, <1>4, <1>5, <2>1, Changes
  <2>3. \A y \in Agents : y # x => Same(y)
    BY <1>2, <2>1, OthersStay
  <2> QED
    BY <1>2, <1>5, <2>2, <2>3, OneMoves DEF RestartInv
<1> QED
  BY <1>6, <1>7

LEMMA SendsResumeStep ==
    ASSUME RestartInv, RestartTyped', NEW x \in Agents, SendsResume(x)
    PROVE  RestartInv'
<1>1. RestartTyped /\ Recorded(x) /\ Stands(x)
  BY DEF RestartInv, Recorded
<1>2. /\ resuming[x] = "sending" /\ closings[x] = "open" /\ Becomes(x, "running")
      /\ UNCHANGED <<agentFiles, stopping, setting, captured, cut, overtaken>>
      /\ resuming'[x] = "none" /\ ~owed'[x]
      /\ \A y \in Agents : y # x => resuming'[y] = resuming[y] /\ owed'[y] = owed[y]
  BY <1>1 DEF SendsResume, RestartTyped, RestartTypeOK
<1>3. Goes(x)
  BY <1>2 DEF Goes
<1>4. stage \notin {"down", "preparing"} /\ stage' = stage
  BY <1>1, <1>2 DEF Stands, stopping
<1>5. Recorded(x)'
  BY <1>2, <1>3, <1>4, Changes
<1>6. \A y \in Agents : y # x => Same(y)
  BY <1>2, OthersStay
<1>7. surplus' \subseteq overtaken'
  <2>1. owed[x] \/ x \in overtaken
    BY <1>1, <1>2 DEF Recorded, InHand, Flag
  <2> QED
    BY <1>2, <2>1 DEF SendsResume, RestartInv
<1> QED
  BY <1>2, <1>4, <1>5, <1>6, <1>7, OneMoves

LEMMA TurnSteps ==
    ASSUME RestartInv, RestartTyped', NEW x \in Agents,
           LoadsAgent(x) \/ BeginsTurn(x) \/ EndsTurn(x) \/ ReportsCanceled(x)
    PROVE  RestartInv'
<1>1. RestartTyped /\ Recorded(x) /\ Stands(x)
  BY DEF RestartInv, Recorded
<1>2. /\ UNCHANGED <<agentFiles, stopping, resuming, owed, setting, cut, overtaken, surplus>>
      /\ \A y \in Agents : y # x => (y \in captured' <=> y \in captured)
  BY DEF LoadsAgent, BeginsTurn, EndsTurn, ReportsCanceled, ghosts
<1>3. Goes(x) /\ stage' = stage /\ setting' = setting
  BY <1>2 DEF Goes, stopping
<1>4. PICK life \in {"idle", "running"} : Becomes(x, life)
          /\ (x \in captured' => x \in captured /\ (life = "running" \/ CloseCancels))
          /\ (x \in captured /\ x \notin captured' => life = "idle" /\ closings[x] = "open")
  <2>1. CASE LoadsAgent(x)
    BY <1>1, <2>1 DEF LoadsAgent, Recorded, Cut, ghosts
  <2>2. CASE BeginsTurn(x)
    BY <2>2 DEF BeginsTurn, ghosts
  <2>3. CASE EndsTurn(x)
    BY <2>3 DEF EndsTurn
  <2>4. CASE ReportsCanceled(x)
    BY <2>4 DEF ReportsCanceled, ghosts
  <2> QED
    BY <2>1, <2>2, <2>3, <2>4
<1>5. closings[x] # "closed" /\ stage \notin {"down", "preparing"}
  BY <1>1 DEF LoadsAgent, BeginsTurn, EndsTurn, ReportsCanceled, Stands
<1>6. Recorded(x)'
  BY <1>2, <1>3, <1>4, <1>5, Changes
<1>7. \A y \in Agents : y # x => Same(y)
  BY <1>2, <1>4, OthersStay
<1> QED
  BY <1>2, <1>3, <1>6, <1>7, OneMoves DEF RestartInv

\* A write reaches the disk
LEMMA WriteLandsStep ==
    ASSUME RestartInv, RestartTyped', NEW x \in Agents, WriteLands(x)
    PROVE  RestartInv'
<1> DEFINE s == pendingWrites[x]
           t == Tail(s)
           w == s[1]
<1>1. RestartTyped /\ Recorded(x) /\ Stands(x) /\ s \in Seq(PendingWrite) /\ s # <<>>
  BY DEF RestartInv, Recorded, Stands, WriteLands
<1>2. Pops(s, t) /\ Head(s) = w /\ 1 \in 1..Len(s) /\ PopHolds(s, t)
  BY <1>1, Pop, PopKeeps
<1>3. LandsAs(x, w, Contents(x, w)) /\ w \in PendingWrite
  BY <1>1, Lands
<1>4. Placed(w, 1, s, runtimes[x], closings[x], awaited[x]) /\ awaited[x] \in Nat
  BY <1>1, <1>2 DEF Stands, Queued, RestartTyped, RestartTypeOK
<1>5. /\ Queued(t, runtimes[x], closings[x], IF awaited[x] > 0 THEN awaited[x] - 1 ELSE 0)
      /\ ~Holds(t, "consume")
  BY <1>1, <1>2, <1>4, PopQueued DEF Stands
<1>6. /\ UNCHANGED <<runtimes, closings, stage, todo, listed, setting, captured, cut, overtaken, surplus>>
      /\ pendingWrites'[x] = t /\ agentFiles'[x] = Contents(x, w)
      /\ awaited'[x] = (IF awaited[x] > 0 THEN awaited[x] - 1 ELSE 0)
      /\ resuming'[x] = (IF w.kind = "consume" THEN "consumed" ELSE resuming[x])
      /\ owed'[x] <=> owed[x] /\ w.kind # "archive"
      /\ \A y \in Agents : y # x =>
            /\ agentFiles'[y] = agentFiles[y] /\ pendingWrites'[y] = pendingWrites[y]
            /\ awaited'[y] = awaited[y] /\ resuming'[y] = resuming[y] /\ owed'[y] = owed[y]
  <2>1. DOMAIN pendingWrites = Agents
    BY <1>1 DEF RestartTyped
  <2>2. /\ agentFiles' = [agentFiles EXCEPT ![x] = Contents(x, w)]
        /\ pendingWrites' = [pendingWrites EXCEPT ![x] = t]
        /\ awaited' = [awaited EXCEPT ![x] = IF @ > 0 THEN @ - 1 ELSE 0]
    BY <1>2, <2>1 DEF WriteLands
  <2>3. /\ UNCHANGED <<runtimes, closings, stage, todo, listed, setting, captured, cut, overtaken, surplus>>
        /\ resuming' = IF w.kind = "consume" THEN [resuming EXCEPT ![x] = "consumed"] ELSE resuming
        /\ owed' = [owed EXCEPT ![x] = @ /\ w.kind # "archive"]
    BY <1>2 DEF WriteLands
  <2> HIDE DEF t, w
  <2>4. /\ pendingWrites'[x] = t /\ agentFiles'[x] = Contents(x, w)
        /\ awaited'[x] = (IF awaited[x] > 0 THEN awaited[x] - 1 ELSE 0)
        /\ \A y \in Agents : y # x =>
              /\ agentFiles'[y] = agentFiles[y] /\ pendingWrites'[y] = pendingWrites[y]
              /\ awaited'[y] = awaited[y]
    BY <1>1, <2>1, <2>2 DEF RestartTyped, RestartTypeOK
  <2>5. /\ resuming'[x] = (IF w.kind = "consume" THEN "consumed" ELSE resuming[x])
        /\ \A y \in Agents : y # x => resuming'[y] = resuming[y]
    BY <1>1, <2>3 DEF RestartTyped, RestartTypeOK
  <2>6. /\ owed'[x] <=> owed[x] /\ w.kind # "archive"
        /\ \A y \in Agents : y # x => owed'[y] = owed[y]
    BY <1>1, <2>3 DEF RestartTyped, RestartTypeOK
  <2> QED
    BY <2>3, <2>4, <2>5, <2>6
<1> DEFINE old == agentFiles[x]
           new == agentFiles'[x]
<1>7. /\ new \in AgentRecord /\ old \in AgentRecord
      /\ w.kind = "live" => /\ new.status = runtimes[x] /\ new.archived = old.archived
                            /\ new.resume <=> old.resume /\ runtimes[x] # "idle"
      /\ w.kind = "copy" => /\ new.status = w.life /\ new.archived = old.archived
                            /\ new.resume <=> old.resume /\ w.life # "idle"
      /\ w.kind \in {"consume", "archive", "capture"} => new = w.record
  BY <1>1, <1>3, <1>6 DEF LandsAs, RestartTyped, RestartTypeOK
<1>8. w.kind \in {"live", "copy", "consume", "archive", "capture"} /\ (w.kind = "copy" => w.life \in {"idle", "running", "closed"})
  BY <1>3, WriteIs
<1>9. stage \in {"up", "flushing", "capturing", "closing"} /\ runtimes[x] \in {"none", "idle", "running"}
  BY <1>1 DEF Stands, RestartTyped, RestartTypeOK
<1>10. \A k \in {"consume", "archive", "capture"} : Holds(s, k) <=> Holds(t, k) \/ w.kind = k
  BY <1>2 DEF PopHolds
<1>11. pendingWrites[x] = s /\ pendingWrites'[x] = t
  BY <1>6
<1> HIDE DEF s, t, w
<1>12. Stands(x)'
  <2>1. Queued(pendingWrites[x], runtimes[x], closings[x], awaited[x])'
    BY <1>5, <1>6, <1>11 DEF Queued, Placed
  <2>2. stage = "capturing" => w.kind \notin Replacing
    BY <1>4 DEF Placed
  <2>3. Holds(t, "capture") => ~new.archived
    <3>1. ASSUME Holds(t, "capture") PROVE ~old.archived /\ stage = "capturing"
      <4>1. Holds(s, "capture")
        BY <1>10, <3>1
      <4>2. PICK i \in 1..Len(s) : s[i].kind = "capture"
        BY <4>1 DEF Holds
      <4> QED
        BY <1>1, <1>11, <4>1, <4>2 DEF Stands, Queued, Placed
    <3> QED
      BY <2>2, <3>1, <1>4, <1>7, <1>8 DEF Placed, Replacing
  <2>4. stage = "capturing" => new.archived = old.archived
    <3>1. stage = "capturing" /\ w.kind = "capture" => ~old.archived /\ ~new.archived
      BY <1>1, <1>4, <1>7, <1>10, <1>11 DEF Stands, Placed
    <3> QED
      BY <2>2, <3>1, <1>7, <1>8, <1>1, <1>11 DEF Replacing, Stands, AgentRecord
  <2>5. t \in Seq(PendingWrite)
    BY <1>2 DEF Pops
  <2> QED
    BY <1>1, <1>6, <1>9, <1>11, <2>1, <2>3, <2>4, <2>5 DEF Stands
<1>13. InHand(x)'
  <2>1. resuming[x] # "chosen"
    BY <1>1, <1>9 DEF Recorded, InHand, Flag
  <2>2. w.kind = "consume" <=> resuming[x] = "consuming"
    <3>1. w.kind = "consume" => resuming[x] = "consuming"
      BY <1>1, <1>10, <1>11 DEF Recorded, InHand, Flag
    <3>2. resuming[x] = "consuming" => w.kind = "consume"
      BY <1>1, <1>11 DEF Recorded, InHand, Flag, w
    <3> QED
      BY <3>1, <3>2
  <2>3. resuming'[x] \notin {"chosen", "consuming"} /\ ~Holds(t, "consume")
    BY <1>5, <1>6, <2>1, <2>2
  <2>4. old.archived => new.archived
    <3>1. w.kind = "capture" => ~old.archived
      BY <1>1, <1>10, <1>11 DEF Stands
    <3>2. w.kind = "archive" => new.archived
      BY <1>4, <1>7 DEF Placed
    <3>3. w.kind = "consume" => ~old.archived
      BY <1>1, <1>4, <1>7, <1>10, <1>11, <2>2 DEF Recorded, InHand, Flag
    <3> QED
      BY <3>1, <3>2, <3>3, <1>7, <1>8
  <2>5. resuming'[x] # "none" => owed'[x] \/ x \in overtaken' \/ new.archived
    <3>1. resuming'[x] # "none" => resuming[x] # "none"
      BY <1>6, <2>2
    <3>2. w.kind = "archive" => new.archived
      BY <1>4, <1>7 DEF Placed
    <3> QED
      BY <3>1, <3>2, <2>4, <1>1, <1>6 DEF Recorded, InHand, Flag
  <2>6. resuming'[x] = "sending" => ~new.archived /\ ~Holds(t, "archive")
    <3>1. resuming'[x] = "sending" => resuming[x] = "sending"
      BY <1>6
    <3>2. resuming[x] = "sending" => w.kind \notin {"archive", "consume"}
      BY <2>2, <1>1, <1>10, <1>11 DEF Recorded, InHand, Flag
    <3> QED
      BY <3>1, <3>2, <1>1, <1>4, <1>7, <1>8, <1>10, <1>11 DEF Recorded, InHand, Flag, Placed
  <2> QED
    BY <1>11, <2>3, <2>5, <2>6 DEF InHand
<1>14. Flagged(x)'
  <2>1. stage \in {"up", "flushing"} => ~Flag(x)'
    <3>1. w.kind \in {"live", "copy"} => resuming[x] # "consuming"
      BY <1>1, <1>11 DEF Recorded, InHand, w
    <3>2. stage \in {"up", "flushing"} /\ Flag(x) => resuming[x] = "consuming"
      BY <1>1 DEF Recorded, Flagged
    <3> QED
      BY <3>1, <3>2, <1>4, <1>7, <1>8 DEF Placed, Flag
  <2>2. ASSUME stage \in Late
        PROVE  /\ Flag(x)' => setting
               /\ (Flag(x)' \/ Holds(t, "capture")) /\ x \notin overtaken => x \in captured \/ Cleared(t)
               /\ Flag(x)' /\ new.status # "running" => x \in overtaken \cup cut
    <3>1. w.kind \in {"live", "copy", "capture"}
      BY <1>4, <1>8, <2>2 DEF Placed, Replacing, Late
    <3>2. /\ Flag(x) => setting
          /\ (Flag(x) \/ Holds(s, "capture")) /\ x \notin overtaken => x \in captured \/ Cleared(s)
          /\ Flag(x) /\ old.status # "running" => x \in overtaken \cup cut
      BY <1>1, <1>11, <2>2 DEF Recorded, Flagged
    <3>3. w.kind # "capture" /\ Flag(x)' => Flag(x)
      BY <1>7, <3>1 DEF Flag
    <3>4. w.kind = "capture" /\ Flag(x)' => setting /\ new.status = "running"
      BY <1>4, <1>7 DEF Placed, Flag
    <3>5. (Flag(x)' \/ Holds(t, "capture")) /\ x \notin overtaken => x \in captured \/ Cleared(t)
      <4>1. Flag(x)' \/ Holds(t, "capture") => Flag(x) \/ Holds(s, "capture")
        BY <1>10, <3>3
      <4>2. Cleared(s) /\ ~Cleared(t) => ~Flag(x)' /\ ~Holds(t, "capture")
        BY <1>2, <1>7 DEF PopHolds, Shows, Flag, w
      <4> QED
        BY <3>2, <4>1, <4>2
    <3>6. ASSUME Flag(x)', new.status # "running" PROVE x \in overtaken \cup cut
      <4>1. Shows(w, "closed")
        <5>1. new.resume /\ w.kind \in {"live", "copy"}
          BY <3>1, <3>4, <3>6 DEF Flag
        <5>2. w.kind = "live" => runtimes[x] # "none"
          BY <1>4 DEF Placed
        <5>3. w.kind # "live"
          BY <1>7, <1>9, <5>1, <5>2, <3>6
        <5> QED
          BY <1>7, <1>8, <5>1, <5>3, <3>6 DEF Shows
      <4>2. closings[x] = "closed" /\ 1 = Len(s)
        BY <1>4, <4>1 DEF Placed
      <4>3. ~Cleared(s)
        <5>1. \A i \in 1..Len(s) : i = 1
          <6>1. Len(s) = 1 /\ \A i \in 1..1 : i = 1
            BY <4>2
          <6> QED
            BY <6>1
        <5>2. ~Shows(s[1], "idle")
          BY <4>1 DEF Shows, w
        <5> QED
          BY <5>1, <5>2 DEF Cleared
      <4> QED
        BY <1>1, <3>2, <3>3, <3>6, <4>1, <4>2, <4>3 DEF Recorded, Cut, Shows
    <3> QED
      BY <3>2, <3>3, <3>4, <3>5, <3>6
  <2> QED
    BY <1>6, <1>9, <1>11, <2>1, <2>2 DEF Flagged, Unprepared, Late
<1>15. Cut(x)'
  BY <1>1, <1>6 DEF Recorded, Cut
<1>16. ASSUME Kept(x), ~CloseCancels PROVE Kept(x)'
  <2>1. owed'[x] => resuming'[x] # "none"
    BY <1>6, <1>9, <1>16 DEF Kept, Unprepared
  <2>2. ASSUME x \in captured, setting
        PROVE  ~Cleared(t) /\ (new.resume \/ Holds(t, "capture"))
    <3>1. runtimes[x] = "running" /\ ~Cleared(s) /\ (old.resume \/ Holds(s, "capture"))
      BY <1>11, <1>16, <2>2 DEF Kept
    <3>2. w.kind \in {"live", "copy", "capture"}
      BY <1>1, <1>4, <1>8, <2>2 DEF Placed, Replacing, Recorded, Cut, Late
    <3>3. CASE Shows(w, "idle")
      <4>1. PICK j \in 1..Len(s) : s[j].kind = "capture"
        BY <1>2, <3>1, <3>3 DEF Cleared, w
      <4> QED
        BY <1>2, <1>10, <3>1, <3>3, <4>1 DEF Holds, Shows, PopHolds
    <3>4. CASE ~Shows(w, "idle")
      BY <1>2, <1>4, <1>7, <1>8, <1>10, <2>2, <3>1, <3>2, <3>4 DEF Placed, Shows, PopHolds
    <3> QED
      BY <3>3, <3>4
  <2> QED
    BY <1>6, <1>11, <1>16, <2>1, <2>2 DEF Kept
<1>17. CloseCancels \/ Kept(x)'
  BY <1>1, <1>16 DEF Recorded
<1>18. Recorded(x)'
  BY <1>12, <1>13, <1>14, <1>15, <1>17 DEF Recorded
<1>19. \A y \in Agents : y # x => Same(y)
  BY <1>6 DEF Same
<1> QED
  BY <1>6, <1>18, <1>19, OneMoves DEF RestartInv

\* A resume goes on or is given up
LEMMA ResumeSteps ==
    ASSUME RestartInv, RestartTyped', NEW x \in Agents, ResumeChecks(x) \/ ResumeFails(x)
    PROVE  RestartInv'
<1>1. RestartTyped /\ Recorded(x)
  BY DEF RestartInv
<1>2. /\ UNCHANGED <<agentFiles, pendingWrites, runtimes, stopping, setting, captured, cut,
                     overtaken, surplus>>
      /\ resuming[x] \in {"consumed", "reopening", "sending"}
      /\ \A y \in Agents : y # x => resuming'[y] = resuming[y] /\ owed'[y] = owed[y]
      /\ \/ resuming'[x] = "none" /\ ~owed'[x]
         \/ resuming'[x] = "reopening" /\ owed'[x] = owed[x]
  BY <1>1 DEF ResumeChecks, ResumeFails, Abandons, RestartTyped, RestartTypeOK
<1>3. UNCHANGED <<closings, stage, todo, listed, awaited>>
  BY <1>2 DEF stopping
<1>4. stage \notin {"down", "preparing"}
  BY <1>1, <1>2 DEF Recorded, Stands
<1>5. Stands(x)'
  BY <1>1, <1>2, <1>3, <1>4 DEF Recorded, Stands, Queued, Placed
<1>6. InHand(x)'
  BY <1>1, <1>2, <1>3 DEF Recorded, InHand
<1>7. Flagged(x)'
  BY <1>1, <1>2, <1>3, <1>4 DEF Recorded, Flagged, Unprepared, Flag
<1>8. Cut(x)' /\ (CloseCancels \/ Kept(x)')
  BY <1>1, <1>2, <1>3, <1>4 DEF Recorded, Cut, Kept, Unprepared
<1>9. Recorded(x)'
  BY <1>5, <1>6, <1>7, <1>8 DEF Recorded
<1>10. \A y \in Agents : y # x => Same(y)
  BY <1>2, <1>3 DEF Same
<1> QED
  BY <1>2, <1>3, <1>9, <1>10, OneMoves DEF RestartInv

\* One more write behind the others, of an archiving or a closing
LEMMA ArchivesStep ==
    ASSUME RestartInv, RestartTyped', NEW x \in Agents, ArchivesAgent(x)
    PROVE  RestartInv'
<1> DEFINE a == Whole("archive", [agentFiles[x] EXCEPT !.archived = TRUE])
           s == pendingWrites[x]
           t == s \o <<a>>
<1>1. RestartTyped /\ Recorded(x) /\ s \in Seq(PendingWrite)
  BY DEF RestartInv, Recorded, Stands
<1>2. /\ UNCHANGED <<agentFiles, runtimes, closings, stage, todo, listed, awaited, resuming, setting,
                     owed, captured, cut, overtaken, surplus>>
      /\ pendingWrites'[x] = t /\ \A y \in Agents : y # x => pendingWrites'[y] = pendingWrites[y]
      /\ stage = "up" /\ resuming[x] # "sending"
  BY <1>1 DEF ArchivesAgent, Queues, RestartTyped, stopping, ghosts
<1>3. a \in PendingWrite /\ a.kind = "archive" /\ a.record.archived
  <2>1. /\ [agentFiles[x] EXCEPT !.archived = TRUE] \in AgentRecord
        /\ [agentFiles[x] EXCEPT !.archived = TRUE].archived
    <3>1. agentFiles[x] \in AgentRecord
      BY <1>1 DEF RestartTyped, RestartTypeOK
    <3> QED
      BY <3>1 DEF AgentRecord
  <2> QED
    BY <2>1, Kinds
<1>4. pendingWrites[x] = s
  OBVIOUS
<1> HIDE DEF a, s
<1>5. Pushes(s, t, a)
  BY <1>1, <1>3, Push
<1> HIDE DEF t
<1>6. PushHolds(s, t, a)
  BY <1>1, <1>5, PushKeeps
<1>7. Queued(t, runtimes[x], closings[x], awaited[x])
  <2>1. Placed(a, Len(t), t, runtimes[x], closings[x], awaited[x])
    BY <1>2, <1>3 DEF Placed, Shows, Replacing
  <2>2. closings[x] # "closed" /\ Queued(s, runtimes[x], closings[x], awaited[x])
    BY <1>1, <1>2, <1>4 DEF Recorded, Stands
  <2> QED
    BY <1>1, <1>5, <2>1, <2>2, PushQueued
<1>8. t \in Seq(PendingWrite) /\ t # <<>>
  BY <1>5 DEF Pushes
<1>9. Stands(x)'
  <2>1. Queued(pendingWrites[x], runtimes[x], closings[x], awaited[x])'
    BY <1>2, <1>7 DEF Queued, Placed
  <2> QED
    BY <1>1, <1>2, <1>3, <1>4, <1>6, <1>8, <2>1 DEF Recorded, Stands, PushHolds
<1>10. InHand(x)'
  BY <1>1, <1>2, <1>3, <1>4, <1>6, <1>8 DEF Recorded, InHand, Flag, PushHolds
<1>11. Flagged(x)'
  BY <1>1, <1>2 DEF Recorded, Flagged, Unprepared, Flag, Late
<1>12. Cut(x)' /\ (CloseCancels \/ Kept(x)')
  BY <1>1, <1>2, <1>3, <1>4, <1>6 DEF Recorded, Cut, Kept, Unprepared, PushHolds, Late
<1>13. Recorded(x)'
  BY <1>9, <1>10, <1>11, <1>12 DEF Recorded
<1>14. \A y \in Agents : y # x => Same(y)
  BY <1>2 DEF Same
<1> QED
  BY <1>2, <1>13, <1>14, OneMoves DEF RestartInv

LEMMA CapturesStep ==
    ASSUME RestartInv, RestartTyped', NEW x \in Agents, Captures(x)
    PROVE  RestartInv'
<1> DEFINE a == Whole("capture", [listed[x] EXCEPT !.resume = setting])
           s == pendingWrites[x]
           t == s \o <<a>>
<1>1. RestartTyped /\ Recorded(x) /\ s \in Seq(PendingWrite)
  BY DEF RestartInv, Recorded, Stands
<1>2. /\ UNCHANGED <<agentFiles, runtimes, closings, stage, listed, awaited, resuming, setting,
                     owed, cut, surplus>>
      /\ stage = "capturing" /\ todo' = todo \ {x}
  BY DEF Captures
<1>3. CASE listed[x].status = "running" /\ ~listed[x].archived
  <2>1. pendingWrites'[x] = t /\ \A y \in Agents : y # x => pendingWrites'[y] = pendingWrites[y]
    BY <1>1, <1>3 DEF Captures, Queues, RestartTyped
  <2>2. /\ overtaken \subseteq overtaken' /\ captured \subseteq captured'
        /\ \A y \in Agents : y # x => /\ y \in captured' <=> y \in captured
                                      /\ y \in overtaken' <=> y \in overtaken
        /\ \/ runtimes[x] = "running" /\ x \in captured'
           \/ x \in overtaken' /\ captured' = captured
    BY <1>3 DEF Captures
  <2>3. /\ a \in PendingWrite /\ a.kind = "capture" /\ a.record.status = "running"
        /\ ~a.record.archived /\ a.record.resume = setting
    <3> DEFINE r == [listed[x] EXCEPT !.resume = setting]
    <3>1. r \in AgentRecord /\ r.status = "running" /\ ~r.archived /\ r.resume = setting
      <4>1. listed[x] \in AgentRecord /\ setting \in BOOLEAN
        BY <1>1 DEF RestartTyped, RestartTypeOK
      <4> QED
        BY <1>3, <4>1 DEF AgentRecord
    <3> HIDE DEF r
    <3> QED
      BY <3>1, Kinds DEF r
  <2>4. pendingWrites[x] = s
    OBVIOUS
  <2> HIDE DEF a, s
  <2>5. Pushes(s, t, a)
    BY <1>1, <2>3, Push
  <2> HIDE DEF t
  <2>6. PushHolds(s, t, a)
    BY <1>1, <2>5, PushKeeps
  <2>7. closings[x] = "open" /\ ~agentFiles[x].archived
    BY <1>1, <1>2, <1>3 DEF Recorded, Stands
  <2>8. Queued(t, runtimes[x], closings[x], awaited[x])
    <3>1. Placed(a, Len(t), t, runtimes[x], closings[x], awaited[x])
      BY <1>2, <2>3 DEF Placed, Shows, Replacing
    <3>2. Queued(s, runtimes[x], closings[x], awaited[x])
      BY <1>1, <2>4 DEF Recorded, Stands
    <3> QED
      BY <1>1, <2>5, <2>7, <3>1, <3>2, PushQueued
  <2>9. t \in Seq(PendingWrite) /\ t # <<>>
    BY <2>5 DEF Pushes
  <2>10. Stands(x)'
    <3>1. Queued(pendingWrites[x], runtimes[x], closings[x], awaited[x])'
      BY <1>2, <2>1, <2>8 DEF Queued, Placed
    <3> QED
      BY <1>1, <1>2, <2>1, <2>7, <2>9, <3>1 DEF Recorded, Stands
  <2>11. InHand(x)'
    BY <1>1, <1>2, <2>1, <2>2, <2>3, <2>4, <2>6, <2>9 DEF Recorded, InHand, Flag, PushHolds
  <2>12. Flagged(x)'
    BY <1>1, <1>2, <2>1, <2>2 DEF Recorded, Flagged, Unprepared, Flag, Late
  <2>13. Cut(x)'
    BY <1>1, <1>2, <2>2, <2>7 DEF Recorded, Cut, Late
  <2>14. ASSUME Kept(x) PROVE Kept(x)'
    BY <1>1, <1>2, <2>1, <2>2, <2>3, <2>6, <2>14 DEF Kept, Unprepared, PushHolds, Shows
  <2>15. Recorded(x)'
    BY <1>1, <2>10, <2>11, <2>12, <2>13, <2>14 DEF Recorded
  <2>16. \A y \in Agents : y # x => Same(y)
    BY <1>2, <2>1, <2>2 DEF Same
  <2> QED
    BY <1>2, <2>2, <2>15, <2>16, OneMoves DEF RestartInv
<1>4. CASE ~(listed[x].status = "running" /\ ~listed[x].archived)
  <2>1. UNCHANGED <<pendingWrites, captured, overtaken>>
    BY <1>4 DEF Captures
  <2>2. Stands(x)'
    BY <1>1, <1>2, <2>1 DEF Recorded, Stands, Queued, Placed
  <2>3. InHand(x)' /\ Cut(x)'
    BY <1>1, <1>2, <2>1 DEF Recorded, InHand, Cut, Flag
  <2>4. Flagged(x)'
    BY <1>1, <1>2, <2>1 DEF Recorded, Flagged, Unprepared, Flag, Late
  <2>5. CloseCancels \/ Kept(x)'
    BY <1>1, <1>2, <2>1 DEF Recorded, Kept, Unprepared
  <2>6. Recorded(x)' /\ \A y \in Agents : y # x => Same(y)
    BY <1>2, <2>1, <2>2, <2>3, <2>4, <2>5 DEF Recorded, Same
  <2> QED
    BY <1>2, <2>1, <2>6, OneMoves DEF RestartInv
<1> QED
  BY <1>3, <1>4

LEMMA ClosesSessionStep ==
    ASSUME RestartInv, RestartTyped', NEW x \in Agents, ClosesSession(x)
    PROVE  RestartInv'
<1>1. RestartTyped /\ Recorded(x)
  BY DEF RestartInv
<1>2. /\ UNCHANGED <<agentFiles, pendingWrites, runtimes, stage, todo, listed, awaited, resuming,
                     setting, owed, captured, overtaken, surplus>>
      /\ stage = "closing" /\ closings[x] = "open" /\ closings'[x] = "closing"
      /\ \A y \in Agents : y # x => closings'[y] = closings[y] /\ (y \in cut' <=> y \in cut)
      /\ cut' = IF setting /\ x \in captured THEN cut \cup {x} ELSE cut
  BY <1>1 DEF ClosesSession, RestartTyped, RestartTypeOK
<1>3. Stands(x)'
  BY <1>1, <1>2 DEF Recorded, Stands, Queued, Placed
<1>4. InHand(x)'
  BY <1>1, <1>2 DEF Recorded, InHand, Flag
<1>5. Flagged(x)'
  BY <1>1, <1>2 DEF Recorded, Flagged, Unprepared, Flag, Late
<1>6. Cut(x)'
  BY <1>1, <1>2 DEF Recorded, Cut
<1>7. CloseCancels \/ Kept(x)'
  BY <1>1, <1>2 DEF Recorded, Kept, Unprepared
<1>8. Recorded(x)' /\ \A y \in Agents : y # x => Same(y)
  BY <1>2, <1>3, <1>4, <1>5, <1>6, <1>7 DEF Recorded, Same
<1> QED
  BY <1>2, <1>8, OneMoves DEF RestartInv

LEMMA SessionClosesStep ==
    ASSUME RestartInv, RestartTyped', NEW x \in Agents, SessionCloses(x)
    PROVE  RestartInv'
<1> DEFINE a == Copy("closed")
           s == pendingWrites[x]
           u == s \o <<a>>
           t == pendingWrites'[x]
<1>1. RestartTyped /\ Recorded(x) /\ s \in Seq(PendingWrite)
  BY DEF RestartInv, Recorded, Stands
<1>2. /\ UNCHANGED <<agentFiles, runtimes, stage, todo, listed, awaited, resuming, setting, owed,
                     captured, cut, overtaken, surplus>>
      /\ closings[x] = "closing" /\ closings'[x] = "closed"
      /\ \A y \in Agents : y # x => /\ closings'[y] = closings[y]
                                    /\ pendingWrites'[y] = pendingWrites[y]
      /\ t = u \/ t = s
  BY <1>1 DEF SessionCloses, Queues, RestartTyped, RestartTypeOK, ghosts
<1>3. stage = "closing"
  BY <1>1, <1>2 DEF Recorded, Stands
<1>4. a \in PendingWrite /\ Shows(a, "closed") /\ a.kind = "copy" /\ a.life = "closed"
  BY Kinds DEF Shows
<1>5. pendingWrites[x] = s /\ pendingWrites'[x] = t
  OBVIOUS
<1> HIDE DEF a, s
<1>6. Pushes(s, u, a)
  BY <1>1, <1>4, Push
<1> HIDE DEF u, t
<1>7. PushHolds(s, u, a)
  BY <1>1, <1>6, PushKeeps
<1>8. Queued(s, runtimes[x], closings[x], awaited[x])
  BY <1>1, <1>5 DEF Recorded, Stands
<1>9. Queued(t, runtimes[x], "closed", awaited[x]) /\ t \in Seq(PendingWrite)
  <2>1. CASE t = u
    <3>1. Placed(a, Len(u), u, runtimes[x], "closed", awaited[x])
      BY <1>4 DEF Placed, Replacing
    <3>2. Queued(u, runtimes[x], "closed", awaited[x])
      BY <1>1, <1>2, <1>6, <1>8, <3>1, PushQueued
    <3> QED
      BY <1>6, <2>1, <3>2 DEF Pushes
  <2>2. CASE t = s
    BY <1>1, <1>2, <1>8, <2>2 DEF Queued, Placed
  <2> QED
    BY <1>2, <2>1, <2>2
<1>10. /\ \A k \in {"consume", "archive", "capture"} : Holds(t, k) <=> Holds(s, k)
       /\ Cleared(t) <=> Cleared(s)
       /\ s # <<>> => t # <<>> /\ t[1] = s[1]
  BY <1>2, <1>4, <1>6, <1>7 DEF PushHolds, Pushes, Shows
<1>11. Stands(x)'
  <2>1. Queued(pendingWrites[x], runtimes[x], closings[x], awaited[x])'
    BY <1>2, <1>5, <1>9 DEF Queued, Placed
  <2> QED
    BY <1>1, <1>2, <1>3, <1>5, <1>9, <1>10, <2>1 DEF Recorded, Stands
<1>12. InHand(x)'
  BY <1>1, <1>2, <1>5, <1>10 DEF Recorded, InHand, Flag
<1>13. Flagged(x)'
  BY <1>1, <1>2, <1>3, <1>5, <1>10 DEF Recorded, Flagged, Unprepared, Flag, Late
<1>14. Cut(x)'
  BY <1>1, <1>2 DEF Recorded, Cut
<1>15. CloseCancels \/ Kept(x)'
  BY <1>1, <1>2, <1>5, <1>10 DEF Recorded, Kept, Unprepared
<1>16. Recorded(x)' /\ \A y \in Agents : y # x => Same(y)
  BY <1>2, <1>11, <1>12, <1>13, <1>14, <1>15 DEF Recorded, Same
<1> QED
  BY <1>2, <1>16, OneMoves DEF RestartInv

-----------------------------------------------------------------------------
(* The daemon starts *)

LEMMA EmptyQueue ==
    /\ <<>> \in Seq(PendingWrite)
    /\ \A k : ~Holds(<<>>, k)
    /\ ~Cleared(<<>>)
    /\ \A life, closing, n : Queued(<<>>, life, closing, n)
BY DEF Holds, Cleared, Queued

LEMMA StartsStep ==
    ASSUME RestartInv, RestartTyped', StartsDaemon
    PROVE  RestartInv'
<1>1. ASSUME NEW x \in Agents PROVE Recorded(x)'
  <2>1. Recorded(x)
    BY DEF RestartInv
  <2>2. /\ UNCHANGED <<agentFiles, pendingWrites, runtimes, closings, listed, awaited, resuming,
                       setting, owed, captured, cut, overtaken, surplus>>
        /\ stage = "down" /\ stage' = "preparing" /\ x \in todo'
    BY DEF StartsDaemon, ghosts
  <2>3. pendingWrites[x] = <<>> /\ resuming[x] = "none"
    BY <2>1, <2>2 DEF Recorded, Stands
  <2>4. Stands(x)'
    BY <2>1, <2>2, <2>3, EmptyQueue DEF Recorded, Stands, Queued
  <2>5. InHand(x)'
    BY <2>2, <2>3, EmptyQueue DEF InHand
  <2>6. Flagged(x)'
    BY <2>1, <2>2 DEF Recorded, Flagged, Unprepared, Flag, ShownRunning, Late
  <2>7. Cut(x)' /\ (CloseCancels \/ Kept(x)')
    BY <2>1, <2>2 DEF Recorded, Cut, Kept, Unprepared, Late
  <2> QED
    BY <2>4, <2>5, <2>6, <2>7 DEF Recorded
<1> QED
  BY <1>1 DEF RestartInv, StartsDaemon, ghosts

LEMMA PreparesStep ==
    ASSUME RestartInv, RestartTyped', NEW x \in Agents, Prepares(x)
    PROVE  RestartInv'
<1> DEFINE old == agentFiles[x]
           new == agentFiles'[x]
           pending == setting /\ (old.resume \/ old.status = "running") /\ ~old.archived
<1>1. RestartTyped /\ Recorded(x) /\ old \in AgentRecord
  BY DEF RestartInv, RestartTyped, RestartTypeOK
<1>2. /\ UNCHANGED <<pendingWrites, runtimes, closings, stage, listed, awaited, setting, captured, cut,
                     overtaken, surplus>>
      /\ stage = "preparing" /\ x \in todo /\ todo' = todo \ {x}
      /\ \A y \in Agents : y # x => /\ agentFiles'[y] = agentFiles[y]
                                    /\ resuming'[y] = resuming[y] /\ owed'[y] = owed[y]
      /\ resuming'[x] = IF pending THEN "chosen" ELSE "none"
      /\ new.archived = old.archived /\ new.status # "running"
  BY <1>1 DEF Prepares, RestartTyped, RestartTypeOK, AgentRecord
<1>3. owed'[x] <=> owed[x] /\ pending
  BY <1>1 DEF Prepares, RestartTyped, RestartTypeOK
<1>4. new.resume <=> pending
  <2> DEFINE status == IF agentFiles[x].status = "running" THEN "closed" ELSE agentFiles[x].status
             record == [agentFiles[x] EXCEPT !.resume = pending, !.status = status]
  <2>1. RestartTypeOK /\ agentFiles[x] \in AgentRecord
    BY <1>1 DEF RestartTyped
  <2>2. agentFiles' = [agentFiles EXCEPT ![x] = record]
    BY <2>1 DEF Prepares, RestartTypeOK, AgentRecord
  <2>3. pending \in BOOLEAN /\ agentFiles \in [Agents -> AgentRecord]
    BY <2>1 DEF RestartTypeOK
  <2> HIDE DEF pending, status
  <2>4. record.resume = pending
    BY <2>1 DEF AgentRecord
  <2>5. new = record
    BY <2>2, <2>3
  <2> QED
    BY <2>4, <2>5
<1>5. pendingWrites[x] = <<>> /\ pendingWrites'[x] = <<>>
  BY <1>1, <1>2 DEF Recorded, Stands
<1>6. pending => owed[x] \/ x \in overtaken
  BY <1>1, <1>2 DEF Recorded, Flagged, Unprepared, Flag, ShownRunning
<1> HIDE DEF pending
<1>7. Stands(x)'
  BY <1>1, <1>2, <1>5, EmptyQueue DEF Recorded, Stands, Queued
<1>8. pending => ~old.archived
  BY DEF pending
<1>9. InHand(x)'
  BY <1>2, <1>3, <1>4, <1>5, <1>6, <1>8, EmptyQueue DEF InHand, Flag
<1>10. Flagged(x)'
  BY <1>2, <1>4 DEF Flagged, Unprepared, Late
<1>11. Cut(x)' /\ (CloseCancels \/ Kept(x)')
  BY <1>1, <1>2, <1>3 DEF Recorded, Cut, Kept, Late
<1>12. Recorded(x)' /\ \A y \in Agents : y # x => Same(y)
  BY <1>2, <1>7, <1>9, <1>10, <1>11 DEF Recorded, Same
<1> QED
  BY <1>2, <1>12, OneMoves DEF RestartInv

LEMMA OpensStep ==
    ASSUME RestartInv, RestartTyped', Opens
    PROVE  RestartInv'
<1>1. ASSUME NEW x \in Agents PROVE Recorded(x)'
  <2> DEFINE a == Whole("consume", [agentFiles[x] EXCEPT !.resume = FALSE])
             q == pendingWrites'[x]
  <2>1. RestartTyped /\ Recorded(x)
    BY DEF RestartInv
  <2>2. /\ UNCHANGED <<agentFiles, runtimes, closings, todo, listed, awaited, setting, owed, captured,
                       cut, overtaken, surplus>>
        /\ stage = "preparing" /\ stage' = "up" /\ todo = {}
        /\ q = IF resuming[x] = "chosen" THEN <<a>> ELSE <<>>
        /\ resuming'[x] = IF resuming[x] = "chosen" THEN "consuming" ELSE "none"
    BY DEF Opens, ghosts
  <2>3. a \in PendingWrite /\ a.kind = "consume" /\ ~a.record.resume
    <3>1. /\ [agentFiles[x] EXCEPT !.resume = FALSE] \in AgentRecord
          /\ ~[agentFiles[x] EXCEPT !.resume = FALSE].resume
      <4>1. agentFiles[x] \in AgentRecord
        BY <2>1 DEF RestartTyped, RestartTypeOK
      <4> QED
        BY <4>1 DEF AgentRecord
    <3> QED
      BY <3>1, Kinds
  <2>4. runtimes[x] = "none" /\ closings[x] = "open" /\ resuming[x] \in {"none", "chosen"}
    BY <2>1, <2>2 DEF Recorded, Stands
  <2> HIDE DEF a
  <2>5. /\ q \in Seq(PendingWrite) /\ ~Holds(q, "archive") /\ ~Holds(q, "capture") /\ ~Cleared(q)
        /\ Holds(q, "consume") <=> resuming[x] = "chosen"
        /\ resuming[x] = "chosen" => q # <<>> /\ q[1].kind = "consume"
        /\ \A i \in 1..Len(q) : i = 1 /\ q[i] = a
    <3>1. CASE resuming[x] = "chosen"
      <4>1. q = <<a>> /\ Len(q) = 1 /\ \A i \in 1..1 : i = 1
        BY <2>2, <3>1
      <4> QED
        BY <2>3, <3>1, <4>1, Kinds DEF Holds, Cleared, Shows
    <3>2. CASE resuming[x] # "chosen"
      BY <2>2, <3>2, EmptyQueue
    <3> QED
      BY <3>1, <3>2
  <2>6. pendingWrites'[x] = q
    OBVIOUS
  <2> HIDE DEF q
  <2>7. Stands(x)'
    <3>1. Queued(pendingWrites[x], runtimes[x], closings[x], awaited[x])'
      BY <2>2, <2>3, <2>5, <2>6 DEF Queued, Placed, Shows, Replacing
    <3> QED
      BY <2>2, <2>4, <2>5, <2>6, <3>1 DEF Stands
  <2>8. InHand(x)'
    BY <2>1, <2>2, <2>4, <2>5, <2>6 DEF Recorded, InHand, Flag
  <2>9. Flagged(x)'
    BY <2>1, <2>2, <2>4 DEF Recorded, Flagged, Unprepared, Flag, Late
  <2>10. Cut(x)' /\ (CloseCancels \/ Kept(x)')
    BY <2>1, <2>2, <2>4 DEF Recorded, Cut, Kept, Unprepared, Late
  <2> QED
    BY <2>7, <2>8, <2>9, <2>10 DEF Recorded
<1> QED
  BY <1>1 DEF RestartInv, Opens, ghosts

-----------------------------------------------------------------------------
(* The daemon stops *)

LEMMA SwitchesStep ==
    ASSUME RestartInv, RestartTyped', SwitchesSetting
    PROVE  RestartInv'
<1>1. ASSUME NEW x \in Agents PROVE Recorded(x)'
  <2>1. Recorded(x)
    BY DEF RestartInv
  <2>2. /\ UNCHANGED <<agentFiles, pendingWrites, runtimes, closings, stage, todo, listed, awaited,
                       resuming, owed, captured, cut, overtaken, surplus>>
        /\ stage = "up"
    BY DEF SwitchesSetting, ghosts, stopping
  <2>3. Stands(x)'
    BY <2>1, <2>2 DEF Recorded, Stands, Queued, Placed
  <2>4. InHand(x)' /\ Flagged(x)'
    BY <2>1, <2>2 DEF Recorded, InHand, Flagged, Unprepared, Flag, ShownRunning, Late
  <2>5. Cut(x)' /\ (CloseCancels \/ Kept(x)')
    BY <2>1, <2>2 DEF Recorded, Cut, Kept, Unprepared, Late
  <2> QED
    BY <2>3, <2>4, <2>5 DEF Recorded
<1> QED
  BY <1>1 DEF RestartInv, SwitchesSetting, ghosts

LEMMA ShutsDownStep ==
    ASSUME RestartInv, RestartTyped', ShutsDown
    PROVE  RestartInv'
<1>1. ASSUME NEW x \in Agents PROVE Recorded(x)'
  <2>1. Recorded(x)
    BY DEF RestartInv
  <2>2. /\ UNCHANGED <<agentFiles, pendingWrites, runtimes, closings, todo, listed, resuming, setting,
                       owed, captured, cut, overtaken, surplus>>
        /\ stage = "up" /\ stage' = "flushing" /\ awaited'[x] = Len(pendingWrites[x])
    BY DEF ShutsDown, ghosts
  <2>3. Stands(x)'
    <3>1. \A i \in 1..Len(pendingWrites[x]) : i <= Len(pendingWrites[x])
      BY <2>1 DEF Recorded, Stands
    <3> QED
      BY <2>1, <2>2, <3>1 DEF Recorded, Stands, Queued, Placed
  <2>4. InHand(x)' /\ Flagged(x)'
    BY <2>1, <2>2 DEF Recorded, InHand, Flagged, Unprepared, Flag, ShownRunning, Late
  <2>5. Cut(x)' /\ (CloseCancels \/ Kept(x)')
    BY <2>1, <2>2 DEF Recorded, Cut, Kept, Unprepared, Late
  <2> QED
    BY <2>3, <2>4, <2>5 DEF Recorded
<1> QED
  BY <1>1 DEF RestartInv, ShutsDown, ghosts

\* The flush has seen every consumed flag and every archiving to the disk
LEMMA ListsStep ==
    ASSUME RestartInv, RestartTyped', ListsRecords
    PROVE  RestartInv'
<1>1. ASSUME NEW x \in Agents PROVE Recorded(x)'
  <2>1. Recorded(x)
    BY DEF RestartInv
  <2>2. /\ UNCHANGED <<agentFiles, pendingWrites, runtimes, closings, awaited, resuming, setting, owed,
                       captured, cut, overtaken, surplus>>
        /\ stage = "flushing" /\ stage' = "capturing" /\ listed' = agentFiles /\ awaited[x] = 0
    BY DEF ListsRecords, ghosts
  <2>3. \A i \in 1..Len(pendingWrites[x]) : pendingWrites[x][i].kind \notin Replacing \cup {"capture"}
    <3>1. \A i \in 1..Len(pendingWrites[x]) : ~(i <= 0)
      OBVIOUS
    <3> QED
      BY <2>1, <2>2, <3>1 DEF Recorded, Stands, Queued, Placed
  <2>4. ~Holds(pendingWrites[x], "consume") /\ ~Holds(pendingWrites[x], "capture")
    BY <2>3 DEF Holds, Replacing
  <2>5. resuming[x] # "consuming"
    <3>1. pendingWrites[x] # <<>> => 1 \in 1..Len(pendingWrites[x])
      BY <2>1, Pop DEF Recorded, Stands
    <3> QED
      BY <2>1, <2>3, <3>1 DEF Recorded, InHand, Replacing
  <2>6. Stands(x)'
    BY <2>1, <2>2, <2>3, <2>4 DEF Recorded, Stands, Queued, Placed
  <2>7. InHand(x)'
    BY <2>1, <2>2 DEF Recorded, InHand, Flag
  <2>8. Flagged(x)'
    BY <2>1, <2>2, <2>4, <2>5 DEF Recorded, Flagged, Unprepared, Flag, Late
  <2>9. Cut(x)' /\ (CloseCancels \/ Kept(x)')
    BY <2>1, <2>2 DEF Recorded, Cut, Kept, Unprepared, Late
  <2> QED
    BY <2>6, <2>7, <2>8, <2>9 DEF Recorded
<1> QED
  BY <1>1 DEF RestartInv, ListsRecords, ghosts

LEMMA ClosesAgentsStep ==
    ASSUME RestartInv, RestartTyped', ClosesAgents
    PROVE  RestartInv'
<1>1. ASSUME NEW x \in Agents PROVE Recorded(x)'
  <2>1. Recorded(x)
    BY DEF RestartInv
  <2>2. /\ UNCHANGED <<agentFiles, pendingWrites, runtimes, todo, listed, awaited, resuming, setting,
                       owed, captured, cut, overtaken, surplus>>
        /\ stage = "capturing" /\ stage' = "closing"
        /\ closings'[x] = IF runtimes[x] = "none" THEN "closed" ELSE "open"
    BY DEF ClosesAgents, ghosts
  <2>3. ~Holds(pendingWrites[x], "capture") /\ closings[x] = "open"
    BY <2>1, <2>2, WaitsIs DEF ClosesAgents, CaptureWaits, Recorded, Stands
  <2>4. \A i \in 1..Len(pendingWrites[x]) : pendingWrites[x][i].kind # "capture"
    BY <2>3 DEF Holds
  <2>5. Stands(x)'
    BY <2>1, <2>2, <2>3, <2>4 DEF Recorded, Stands, Queued, Placed, Replacing
  <2>6. InHand(x)'
    BY <2>1, <2>2 DEF Recorded, InHand, Flag
  <2>7. Flagged(x)'
    BY <2>1, <2>2 DEF Recorded, Flagged, Unprepared, Flag, Late
  <2>8. Cut(x)' /\ (CloseCancels \/ Kept(x)')
    BY <2>1, <2>2, <2>3 DEF Recorded, Cut, Kept, Unprepared, Late
  <2> QED
    BY <2>5, <2>6, <2>7, <2>8 DEF Recorded
<1> QED
  BY <1>1 DEF RestartInv, ClosesAgents, ghosts

\* What a stop leaves: nothing but the disk, and what is owed
LEMMA DownStep ==
    ASSUME RestartInv, RestartTyped', GoesDown, NEW x \in Agents,
           Flag(x) \/ ShownRunning(x) => owed'[x] \/ x \in overtaken,
           CloseCancels \/ (owed'[x] => agentFiles[x].resume \/ agentFiles[x].status = "running")
    PROVE  Recorded(x)'
<1>1. /\ UNCHANGED <<agentFiles, listed, setting, overtaken, surplus>>
      /\ stage' = "down" /\ pendingWrites'[x] = <<>> /\ runtimes'[x] = "none"
      /\ closings'[x] = "open" /\ resuming'[x] = "none" /\ x \notin captured' /\ x \notin cut'
  BY DEF GoesDown
<1>2. Stands(x)'
  BY <1>1, EmptyQueue DEF Stands, Queued
<1>3. InHand(x)' /\ Flagged(x)'
  BY <1>1, EmptyQueue DEF InHand, Flagged, Unprepared, Flag, ShownRunning, Late
<1>4. Cut(x)' /\ (CloseCancels \/ Kept(x)')
  BY <1>1 DEF Cut, Kept, Unprepared
<1> QED
  BY <1>2, <1>3, <1>4 DEF Recorded

LEMMA StopsStep ==
    ASSUME RestartInv, RestartTyped', ExitsDaemon \/ CrashesDaemon
    PROVE  RestartInv'
<1>1. GoesDown
  BY DEF ExitsDaemon, CrashesDaemon
<1>2. ASSUME NEW x \in Agents PROVE Recorded(x)'
  <2>1. RestartTyped /\ Recorded(x)
    BY DEF RestartInv
  <2>2. /\ stage # "down"
        /\ owed'[x] <=> \/ ShownRunning(x) \/ x \in cut
                        \/ owed[x] /\ resuming[x] = "none"
                        \/ CrashesDaemon /\ owed[x] /\ resuming[x] \in {"chosen", "consuming"}
        /\ ~CrashesDaemon => stage = "closing"
    BY DEF ExitsDaemon, CrashesDaemon
  <2>3. Flag(x) \/ ShownRunning(x) => owed'[x] \/ x \in overtaken
    <3>1. CASE Unprepared(x)
      BY <2>1, <2>2, <3>1 DEF Recorded, Flagged, Stands, Unprepared, ShownRunning
    <3>2. CASE stage = "preparing" /\ x \notin todo
      BY <2>1, <2>2, <3>2 DEF Recorded, Flagged, InHand, Flag
    <3>3. CASE stage \in {"up", "flushing"}
      BY <2>1, <2>2, <3>3 DEF Recorded, Flagged, InHand, Flag
    <3>4. CASE stage \in Late
      BY <2>1, <2>2, <3>4 DEF Recorded, Flagged, Flag, ShownRunning
    <3> QED
      BY <2>1, <2>2, <3>1, <3>2, <3>3, <3>4 DEF Unprepared, Late, RestartTyped, RestartTypeOK
  <2>4. ASSUME ~CloseCancels, owed'[x]
        PROVE  agentFiles[x].resume \/ agentFiles[x].status = "running"
    <3>1. Kept(x)
      BY <2>1, <2>4 DEF Recorded
    <3>2. CASE x \in cut
      <4>1. x \in captured /\ stage \in Late /\ setting
        BY <2>1, <3>2 DEF Recorded, Cut
      <4>2. stage = "closing"
        BY <2>1, <3>2 DEF Recorded, Cut, Stands
      <4>3. ~Holds(pendingWrites[x], "capture")
        BY <2>1, <4>2 DEF Recorded, Stands, Queued, Placed, Holds
      <4> QED
        BY <3>1, <4>1, <4>3 DEF Kept
    <3>3. CASE owed[x] /\ resuming[x] = "none"
      BY <3>1, <3>3 DEF Kept
    <3>4. CASE owed[x] /\ resuming[x] \in {"chosen", "consuming"}
      BY <2>1, <3>4 DEF Recorded, InHand, Flag
    <3> QED
      BY <2>2, <2>4, <3>2, <3>3, <3>4 DEF ShownRunning
  <2> QED
    BY <1>1, <2>3, <2>4, DownStep
<1> QED
  BY <1>1, <1>2 DEF RestartInv, GoesDown

-----------------------------------------------------------------------------
LEMMA RestartSteps ==
    ASSUME RestartInv, [RestartNext]_restartVars
    PROVE  RestartInv'
<1>1. RestartTyped'
  BY TypedSteps
<1>2. ASSUME NEW x \in Agents, WriteLands(x) PROVE RestartInv'
  BY <1>1, <1>2, WriteLandsStep
<1>3. ASSUME NEW x \in Agents, Prepares(x) PROVE RestartInv'
  BY <1>1, <1>3, PreparesStep
<1>4. ASSUME NEW x \in Agents, ResumeChecks(x) \/ ResumeFails(x) PROVE RestartInv'
  BY <1>1, <1>4, ResumeSteps
<1>5. ASSUME NEW x \in Agents, Reopens(x) \/ SendsResume(x) PROVE RestartInv'
  BY <1>1, <1>5, ReopensStep, SendsResumeStep
<1>6. ASSUME NEW x \in Agents, LoadsAgent(x) \/ BeginsTurn(x) \/ EndsTurn(x) \/ ReportsCanceled(x)
      PROVE  RestartInv'
  BY <1>1, <1>6, TurnSteps
<1>7. ASSUME NEW x \in Agents, ArchivesAgent(x) \/ Captures(x) PROVE RestartInv'
  BY <1>1, <1>7, ArchivesStep, CapturesStep
<1>8. ASSUME NEW x \in Agents, ClosesSession(x) \/ SessionCloses(x) PROVE RestartInv'
  BY <1>1, <1>8, ClosesSessionStep, SessionClosesStep
<1>9. CASE StartsDaemon \/ Opens
  BY <1>1, <1>9, StartsStep, OpensStep
<1>10. CASE SwitchesSetting \/ ShutsDown \/ ListsRecords \/ ClosesAgents
  BY <1>1, <1>10, SwitchesStep, ShutsDownStep, ListsStep, ClosesAgentsStep
<1>11. CASE ExitsDaemon \/ CrashesDaemon
  BY <1>1, <1>11, StopsStep
<1>12. CASE UNCHANGED restartVars
  <2>1. \A x \in Agents : Same(x)
    BY <1>12 DEF restartVars, Same
  <2>2. ASSUME NEW x \in Agents PROVE Recorded(x)'
    BY <1>12, <2>1, SameRecorded DEF RestartInv, restartVars
  <2> QED
    BY <1>1, <1>12, <2>2 DEF RestartInv, restartVars
<1> QED
  BY <1>2, <1>3, <1>4, <1>5, <1>6, <1>7, <1>8, <1>9, <1>10, <1>11, <1>12 DEF RestartNext

LEMMA InitRestart == RestartInit => RestartInv
<1> SUFFICES ASSUME RestartInit PROVE RestartInv
  OBVIOUS
<1>1. PICK running \in SUBSET Agents :
          /\ agentFiles = [x \in Agents |-> [status |-> IF x \in running THEN "running" ELSE "closed",
                                             resume |-> FALSE, archived |-> FALSE]]
          /\ owed = [x \in Agents |-> x \in running]
  BY DEF RestartInit
<1>2. /\ pendingWrites = [x \in Agents |-> <<>>] /\ runtimes = [x \in Agents |-> "none"]
      /\ closings = [x \in Agents |-> "open"] /\ stage = "down" /\ todo = {} /\ listed = agentFiles
      /\ awaited = [x \in Agents |-> 0] /\ resuming = [x \in Agents |-> "none"] /\ setting = TRUE
      /\ captured = {} /\ cut = {} /\ overtaken = {} /\ surplus = {}
  BY DEF RestartInit
<1>3. RestartTyped
  <2>1. agentFiles \in [Agents -> AgentRecord]
    BY <1>1 DEF AgentRecord
  <2> QED
    BY <1>1, <1>2, <2>1 DEF RestartTyped, RestartTypeOK
<1>4. ASSUME NEW x \in Agents PROVE Recorded(x)
  <2>1. Stands(x)
    BY <1>2, EmptyQueue DEF Stands
  <2>2. InHand(x) /\ Flagged(x)
    BY <1>1, <1>2, EmptyQueue DEF InHand, Flagged, Unprepared, Flag, ShownRunning, Late
  <2>3. Cut(x) /\ Kept(x)
    BY <1>1, <1>2 DEF Cut, Kept, Unprepared
  <2> QED
    BY <2>1, <2>2, <2>3 DEF Recorded
<1> QED
  BY <1>2, <1>3, <1>4 DEF RestartInv

\* At every step of a start, of a shutdown and of the writes between them, for any agents and any
\* number of stops.
THEOREM RestartInvHolds == RestartSpec => []RestartInv
BY InitRestart, RestartSteps, PTL DEF RestartSpec

\* No restart sends a resume to an agent that was not interrupted since the last, but for the
\* agents whose turn ended between the listing and the capture, whatever providers report while
\* they close.
THEOREM ResumedOnceHolds == RestartSpec => [](surplus \subseteq overtaken)
<1>1. RestartInv => surplus \subseteq overtaken
  BY DEF RestartInv
<1> QED
  BY <1>1, RestartInvHolds, PTL

\* When no provider reports a turn as canceled while its session closes, that, and what a stop
\* has interrupted is kept until its resume was sent or abandoned.
THEOREM ResumesAreOwedHolds ==
    ASSUME ~CloseCancels
    PROVE  RestartSpec => []ResumesAreOwed
<1>1. ASSUME RestartInv PROVE ResumesAreOwed
  <2>1. ASSUME NEW x \in Agents
        PROVE  LET onDisk == agentFiles[x].resume \/ agentFiles[x].status = "running"
               IN (x \in cut => onDisk) /\ (owed[x] => onDisk \/ resuming[x] # "none")
    <3>1. Recorded(x) /\ Kept(x)
      BY <1>1 DEF RestartInv, Recorded
    <3>2. ASSUME x \in cut PROVE agentFiles[x].resume
      <4>1. x \in captured /\ setting /\ stage = "closing"
        BY <3>1, <3>2 DEF Recorded, Cut, Stands
      <4>2. ~Holds(pendingWrites[x], "capture")
        BY <3>1, <4>1 DEF Recorded, Stands, Queued, Placed, Holds
      <4> QED
        BY <3>1, <4>1, <4>2 DEF Kept
    <3> QED
      BY <3>1, <3>2 DEF Kept
  <2> QED
    BY <1>1, <2>1 DEF ResumesAreOwed, InterruptionIsKept, RestartInv
<1> QED
  BY <1>1, RestartInvHolds, PTL

=============================================================================
