------------------------------- MODULE Schedules -------------------------------
(***************************************************************************)
(* The runs of one schedule: schedule/service.ts over schedule/store.ts.   *)
(*                                                                         *)
(* Each second a tick lists the schedules and visits them one by one; it   *)
(* waits for each run, so that it may act on a list and a time long past.  *)
(* Runs on demand, changes by the user, the archiving of the target and    *)
(* restarts of the daemon come in between.  Every change of the file is    *)
(* made in the file's queue, on the contents found there.                  *)
(***************************************************************************)
EXTENDS Naturals, Sequences, FiniteSets

CONSTANTS
    Ticks,         \* ticks under way at once
    Demands,       \* runs on demand under way at once
    Cadences,      \* times between slots
    RunLimits,     \* values of maxRuns
    Expiries,      \* values of expiresAt
    Unlimited,     \* no maxRuns, no expiresAt
    Deleted,       \* no file
    LastMoment,    \* bound: time
    MaxRuns,       \* bound: runs
    MaxEvents      \* bound: changes by the user, archiving, stops, writes that fail

Unplanned == 0   \* nextRunAt is null; time begins with 1
OneRun    == [slot: 1..LastMoment, started: 1..LastMoment, ended: BOOLEAN, byTick: BOOLEAN]
Schedule  == [status: {"active", "paused", "completed"}, next: Nat, cadence: Cadences,
              limit: RunLimits, expires: Expiries, runs: Seq(OneRun)]

ASSUME SchedulesAssumption ==
    /\ Deleted \notin Schedule
    /\ Ticks \cap Demands = {}
    /\ Cadences \subseteq Nat \ {0} /\ Unlimited \notin Nat /\ Unlimited \in Expiries
    /\ RunLimits \cup Expiries \subseteq (Nat \ {0}) \cup {Unlimited}
    /\ LastMoment \in Nat \ {0} /\ {MaxRuns, MaxEvents} \subseteq Nat

VARIABLES
    schedule,  \* the file
    moment,    \* the time
    service,   \* "down", "recovered" (half of start is done) or "ticking"
    reserved,  \* runningScheduleIds has the schedule
    workers,   \* where the ticks and the runs on demand stand
    target,    \* the agent: "there", "archived" (its callback is due) or "gone"
    lapsed,    \* history: a failed write or a stop took its next slot
    renewed,   \* history: the runs it had when it was last created anew
    events     \* what was used of MaxEvents

scheduleVars == <<schedule, moment, service, reserved, workers, target, lapsed, renewed,
                  events>>

\* A worker with the time it captured, while it needs it, and its run
Resting == [at |-> "resting", now |-> 1, run |-> 0]
Worker  == [at: {"resting", "mayRun", "mayComplete", "completing", "starting",
                 "running", "failing"},
            now: 1..LastMoment, run: 0..MaxRuns]

\* computeNextRunAt and advanceNextRunAtPast for a cadence that divides time
SlotAfter(cadence, time) == (time \div cadence + 1) * cadence
AdvancedPast(cadence, slot, now) == IF slot > now THEN slot ELSE SlotAfter(cadence, now)

ScheduleInit ==
    /\ \E limit \in RunLimits, expires \in Expiries, cadence \in Cadences, atOnce \in BOOLEAN :
          schedule = [status |-> "active", cadence |-> cadence, limit |-> limit,
                      next |-> IF atOnce THEN 1 ELSE SlotAfter(cadence, 1),
                      expires |-> expires, runs |-> <<>>]
    /\ moment = 1 /\ service = "ticking" /\ reserved = FALSE /\ target = "there"
    /\ workers = [w \in Ticks \cup Demands |-> Resting]
    /\ lapsed = FALSE /\ renewed = 0 /\ events = 0

-----------------------------------------------------------------------------
Ended(s)   == {i \in DOMAIN s.runs : s.runs[i].ended}
Unended(s) == DOMAIN s.runs \ Ended(s)
EndedRuns(s) == Cardinality(Ended(s))
\* shouldCompleteSchedule
Exhausted(s, now) ==
    \/ s.expires # Unlimited /\ s.expires <= now
    \/ s.limit # Unlimited /\ EndedRuns(s) >= s.limit
\* The conditions under which a tick runs it, but for exhaustion
Due(s, now) == s.status = "active" /\ s.next # Unplanned /\ s.next <= now
CompletedNow(s) == [s EXCEPT !.status = "completed", !.next = Unplanned]

Exists == schedule # Deleted
Moves(w, at) == workers' = [workers EXCEPT ![w].at = at]
Rests(w) == workers' = [workers EXCEPT ![w] = Resting]
\* The end of runSchedule: the reservation goes whoever made it
Releases(w) == Rests(w) /\ reserved' = FALSE
NoHistory == UNCHANGED <<lapsed, renewed>>
Happening == events < MaxEvents /\ events' = events + 1
OnlyWorkers == UNCHANGED <<moment, service, target, events>> /\ NoHistory

\* tick takes the time and lists; what it will do with the schedule when it comes to it
\* depends on what it read
Ticking(w) ==
    /\ service = "ticking" /\ workers[w].at = "resting"
    /\ Exists /\ schedule.status = "active" /\ schedule.next # Unplanned
    /\ \E at \in {"mayRun", "mayComplete"} :
          /\ IF at = "mayComplete" THEN Exhausted(schedule, moment)
             ELSE ~Exhausted(schedule, moment) /\ Due(schedule, moment)
          /\ workers' = [workers EXCEPT ![w].at = at, ![w].now = moment]
    /\ UNCHANGED <<schedule, reserved>> /\ OnlyWorkers

\* runOnce reads the schedule
RunOnceInspects(w) ==
    /\ service = "ticking" /\ workers[w].at = "resting"
    /\ Exists /\ schedule.status # "completed"
    /\ Moves(w, "mayRun")
    /\ UNCHANGED <<schedule, reserved>> /\ OnlyWorkers

\* The reservation is looked at, and made, at the visit
Visits(w) ==
    /\ \/ /\ workers[w].at \in {"mayRun", "mayComplete"} /\ reserved
          /\ Rests(w) /\ UNCHANGED reserved
       \/ /\ workers[w].at = "mayComplete" /\ ~reserved
          /\ Moves(w, "completing") /\ UNCHANGED reserved
       \/ /\ workers[w].at = "mayRun" /\ ~reserved
          /\ workers' = [workers EXCEPT ![w].at = "starting",
                                        ![w].now = IF w \in Demands THEN moment ELSE @]
          /\ reserved' = TRUE
    /\ UNCHANGED schedule /\ OnlyWorkers

CompletesIfDue(w) ==
    /\ workers[w].at = "completing"
    /\ LET due == Exists /\ schedule.status = "active" /\ schedule.next # Unplanned
                  /\ Exhausted(schedule, workers[w].now)
       IN schedule' = IF due THEN CompletedNow(schedule) ELSE schedule
    /\ Rests(w) /\ UNCHANGED reserved /\ OnlyWorkers

\* The record of a run, and the worker that runs it
Begins(w, next) ==
    LET now == workers[w].now
        run == [slot |-> IF w \in Ticks THEN schedule.next ELSE now, started |-> now,
                ended |-> FALSE, byTick |-> w \in Ticks]
    IN /\ Len(schedule.runs) < MaxRuns
       /\ schedule' = [schedule EXCEPT !.next = next, !.runs = Append(@, run)]
       /\ workers' = [workers EXCEPT ![w] = [at |-> "running", now |-> 1,
                                             run |-> Len(schedule.runs) + 1]]
       /\ UNCHANGED reserved

\* claimDueRun: the last run that the limit allows has no successor
NextOfClaim(now) ==
    IF schedule.limit # Unlimited /\ EndedRuns(schedule) + 1 >= schedule.limit THEN Unplanned
    ELSE AdvancedPast(schedule.cadence, SlotAfter(schedule.cadence, schedule.next), now)

\* Mutant: the slot that the tick saw is taken for due
ClaimsSlotUnchecked(w) ==
    /\ workers[w].at = "starting" /\ Exists
    /\ IF schedule.next # Unplanned THEN Begins(w, NextOfClaim(workers[w].now))
       ELSE Releases(w) /\ UNCHANGED schedule
    /\ OnlyWorkers

ClaimsSlot(w) ==
    LET now == workers[w].now IN
    /\ workers[w].at = "starting"
    /\ IF Exists /\ Due(schedule, now) /\ ~Exhausted(schedule, now)
       THEN Begins(w, NextOfClaim(now))
       ELSE Releases(w) /\ UNCHANGED schedule
    /\ OnlyWorkers

\* appendRunningRun asks no conditions
AppendsRun(w) ==
    /\ workers[w].at = "starting"
    /\ IF Exists THEN Begins(w, schedule.next) ELSE Releases(w) /\ UNCHANGED schedule
    /\ OnlyWorkers

\* finishRun
WithEnd(w) == [schedule EXCEPT !.runs[workers[w].run].ended = TRUE]
\* Mutant: a schedule without a next slot is left so
FinishedUnplanned(w, s) ==
    IF s.status = "completed" \/ w \in Demands THEN s
    ELSE IF Exhausted(s, moment) THEN CompletedNow(s)
    ELSE IF s.status = "paused" \/ s.next = Unplanned THEN [s EXCEPT !.next = Unplanned]
    ELSE [s EXCEPT !.next = AdvancedPast(s.cadence, s.next, moment)]
Finished(w, s) ==
    IF s.status = "completed" \/ w \in Demands THEN s
    ELSE IF Exhausted(s, moment) THEN CompletedNow(s)
    ELSE IF s.status = "paused" THEN [s EXCEPT !.next = Unplanned]
    ELSE LET own  == s.runs[workers[w].run].slot
             next == IF s.next # Unplanned THEN s.next ELSE SlotAfter(s.cadence, own)
         IN [s EXCEPT !.next = AdvancedPast(s.cadence, next, moment)]

\* The run is over, one way or the other; targetGone when its agent is found archived
ScheduleRunEnds(w, targetGone) ==
    /\ workers[w].at = "running" \/ (workers[w].at = "failing" /\ ~targetGone)
    /\ targetGone => target # "there"
    /\ schedule' = IF ~Exists THEN Deleted
                   ELSE IF targetGone THEN CompletedNow(WithEnd(w)) ELSE Finished(w, WithEnd(w))
    /\ Releases(w) /\ OnlyWorkers

\* A success that cannot be recorded is recorded as a failure; when that, too, cannot be
\* written, the run stays "running"
EndNotWritten(w, success) ==
    /\ Happening
    /\ Exists /\ workers[w].at \in (IF success THEN {"running"} ELSE {"running", "failing"})
    /\ IF success THEN Moves(w, "failing") /\ UNCHANGED <<reserved, lapsed>>
       ELSE Releases(w) /\ lapsed' = TRUE
    /\ UNCHANGED <<schedule, moment, service, target, renewed>>

-----------------------------------------------------------------------------
\* The user's changes, each one update of the file
Rewrites(s) ==
    /\ service = "ticking" /\ Exists /\ Happening
    /\ schedule' = s
    /\ UNCHANGED <<moment, service, reserved, workers, target, lapsed>>

Pauses ==
    /\ Exists /\ schedule.status = "active"
    /\ Rewrites([schedule EXCEPT !.status = "paused", !.next = Unplanned]) /\ UNCHANGED renewed

Resumes ==
    /\ Exists /\ schedule.status = "paused"
    /\ Rewrites([schedule EXCEPT !.status = "active", !.next = SlotAfter(schedule.cadence, moment)])
    /\ UNCHANGED renewed

\* update with a cadence, a limit or an expiry
Reschedules(cadence) ==
    /\ Exists
    /\ Rewrites([schedule EXCEPT
                 !.cadence = cadence,
                 !.next = IF schedule.status = "active" THEN SlotAfter(cadence, moment)
                          ELSE Unplanned])
    /\ UNCHANGED renewed

Relimits(limit, expires) ==
    /\ Exists /\ <<limit, expires>> # <<schedule.limit, schedule.expires>>
    /\ Rewrites([schedule EXCEPT !.limit = limit, !.expires = expires]) /\ UNCHANGED renewed

\* createOrReplace of a schedule that is not completed, to run at once or at its next slot
Recreates(limit, atOnce) ==
    /\ Exists /\ schedule.status # "completed"
    /\ Rewrites([schedule EXCEPT
                 !.status = "active", !.limit = limit, !.expires = Unlimited,
                 !.next = IF atOnce THEN moment ELSE SlotAfter(schedule.cadence, moment)])
    /\ renewed' = Len(schedule.runs)

Removes == Rewrites(Deleted) /\ UNCHANGED renewed

\* The target is archived, then completeForAgent is called
TargetArchived ==
    /\ service = "ticking" /\ target = "there" /\ target' = "archived"
    /\ Happening /\ UNCHANGED <<schedule, moment, service, reserved, workers>> /\ NoHistory

CompletesForAgent ==
    /\ target = "archived" /\ target' = "gone"
    /\ schedule' = IF Exists THEN CompletedNow(schedule) ELSE schedule
    /\ UNCHANGED <<moment, service, reserved, workers, events>> /\ NoHistory

-----------------------------------------------------------------------------
ServiceStops ==
    /\ service # "down" /\ service' = "down" /\ Happening
    /\ workers' = [w \in Ticks \cup Demands |-> Resting] /\ reserved' = FALSE
    /\ target' = IF target = "archived" THEN "gone" ELSE target
    /\ lapsed' = (lapsed \/ (Exists /\ schedule.status = "active" /\ schedule.next = Unplanned
                             /\ (schedule.limit # Unlimited
                                    => EndedRuns(schedule) + 1 < schedule.limit)))
    /\ UNCHANGED <<schedule, moment, renewed>>

\* recoverInterruptedSchedule: the first run that has no end failed; slots missed are skipped
Recovered(s) ==
    LET first  == CHOOSE i \in Unended(s) : \A j \in Unended(s) : i <= j
        failed == IF Unended(s) = {} THEN s ELSE [s EXCEPT !.runs[first].ended = TRUE]
    IN IF Unended(s) # {} /\ Exhausted(failed, moment) THEN CompletedNow(failed)
       ELSE IF Due(failed, moment)
       THEN [failed EXCEPT !.next = AdvancedPast(s.cadence, SlotAfter(s.cadence, s.next), moment)]
       ELSE failed

Recovers ==
    /\ service = "down" /\ service' = "recovered"
    /\ schedule' = IF Exists THEN Recovered(schedule) ELSE schedule
    /\ UNCHANGED <<moment, reserved, workers, target, events>> /\ NoHistory

\* sweepOrphanedSchedules, then the ticks begin
SweepsOrphans ==
    /\ service = "recovered" /\ service' = "ticking"
    /\ schedule' = IF Exists /\ target = "gone" THEN CompletedNow(schedule) ELSE schedule
    /\ UNCHANGED <<moment, reserved, workers, target, events>> /\ NoHistory

TimePasses ==
    /\ moment < LastMoment /\ moment' = moment + 1
    /\ UNCHANGED <<schedule, service, reserved, workers, target, events>> /\ NoHistory

ScheduleNext ==
    \/ \E w \in Ticks : Ticking(w) \/ CompletesIfDue(w) \/ ClaimsSlot(w)
    \/ \E w \in Demands : RunOnceInspects(w) \/ AppendsRun(w)
    \/ \E w \in Ticks \cup Demands :
          Visits(w) \/ \E yes \in BOOLEAN : ScheduleRunEnds(w, yes) \/ EndNotWritten(w, yes)
    \/ Pauses \/ Resumes \/ Removes
    \/ \E cadence \in Cadences : Reschedules(cadence)
    \/ \E limit \in RunLimits : \/ \E expires \in Expiries : Relimits(limit, expires)
                                \/ \E atOnce \in BOOLEAN : Recreates(limit, atOnce)
    \/ TargetArchived \/ CompletesForAgent
    \/ ServiceStops \/ Recovers \/ SweepsOrphans \/ TimePasses

ScheduleSpec == ScheduleInit /\ [][ScheduleNext]_scheduleVars

-----------------------------------------------------------------------------
\* The types of the variables.
ScheduleTypeOK ==
    /\ schedule \in Schedule \cup {Deleted} /\ moment \in 1..LastMoment
    /\ service \in {"down", "recovered", "ticking"} /\ reserved \in BOOLEAN
    /\ workers \in [Ticks \cup Demands -> Worker]
    /\ target \in {"there", "archived", "gone"} /\ lapsed \in BOOLEAN
    /\ renewed \in 0..MaxRuns /\ events \in 0..MaxEvents

\* However long ticks wait, whatever they read and wherever the daemon stops, the runs that the
\* clock starts follow one another: each has its time come, takes a later slot than those before
\* it (unless the schedule was created anew), and begins when no other run goes on.
RunsFollowOneAnother ==
    /\ Exists => LET runs == schedule.runs IN
          \A j \in DOMAIN runs : runs[j].byTick =>
             /\ runs[j].slot <= runs[j].started
             /\ \A i \in renewed + 1..j - 1 : runs[i].byTick => runs[i].slot < runs[j].slot
    /\ Cardinality({w \in Ticks \cup Demands : workers[w].at \in {"running", "failing"}}) <= 1

\* An active schedule has a next slot unless its last run goes on, and no other schedule has one:
\* whatever is changed while a run goes on, it neither falls asleep nor comes back.  A limit
\* changed before a stop, and an end that cannot be written, are the known exceptions (lapsed).
ActiveIsPlanned ==
    Exists =>
       /\ schedule.next # Unplanned => schedule.status = "active"
       /\ schedule.status = "active" /\ schedule.next = Unplanned =>
             \/ lapsed \/ service # "ticking"
             \/ \E w \in Ticks : workers[w].at \in {"running", "failing"}
=============================================================================
