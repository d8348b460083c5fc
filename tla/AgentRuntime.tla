---------------------------- MODULE AgentRuntime ----------------------------
(***************************************************************************)
(* The provider session behind one stored agent, and who may close or open *)
(* it: closeAgent, reload, resume and the collection of idle runtimes in   *)
(* agent-manager.ts, ensureAgentLoaded in agent-loading.ts and the sweep   *)
(* of idle-runtime-cleanup/index.ts.                                       *)
(*                                                                         *)
(* These operations are jobs of the agent's lifecycle lane, one at a time. *)
(* A prompt is not: it looks at the live agent, and when there is none, or *)
(* it is being collected, waits for the lane and loads the agent, together *)
(* with the other prompts that do.  The events of JavaScript are steps:    *)
(* whoever a settled promise wakes runs before the next answer of a        *)
(* provider or of the disk.                                                *)
(***************************************************************************)
EXTENDS Naturals, Sequences, FiniteSets

CONSTANTS
    Prompts,      \* prompts sent to the agent
    Protecting,   \* those of them that hasPendingMessages covers: queued messages
    MaxSessions,  \* bound: provider sessions opened
    MaxRequests   \* bound: closes, reloads, sweeps and switches of the setting

ASSUME RuntimeAssumption ==
    Protecting \subseteq Prompts /\ MaxSessions \in Nat \ {0} /\ MaxRequests \in Nat

Session == 1..MaxSessions
None0   == 0                     \* no session, nothing to wait for
Jobs    == {"close", "collect", "reload", "resume"}

VARIABLES
    registered,  \* the session of the live agent
    live,        \* sessions whose provider process may still write
    doomed,      \* sessions that a timed out reload goes on closing
    leaked,      \* given up while the provider would not close them (history)
    refused,     \* a close failed and left the agent its session (history)
    opened,      \* sessions opened so far
    lane,        \* the jobs of the lifecycle lane, the first one running
    step,        \* where it stands
    tickets,     \* jobs queued so far: each carries its number
    collecting,  \* collectingRuntimes has the agent
    sweep,       \* the sweep's candidate: a captured session, and activity since
    enabled,     \* the host's setting
    init,        \* the pending initialization
    prompts,     \* where each prompt stands
    run,         \* the session that runs a prompt, if any
    spent

runtimeVars == <<registered, live, doomed, leaked, refused, opened, lane, step, tickets,
                 collecting, sweep, enabled, init, prompts, run, spent>>
sessions == <<registered, live, doomed, leaked, refused, opened>>
jobs     == <<lane, step, tickets>>
cleanup  == <<collecting, sweep, enabled>>

NoSweep   == [at |-> "none", session |-> None0, stale |-> FALSE]
NewPrompt == [at |-> "new", ticket |-> 0]

RuntimeInit ==
    /\ registered = 1 /\ live = {1} /\ doomed = {} /\ leaked = {} /\ refused = FALSE
    /\ opened = 1
    /\ lane = <<>> /\ step = "start" /\ tickets = 0
    /\ collecting = FALSE /\ sweep = NoSweep /\ enabled = TRUE
    /\ init = "none"
    /\ prompts = [p \in Prompts |-> NewPrompt]
    /\ run = None0
    /\ spent = 0

-----------------------------------------------------------------------------
(***************************************************************************)
(* Prompts: streamAgent, waitForAgentClose and ensureAgentLoaded           *)
(***************************************************************************)
Passed(ticket) == \A i \in DOMAIN lane : lane[i].ticket # ticket
TailTicket     == IF lane = <<>> THEN 0 ELSE lane[Len(lane)].ticket
Closes         == {lane[i].ticket : i \in {j \in DOMAIN lane : lane[j].kind = "close"}}
CloseTicket    == IF Closes = {} THEN 0 ELSE CHOOSE t \in Closes : TRUE

Waiting == {"tail0", "close0", "tail1", "close1", "tail2", "close2"}
Woken(p) == prompts[p].at = "stream"
            \/ (prompts[p].at \in Waiting /\ Passed(prompts[p].ticket))
\* Nobody is left whom a settled promise has woken
Quiescent == \A p \in Prompts : ~Woken(p)

PromptGoes(p, at, ticket) == prompts' = [prompts EXCEPT ![p] = [at |-> at, ticket |-> ticket]]
Touches == sweep' = [sweep EXCEPT !.stale = TRUE]

Sends(p) ==
    /\ prompts[p].at = "new" /\ Quiescent
    /\ PromptGoes(p, "stream", 0)
    /\ UNCHANGED <<sessions, jobs, cleanup, init, run, spent>>

\* Mutant: a runtime that is being collected is used
StreamsWhileCollecting(p) ==
    /\ prompts[p].at = "stream"
    /\ IF registered = None0
       THEN PromptGoes(p, "tail0", TailTicket) /\ UNCHANGED <<run, sweep>>
       ELSE IF run # None0
       THEN PromptGoes(p, "failed", 0) /\ UNCHANGED <<run, sweep>>
       ELSE PromptGoes(p, "running", 0) /\ run' = registered /\ Touches
    /\ UNCHANGED <<sessions, jobs, collecting, enabled, init, spent>>

\* streamAgent: from the look at the agent to the pending run nothing intervenes
Streams(p) ==
    /\ prompts[p].at = "stream"
    /\ IF collecting \/ registered = None0
       THEN PromptGoes(p, "tail0", TailTicket) /\ UNCHANGED <<run, sweep>>
       ELSE IF run # None0
       THEN PromptGoes(p, "failed", 0) /\ UNCHANGED <<run, sweep>>
       ELSE PromptGoes(p, "running", 0) /\ run' = registered /\ Touches
    /\ UNCHANGED <<sessions, jobs, collecting, enabled, init, spent>>

\* waitForAgentClose: the tail of the lane first, then a close in flight; a prompt without
\* a runtime does it before it loads the agent, which does it twice
AfterWait == [tail0 |-> "close0", close0 |-> "tail1", tail1 |-> "close1", tail2 |-> "close2"]

WaitsForClose(p) ==
    /\ prompts[p].at \in DOMAIN AfterWait /\ Passed(prompts[p].ticket)
    /\ PromptGoes(p, AfterWait[prompts[p].at],
                  IF prompts[p].at = "close0" THEN TailTicket ELSE CloseTicket)
    /\ UNCHANGED <<sessions, jobs, cleanup, init, run, spent>>

\* An initialization in flight is joined, a live agent is returned
Loads1(p) ==
    /\ prompts[p].at = "close1" /\ Passed(prompts[p].ticket)
    /\ PromptGoes(p, IF init # "none" THEN "joined"
                     ELSE IF registered # None0 THEN "stream" ELSE "tail2", TailTicket)
    /\ UNCHANGED <<sessions, jobs, cleanup, init, run, spent>>

Loads2(p) ==
    /\ prompts[p].at = "close2" /\ Passed(prompts[p].ticket)
    /\ PromptGoes(p, "joined", 0)
    /\ init' = IF init = "none" THEN "reading" ELSE init
    /\ UNCHANGED <<sessions, jobs, cleanup, run, spent>>

\* Mutant: a job is not counted
EntersUncounted(kind) ==
    /\ lane' = Append(lane, [kind |-> kind, ticket |-> tickets + 1])
    /\ tickets' = tickets

EntersLane(kind) ==
    /\ tickets' = tickets + 1
    /\ lane' = Append(lane, [kind |-> kind, ticket |-> tickets'])

\* Everybody who joined the initialization goes on, or fails, with it
InitEnds(ok) ==
    /\ init' = "none"
    /\ prompts' = [p \in Prompts |->
          IF prompts[p].at # "joined" THEN prompts[p]
          ELSE [at |-> IF ok THEN "stream" ELSE "failed", ticket |-> 0]]

InitReads ==
    /\ init = "reading" /\ Quiescent
    /\ \/ init' = "resuming" /\ EntersLane("resume") /\ UNCHANGED prompts
       \/ InitEnds(FALSE) /\ UNCHANGED <<lane, tickets>>
    /\ UNCHANGED <<sessions, step, cleanup, run, spent>>

Hydrates ==
    /\ init = "hydrating" /\ Quiescent
    /\ \E ok \in BOOLEAN : InitEnds(ok)
    /\ UNCHANGED <<sessions, jobs, cleanup, run, spent>>

RunEnds ==
    /\ run # None0 /\ Quiescent
    /\ run' = None0 /\ Touches
    /\ prompts' = [p \in Prompts |->
          IF prompts[p].at = "running" THEN [at |-> "done", ticket |-> 0] ELSE prompts[p]]
    /\ UNCHANGED <<sessions, jobs, collecting, enabled, init, spent>>

-----------------------------------------------------------------------------
(***************************************************************************)
(* The lane.  Each step is an answer of the provider or of the disk.       *)
(***************************************************************************)
Running(kind) == lane # <<>> /\ Head(lane).kind = kind /\ Quiescent

\* Mutant: only a collection that closed the runtime is over
JobEndsCollecting ==
    /\ lane' = Tail(lane) /\ step' = "start" /\ UNCHANGED tickets
    /\ sweep' = (IF Head(lane).kind = "collect" THEN NoSweep ELSE sweep)
    /\ collecting' = (collecting /\ step = "start")

\* The job settles; collecting is reset when a collection does
JobEnds ==
    /\ lane' = Tail(lane) /\ step' = "start" /\ UNCHANGED tickets
    /\ IF Head(lane).kind = "collect"
       THEN collecting' = FALSE /\ sweep' = NoSweep
       ELSE UNCHANGED <<collecting, sweep>>

JobGoes(next) == step' = next /\ UNCHANGED <<lane, tickets, collecting, sweep>>

hasPendingMessages(ps) == \E p \in Protecting : ps[p].at \notin {"new", "done", "failed"}
noPendingWork  == run = None0 /\ ~hasPendingMessages(prompts)

\* closeAgentRuntime up to session.close: the collection looks once more
ClosesRuntime ==
    /\ step = "start" /\ (Running("close") \/ Running("collect"))
    /\ IF registered # None0
          /\ (Head(lane).kind = "collect" =>
                /\ registered = sweep.session /\ ~sweep.stale
                /\ noPendingWork /\ enabled)
       THEN JobGoes("closing")
       ELSE JobEnds
    /\ UNCHANGED <<sessions, enabled, init, prompts, run, spent>>

\* prepareAgentForClosure cancels the run of the agent
Unregister ==
    /\ registered' = None0 /\ run' = None0
    /\ prompts' = [p \in Prompts |->
          IF prompts[p].at = "running" THEN [at |-> "done", ticket |-> 0] ELSE prompts[p]]

\* A failed close keeps the agent, whose session may still write
SessionCloses ==
    /\ step = "closing" /\ (Running("close") \/ Running("collect"))
    /\ \/ live' = live \ {registered} /\ Unregister /\ UNCHANGED refused
       \/ /\ live' \in {live, live \ {registered}} /\ UNCHANGED <<registered, prompts, run>>
          /\ refused' = (refused \/ Head(lane).kind = "close")
    /\ JobEnds
    /\ UNCHANGED <<doomed, leaked, opened, enabled, init, spent>>

\* Mutant: a reload goes on although the old session did not close
ReloadGoesOn ==
    /\ Running("reload") /\ step = "start"
    /\ registered # None0 /\ JobGoes("open")
    /\ doomed' = doomed \cup {registered}
    /\ UNCHANGED <<registered, live, leaked, refused, opened, enabled, init, prompts, run, spent>>

\* A reload cancels the run and closes the session it replaces; it fails, or times out
\* while the close goes on, and the agent keeps the session
ReloadCloses ==
    /\ Running("reload") /\ step = "start"
    /\ \/ registered = None0 /\ JobEnds
          /\ UNCHANGED <<registered, live, doomed, prompts, run>>
       \/ registered # None0 /\ live' = live \ {registered} /\ Unregister
          /\ doomed' = doomed \ {registered}
          /\ (JobGoes("open") \/ JobEnds)          \* the closed snapshot is not stored
       \/ registered # None0 /\ registered \in live /\ JobEnds
          /\ doomed' \in {doomed, doomed \cup {registered}}
          /\ UNCHANGED <<registered, live, prompts, run>>
    /\ UNCHANGED <<leaked, refused, opened, enabled, init, spent>>

LateClose(s) ==
    /\ s \in doomed /\ Quiescent
    /\ live' \in {live, live \ {s}} /\ doomed' = doomed \ {s}
    /\ UNCHANGED <<registered, leaked, refused, opened, jobs, cleanup, init, prompts, run,
                   spent>>

ResumeStarts ==
    /\ Running("resume") /\ step = "start"
    /\ JobGoes("open")
    /\ UNCHANGED <<sessions, enabled, init, prompts, run, spent>>

\* What became of a resume is what became of the initialization
InitSees(ok) ==
    IF Head(lane).kind = "reload" THEN UNCHANGED <<init, prompts>>
    ELSE IF ok THEN init' = "hydrating" /\ UNCHANGED prompts
    ELSE InitEnds(FALSE)

\* resumeSession, or nothing: the directory or the provider is gone
OpensSession ==
    /\ step = "open" /\ (Running("reload") \/ Running("resume"))
    /\ \/ /\ opened < MaxSessions
          /\ opened' = opened + 1 /\ live' = live \cup {opened'}
          /\ JobGoes("register") /\ UNCHANGED <<init, prompts>>
       \/ JobEnds /\ InitSees(FALSE) /\ UNCHANGED <<opened, live>>
    /\ UNCHANGED <<registered, doomed, leaked, refused, enabled, run, spent>>

\* registerSession: a failure before the agent is live closes the session, a later one
\* leaves the agent registered
Registers ==
    /\ step = "register" /\ (Running("reload") \/ Running("resume"))
    /\ \/ /\ registered = None0 /\ registered' = opened
          /\ UNCHANGED <<live, leaked>>
          /\ \E ok \in BOOLEAN : InitSees(ok)
       \/ /\ InitSees(FALSE) /\ UNCHANGED registered
          /\ \/ live' = live \ {opened} /\ UNCHANGED leaked
             \/ leaked' = leaked \cup {opened} /\ UNCHANGED live
    /\ JobEnds
    /\ UNCHANGED <<doomed, refused, opened, enabled, run, spent>>

-----------------------------------------------------------------------------
(***************************************************************************)
(* Requests from outside and the sweep                                     *)
(***************************************************************************)
Spends == spent < MaxRequests /\ spent' = spent + 1

\* closeAgent joins a close in flight
RequestsClose ==
    /\ Quiescent /\ Spends /\ Closes = {}
    /\ EntersLane("close")
    /\ UNCHANGED <<sessions, step, cleanup, init, prompts, run>>

RequestsReload ==
    /\ Quiescent /\ Spends
    /\ EntersLane("reload")
    /\ UNCHANGED <<sessions, step, cleanup, init, prompts, run>>

\* The setting: a change ends a sweep that has not begun to close
Switches ==
    /\ Quiescent /\ Spends
    /\ enabled' = ~enabled
    /\ sweep' = IF collecting THEN [sweep EXCEPT !.stale = TRUE] ELSE NoSweep
    /\ UNCHANGED <<sessions, jobs, collecting, init, prompts, run>>

\* An agent idle for an hour is captured, and its provider asked
Sweeps ==
    /\ Quiescent /\ Spends
    /\ enabled /\ sweep.at = "none" /\ registered # None0
    /\ noPendingWork /\ lane = <<>>
    /\ sweep' = [at |-> "probing", session |-> registered, stale |-> FALSE]
    /\ UNCHANGED <<sessions, jobs, collecting, enabled, init, prompts, run>>

\* closeIfEligible blocks prompts before it enters the lane; a refusal or a timeout of
\* the provider's answer ends the sweep
Probed ==
    /\ sweep.at = "probing" /\ Quiescent
    /\ \/ /\ collecting' = TRUE /\ sweep' = [sweep EXCEPT !.at = "queued"]
          /\ EntersLane("collect")
       \/ sweep' = NoSweep /\ UNCHANGED <<collecting, lane, tickets>>
    /\ UNCHANGED <<sessions, step, enabled, init, prompts, run, spent>>

PromptSteps == \E p \in Prompts : Streams(p) \/ WaitsForClose(p) \/ Loads1(p) \/ Loads2(p)

LaneSteps == \/ ClosesRuntime \/ SessionCloses \/ ReloadCloses \/ ResumeStarts
             \/ OpensSession \/ Registers

Requests == RequestsClose \/ RequestsReload \/ Switches \/ Sweeps

RuntimeNext ==
    \/ \E p \in Prompts : Sends(p)
    \/ PromptSteps \/ InitReads \/ Hydrates \/ RunEnds
    \/ LaneSteps \/ \E s \in Session : LateClose(s)
    \/ Requests \/ Probed

\* Promises are resumed; the disk and the provider answer the jobs of the lane
RuntimeFairness ==
    /\ WF_runtimeVars(PromptSteps) /\ WF_runtimeVars(LaneSteps)
    /\ WF_runtimeVars(InitReads) /\ WF_runtimeVars(Hydrates)

RuntimeSpec == RuntimeInit /\ [][RuntimeNext]_runtimeVars /\ RuntimeFairness

-----------------------------------------------------------------------------
RuntimeTypeOK ==
    /\ registered \in Session \cup {None0} /\ run \in Session \cup {None0}
    /\ live \subseteq Session /\ doomed \subseteq Session /\ leaked \subseteq Session
    /\ opened \in Session /\ refused \in BOOLEAN
    /\ lane \in Seq([kind: Jobs, ticket: 1..tickets])
    /\ step \in {"start", "closing", "open", "register"}
    /\ tickets \in Nat
    /\ collecting \in BOOLEAN /\ enabled \in BOOLEAN
    /\ sweep \in [at: {"none", "probing", "queued"}, session: Session \cup {None0},
                  stale: BOOLEAN]
    /\ init \in {"none", "reading", "resuming", "hydrating"}
    /\ prompts \in [Prompts -> [at: Waiting \cup {"new", "stream", "joined", "running",
                                                  "done", "failed"}, ticket: Nat]]

(***************************************************************************)
(* "A persisted thread can have only one writer, even when its turn is     *)
(* idle" (agent-manager.ts:1783), and "provider close failure retains the  *)
(* runtime for cleanup instead of allowing another writer" (its test,      *)
(* agent-manager.test.ts:11240): no two sessions may write at a time,      *)
(* those aside that were given up unregistered.  The code does not keep    *)
(* this: see SingleWriter.                                                 *)
(***************************************************************************)
OneWriter == \A s, t \in live \ leaked : s = t

(***************************************************************************)
(* What it does keep, whatever resumes, reloads, closes and collections    *)
(* fail or time out: unless a close has failed, one session at most may    *)
(* write.  Two may after one has: a prompt that waited for that close      *)
(* resumes the agent without looking whether it is live                    *)
(* (agent-loading.ts:93).  But even then they are the agent's own session  *)
(* and the one that a resume has opened and will not register.             *)
(***************************************************************************)
SingleWriter ==
    \A s, t \in live \ leaked :
        s # t => refused /\ step = "register" /\ {s, t} = {registered, opened}

(***************************************************************************)
(* A prompt runs in the session of the live agent, and a collection never  *)
(* closes a session under a prompt, nor under a message that is queued or  *)
(* being dispatched when the close begins.                                 *)
(***************************************************************************)
Collecting == lane # <<>> /\ Head(lane).kind = "collect" /\ step = "closing"
PromptKeepsRuntime ==
    /\ run # None0 => run = registered /\ ~Collecting
    /\ Collecting => \A p \in Protecting : prompts[p].at \notin {"close2", "joined", "running"}

(***************************************************************************)
(* A prompt that met a collection, a close or a reload is not lost: it     *)
(* runs, or its sender is told that it failed.  Again and again none is    *)
(* left waiting for the lane or for an initialization.                     *)
(***************************************************************************)
PromptAnswered ==
    []<>(\A p \in Prompts : prompts[p].at \in {"new", "running", "done", "failed"})
==============================================================================
