------------------------ MODULE FinishSubscriptions ------------------------
(***************************************************************************)
(* The finish subscriptions of one (caller, child, host) key:              *)
(* agent/finish-subscriptions/index.ts over internal/json-store.ts.        *)
(*                                                                         *)
(* A caller that prompts a child agent registers the wish to hear when the *)
(* child is done.  The wish is a record on disk; while the daemon runs, a  *)
(* watch observes the child and delivers the notification.  A registration *)
(* made before its prompt is dispatched is a candidate: it replaces the    *)
(* earlier registrations of the key only when the dispatch is accepted.    *)
(*                                                                         *)
(* A record and the watch made for it share the number of the              *)
(* registration; watch 0 is the one that recovery attaches to the records  *)
(* found on disk.                                                          *)
(***************************************************************************)
EXTENDS Naturals, Sequences, FiniteSets

CONSTANTS
    N,           \* registrations, numbered in the order of the calls
    Owned,       \* those with requireParentOwnership
    Remote,      \* whether the child is on another host (serverId)
    Attempts,    \* failed observations that end a remote watch (3 in the code)
    LateReject,  \* whether a dispatch can be rejected after it was accepted
    Faults,      \* the operations that can fail
    WorldEvents, \* "archive" the caller, "detach" the child
    MaxFaults,   \* how many failures of them, over the whole history
    MaxLives     \* how often the daemon is started

FaultKinds == {"put", "commit", "supersede", "reject", "dispatch", "observe", "host"}

ASSUME SubscriptionsAssumption ==
    /\ N \in Nat \ {0}
    /\ Owned \subseteq 1..N
    /\ Remote \in BOOLEAN
    /\ Attempts \in Nat \ {0}
    /\ LateReject \in BOOLEAN
    /\ Faults \subseteq FaultKinds
    /\ WorldEvents \subseteq {"archive", "detach"}
    /\ MaxFaults \in Nat
    /\ MaxLives \in Nat

Registration == 1..N
Recovered    == 0
Watch        == Registration \cup {Recovered}

(***************************************************************************)
(* What observation reports.  "finished" stands for every settled outcome  *)
(* of the child; "unreachable" is the notice that its host is gone, which  *)
(* carries no snapshot of the child.                                       *)
(***************************************************************************)
Outcomes  == [kind: {"none", "finished", "permission", "unreachable"}, attached: BOOLEAN]
NoOutcome == [kind |-> "none", attached |-> FALSE]

WatchTypes ==
    [at: {"none", "undecided", "check", "observe", "decisions", "waits",
          "recheck", "ack", "remove", "pause", "done"},
     records: SUBSET Registration, left: SUBSET Registration,
     awaited: SUBSET Registration,
     member: BOOLEAN, pending: BOOLEAN, aborted: BOOLEAN,
     decision: {"none", "yes", "no"},
     outcome: Outcomes, acknowledged: BOOLEAN, told: BOOLEAN,
     strikes: 0..Attempts, message: {"none", "queued", "accepted", "refused"}]

RegistrationStates ==
    {"new", "asked", "stored", "candidate", "accepted", "created",
     "rejecting", "rejected", "refused", "orphan"}

Mutations == [op: {"start", "register", "supersede", "reject"},
              reg: Watch, left: SUBSET Registration]

VARIABLES
    service,       \* the daemon: down, recovering, open, or a stage of close
    disk,          \* the records of finish-subscriptions.json
    chain,         \* the promise chain of serialize, its head in progress
    ahead,         \* how much of it close still waits for
    reg,           \* where each registration stands with its caller
    priors,        \* predecessors: the watches a registration would replace
    watch,         \* the watch of each registration, and of recovery
    active,        \* callerIsActive
    attached,      \* the child still names the caller as its parent
    heard,         \* history: records whose finish was dispatched
    dropped,       \* history: records removed because it was suppressed
    reports,       \* history: how often each record's finish was dispatched
    faults, lives  \* how many failures and starts there were

vars == << service, disk, chain, ahead, reg, priors, watch, active, attached,
           heard, dropped, reports, faults, lives >>
store   == << disk, chain, ahead >>
world   == << active, attached, lives >>
history == << heard, dropped, reports >>
callers == << reg, priors >>

\* The type of every variable; the shape of the records of index.ts.
TypeOK ==
    /\ service \in {"down", "recovering", "open", "closing", "stopping", "closed"}
    /\ disk \subseteq Registration
    /\ chain \in Seq(Mutations) /\ ahead \in Nat
    /\ reg \in [Registration -> RegistrationStates]
    /\ priors \in [Registration -> SUBSET Watch]
    /\ watch \in [Watch -> WatchTypes]
    /\ active \in BOOLEAN /\ attached \in BOOLEAN
    /\ heard \subseteq Registration /\ dropped \subseteq Registration
    /\ reports \in [Registration -> Nat]
    /\ faults \in Nat /\ lives \in Nat

NoWatch == [at |-> "none", records |-> {}, left |-> {},
            awaited |-> {}, member |-> FALSE,
            pending |-> FALSE, aborted |-> FALSE, decision |-> "none",
            outcome |-> NoOutcome, acknowledged |-> FALSE, told |-> FALSE,
            strikes |-> 0, message |-> "none"]

Init ==
    /\ service = "down" /\ lives = 0 /\ faults = 0
    /\ disk = {} /\ chain = << >> /\ ahead = 0
    /\ reg = [r \in Registration |-> "new"]
    /\ priors = [r \in Registration |-> {}]
    /\ watch = [w \in Watch |-> NoWatch]
    /\ active = TRUE /\ attached = TRUE
    /\ heard = {} /\ dropped = {} /\ reports = [r \in Registration |-> 0]

Up       == service # "down"
Closed   == service \in {"closing", "stopping", "closed"}
Group(ws) == {w \in Watch : ws[w].member}
Promised == {r \in Registration : reg[r] \in {"accepted", "created"}}
Least(S) == CHOOSE x \in S : \A y \in S : x <= y

Fails(kind) == kind \in Faults /\ faults < MaxFaults /\ faults' = faults + 1

(***************************************************************************)
(* Watches.  Attach is attach; Stopped is stop for a set of watches;     *)
(* Decided is the two promises of a watch that close settles.              *)
(***************************************************************************)
Attach(ws, w, records, pending) ==
    [ws EXCEPT ![w] = [NoWatch EXCEPT !.at = "undecided", !.records = records,
        !.pending = pending, !.member = TRUE,
        !.decision = IF pending THEN "none" ELSE "yes"]]

Decided(d, value) == IF d = "none" THEN value ELSE d

Cancelled(ws, S, keep) ==
    [w \in Watch |-> IF w \notin S THEN ws[w]
        ELSE [ws[w] EXCEPT !.aborted = TRUE, !.decision = Decided(@, "no"),
                           !.member = @ /\ keep]]

Stopped(ws, S) == Cancelled(ws, S, FALSE)

\* run returns: its local variables are gone, a message it sent is not.
Returned(x) ==
    [x EXCEPT !.at = "done", !.left = {}, !.acknowledged = FALSE, !.told = FALSE,
              !.strikes = 0,
              !.outcome = IF x.message = "queued" THEN @ ELSE NoOutcome]

Moves(w, to) ==
    watch' = IF to = "done" THEN [watch EXCEPT ![w] = Returned(@)]
             ELSE [watch EXCEPT ![w].at = to]

RecordsOf(ws, S) == UNION {ws[w].records : w \in S}

(***************************************************************************)
(* The mutation chain.                                                     *)
(***************************************************************************)
Appended(queue, op, r, left) == Append(queue, [op |-> op, reg |-> r, left |-> left])

HeadIs(op) == Up /\ chain # << >> /\ Head(chain).op = op

\* Mutant: entries appended after the call of close are counted too.
PassedAlways == ahead' = ahead - 1

\* An entry that close waits for is done.
Passed == ahead' = IF ahead = 0 THEN 0 ELSE ahead - 1

\* One record of the head's removal loop is taken off the disk.
HeadRemoves ==
    LET r == Least(Head(chain).left)
    IN /\ Head(chain).left # {}
       /\ disk' = disk \ {r}
       /\ chain' = [chain EXCEPT ![1].left = @ \ {r}]
       /\ UNCHANGED ahead

(***************************************************************************)
(* start: recovery coalesces all records of the key into one watch.        *)
(***************************************************************************)
Boot ==
    /\ service = "down" /\ lives < MaxLives
    /\ service' = "recovering" /\ lives' = lives + 1
    /\ chain' = Appended(<< >>, "start", Recovered, {})
    /\ UNCHANGED << disk, ahead, watch, active, attached, faults >>
    /\ UNCHANGED callers /\ UNCHANGED history

Start ==
    /\ HeadIs("start")
    /\ watch' = IF disk = {} THEN watch ELSE Attach(watch, Recovered, disk, FALSE)
    /\ service' = "open" /\ chain' = Tail(chain) /\ Passed
    /\ UNCHANGED << disk, faults >>
    /\ UNCHANGED callers /\ UNCHANGED world /\ UNCHANGED history

(***************************************************************************)
(* register                                                                *)
(***************************************************************************)
Register(r) ==
    /\ service = "open" \/ Closed
    /\ reg[r] = "new" /\ \A q \in 1..(r - 1) : reg[q] # "new"
    /\ reg' = [reg EXCEPT ![r] = "asked"]
    /\ chain' = Appended(chain, "register", r, {})
    /\ UNCHANGED << service, disk, ahead, priors, watch, faults >>
    /\ UNCHANGED world /\ UNCHANGED history

RegisterStores ==
    LET r == Head(chain).reg
    IN /\ HeadIs("register") /\ reg[r] = "asked" /\ ~Closed
       /\ disk' = disk \cup {r}
       /\ reg' = [reg EXCEPT ![r] = "stored"]
       /\ UNCHANGED << service, chain, ahead, priors, watch, faults >>
       /\ UNCHANGED world /\ UNCHANGED history

RegisterThrows ==
    LET r == Head(chain).reg
    IN /\ HeadIs("register") /\ reg[r] = "asked"
       /\ \/ Closed /\ UNCHANGED faults
          \/ ~Closed /\ Fails("put")
       /\ reg' = [reg EXCEPT ![r] = "refused"]
       /\ chain' = Tail(chain) /\ Passed
       /\ UNCHANGED << service, disk, priors, watch >>
       /\ UNCHANGED world /\ UNCHANGED history

\* accept(): the candidate stops being one, its predecessors are stopped, and
\* the removal of their records is appended to the chain.
Accepting(ws, r, prior) ==
    IF ~ws[r].pending \/ Closed THEN ws
    ELSE [Stopped([ws EXCEPT ![r].pending = FALSE], prior)
              EXCEPT ![r].decision = Decided(@, "yes")]

Superseding(ws, r, prior, queue) ==
    IF ~ws[r].pending \/ Closed THEN queue
    ELSE Appended(queue, "supersede", r, RecordsOf(ws, prior))

\* Mutant: a candidate replaces its predecessors before its dispatch.
RegisterReplaces(now) ==
    LET r     == Head(chain).reg
        prior == Group(watch)
        ws    == Attach(watch, r, {r}, TRUE)
    IN /\ HeadIs("register") /\ reg[r] = "stored"
       /\ priors' = [priors EXCEPT ![r] = prior]
       /\ reg' = [reg EXCEPT ![r] = IF now THEN "created" ELSE "candidate"]
       /\ watch' = IF now THEN Accepting(ws, r, prior) ELSE ws
       /\ chain' = Superseding(ws, r, prior, Tail(chain))
       /\ Passed
       /\ UNCHANGED << service, disk, faults >>
       /\ UNCHANGED world /\ UNCHANGED history

\* After put: the watch joins the group; without a dispatch to wait for, the
\* registration is accepted in the same step.
RegisterAttaches(now) ==
    LET r     == Head(chain).reg
        prior == Group(watch)
        ws    == Attach(watch, r, {r}, TRUE)
    IN /\ HeadIs("register") /\ reg[r] = "stored"
       /\ priors' = [priors EXCEPT ![r] = prior]
       /\ reg' = [reg EXCEPT ![r] = IF now THEN "created" ELSE "candidate"]
       /\ watch' = IF now THEN Accepting(ws, r, prior) ELSE ws
       /\ chain' = IF now THEN Superseding(ws, r, prior, Tail(chain)) ELSE Tail(chain)
       /\ Passed
       /\ UNCHANGED << service, disk, faults >>
       /\ UNCHANGED world /\ UNCHANGED history

Accept(r) ==
    /\ Up /\ reg[r] = "candidate"
    /\ reg' = [reg EXCEPT ![r] = "accepted"]
    /\ watch' = Accepting(watch, r, priors[r])
    /\ chain' = Superseding(watch, r, priors[r], chain)
    /\ UNCHANGED << service, disk, ahead, priors, faults >>
    /\ UNCHANGED world /\ UNCHANGED history

\* A late rejection comes in the life of its registration: a start forgets its caller.
Reject(r) ==
    /\ Up
    /\ \/ reg[r] = "candidate"
       \/ LateReject /\ reg[r] = "accepted" /\ watch[r].at # "none"
    /\ reg' = [reg EXCEPT ![r] = "rejecting"]
    /\ chain' = Appended(chain, "reject", r, watch[r].records)
    /\ UNCHANGED << service, disk, ahead, priors, watch, faults >>
    /\ UNCHANGED world /\ UNCHANGED history

RejectRemoves ==
    /\ HeadIs("reject") /\ HeadRemoves
    /\ UNCHANGED << service, watch, faults >>
    /\ UNCHANGED callers /\ UNCHANGED world /\ UNCHANGED history

\* Mutant: the rejected candidate is not stopped.
RejectForgetsStop ==
    /\ HeadIs("reject") /\ Head(chain).left = {}
    /\ reg' = [reg EXCEPT ![Head(chain).reg] = "rejected"]
    /\ chain' = Tail(chain) /\ Passed
    /\ UNCHANGED << service, disk, priors, watch, faults >>
    /\ UNCHANGED world /\ UNCHANGED history

\* A removal that fails leaves the candidate attached and undecided.
RejectEnds ==
    LET r == Head(chain).reg
    IN /\ HeadIs("reject")
       /\ \/ /\ Head(chain).left = {} /\ watch' = Stopped(watch, {r})
             /\ UNCHANGED faults
          \/ Head(chain).left # {} /\ Fails("reject") /\ UNCHANGED watch
       /\ reg' = [reg EXCEPT ![r] = "rejected"]
       /\ chain' = Tail(chain) /\ Passed
       /\ UNCHANGED << service, disk, priors >>
       /\ UNCHANGED world /\ UNCHANGED history

SupersedeRemoves ==
    /\ HeadIs("supersede") /\ HeadRemoves
    /\ UNCHANGED << service, watch, faults >>
    /\ UNCHANGED callers /\ UNCHANGED world /\ UNCHANGED history

SupersedeEnds ==
    /\ HeadIs("supersede")
    /\ \/ Head(chain).left = {} /\ UNCHANGED faults
       \/ Head(chain).left # {} /\ Fails("supersede")
    /\ chain' = Tail(chain) /\ Passed
    /\ UNCHANGED << service, disk, watch >>
    /\ UNCHANGED callers /\ UNCHANGED world /\ UNCHANGED history

(***************************************************************************)
(* run: the life of a watch.                                               *)
(***************************************************************************)
Begins(w) ==
    /\ watch[w].at = "undecided" /\ watch[w].decision # "none"
    /\ Moves(w, IF watch[w].decision = "yes" /\ ~watch[w].aborted
                THEN "check" ELSE "done")
    /\ UNCHANGED << service, faults >> /\ UNCHANGED store
    /\ UNCHANGED callers /\ UNCHANGED world /\ UNCHANGED history

\* What a watch does once it knows that its caller is active.
AfterCheck(w) ==
    CASE watch[w].aborted        -> "done"
      [] watch[w].outcome = NoOutcome -> "observe"
      [] OTHER                   -> "decisions"

Checks(w) ==
    /\ watch[w].at = "check"
    /\ IF active THEN Moves(w, AfterCheck(w))
       ELSE watch' = [watch EXCEPT ![w].at = "remove", ![w].left = watch[w].records]
    /\ UNCHANGED << service, faults >> /\ UNCHANGED store
    /\ UNCHANGED callers /\ UNCHANGED world /\ UNCHANGED history

Observes(w, kind) ==
    /\ watch[w].at = "observe" /\ ~watch[w].aborted
    /\ watch' = [watch EXCEPT ![w].at = "decisions", ![w].strikes = 0,
                              ![w].outcome = [kind |-> kind, attached |-> attached]]
    /\ UNCHANGED << service, faults >> /\ UNCHANGED store
    /\ UNCHANGED callers /\ UNCHANGED world /\ UNCHANGED history

\* An error of this daemon, or a host that is still connecting.
ObserveFails(w) ==
    /\ watch[w].at = "observe" /\ ~watch[w].aborted
    /\ Fails("observe")
    /\ Moves(w, "pause")
    /\ UNCHANGED service /\ UNCHANGED store
    /\ UNCHANGED callers /\ UNCHANGED world /\ UNCHANGED history

\* The host is unreachable, Attempts times in a row, or was removed.
HostLost(w, removed) ==
    LET n     == IF removed THEN watch[w].strikes ELSE watch[w].strikes + 1
        final == removed \/ n = Attempts
    IN /\ Remote /\ watch[w].at = "observe" /\ ~watch[w].aborted
       /\ Fails("host")
       /\ watch' = [watch EXCEPT
             ![w].strikes = n,
             ![w].at      = IF final THEN "decisions" ELSE "pause",
             ![w].outcome = IF final THEN [kind |-> "unreachable", attached |-> FALSE]
                            ELSE @]
       /\ UNCHANGED service /\ UNCHANGED store
       /\ UNCHANGED callers /\ UNCHANGED world /\ UNCHANGED history

Pending == {r \in Registration : watch[r].member /\ watch[r].pending}

\* Mutant: decisions does not look at closed.
NoCandidateAtAll == Pending = {}

\* decisions(group): no outcome is reported while a candidate is undecided.
NoCandidate == Closed \/ Pending = {}

DecisionsPass(w) ==
    /\ watch[w].at = "decisions" /\ NoCandidate
    /\ Moves(w, IF watch[w].aborted THEN "done" ELSE "recheck")
    /\ UNCHANGED << service, faults >> /\ UNCHANGED store
    /\ UNCHANGED callers /\ UNCHANGED world /\ UNCHANGED history

\* The candidates of this moment are awaited; then the group is read again.
DecisionsWait(w) ==
    /\ watch[w].at = "decisions" /\ ~NoCandidate
    /\ watch' = [watch EXCEPT ![w].at = "waits", ![w].awaited = Pending]
    /\ UNCHANGED << service, faults >> /\ UNCHANGED store
    /\ UNCHANGED callers /\ UNCHANGED world /\ UNCHANGED history

DecisionsMade(w) ==
    /\ watch[w].at = "waits"
    /\ \A r \in watch[w].awaited : watch[r].decision # "none"
    /\ watch' = [watch EXCEPT ![w].at = "decisions", ![w].awaited = {}]
    /\ UNCHANGED << service, faults >> /\ UNCHANGED store
    /\ UNCHANGED callers /\ UNCHANGED world /\ UNCHANGED history

Suppressed(w) ==
    \/ ~active
    \/ /\ watch[w].records \subseteq Owned
       /\ watch[w].outcome.kind # "unreachable" /\ ~watch[w].outcome.attached

\* Mutant: a failed removal repeats the delivery.
RechecksAgain(w) ==
    /\ watch[w].at = "recheck"
    /\ watch' =
         CASE Suppressed(w) ->
                [watch EXCEPT ![w].at = "remove", ![w].left = watch[w].records]
           [] ~Suppressed(w) /\ watch[w].aborted ->
                [watch EXCEPT ![w] = Returned(@)]
           [] OTHER ->
                IF watch[w].outcome.kind = "permission" /\ watch[w].told
                THEN [watch EXCEPT ![w].at = "check", ![w].outcome = NoOutcome]
                ELSE [watch EXCEPT ![w].at = "ack", ![w].message = "queued"]
    /\ UNCHANGED << service, faults >> /\ UNCHANGED store
    /\ UNCHANGED callers /\ UNCHANGED world /\ UNCHANGED history

\* The second suppression check, then deliver up to its enqueue: an outcome
\* already acknowledged is not delivered again, nor a permission request.
Rechecks(w) ==
    /\ watch[w].at = "recheck"
    /\ watch' =
         CASE Suppressed(w) \/ watch[w].acknowledged ->
                [watch EXCEPT ![w].at = "remove", ![w].left = watch[w].records]
           [] ~Suppressed(w) /\ ~watch[w].acknowledged /\ watch[w].aborted ->
                [watch EXCEPT ![w] = Returned(@)]
           [] OTHER ->
                IF watch[w].outcome.kind = "permission" /\ watch[w].told
                THEN [watch EXCEPT ![w].at = "check", ![w].outcome = NoOutcome]
                ELSE [watch EXCEPT ![w].at = "ack", ![w].message = "queued"]
    /\ UNCHANGED << service, faults >> /\ UNCHANGED store
    /\ UNCHANGED callers /\ UNCHANGED world /\ UNCHANGED history

Settled(x, answer) ==
    [x EXCEPT !.message = answer,
              !.outcome = IF x.at = "done" THEN NoOutcome ELSE @]

\* The recipient's delivery lane takes the message, or fails to; both can
\* happen after the watch that sent it was stopped.
Dispatches(w) ==
    LET final == watch[w].outcome.kind # "permission"
    IN /\ Up /\ watch[w].message = "queued"
       /\ watch' = [watch EXCEPT ![w] = Settled(@, "accepted")]
       /\ heard' = IF final THEN heard \cup watch[w].records ELSE heard
       /\ reports' = [r \in Registration |->
             IF final /\ r \in watch[w].records THEN reports[r] + 1 ELSE reports[r]]
       /\ UNCHANGED << service, dropped, faults >> /\ UNCHANGED store
       /\ UNCHANGED callers /\ UNCHANGED world

DispatchFails(w) ==
    /\ Up /\ watch[w].message = "queued" /\ Fails("dispatch")
    /\ watch' = [watch EXCEPT ![w] = Settled(@, "refused")]
    /\ UNCHANGED service /\ UNCHANGED store
    /\ UNCHANGED callers /\ UNCHANGED world /\ UNCHANGED history

Acknowledged(w) ==
    /\ watch[w].at = "ack" /\ watch[w].message = "accepted" /\ ~watch[w].aborted
    /\ watch' = IF watch[w].outcome.kind = "permission"
                THEN [watch EXCEPT ![w].at = "check", ![w].told = TRUE, ![w].outcome = NoOutcome]
                ELSE [watch EXCEPT ![w].at = "remove", ![w].acknowledged = TRUE,
                                   ![w].left = watch[w].records]
    /\ UNCHANGED << service, faults >> /\ UNCHANGED store
    /\ UNCHANGED callers /\ UNCHANGED world /\ UNCHANGED history

\* A failed delivery keeps the outcome and the records, and is retried.
Refused(w) ==
    /\ watch[w].at = "ack" /\ watch[w].message = "refused" /\ ~watch[w].aborted
    /\ Moves(w, "pause")
    /\ UNCHANGED << service, faults >> /\ UNCHANGED store
    /\ UNCHANGED callers /\ UNCHANGED world /\ UNCHANGED history

Resumes(w) ==
    /\ watch[w].at = "pause"
    /\ Moves(w, IF watch[w].aborted THEN "done" ELSE "check")
    /\ UNCHANGED << service, faults >> /\ UNCHANGED store
    /\ UNCHANGED callers /\ UNCHANGED world /\ UNCHANGED history

\* The abort signal ends an observation or a wait for the acknowledgment.
Aborts(w) ==
    /\ watch[w].at \in {"observe", "ack"} /\ watch[w].aborted
    /\ Moves(w, "done")
    /\ UNCHANGED << service, faults >> /\ UNCHANGED store
    /\ UNCHANGED callers /\ UNCHANGED world /\ UNCHANGED history

Removes(w) ==
    LET r == Least(watch[w].left)
    IN /\ watch[w].at = "remove" /\ watch[w].left # {}
       /\ disk' = disk \ {r}
       /\ watch' = [watch EXCEPT ![w].left = @ \ {r}]
       /\ dropped' = IF watch[w].acknowledged THEN dropped ELSE dropped \cup {r}
       /\ UNCHANGED << service, chain, ahead, heard, reports, faults >>
       /\ UNCHANGED callers /\ UNCHANGED world

RemoveFails(w) ==
    /\ watch[w].at = "remove" /\ watch[w].left # {} /\ Fails("commit")
    /\ Moves(w, IF watch[w].aborted THEN "done" ELSE "pause")
    /\ UNCHANGED service /\ UNCHANGED store
    /\ UNCHANGED callers /\ UNCHANGED world /\ UNCHANGED history

Finishes(w) ==
    /\ watch[w].at = "remove" /\ watch[w].left = {}
    /\ watch' = [Stopped(watch, {w}) EXCEPT ![w] = Returned(@)]
    /\ UNCHANGED << service, faults >> /\ UNCHANGED store
    /\ UNCHANGED callers /\ UNCHANGED world /\ UNCHANGED history

(***************************************************************************)
(* close, the end of the process, and the next start                       *)
(***************************************************************************)
Close ==
    /\ service = "open" /\ lives < MaxLives
    /\ service' = "closing" /\ ahead' = Len(chain)
    /\ UNCHANGED << disk, chain, watch, faults >>
    /\ UNCHANGED callers /\ UNCHANGED world /\ UNCHANGED history

CloseAborts ==
    /\ service = "closing" /\ ahead = 0
    /\ watch' = Cancelled(watch, Group(watch), TRUE)
    /\ service' = "stopping" /\ ahead' = Len(chain)
    /\ UNCHANGED << disk, chain, faults >>
    /\ UNCHANGED callers /\ UNCHANGED world /\ UNCHANGED history

CloseReturns ==
    /\ service = "stopping" /\ ahead = 0
    /\ \A w \in Watch : watch[w].at \in {"none", "done"}
    /\ service' = "closed"
    /\ UNCHANGED << watch, faults >> /\ UNCHANGED store
    /\ UNCHANGED callers /\ UNCHANGED world /\ UNCHANGED history

\* Only the file survives; what callers were waiting for is forgotten.
Forgets ==
    /\ service' = "down" /\ chain' = << >> /\ ahead' = 0
    /\ watch' = [w \in Watch |-> NoWatch]
    /\ priors' = [r \in Registration |-> {}]
    /\ reg' = [r \in Registration |->
         IF reg[r] \in {"asked", "stored", "candidate", "rejecting"} THEN "orphan" ELSE reg[r]]
    /\ UNCHANGED << disk, faults >> /\ UNCHANGED world /\ UNCHANGED history

\* The delivery owner drains its messages after close.
Exit ==
    /\ service = "closed" /\ chain = << >>
    /\ \A w \in Watch : watch[w].message # "queued"
    /\ Forgets

Crash == Up /\ lives < MaxLives /\ Forgets

(***************************************************************************)
(* The world                                                               *)
(***************************************************************************)
CallerArchived ==
    /\ "archive" \in WorldEvents /\ active /\ active' = FALSE
    /\ UNCHANGED << service, watch, attached, lives, faults >> /\ UNCHANGED store
    /\ UNCHANGED callers /\ UNCHANGED history

ChildDetached ==
    /\ "detach" \in WorldEvents /\ attached /\ attached' = FALSE
    /\ UNCHANGED << service, watch, active, lives, faults >> /\ UNCHANGED store
    /\ UNCHANGED callers /\ UNCHANGED history

Mutates ==
    \/ Start \/ RegisterStores \/ RegisterThrows
    \/ \E now \in BOOLEAN : RegisterAttaches(now)
    \/ RejectRemoves \/ RejectEnds \/ SupersedeRemoves \/ SupersedeEnds

\* The steps of a watch that depend on nobody else.
Runs(w) ==
    \/ Begins(w) \/ Checks(w) \/ DecisionsPass(w) \/ DecisionsWait(w)
    \/ DecisionsMade(w) \/ Rechecks(w)
    \/ Acknowledged(w) \/ Refused(w) \/ Resumes(w) \/ Aborts(w)
    \/ Removes(w) \/ Finishes(w)

Hears(w) ==
    \/ \E kind \in {"finished", "permission"} : Observes(w, kind)
    \/ ObserveFails(w)
    \/ \E removed \in BOOLEAN : HostLost(w, removed)
    \/ Dispatches(w) \/ DispatchFails(w) \/ RemoveFails(w)

Closes == CloseAborts \/ CloseReturns \/ Exit

Next ==
    \/ Boot \/ Crash \/ Close \/ Closes \/ Mutates
    \/ \E r \in Registration : Register(r) \/ Accept(r) \/ Reject(r)
    \/ \E w \in Watch : Runs(w) \/ Hears(w)
    \/ CallerArchived \/ ChildDetached

\* Mutant: a registration counts only once its watch is attached.
HasWatch == service = "recovering" \/ Group(watch) # {}

\* hasPendingForCaller, which the idle-runtime collector asks.
HasPending ==
    \/ service = "recovering"
    \/ \E r \in Registration : reg[r] \in {"asked", "stored"}
    \/ Group(watch) # {}

Spec == Init /\ [][Next]_vars

(***************************************************************************)
(* Fairness.  The event loop runs every step that is ready; a store or a   *)
(* delivery that keeps being asked answers (failures are bounded by        *)
(* MaxFaults); the daemon is started again; every dispatch is decided; and *)
(* the child's run ends, however many permission requests it makes first.  *)
(***************************************************************************)
Fairness ==
    /\ WF_vars(Boot) /\ WF_vars(Mutates) /\ WF_vars(Closes)
    /\ \A r \in Registration : WF_vars(Accept(r) \/ (reg[r] = "candidate" /\ Reject(r)))
    /\ \A w \in Watch :
          /\ WF_vars(Runs(w)) /\ WF_vars(Dispatches(w))
          /\ SF_vars(Observes(w, "finished"))

FairSpec == Spec /\ Fairness

(***************************************************************************)
(* Properties                                                              *)
(***************************************************************************)
\* A record that nothing has dealt with: not reported, not dropped, not being
\* rejected, and not replaced by a later registration.
Replaced(r) == \E q \in Promised : q > r
Open(r) == r \in disk \ (heard \cup dropped) /\ reg[r] # "rejecting" /\ reg[r] # "rejected"
           /\ ~Replaced(r)

\* The promise of r is kept: r, or a later accepted registration that replaced
\* it, is on disk, was reported, or must not be reported.
Kept(r) == \E q \in Promised : q >= r /\ q \in disk \cup heard \cup dropped

\* Wherever the daemon stops, an accepted registration is on disk unless its
\* caller was told or must not be told, it or a later one that replaced it.
\* (docs/agent-lifecycle.md:160-165, the lifetime of notification intent)
IntentKept == \A r \in Promised : Kept(r)

\* "Rejected dispatch preserves preceding registrations." (index.ts:47)
RejectionPreserves ==
    \A q \in Registration : reg[q] = "rejected" =>
        \A r \in Promised : r < q => Kept(r)

\* A finish is dispatched at most once per start of the daemon: failures of
\* delivery or of the store never repeat an accepted notification.
ReportedOnce == \A r \in Registration : reports[r] <= lives

\* A caller with an open record is protected from idle collection, in every
\* window of registration, recovery and delivery.
OpenIsProtected ==
    service \in {"recovering", "open"} /\ (\E r \in Registration : Open(r))
        => HasPending

\* Every accepted registration is answered: its caller hears of the child, or
\* is archived or no longer the owner.
AcceptedIsAnswered ==
    \A r \in Registration :
        (reg[r] \in {"accepted", "created"}) ~>
            (\E q \in r..N : q \in heard \cup dropped)

\* close() settles every watch and the daemon goes down.
ShutdownCompletes == (service = "closing") ~> (service = "down")

============================================================================
