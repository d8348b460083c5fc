--------------------------- MODULE CreationJournal ---------------------------
(***************************************************************************)
(* The creation service, creation/index.ts: a client that loses its        *)
(* connection, or a daemon that stops, asks again with the same key and    *)
(* must not get a second workspace, agent or prompt.                       *)
(*                                                                         *)
(* Each key has a record on disk with the stage in flight; each workspace  *)
(* or agent id has a claim file naming the key that may create it.         *)
(* Requests are admitted one at a time; admitted creations run side by     *)
(* side.  Every write may fail and the daemon may stop between any two     *)
(* steps: what happened by then is known from the record only.             *)
(***************************************************************************)
EXTENDS Naturals

CONSTANTS
    Keys,        \* idempotency keys (with their kind: the identities)
    AgentIds,    \* ids a request may name for its workspace and agent
    Intents,     \* what a request may ask for: sets of RunStages
    Missing,     \* no record, no claim, no stage, nobody
    Torn,        \* a claim file whose contents never got written
    MaxCrashes,  \* bound: stops of the daemon
    MaxFaults    \* bound: failed writes and reads

RunStages == {"workspace", "agent", "prompt"}
Resources == {"workspace", "agent"} \X AgentIds
RunSteps == {"next", "provision", "provisioned", "create", "created", "prompt",
             "prompted", "failing"}

\* The snapshot's phase and resources, the stage in flight, outcomeUnknown
CreationRecord == [phase: {"accepted", "workspace_ready", "agent_ready", "prompt_started",
                   "completed", "failed"},
           inFlight: RunStages \cup {Missing}, unknown: BOOLEAN,
           workspace: BOOLEAN, agent: BOOLEAN]

ASSUME CreationAssumption ==
    /\ Missing \notin Keys \cup RunStages \cup RunSteps \cup CreationRecord
    /\ Torn \notin Keys \cup {Missing}
    /\ Intents \subseteq SUBSET RunStages
    /\ MaxCrashes \in Nat /\ MaxFaults \in Nat

VARIABLES
    intent,     \* what each key asks for: the fingerprint never changes
    named,      \* the id each key names
    creations,  \* <identity>.json
    claims,     \* <resource>.claim
    existing,   \* workspaces and agents that are registered
    effects,    \* how often a key's stage was attempted for real (history)
    admission,  \* the request being admitted, if any
    runs,       \* the running creations
    crashes, faults

creationVars == <<intent, named, creations, claims, existing, effects, admission, runs,
                  crashes, faults>>
request == <<intent, named>>
world   == <<existing, effects>>

initialRecord == [phase |-> "accepted", inFlight |-> Missing, unknown |-> FALSE,
                  workspace |-> FALSE, agent |-> FALSE]
NoRun     == [at |-> Missing, record |-> initialRecord, rejected |-> FALSE]
NobodyYet == [key |-> Missing, at |-> Missing]

CreationInit ==
    /\ intent \in [Keys -> Intents] /\ named \in [Keys -> AgentIds]
    /\ creations = [k \in Keys |-> Missing]
    /\ claims = [r \in Resources |-> Missing]
    /\ existing = {}
    /\ effects = [k \in Keys |-> [stage \in RunStages |-> 0]]
    /\ admission = NobodyYet
    /\ runs = [k \in Keys |-> NoRun]
    /\ crashes = 0 /\ faults = 0

active(k) == runs[k].at # Missing
Asks(k, stage) == stage \in intent[k]
Needed(k) == {<<stage, named[k]>> : stage \in intent[k] \ {"prompt"}}

\* A write or read that is acknowledged, and one that fails without effect
Works == UNCHANGED faults
Fails == faults < MaxFaults /\ faults' = faults + 1

Stores(k, record) == creations' = [creations EXCEPT ![k] = record]

-----------------------------------------------------------------------------
(***************************************************************************)
(* Admission: create up to the start of run.  A request for a running or   *)
(* settled key is answered from its record and changes nothing.            *)
(***************************************************************************)
AdmissionGoes(k, step) == admission' = [key |-> k, at |-> step]
AdmissionEnds == admission' = NobodyYet

Settled(record) == record.phase = "completed" \/ record.unknown
Interrupted(k)  == ~active(k) /\ creations[k] # Missing /\ ~Settled(creations[k])
                              /\ creations[k].inFlight # Missing

Admits(k) ==
    /\ admission = NobodyYet /\ ~active(k)
    /\ \/ /\ creations[k] = Missing /\ AdmissionGoes(k, "record")
       \/ /\ creations[k] # Missing /\ ~Settled(creations[k]) /\ ~Interrupted(k)
          /\ AdmissionGoes(k, "claim")
    /\ UNCHANGED <<request, creations, claims, world, runs, crashes, faults>>

\* A record whose runner is gone is reported unknown, to a request or a subscriber
Reports(k) ==
    /\ Interrupted(k)
    /\ Stores(k, [creations[k] EXCEPT !.phase = "failed", !.unknown = TRUE])
    /\ UNCHANGED <<request, claims, world, admission, runs, crashes, faults>>

\* The identity is persisted before resources are claimed
Persists(k) ==
    /\ admission = [key |-> k, at |-> "record"]
    /\ \/ Works /\ Stores(k, initialRecord) /\ AdmissionGoes(k, "claim")
       \/ Fails /\ AdmissionEnds /\ UNCHANGED creations
    /\ UNCHANGED <<request, claims, world, runs, crashes>>

\* claim, for the workspace first
NextClaim(k, r) ==
    /\ r \in Needed(k) /\ claims[r] # k
    /\ r[1] = "agent" => \A q \in Needed(k) : q[1] = "workspace" => claims[q] = k

Conflicts(r) == claims[r] # Missing \/ r \in existing

Claims(k, r) ==
    /\ admission = [key |-> k, at |-> "claim"] /\ NextClaim(k, r)
    /\ \/ Conflicts(r) /\ Works /\ AdmissionEnds /\ UNCHANGED claims
       \/ ~Conflicts(r) /\ Works /\ claims' = [claims EXCEPT ![r] = k] /\ UNCHANGED admission
       \/ /\ Fails /\ AdmissionEnds
          /\ \/ UNCHANGED claims
             \/ ~Conflicts(r) /\ claims' = [claims EXCEPT ![r] = Torn]
    /\ UNCHANGED <<request, creations, world, runs, crashes>>

\* Mutant: the phase is named after the stage
ResumedAtStage(record) ==
    IF record.phase # "failed" THEN record
    ELSE [record EXCEPT !.phase = IF record.workspace THEN "agent" ELSE "workspace"]

\* A failed creation takes up the stage it stopped at
Resumed(record) ==
    IF record.phase # "failed" THEN record
    ELSE [record EXCEPT !.phase = IF record.workspace THEN "workspace_ready" ELSE "accepted"]

Starts(k) ==
    /\ admission = [key |-> k, at |-> "claim"]
    /\ \A r \in Needed(k) : claims[r] = k
    /\ AdmissionEnds
    /\ \/ /\ Works
          /\ Stores(k, Resumed(creations[k]))
          /\ runs' = [runs EXCEPT ![k] = [NoRun EXCEPT !.at = "next", !.record = creations'[k]]]
       \/ Fails /\ creations[k].phase = "failed" /\ UNCHANGED <<creations, runs>>
    /\ UNCHANGED <<request, claims, world, crashes>>

-----------------------------------------------------------------------------
(***************************************************************************)
(* run.  Saves is an assignment to the record followed by its write: the   *)
(* runner keeps the assignment when the write fails.                       *)
(***************************************************************************)
RunGoes(k, step)  == runs' = [runs EXCEPT ![k].at = step]
RunFails(k, early) == runs' = [runs EXCEPT ![k].at = "failing", ![k].rejected = early]
Happens(k, stage) == effects' = [effects EXCEPT ![k][stage] = @ + 1]

Saves(k, record, next) ==
    /\ \/ Works /\ Stores(k, record)
          /\ runs' = [runs EXCEPT ![k].record = record, ![k].at = next]
       \/ Fails /\ UNCHANGED creations
          /\ runs' = [runs EXCEPT ![k].record = record, ![k].at = "failing"]
    /\ UNCHANGED <<request, claims, world, admission, crashes>>

\* Mutant: the workspace is provisioned before it is marked
MarksAgentOnly(k) ==
    LET record == runs[k].record IN
    /\ runs[k].at = "next"
    /\ IF Asks(k, "workspace") /\ ~record.workspace
       THEN Saves(k, record, "provision")
       ELSE IF Asks(k, "agent") /\ ~record.agent
       THEN Saves(k, [record EXCEPT !.inFlight = "agent"], "create")
       ELSE Saves(k, [record EXCEPT !.inFlight = Missing, !.phase = "completed"], Missing)

\* The stage is marked in flight before it is attempted
Marks(k) ==
    LET record == runs[k].record IN
    /\ runs[k].at = "next"
    /\ IF Asks(k, "workspace") /\ ~record.workspace
       THEN Saves(k, [record EXCEPT !.inFlight = "workspace"], "provision")
       ELSE IF Asks(k, "agent") /\ ~record.agent
       THEN Saves(k, [record EXCEPT !.inFlight = "agent"], "create")
       ELSE Saves(k, [record EXCEPT !.inFlight = Missing, !.phase = "completed"], Missing)

\* A missing directory or source is refused first; any other failure may leave a
\* partial checkout, with a registered workspace or without
Provisions(k) ==
    /\ runs[k].at = "provision"
    /\ \/ Happens(k, "workspace") /\ RunGoes(k, "provisioned")
          /\ existing' = existing \cup {<<"workspace", named[k]>>}
       \/ Happens(k, "workspace") /\ RunFails(k, FALSE)
          /\ existing' \in {existing, existing \cup {<<"workspace", named[k]>>}}
       \/ RunFails(k, TRUE) /\ UNCHANGED world
    /\ UNCHANGED <<request, creations, claims, admission, crashes, faults>>

WorkspaceReady(k) ==
    /\ runs[k].at = "provisioned"
    /\ Saves(k, [runs[k].record EXCEPT !.inFlight = Missing, !.phase = "workspace_ready",
                                       !.workspace = TRUE], "next")

\* A provider that fails to start leaves no agent; a later failure leaves one
CreatesAgent(k) ==
    /\ runs[k].at = "create"
    /\ \/ /\ <<"agent", named[k]>> \notin existing
          /\ existing' = existing \cup {<<"agent", named[k]>>}
          /\ Happens(k, "agent")
          /\ RunGoes(k, "created") \/ RunFails(k, FALSE)
       \/ RunFails(k, FALSE) /\ UNCHANGED world
    /\ UNCHANGED <<request, creations, claims, admission, crashes, faults>>

\* onReady: from here on the prompt is in flight
AgentReady(k) ==
    LET prompted == Asks(k, "prompt") IN
    /\ runs[k].at = "created"
    /\ Saves(k, [runs[k].record EXCEPT !.inFlight = IF prompted THEN "prompt" ELSE Missing,
                                       !.phase = "agent_ready", !.agent = TRUE],
             IF prompted THEN "prompt" ELSE "next")

\* Started; or not, which the created agent answers for; or lost in between
PromptsAgent(k) ==
    /\ runs[k].at = "prompt"
    /\ \/ Happens(k, "prompt") /\ (RunGoes(k, "prompted") \/ RunFails(k, FALSE))
       \/ UNCHANGED effects /\ (RunGoes(k, "next") \/ RunFails(k, FALSE))
    /\ UNCHANGED <<request, creations, claims, existing, admission, crashes, faults>>

PromptStarted(k) ==
    /\ runs[k].at = "prompted"
    /\ Saves(k, [runs[k].record EXCEPT !.inFlight = Missing, !.phase = "prompt_started"], "next")

\* Mutant: a failed provision is taken for one that left nothing
UnknownIfFound(k) ==
    LET stage == runs[k].record.inFlight
    IN stage = "prompt" \/ <<stage, named[k]>> \in existing

\* The catch of run: may what failed have happened?  A workspace-only request names
\* no agent, and finds none
Unknown(k) ==
    LET run   == runs[k]
        stage == IF run.record.inFlight = Missing THEN "agent" ELSE run.record.inFlight
    IN \/ stage = "prompt"
       \/ stage = "workspace" /\ ~run.rejected
       \/ <<stage, named[k]>> \in existing /\ Asks(k, stage)

Ends(k) ==
    /\ runs[k].at = "failing"
    /\ runs' = [runs EXCEPT ![k] = NoRun]
    /\ \/ Works /\ Stores(k, [runs[k].record EXCEPT
              !.phase = "failed", !.unknown = Unknown(k),
              !.inFlight = IF Unknown(k) THEN @ ELSE Missing])
       \/ Fails /\ UNCHANGED creations     \* the look-up or the last write fails
    /\ UNCHANGED <<request, claims, world, admission, crashes>>

\* A claim is written in place: the stop may leave it empty
CreationCrashes ==
    /\ crashes < MaxCrashes /\ crashes' = crashes + 1
    /\ \/ UNCHANGED claims
       \/ \E r \in Resources :
             /\ admission.at = "claim" /\ NextClaim(admission.key, r) /\ ~Conflicts(r)
             /\ claims' = [claims EXCEPT ![r] = Torn]
    /\ AdmissionEnds
    /\ runs' = [k \in Keys |-> NoRun]
    /\ UNCHANGED <<request, creations, world, faults>>

CreationNext ==
    \/ \E k \in Keys :
          \/ Admits(k) \/ Reports(k) \/ Persists(k) \/ Starts(k)
          \/ \E r \in Resources : Claims(k, r)
          \/ Marks(k) \/ Provisions(k) \/ WorkspaceReady(k) \/ CreatesAgent(k)
          \/ AgentReady(k) \/ PromptsAgent(k) \/ PromptStarted(k) \/ Ends(k)
    \/ CreationCrashes

CreationSpec == CreationInit /\ [][CreationNext]_creationVars

-----------------------------------------------------------------------------
CreationTypeOK ==
    /\ intent \in [Keys -> Intents] /\ named \in [Keys -> AgentIds]
    /\ creations \in [Keys -> CreationRecord \cup {Missing}]
    /\ claims \in [Resources -> Keys \cup {Missing, Torn}]
    /\ existing \in SUBSET Resources
    /\ effects \in [Keys -> [RunStages -> Nat]]
    /\ admission \in [key: Keys, at: {"record", "claim"}] \cup {NobodyYet}
    /\ runs \in [Keys -> [at: RunSteps \cup {Missing}, record: CreationRecord, rejected: BOOLEAN]]
    /\ crashes \in 0..MaxCrashes /\ faults \in 0..MaxFaults

(***************************************************************************)
(* However often a key is asked for, whatever write fails and wherever the *)
(* daemon stops, its workspace is provisioned, its agent registered and    *)
(* its prompt sent at most once; and no two keys create the same agent or  *)
(* provision the same workspace.                                           *)
(***************************************************************************)
NothingRepeated ==
    /\ \A k \in Keys, stage \in RunStages : effects[k][stage] <= 1
    /\ \A j, k \in Keys : j # k /\ named[j] = named[k] =>
          \A stage \in {"workspace", "agent"} : effects[j][stage] + effects[k][stage] <= 1

(***************************************************************************)
(* A creation recorded as completed has its workspace and agent; every     *)
(* stage that was attempted is either in the record, in flight there, or   *)
(* reported unknown: nothing happened that a restart would not know of.    *)
(***************************************************************************)
RecordTells ==
    \A k \in Keys :
      LET record == creations[k] IN
      /\ record # Missing /\ record.phase = "completed" =>
            \A stage \in {"workspace", "agent"} \cap intent[k] : effects[k][stage] = 1
      /\ effects[k]["workspace"] > 0 =>
            record.workspace \/ record.inFlight = "workspace" \/ record.unknown
      /\ effects[k]["agent"] > 0 =>
            record.agent \/ record.inFlight = "agent" \/ record.unknown
      /\ effects[k]["prompt"] > 0 => record.agent
=============================================================================
