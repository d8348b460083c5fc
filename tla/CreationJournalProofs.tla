------------------------- MODULE CreationJournalProofs -------------------------
(***************************************************************************)
(* A creation is never carried out twice and its record tells what was     *)
(* done, for any keys, ids and intents, however many requests, failed      *)
(* writes and stops.                                                       *)
(*                                                                         *)
(* The invariant follows a creation through its stages: what was attempted *)
(* is in the runner's record, or in flight there; the record on disk is    *)
(* the runner's until a write fails, and from then on what it says in      *)
(* flight is enough.                                                       *)
(***************************************************************************)
EXTENDS CreationJournal, TLAPS

\* What was attempted for the key of a record, done or in flight there
Done(k, record) ==
    /\ record.workspace => effects[k]["workspace"] = 1
    /\ record.agent => effects[k]["agent"] = 1
    /\ effects[k]["prompt"] > 0 => record.agent

Told(k, record) ==
    /\ effects[k]["workspace"] > 0 =>
          record.workspace \/ record.inFlight = "workspace" \/ record.unknown
    /\ effects[k]["agent"] > 0 => record.agent \/ record.inFlight = "agent" \/ record.unknown

\* What is attempted once is attempted for the holder of the claim
Once(k) ==
    /\ \A stage \in RunStages : effects[k][stage] <= 1
    /\ effects[k]["workspace"] > 0 => /\ claims[<<"workspace", named[k]>>] = k
                                      /\ Asks(k, "workspace")
    /\ effects[k]["agent"] > 0 => <<"agent", named[k]>> \in existing /\ Asks(k, "agent")
    /\ effects[k]["prompt"] > 0 => effects[k]["agent"] > 0
    /\ \A j \in Keys : j # k /\ named[j] = named[k] => effects[j]["agent"] + effects[k]["agent"] <= 1

\* What a completed record has
Complete(k, record) ==
    record.phase = "completed" => /\ Asks(k, "workspace") => record.workspace
                                  /\ Asks(k, "agent") => record.agent

\* The record on disk
OnDisk(k) ==
    IF creations[k] = Missing
    THEN \A stage \in RunStages : effects[k][stage] = 0
    ELSE Done(k, creations[k]) /\ Told(k, creations[k]) /\ Complete(k, creations[k])

\* A creation stage by stage: at is where it stands, record what its runner holds
Stage(k, at, record, rejected) ==
    /\ Done(k, record)
    /\ at # "failing" => ~record.unknown /\ ~rejected
    /\ at \notin {"provision", "provisioned", "failing"} =>
          (effects[k]["workspace"] > 0 => record.workspace)
    /\ at \notin {"create", "created", "failing"} => (effects[k]["agent"] > 0 => record.agent)
    /\ at \in {"provision", "provisioned"} => Asks(k, "workspace") /\ record.inFlight = "workspace"
    /\ at = "provision" => effects[k]["workspace"] = 0
    /\ at = "provisioned" => effects[k]["workspace"] = 1
    /\ at \in {"create", "created"} => Asks(k, "agent") /\ record.inFlight = "agent"
    /\ at = "created" => effects[k]["agent"] = 1
    /\ at \in {"created", "prompt"} => effects[k]["prompt"] = 0
    /\ at \in {"prompt", "prompted"} => record.agent
    /\ at = "failing" =>
          /\ effects[k]["workspace"] > 0 => \/ record.workspace
                                            \/ record.inFlight = "workspace" /\ ~rejected
          /\ effects[k]["agent"] > 0 => record.agent \/ record.inFlight = "agent"

Running(k) ==
    /\ creations[k] # Missing
    /\ \A r \in Needed(k) : claims[r] = k
    /\ runs[k].at # "failing" => runs[k].record = creations[k]
    /\ Stage(k, runs[k].at, runs[k].record, runs[k].rejected)

Holds(k) == Once(k) /\ OnDisk(k) /\ (active(k) => Running(k))

\* The request being admitted: its key has no runner and nothing in flight
Admitted ==
    admission # NobodyYet =>
      LET k == admission.key IN
      /\ ~active(k)
      /\ admission.at = "record" => creations[k] = Missing
      /\ admission.at = "claim" => /\ creations[k] # Missing
                                   /\ ~Settled(creations[k])
                                   /\ creations[k].inFlight = Missing

CreationInv == CreationTypeOK /\ Admitted /\ \A k \in Keys : Holds(k)

-----------------------------------------------------------------------------
(* Types *)

LEMMA InitialTypes ==
    /\ initialRecord \in CreationRecord
    /\ NoRun \in [at: RunSteps \cup {Missing}, record: CreationRecord, rejected: BOOLEAN]
    /\ NoRun.at = Missing /\ ~NoRun.rejected
    /\ initialRecord.phase = "accepted" /\ initialRecord.inFlight = Missing
    /\ ~initialRecord.unknown /\ ~initialRecord.workspace /\ ~initialRecord.agent
BY DEF initialRecord, NoRun, CreationRecord, RunSteps

LEMMA RecordChanges ==
    ASSUME NEW record \in CreationRecord,
           NEW phase \in {"accepted", "workspace_ready", "agent_ready", "prompt_started",
                          "completed", "failed"},
           NEW stage \in RunStages \cup {Missing}, NEW unknown \in BOOLEAN
    PROVE  /\ [record EXCEPT !.phase = phase] \in CreationRecord
           /\ [record EXCEPT !.phase = phase, !.unknown = unknown] \in CreationRecord
           /\ [record EXCEPT !.phase = phase, !.unknown = unknown, !.inFlight = stage]
                 \in CreationRecord
           /\ [record EXCEPT !.inFlight = stage] \in CreationRecord
           /\ [record EXCEPT !.inFlight = stage, !.phase = phase] \in CreationRecord
           /\ [record EXCEPT !.inFlight = stage, !.phase = phase, !.workspace = TRUE]
                 \in CreationRecord
           /\ [record EXCEPT !.inFlight = stage, !.phase = phase, !.agent = TRUE]
                 \in CreationRecord
BY DEF CreationRecord

Run == [at: RunSteps \cup {Missing}, record: CreationRecord, rejected: BOOLEAN]

\* What a saved record and its runner are afterwards
LEMMA SavesDoes ==
    ASSUME CreationTypeOK, NEW k \in Keys, NEW record \in CreationRecord,
           NEW next \in RunSteps \cup {Missing}, Saves(k, record, next)
    PROVE  /\ CreationTypeOK'
           /\ runs'[k].record = record /\ runs'[k].rejected = runs[k].rejected
           /\ \/ runs'[k].at = next /\ creations'[k] = record
              \/ runs'[k].at = "failing" /\ creations'[k] = creations[k]
           /\ \A j \in Keys \ {k} : runs'[j] = runs[j] /\ creations'[j] = creations[j]
           /\ UNCHANGED <<request, claims, world, admission>>
<1>1. runs \in [Keys -> Run] /\ creations \in [Keys -> CreationRecord \cup {Missing}]
  BY DEF CreationTypeOK, Run
<1>2. "failing" \in RunSteps
  BY DEF RunSteps
<1>3. ASSUME NEW at \in RunSteps \cup {Missing},
             runs' = [runs EXCEPT ![k].record = record, ![k].at = at]
      PROVE  /\ runs' \in [Keys -> Run] /\ runs'[k].at = at
             /\ runs'[k].record = record /\ runs'[k].rejected = runs[k].rejected
             /\ \A j \in Keys \ {k} : runs'[j] = runs[j]
  <2>1. runs[k] \in Run
    BY <1>1
  <2> DEFINE new == [runs[k] EXCEPT !.record = record, !.at = at]
  <2>5. new \in Run /\ new.at = at /\ new.record = record /\ new.rejected = runs[k].rejected
    BY <2>1 DEF Run
  <2>6. runs' = [runs EXCEPT ![k] = new]
    BY <1>1, <1>3, <2>1 DEF Run
  <2> HIDE DEF new
  <2> QED
    BY <1>1, <2>5, <2>6
<1>4. faults' \in 0..MaxFaults
  BY CreationAssumption DEF Saves, Works, Fails, CreationTypeOK
<1>5. /\ UNCHANGED <<request, claims, world, admission, crashes>>
      /\ \/ Stores(k, record) /\ runs' = [runs EXCEPT ![k].record = record, ![k].at = next]
         \/ UNCHANGED creations /\ runs' = [runs EXCEPT ![k].record = record, ![k].at = "failing"]
  BY DEF Saves
<1>6. creations' \in [Keys -> CreationRecord \cup {Missing}]
      /\ \A j \in Keys \ {k} : creations'[j] = creations[j]
  BY <1>1, <1>5 DEF Stores
<1>7. /\ runs' \in [Keys -> Run]
      /\ runs'[k].record = record /\ runs'[k].rejected = runs[k].rejected
      /\ \/ runs'[k].at = next /\ creations'[k] = record
         \/ runs'[k].at = "failing" /\ creations'[k] = creations[k]
      /\ \A j \in Keys \ {k} : runs'[j] = runs[j]
  BY <1>1, <1>2, <1>3, <1>5 DEF Stores
<1> QED
  BY <1>4, <1>5, <1>6, <1>7 DEF CreationTypeOK, Run, request, world

\* The workspace and the agent that a request needs, where it asks for them
LEMMA NeededAre ==
    ASSUME CreationTypeOK, NEW k \in Keys
    PROVE  /\ Needed(k) \subseteq Resources
           /\ <<"workspace", named[k]>> \in Resources /\ <<"agent", named[k]>> \in Resources
           /\ Asks(k, "workspace") => <<"workspace", named[k]>> \in Needed(k)
<1>1. named[k] \in AgentIds /\ intent[k] \subseteq RunStages
  BY CreationAssumption DEF CreationTypeOK
<1>2. \A stage \in intent[k] \ {"prompt"} : stage \in {"workspace", "agent"}
  BY <1>1 DEF RunStages
<1> QED
  BY <1>1, <1>2 DEF Needed, Resources, Asks

\* What stays for the other keys
LEMMA Others ==
    ASSUME CreationInv, CreationTypeOK', NEW k \in Keys,
           UNCHANGED <<intent, named>>,
           \A j \in Keys \ {k} : /\ runs'[j] = runs[j] /\ creations'[j] = creations[j]
                                 /\ \A stage \in RunStages : effects'[j][stage] = effects[j][stage],
           \A r \in Resources, j \in Keys : claims[r] = j => claims'[r] = j,
           existing \subseteq existing',
           Holds(k)', Admitted'
    PROVE  CreationInv'
<1>1. ASSUME NEW j \in Keys, j # k PROVE Holds(j)'
  <2>0. "workspace" \in RunStages /\ "agent" \in RunStages /\ "prompt" \in RunStages
    BY DEF RunStages
  <2>1. Holds(j)
    BY DEF CreationInv
  <2>2. /\ effects'[j]["workspace"] = effects[j]["workspace"]
        /\ effects'[j]["agent"] = effects[j]["agent"]
        /\ effects'[j]["prompt"] = effects[j]["prompt"]
        /\ \A stage \in RunStages : effects'[j][stage] = effects[j][stage]
        /\ runs'[j] = runs[j] /\ creations'[j] = creations[j]
    BY <1>1, <2>0
  <2>3. /\ Needed(j)' = Needed(j) /\ Needed(j) \subseteq Resources
        /\ <<"workspace", named[j]>> \in Resources
        /\ intent'[j] = intent[j] /\ named'[j] = named[j]
    <3>1. CreationTypeOK
      BY DEF CreationInv
    <3>2. intent'[j] = intent[j] /\ named'[j] = named[j]
      OBVIOUS
    <3>3. Needed(j)' = Needed(j)
      BY <3>2 DEF Needed
    <3> QED
      BY <3>1, <3>2, <3>3, NeededAre
  <2>4. Once(j)'
    <3>1. \A i \in Keys : i # j /\ named'[i] = named'[j] => effects'[i]["agent"] + effects'[j]["agent"] <= 1
      <4> SUFFICES ASSUME NEW i \in Keys, i # j, named'[i] = named'[j]
                   PROVE  effects'[i]["agent"] + effects'[j]["agent"] <= 1
        OBVIOUS
      <4>1. CASE i = k
        <5>1. effects'[j]["agent"] + effects'[i]["agent"] <= 1
          BY <1>1, <4>1 DEF Holds, Once
        <5>2. effects'[j]["agent"] \in Nat /\ effects'[i]["agent"] \in Nat
          BY <2>0 DEF CreationTypeOK
        <5> QED
          BY <5>1, <5>2
      <4>2. CASE i # k
        BY <2>0, <2>1, <2>2, <4>2 DEF Holds, Once
      <4> QED
        BY <4>1, <4>2
    <3> QED
      BY <2>1, <2>2, <2>3, <3>1 DEF Holds, Once, Asks
  <2>5. OnDisk(j)'
    BY <2>1, <2>2, <2>3 DEF Holds, OnDisk, Done, Told, Complete, Asks
  <2>6. active(j)' => Running(j)'
    <3> SUFFICES ASSUME active(j) PROVE Running(j)'
      BY <2>2 DEF active
    <3>1. Running(j)
      BY <2>1 DEF Holds
    <3>2. \A r \in Needed(j)' : claims'[r] = j
      BY <2>3, <3>1 DEF Running
    <3> QED
      BY <2>2, <2>3, <3>1, <3>2 DEF Running, Stage, Done, Asks
  <2> QED
    BY <2>4, <2>5, <2>6 DEF Holds
<1> QED
  BY <1>1 DEF CreationInv

\* A step of one running creation
LEMMA RunStep ==
    ASSUME CreationInv, CreationTypeOK', NEW k \in Keys, active(k),
           UNCHANGED <<intent, named, claims, admission>>,
           \A j \in Keys \ {k} : /\ runs'[j] = runs[j] /\ creations'[j] = creations[j]
                                 /\ \A stage \in RunStages : effects'[j][stage] = effects[j][stage],
           existing \subseteq existing', Holds(k)'
    PROVE  CreationInv'
<1>1. Admitted'
  <2> SUFFICES ASSUME admission # NobodyYet PROVE Admitted'
    BY DEF Admitted
  <2>1. admission.key \in Keys /\ ~active(admission.key)
    BY DEF CreationInv, CreationTypeOK, Admitted
  <2>2. admission.key # k
    BY <2>1
  <2> QED
    BY <2>1, <2>2 DEF CreationInv, Admitted, active, Settled
<1> QED
  BY <1>1, Others

\* A step that saves the record, or fails to
LEMMA SaveStep ==
    ASSUME CreationInv, NEW k \in Keys, active(k),
           NEW record \in CreationRecord, NEW next \in RunSteps \cup {Missing},
           Saves(k, record, next),
           Told(k, record), Complete(k, record),
           next # Missing => Stage(k, next, record, runs[k].rejected),
           Stage(k, "failing", record, runs[k].rejected)
    PROVE  CreationInv'
<1>1. /\ CreationTypeOK'
      /\ runs'[k].record = record /\ runs'[k].rejected = runs[k].rejected
      /\ \/ runs'[k].at = next /\ creations'[k] = record
         \/ runs'[k].at = "failing" /\ creations'[k] = creations[k]
      /\ \A j \in Keys \ {k} : runs'[j] = runs[j] /\ creations'[j] = creations[j]
      /\ UNCHANGED <<intent, named, claims, existing, effects, admission>>
  BY SavesDoes DEF CreationInv, request, world
<1>2. Once(k)'
  BY <1>1 DEF CreationInv, Holds, Once, Asks
<1>3. record # Missing /\ creations[k] # Missing
  BY CreationAssumption DEF CreationInv, Holds, Running
<1>4. OnDisk(k)'
  <2>1. Done(k, record)
    BY DEF Stage
  <2>2. Done(k, creations[k]) /\ Told(k, creations[k]) /\ Complete(k, creations[k])
    BY <1>3 DEF CreationInv, Holds, OnDisk
  <2> QED
    BY <1>1, <1>3, <2>1, <2>2 DEF OnDisk, Done, Told, Complete, Asks
<1>5. active(k)' => Running(k)'
  <2> SUFFICES ASSUME active(k)' PROVE Running(k)'
    OBVIOUS
  <2>1. \A r \in Needed(k)' : claims'[r] = k
    BY <1>1 DEF CreationInv, Holds, Running, Needed
  <2>2. Stage(k, runs[k].at, runs[k].record, runs[k].rejected)' = Stage(k, runs'[k].at, record, runs[k].rejected)
    BY <1>1 DEF Stage, Done, Asks
  <2>3. CASE runs'[k].at = next /\ creations'[k] = record
    BY <1>1, <1>3, <2>1, <2>2, <2>3 DEF Running, active
  <2>4. CASE runs'[k].at = "failing" /\ creations'[k] = creations[k]
    BY <1>1, <1>3, <2>1, <2>2, <2>4 DEF Running
  <2> QED
    BY <1>1, <2>3, <2>4
<1> QED
  BY <1>1, <1>2, <1>4, <1>5, RunStep DEF Holds

\* What is known of a running creation
LEMMA RunnerHas ==
    ASSUME CreationInv, NEW k \in Keys, active(k)
    PROVE  /\ runs[k] \in Run /\ runs[k].record \in CreationRecord
           /\ runs[k].rejected \in BOOLEAN
           /\ runs \in [Keys -> Run] /\ effects \in [Keys -> [RunStages -> Nat]]
           /\ Once(k) /\ Running(k)
           /\ creations[k] \in CreationRecord /\ creations[k] # Missing
           /\ Done(k, creations[k]) /\ Told(k, creations[k]) /\ Complete(k, creations[k])
           /\ Stage(k, runs[k].at, runs[k].record, runs[k].rejected)
           /\ runs[k].at # "failing" => runs[k].record = creations[k]
           /\ effects[k]["workspace"] \in Nat /\ effects[k]["agent"] \in Nat
           /\ effects[k]["prompt"] \in Nat
<1>1. runs \in [Keys -> Run] /\ effects \in [Keys -> [RunStages -> Nat]]
      /\ creations \in [Keys -> CreationRecord \cup {Missing}]
  BY DEF CreationInv, CreationTypeOK, Run
<1>2. runs[k] \in Run
  BY <1>1
<1>3. runs[k].record \in CreationRecord /\ runs[k].rejected \in BOOLEAN
  BY <1>2 DEF Run
<1>4. Once(k) /\ Running(k) /\ OnDisk(k)
  BY DEF CreationInv, Holds
<1>5. /\ creations[k] # Missing
      /\ Done(k, creations[k]) /\ Told(k, creations[k]) /\ Complete(k, creations[k])
      /\ Stage(k, runs[k].at, runs[k].record, runs[k].rejected)
      /\ runs[k].at # "failing" => runs[k].record = creations[k]
  BY <1>4 DEF Running, OnDisk
<1>6. /\ effects[k]["workspace"] \in Nat /\ effects[k]["agent"] \in Nat
      /\ effects[k]["prompt"] \in Nat
  BY <1>1 DEF RunStages
<1> QED
  BY <1>1, <1>2, <1>3, <1>4, <1>5, <1>6

\* Marking a stage, and saving what it left
LEMMA MarksKeeps ==
    ASSUME CreationInv, NEW k \in Keys, Marks(k)
    PROVE  CreationInv'
<1> DEFINE record == runs[k].record
<1>1. runs[k].at = "next" /\ active(k)
  BY CreationAssumption DEF Marks, active, RunSteps
<1>2. /\ record \in CreationRecord /\ record = creations[k] /\ Told(k, record)
      /\ Complete(k, record) /\ Stage(k, "next", record, runs[k].rejected)
      /\ effects[k]["workspace"] \in Nat /\ effects[k]["agent"] \in Nat
  BY <1>1, RunnerHas
<1>3. ASSUME NEW stage \in {"workspace", "agent"}, Asks(k, stage),
             stage = "workspace" => ~record.workspace,
             stage = "agent" => ~record.agent,
             Saves(k, [record EXCEPT !.inFlight = stage],
                   IF stage = "workspace" THEN "provision" ELSE "create")
      PROVE  CreationInv'
  <2> DEFINE marked == [record EXCEPT !.inFlight = stage]
             step == IF stage = "workspace" THEN "provision" ELSE "create"
  <2>1. /\ marked \in CreationRecord /\ marked.inFlight = stage
        /\ marked.phase = record.phase /\ marked.unknown = record.unknown
        /\ marked.workspace = record.workspace /\ marked.agent = record.agent
    BY <1>2 DEF CreationRecord, RunStages
  <2>2. step \in RunSteps
    BY DEF RunSteps
  <2> HIDE DEF marked, record
  <2>3. Told(k, marked) /\ Complete(k, marked)
    BY <1>2, <2>1 DEF Stage, Told, Complete
  <2>4. Stage(k, step, marked, runs[k].rejected)
    BY <1>2, <1>3, <2>1 DEF Stage, Done
  <2>5. Stage(k, "failing", marked, runs[k].rejected)
    BY <1>2, <1>3, <2>1 DEF Stage, Done
  <2>6. Saves(k, marked, step)
    BY <1>3 DEF marked, record
  <2> HIDE DEF step
  <2> QED
    BY <1>1, <2>1, <2>2, <2>3, <2>4, <2>5, <2>6, SaveStep
<1>4. ASSUME Asks(k, "workspace") => record.workspace, Asks(k, "agent") => record.agent,
             Saves(k, [record EXCEPT !.inFlight = Missing, !.phase = "completed"], Missing)
      PROVE  CreationInv'
  <2> DEFINE done == [record EXCEPT !.inFlight = Missing, !.phase = "completed"]
  <2>1. /\ done \in CreationRecord
        /\ done.workspace = record.workspace /\ done.agent = record.agent
    BY <1>2 DEF CreationRecord
  <2> HIDE DEF done, record
  <2>3. Told(k, done) /\ Complete(k, done)
    BY <1>2, <1>4, <2>1 DEF Stage, Told, Complete
  <2>5. Stage(k, "failing", done, runs[k].rejected)
    BY <1>2, <2>1 DEF Stage, Done
  <2>6. Saves(k, done, Missing)
    BY <1>4 DEF done, record
  <2> QED
    BY <1>1, <2>1, <2>3, <2>5, <2>6, SaveStep
<1> QED
  BY <1>3, <1>4 DEF Marks

LEMMA WorkspaceReadyKeeps ==
    ASSUME CreationInv, NEW k \in Keys, WorkspaceReady(k)
    PROVE  CreationInv'
<1> DEFINE record == runs[k].record
           ready == [record EXCEPT !.inFlight = Missing, !.phase = "workspace_ready",
                                   !.workspace = TRUE]
<1>1. runs[k].at = "provisioned" /\ active(k)
  BY CreationAssumption DEF WorkspaceReady, active, RunSteps
<1>2. /\ record \in CreationRecord /\ record = creations[k] /\ Told(k, record)
      /\ Stage(k, "provisioned", record, runs[k].rejected)
      /\ effects[k]["workspace"] \in Nat /\ effects[k]["agent"] \in Nat
  BY <1>1, RunnerHas
<1>3. /\ ready \in CreationRecord /\ ready.workspace /\ ready.agent = record.agent
      /\ ready.unknown = record.unknown /\ ready.phase = "workspace_ready"
  BY <1>2 DEF CreationRecord
<1>4. Saves(k, ready, "next") /\ "next" \in RunSteps
  BY DEF WorkspaceReady, RunSteps
<1> HIDE DEF ready, record
<1>5. Told(k, ready) /\ Complete(k, ready)
  BY <1>2, <1>3 DEF Stage, Told, Complete
<1>6. Stage(k, "next", ready, runs[k].rejected) /\ Stage(k, "failing", ready, runs[k].rejected)
  BY <1>2, <1>3 DEF Stage, Done
<1> QED
  BY <1>1, <1>3, <1>4, <1>5, <1>6, SaveStep

LEMMA AgentReadyKeeps ==
    ASSUME CreationInv, NEW k \in Keys, AgentReady(k)
    PROVE  CreationInv'
<1> DEFINE record == runs[k].record
           stage == IF Asks(k, "prompt") THEN "prompt" ELSE Missing
           step  == IF Asks(k, "prompt") THEN "prompt" ELSE "next"
           ready == [record EXCEPT !.inFlight = stage, !.phase = "agent_ready", !.agent = TRUE]
<1>1. runs[k].at = "created" /\ active(k)
  BY CreationAssumption DEF AgentReady, active, RunSteps
<1>2. /\ record \in CreationRecord /\ record = creations[k] /\ Told(k, record)
      /\ Stage(k, "created", record, runs[k].rejected)
      /\ effects[k]["workspace"] \in Nat /\ effects[k]["agent"] \in Nat
  BY <1>1, RunnerHas
<1>3. /\ ready \in CreationRecord /\ ready.workspace = record.workspace /\ ready.agent
      /\ ready.unknown = record.unknown /\ ready.phase = "agent_ready"
  BY <1>2 DEF CreationRecord, RunStages
<1>4. Saves(k, ready, step) /\ step \in RunSteps /\ step \in {"prompt", "next"}
  BY DEF AgentReady, RunSteps
<1> HIDE DEF ready, record, step, stage
<1>5. Told(k, ready) /\ Complete(k, ready)
  BY <1>2, <1>3 DEF Stage, Told, Complete
<1>6. Stage(k, step, ready, runs[k].rejected) /\ Stage(k, "failing", ready, runs[k].rejected)
  BY <1>2, <1>3, <1>4 DEF Stage, Done
<1> QED
  BY <1>1, <1>3, <1>4, <1>5, <1>6, SaveStep

LEMMA PromptStartedKeeps ==
    ASSUME CreationInv, NEW k \in Keys, PromptStarted(k)
    PROVE  CreationInv'
<1> DEFINE record == runs[k].record
           started == [record EXCEPT !.inFlight = Missing, !.phase = "prompt_started"]
<1>1. runs[k].at = "prompted" /\ active(k)
  BY CreationAssumption DEF PromptStarted, active, RunSteps
<1>2. /\ record \in CreationRecord /\ record = creations[k] /\ Told(k, record)
      /\ Stage(k, "prompted", record, runs[k].rejected)
      /\ effects[k]["workspace"] \in Nat /\ effects[k]["agent"] \in Nat
  BY <1>1, RunnerHas
<1>3. /\ started \in CreationRecord /\ started.workspace = record.workspace
      /\ started.agent = record.agent
      /\ started.unknown = record.unknown /\ started.phase = "prompt_started"
  BY <1>2 DEF CreationRecord
<1>4. Saves(k, started, "next") /\ "next" \in RunSteps
  BY DEF PromptStarted, RunSteps
<1> HIDE DEF started, record
<1>5. Told(k, started) /\ Complete(k, started)
  BY <1>2, <1>3 DEF Stage, Told, Complete
<1>6. Stage(k, "next", started, runs[k].rejected)
      /\ Stage(k, "failing", started, runs[k].rejected)
  BY <1>2, <1>3 DEF Stage, Done
<1> QED
  BY <1>1, <1>3, <1>4, <1>5, <1>6, SaveStep

\* Where a runner goes, and what an attempt counts
LEMMA RunMoves ==
    ASSUME runs \in [Keys -> Run], NEW k \in Keys, NEW step \in RunSteps, NEW early \in BOOLEAN
    PROVE  /\ RunGoes(k, step) \/ RunFails(k, early) =>
                /\ runs' \in [Keys -> Run] /\ runs'[k].record = runs[k].record
                /\ active(k)'
                /\ \A j \in Keys \ {k} : runs'[j] = runs[j]
           /\ RunGoes(k, step) =>
                runs'[k].at = step /\ runs'[k].rejected = runs[k].rejected
           /\ RunFails(k, early) =>
                runs'[k].at = "failing" /\ runs'[k].rejected = early
<1>1. runs[k] \in Run
  OBVIOUS
<1> DEFINE gone   == [runs[k] EXCEPT !.at = step]
           failed == [runs[k] EXCEPT !.at = "failing", !.rejected = early]
<1>2. /\ gone \in Run /\ gone.at = step /\ gone.record = runs[k].record
      /\ gone.rejected = runs[k].rejected
  BY <1>1 DEF Run
<1>3. /\ failed \in Run /\ failed.at = "failing" /\ failed.record = runs[k].record
      /\ failed.rejected = early
  BY <1>1 DEF Run, RunSteps
<1>4. RunGoes(k, step) => runs' = [runs EXCEPT ![k] = gone]
  BY <1>1 DEF RunGoes, Run
<1>5. RunFails(k, early) => runs' = [runs EXCEPT ![k] = failed]
  BY <1>1 DEF RunFails, Run
<1>6. step # Missing /\ "failing" # Missing
  BY CreationAssumption DEF RunSteps
<1> HIDE DEF gone, failed
<1> QED
  BY <1>2, <1>3, <1>4, <1>5, <1>6 DEF active

LEMMA HappensDoes ==
    ASSUME effects \in [Keys -> [RunStages -> Nat]], NEW k \in Keys, NEW stage \in RunStages,
           Happens(k, stage)
    PROVE  /\ effects' \in [Keys -> [RunStages -> Nat]]
           /\ effects'[k][stage] = effects[k][stage] + 1
           /\ \A other \in RunStages \ {stage} : effects'[k][other] = effects[k][other]
           /\ \A j \in Keys \ {k} : effects'[j] = effects[j]
<1> DEFINE counted == [effects[k] EXCEPT ![stage] = @ + 1]
<1>1. /\ counted \in [RunStages -> Nat] /\ counted[stage] = effects[k][stage] + 1
      /\ \A other \in RunStages \ {stage} : counted[other] = effects[k][other]
  OBVIOUS
<1>2. effects' = [effects EXCEPT ![k] = counted]
  BY DEF Happens
<1> HIDE DEF counted
<1> QED
  BY <1>1, <1>2

\* An attempt leaves the types, the records and the claims alone
LEMMA AttemptTypes ==
    ASSUME CreationTypeOK, UNCHANGED <<request, creations, claims, admission, crashes, faults>>,
           runs' \in [Keys -> Run], effects' \in [Keys -> [RunStages -> Nat]],
           existing' \in SUBSET Resources
    PROVE  CreationTypeOK'
BY DEF CreationTypeOK, request, Run

LEMMA ProvisionsKeeps ==
    ASSUME CreationInv, NEW k \in Keys, Provisions(k)
    PROVE  CreationInv'
<1> DEFINE record == runs[k].record
           place  == <<"workspace", named[k]>>
<1>1. runs[k].at = "provision" /\ active(k)
  BY CreationAssumption DEF Provisions, active, RunSteps
<1>2. /\ record = creations[k] /\ creations[k] # Missing
      /\ Done(k, record) /\ Told(k, record) /\ Complete(k, record)
      /\ Stage(k, "provision", record, runs[k].rejected)
      /\ Once(k) /\ Running(k) /\ runs \in [Keys -> Run]
      /\ effects \in [Keys -> [RunStages -> Nat]]
      /\ effects[k]["workspace"] \in Nat /\ effects[k]["agent"] \in Nat
      /\ effects[k]["prompt"] \in Nat
  BY <1>1, RunnerHas
<1>3. /\ place \in Resources /\ Asks(k, "workspace") /\ claims[place] = k
      /\ existing \in SUBSET Resources /\ CreationTypeOK
      /\ \A r \in Needed(k) : claims[r] = k
  BY <1>2, NeededAre DEF CreationInv, Running, Stage, CreationTypeOK
<1>4. UNCHANGED <<request, creations, claims, admission, crashes, faults>>
  BY DEF Provisions
<1>s. /\ UNCHANGED <<intent, named, creations, claims, admission>>
      /\ "workspace" \in RunStages /\ "agent" \in RunStages /\ "prompt" \in RunStages
      /\ "failing" \in RunSteps /\ "provisioned" \in RunSteps
      /\ TRUE \in BOOLEAN /\ FALSE \in BOOLEAN
  BY <1>4 DEF request, RunStages, RunSteps
<1>5. CASE /\ Happens(k, "workspace") /\ existing' \in {existing, existing \cup {place}}
           /\ RunGoes(k, "provisioned") \/ RunFails(k, FALSE)
  <2>1. /\ effects' \in [Keys -> [RunStages -> Nat]]
        /\ effects'[k]["workspace"] = 1
        /\ effects'[k]["agent"] = effects[k]["agent"]
        /\ effects'[k]["prompt"] = effects[k]["prompt"]
        /\ \A j \in Keys \ {k} : effects'[j] = effects[j]
    <3>1. effects[k]["workspace"] = 0
      BY <1>2 DEF Stage
    <3> QED
      BY <1>2, <1>5, <1>s, <3>1, HappensDoes
  <2>2. /\ runs' \in [Keys -> Run] /\ runs'[k].record = record /\ ~runs'[k].rejected
        /\ runs'[k].at \in {"provisioned", "failing"}
        /\ \A j \in Keys \ {k} : runs'[j] = runs[j]
    <3>1. ~runs[k].rejected
      BY <1>2 DEF Stage
    <3> HIDE DEF record, place
    <3> QED
      BY <1>2, <1>5, <1>s, <3>1, RunMoves DEF record
  <2>3. CreationTypeOK'
    BY <1>3, <1>4, <1>5, <2>1, <2>2, AttemptTypes
  <2>4. Once(k)'
    <3>1. \A stage \in RunStages : effects'[k][stage] <= 1
      BY <1>2, <2>1 DEF Once, RunStages
    <3> QED
      BY <1>2, <1>3, <1>5, <1>s, <2>1, <3>1 DEF Once, Asks
  <2>5. Done(k, record)' /\ Told(k, record)' /\ Complete(k, record)'
    BY <1>2, <1>s, <2>1, <2>2 DEF Done, Told, Complete, Stage, Asks
  <2>6. OnDisk(k)'
    BY <1>2, <1>s, <2>2, <2>5 DEF OnDisk, Done, Told, Complete
  <2>7. Stage(k, runs[k].at, runs[k].record, runs[k].rejected)'
    BY <1>2, <1>s, <2>1, <2>2, <2>5 DEF Stage, Done, Asks
  <2>8. Running(k)'
    BY <1>2, <1>3, <1>s, <2>2, <2>7 DEF Running, Needed
  <2> QED
    BY <1>1, <1>5, <1>s, <2>1, <2>2, <2>3, <2>4, <2>6, <2>8, RunStep DEF Holds
<1>6. CASE RunFails(k, TRUE) /\ UNCHANGED world
  <2>2. /\ runs' \in [Keys -> Run] /\ runs'[k].record = record /\ runs'[k].rejected
        /\ runs'[k].at = "failing"
        /\ \A j \in Keys \ {k} : runs'[j] = runs[j]
    BY <1>2, <1>6, <1>s, RunMoves
  <2>w. effects' = effects /\ existing' = existing
    BY <1>6 DEF world
  <2>3. CreationTypeOK'
    BY <1>2, <1>3, <1>4, <2>w, <2>2, AttemptTypes
  <2>4. Once(k)' /\ OnDisk(k)'
    BY <1>2, <1>s, <2>w DEF CreationInv, Holds, Once, OnDisk, Done, Told, Complete, Asks
  <2>7. Stage(k, runs[k].at, runs[k].record, runs[k].rejected)'
    BY <1>2, <1>s, <2>w, <2>2 DEF Stage, Done, Asks
  <2>8. Running(k)'
    BY <1>2, <1>3, <1>s, <2>2, <2>7 DEF Running, Needed
  <2> QED
    BY <1>1, <1>s, <2>w, <2>2, <2>3, <2>4, <2>8, RunStep DEF Holds
<1>7. \/ /\ Happens(k, "workspace") /\ existing' \in {existing, existing \cup {place}}
         /\ RunGoes(k, "provisioned") \/ RunFails(k, FALSE)
      \/ RunFails(k, TRUE) /\ UNCHANGED world
  BY DEF Provisions
<1> QED
  BY <1>5, <1>6, <1>7

LEMMA CreatesAgentKeeps ==
    ASSUME CreationInv, NEW k \in Keys, CreatesAgent(k)
    PROVE  CreationInv'
<1> DEFINE record == runs[k].record
           place  == <<"agent", named[k]>>
<1>1. runs[k].at = "create" /\ active(k)
  BY CreationAssumption DEF CreatesAgent, active, RunSteps
<1>2. /\ record = creations[k] /\ creations[k] # Missing
      /\ Done(k, record) /\ Told(k, record) /\ Complete(k, record)
      /\ Stage(k, "create", record, runs[k].rejected)
      /\ Once(k) /\ Running(k) /\ runs \in [Keys -> Run]
      /\ effects \in [Keys -> [RunStages -> Nat]]
      /\ effects[k]["workspace"] \in Nat /\ effects[k]["agent"] \in Nat
      /\ effects[k]["prompt"] \in Nat
  BY <1>1, RunnerHas
<1>3. /\ place \in Resources /\ Asks(k, "agent")
      /\ existing \in SUBSET Resources /\ CreationTypeOK
      /\ \A r \in Needed(k) : claims[r] = k
  BY <1>2, NeededAre DEF CreationInv, Running, Stage, CreationTypeOK
<1>4. UNCHANGED <<request, creations, claims, admission, crashes, faults>>
  BY DEF CreatesAgent
<1>s. /\ UNCHANGED <<intent, named, creations, claims, admission>>
      /\ "workspace" \in RunStages /\ "agent" \in RunStages /\ "prompt" \in RunStages
      /\ "failing" \in RunSteps /\ "created" \in RunSteps
      /\ TRUE \in BOOLEAN /\ FALSE \in BOOLEAN
  BY <1>4 DEF request, RunStages, RunSteps
<1>5. CASE /\ place \notin existing /\ Happens(k, "agent") /\ existing' = existing \cup {place}
           /\ RunGoes(k, "created") \/ RunFails(k, FALSE)
  <2>0. effects[k]["agent"] = 0 /\ effects[k]["prompt"] = 0
    BY <1>2, <1>5 DEF Once
  <2>1. /\ effects' \in [Keys -> [RunStages -> Nat]]
        /\ effects'[k]["agent"] = 1
        /\ effects'[k]["workspace"] = effects[k]["workspace"]
        /\ effects'[k]["prompt"] = 0
        /\ \A j \in Keys \ {k} : effects'[j] = effects[j]
    BY <1>2, <1>5, <1>s, <2>0, HappensDoes
  <2>2. /\ runs' \in [Keys -> Run] /\ runs'[k].record = record /\ ~runs'[k].rejected
        /\ runs'[k].at \in {"created", "failing"}
        /\ \A j \in Keys \ {k} : runs'[j] = runs[j]
    <3>1. ~runs[k].rejected
      BY <1>2 DEF Stage
    <3> HIDE DEF record, place
    <3> QED
      BY <1>2, <1>5, <1>s, <3>1, RunMoves DEF record
  <2>3. CreationTypeOK'
    BY <1>3, <1>4, <1>5, <2>1, <2>2, AttemptTypes
  <2>4. Once(k)'
    <3>1. \A stage \in RunStages : effects'[k][stage] <= 1
      BY <1>2, <2>1 DEF Once, RunStages
    <3>2. \A j \in Keys : j # k /\ named[j] = named[k] => effects[j]["agent"] = 0
      <4> SUFFICES ASSUME NEW j \in Keys, j # k, named[j] = named[k]
                   PROVE  effects[j]["agent"] = 0
        OBVIOUS
      <4>1. Once(j) /\ effects[j]["agent"] \in Nat
        BY <1>2, <1>s DEF CreationInv, Holds
      <4> QED
        BY <1>5, <4>1 DEF Once
    <3>3. \A j \in Keys : j # k /\ named'[j] = named'[k] =>
             effects'[j]["agent"] + effects'[k]["agent"] <= 1
      BY <1>s, <2>1, <3>2
    <3> QED
      BY <1>2, <1>3, <1>5, <1>s, <2>1, <3>1, <3>3 DEF Once, Asks
  <2>5. Done(k, record)' /\ Told(k, record)' /\ Complete(k, record)'
    BY <1>2, <1>s, <2>1, <2>2 DEF Done, Told, Complete, Stage, Asks
  <2>6. OnDisk(k)'
    BY <1>2, <1>s, <2>2, <2>5 DEF OnDisk, Done, Told, Complete
  <2>7. Stage(k, runs[k].at, runs[k].record, runs[k].rejected)'
    BY <1>2, <1>s, <2>1, <2>2, <2>5 DEF Stage, Done, Asks
  <2>8. Running(k)'
    BY <1>2, <1>3, <1>s, <2>2, <2>7 DEF Running, Needed
  <2> QED
    BY <1>1, <1>5, <1>s, <2>1, <2>2, <2>3, <2>4, <2>6, <2>8, RunStep DEF Holds
<1>6. CASE RunFails(k, FALSE) /\ UNCHANGED world
  <2>2. /\ runs' \in [Keys -> Run] /\ runs'[k].record = record /\ ~runs'[k].rejected
        /\ runs'[k].at = "failing"
        /\ \A j \in Keys \ {k} : runs'[j] = runs[j]
    BY <1>2, <1>6, <1>s, RunMoves
  <2>w. effects' = effects /\ existing' = existing
    BY <1>6 DEF world
  <2>3. CreationTypeOK'
    BY <1>2, <1>3, <1>4, <2>w, <2>2, AttemptTypes
  <2>4. Once(k)' /\ OnDisk(k)'
    BY <1>2, <1>s, <2>w DEF CreationInv, Holds, Once, OnDisk, Done, Told, Complete, Asks
  <2>7. Stage(k, runs[k].at, runs[k].record, runs[k].rejected)'
    BY <1>2, <1>s, <2>w, <2>2 DEF Stage, Done, Asks
  <2>8. Running(k)'
    BY <1>2, <1>3, <1>s, <2>2, <2>7 DEF Running, Needed
  <2> QED
    BY <1>1, <1>s, <2>w, <2>2, <2>3, <2>4, <2>8, RunStep DEF Holds
<1>7. \/ /\ place \notin existing /\ Happens(k, "agent") /\ existing' = existing \cup {place}
         /\ RunGoes(k, "created") \/ RunFails(k, FALSE)
      \/ RunFails(k, FALSE) /\ UNCHANGED world
  BY DEF CreatesAgent
<1> QED
  BY <1>5, <1>6, <1>7

LEMMA PromptsAgentKeeps ==
    ASSUME CreationInv, NEW k \in Keys, PromptsAgent(k)
    PROVE  CreationInv'
<1> DEFINE record == runs[k].record
<1>1. runs[k].at = "prompt" /\ active(k)
  BY CreationAssumption DEF PromptsAgent, active, RunSteps
<1>2. /\ record = creations[k] /\ creations[k] # Missing
      /\ Done(k, record) /\ Told(k, record) /\ Complete(k, record)
      /\ Stage(k, "prompt", record, runs[k].rejected)
      /\ Once(k) /\ Running(k) /\ runs \in [Keys -> Run]
      /\ effects \in [Keys -> [RunStages -> Nat]]
      /\ effects[k]["workspace"] \in Nat /\ effects[k]["agent"] \in Nat
      /\ effects[k]["prompt"] \in Nat
  BY <1>1, RunnerHas
<1>3. /\ existing \in SUBSET Resources /\ CreationTypeOK
      /\ \A r \in Needed(k) : claims[r] = k
  BY <1>2 DEF CreationInv, Running, CreationTypeOK
<1>4. UNCHANGED <<request, creations, claims, existing, admission, crashes, faults>>
  BY DEF PromptsAgent
<1>s. /\ UNCHANGED <<intent, named, creations, claims, existing, admission>>
      /\ "workspace" \in RunStages /\ "agent" \in RunStages /\ "prompt" \in RunStages
      /\ "failing" \in RunSteps /\ "prompted" \in RunSteps /\ "next" \in RunSteps
      /\ TRUE \in BOOLEAN /\ FALSE \in BOOLEAN
  BY <1>4 DEF request, RunStages, RunSteps
<1>a. record.agent /\ effects[k]["agent"] = 1 /\ effects[k]["prompt"] = 0
  BY <1>2 DEF Stage, Done
<1>1a. /\ runs' \in [Keys -> Run] /\ runs'[k].record = record /\ ~runs'[k].rejected
       /\ runs'[k].at \in {"prompted", "next", "failing"}
       /\ \A j \in Keys \ {k} : runs'[j] = runs[j]
  <2>1. ~runs[k].rejected
    BY <1>2 DEF Stage
  <2>2. RunGoes(k, "prompted") \/ RunGoes(k, "next") \/ RunFails(k, FALSE)
    BY DEF PromptsAgent
  <2> HIDE DEF record
  <2> QED
    BY <1>2, <1>s, <2>1, <2>2, RunMoves DEF record
<1>5. /\ effects' \in [Keys -> [RunStages -> Nat]]
      /\ effects'[k]["prompt"] \in {0, 1}
      /\ effects'[k]["workspace"] = effects[k]["workspace"]
      /\ effects'[k]["agent"] = 1
      /\ \A j \in Keys \ {k} : effects'[j] = effects[j]
  <2>1. CASE Happens(k, "prompt")
    BY <1>2, <1>s, <1>a, <2>1, HappensDoes
  <2>2. CASE UNCHANGED effects
    BY <1>2, <1>a, <2>2
  <2> QED
    BY <2>1, <2>2 DEF PromptsAgent
<1>6. CreationTypeOK'
  BY <1>1a, <1>3, <1>4, <1>5, AttemptTypes
<1>7. Once(k)'
  <2>1. \A stage \in RunStages : effects'[k][stage] <= 1
    BY <1>2, <1>5 DEF Once, RunStages
  <2>2. \A j \in Keys : j # k /\ named'[j] = named'[k] =>
           effects'[j]["agent"] + effects'[k]["agent"] <= 1
    BY <1>2, <1>s, <1>a, <1>5 DEF Once
  <2> QED
    BY <1>2, <1>s, <1>a, <1>5, <2>1, <2>2 DEF Once, Asks
<1>8. Done(k, record)' /\ Told(k, record)' /\ Complete(k, record)'
  BY <1>1a, <1>2, <1>s, <1>a, <1>5 DEF Done, Told, Complete, Stage, Asks
<1>9. OnDisk(k)'
  BY <1>1a, <1>2, <1>s, <1>8 DEF OnDisk, Done, Told, Complete
<1>10. Stage(k, runs[k].at, runs[k].record, runs[k].rejected)'
  BY <1>1a, <1>2, <1>s, <1>a, <1>5, <1>8 DEF Stage, Done, Asks
<1>11. Running(k)'
  BY <1>1a, <1>2, <1>3, <1>s, <1>10 DEF Running, Needed
<1> QED
  BY <1>1, <1>1a, <1>s, <1>5, <1>6, <1>7, <1>9, <1>11, RunStep DEF Holds

\* What a failed creation cannot have done without knowing it
LEMMA EndsKeeps ==
    ASSUME CreationInv, NEW k \in Keys, Ends(k)
    PROVE  CreationInv'
<1> DEFINE record == runs[k].record
           last   == [record EXCEPT !.phase = "failed", !.unknown = Unknown(k),
                                    !.inFlight = IF Unknown(k) THEN @ ELSE Missing]
<1>1. runs[k].at = "failing" /\ active(k)
  BY CreationAssumption DEF Ends, active, RunSteps
<1>2. /\ record \in CreationRecord /\ creations[k] # Missing
      /\ Stage(k, "failing", record, runs[k].rejected)
      /\ Once(k) /\ runs \in [Keys -> Run] /\ CreationTypeOK
      /\ Done(k, creations[k]) /\ Told(k, creations[k]) /\ Complete(k, creations[k])
      /\ effects[k]["workspace"] \in Nat /\ effects[k]["agent"] \in Nat
  BY <1>1, RunnerHas DEF CreationInv
<1>3. /\ last \in CreationRecord /\ last.workspace = record.workspace /\ last.agent = record.agent
      /\ last.phase = "failed" /\ last.unknown = Unknown(k)
      /\ last.inFlight = IF Unknown(k) THEN record.inFlight ELSE Missing
  <2>1. Unknown(k) \in BOOLEAN
    BY DEF Unknown
  <2> DEFINE after == IF Unknown(k) THEN record.inFlight ELSE Missing
  <2>2. after \in RunStages \cup {Missing}
    BY <1>2 DEF CreationRecord
  <2>3. last = [record EXCEPT !.phase = "failed", !.unknown = Unknown(k), !.inFlight = after]
    BY <1>2 DEF CreationRecord
  <2> HIDE DEF after, last
  <2>4. /\ last \in CreationRecord /\ last.workspace = record.workspace /\ last.agent = record.agent
        /\ last.phase = "failed" /\ last.unknown = Unknown(k) /\ last.inFlight = after
    <3> HIDE DEF record
    <3> QED
      BY <1>2, <2>1, <2>2, <2>3 DEF CreationRecord
  <2> QED
    BY <2>4 DEF after
<1>4. /\ runs' = [runs EXCEPT ![k] = NoRun]
      /\ UNCHANGED <<request, claims, world, admission, crashes>>
      /\ \/ Works /\ Stores(k, last)
         \/ Fails /\ UNCHANGED creations
  BY DEF Ends
<1>5. Unknown(k) <=> \/ record.inFlight = "prompt"
                     \/ record.inFlight = "workspace" /\ ~runs[k].rejected
                     \/ LET stage == IF record.inFlight = Missing THEN "agent" ELSE record.inFlight
                        IN  <<stage, named[k]>> \in existing /\ Asks(k, stage)
  BY CreationAssumption DEF Unknown, RunStages
<1> HIDE DEF last, record
<1>6. Told(k, last) /\ Done(k, last) /\ Complete(k, last)
  <2>1. Done(k, last) /\ Complete(k, last)
    BY <1>2, <1>3 DEF Stage, Done, Complete
  <2>2. effects[k]["workspace"] > 0 => last.workspace \/ last.unknown
    BY <1>2, <1>3, <1>5 DEF Stage
  <2>3. effects[k]["agent"] > 0 => last.agent \/ last.unknown
    BY <1>2, <1>3, <1>5, CreationAssumption DEF Stage, Once, RunStages
  <2> QED
    BY <2>1, <2>2, <2>3 DEF Told
<1>s. UNCHANGED <<intent, named, claims, existing, effects, admission>>
  BY <1>4 DEF request, world
<1>7. /\ runs' \in [Keys -> Run] /\ ~active(k)'
      /\ \A j \in Keys \ {k} : runs'[j] = runs[j]
  BY <1>2, <1>4, InitialTypes DEF active, Run
<1>8. /\ creations'[k] \in {last, creations[k]}
      /\ creations' \in [Keys -> CreationRecord \cup {Missing}]
      /\ \A j \in Keys \ {k} : creations'[j] = creations[j]
  BY <1>2, <1>3, <1>4 DEF Stores, CreationTypeOK
<1>9. CreationTypeOK'
  <2>1. faults' \in 0..MaxFaults
    BY <1>2, <1>4, CreationAssumption DEF Works, Fails, CreationTypeOK
  <2> QED
    BY <1>2, <1>4, <1>7, <1>8, <2>1 DEF CreationTypeOK, Run, request, world
<1>10. Once(k)'
  BY <1>2, <1>s DEF Once, Asks
<1>11. OnDisk(k)'
  <2>1. creations'[k] # Missing
    BY <1>2, <1>3, <1>8, CreationAssumption
  <2> QED
    BY <1>2, <1>6, <1>8, <1>s, <2>1 DEF OnDisk, Done, Told, Complete, Asks
<1> QED
  BY <1>1, <1>s, <1>7, <1>8, <1>9, <1>10, <1>11, RunStep DEF Holds

-----------------------------------------------------------------------------
(* Admission *)

\* A step of the admission: nothing is attempted, no runner moves but that of the key
LEMMA AdmissionStep ==
    ASSUME CreationInv, CreationTypeOK', NEW k \in Keys,
           UNCHANGED <<intent, named, world>>,
           \A j \in Keys \ {k} : runs'[j] = runs[j] /\ creations'[j] = creations[j],
           \A r \in Resources, j \in Keys : claims[r] = j => claims'[r] = j,
           OnDisk(k)', active(k)' => Running(k)', Admitted'
    PROVE  CreationInv'
<1>1. existing' = existing /\ effects' = effects
  BY DEF world
<1>2. <<"workspace", named[k]>> \in Resources
  BY NeededAre DEF CreationInv
<1>3. Once(k)'
  BY <1>1, <1>2 DEF CreationInv, Holds, Once, Asks
<1> QED
  BY <1>1, <1>3, Others DEF Holds

LEMMA AdmitsKeeps ==
    ASSUME CreationInv, NEW k \in Keys, Admits(k)
    PROVE  CreationInv'
<1>1. /\ UNCHANGED <<request, creations, claims, world, runs, crashes, faults>>
      /\ UNCHANGED <<intent, named>>
  BY DEF Admits, request
<1>2. admission' \in {[key |-> k, at |-> "record"], [key |-> k, at |-> "claim"]}
  BY DEF Admits, AdmissionGoes
<1>3. CreationTypeOK'
  <2>1. admission' \in [key: Keys, at: {"record", "claim"}]
    BY <1>2
  <2> QED
    BY <1>1, <2>1 DEF CreationInv, CreationTypeOK, request, world
<1>4. Admitted'
  BY <1>1, <1>2 DEF Admits, AdmissionGoes, Admitted, active, Interrupted, Settled
<1>5. OnDisk(k)' /\ (active(k)' => Running(k)')
  <2>1. OnDisk(k) /\ ~active(k) /\ ~active(k)'
    BY <1>1 DEF CreationInv, Holds, Admits, active
  <2> QED
    BY <1>1, <2>1 DEF OnDisk, Done, Told, Complete, Asks, world
<1> QED
  BY <1>1, <1>3, <1>4, <1>5, AdmissionStep

LEMMA ReportsKeeps ==
    ASSUME CreationInv, NEW k \in Keys, Reports(k)
    PROVE  CreationInv'
<1> DEFINE lost == [creations[k] EXCEPT !.phase = "failed", !.unknown = TRUE]
<1>1. /\ UNCHANGED <<request, claims, world, admission, runs, crashes, faults>>
      /\ UNCHANGED <<intent, named>>
  BY DEF Reports, request
<1>2. /\ creations[k] \in CreationRecord /\ creations[k] # Missing /\ ~active(k)
      /\ ~Settled(creations[k]) /\ creations[k].inFlight # Missing
  BY DEF CreationInv, CreationTypeOK, Reports, Interrupted
<1>3. /\ lost \in CreationRecord /\ lost.phase = "failed" /\ lost.unknown
      /\ lost.workspace = creations[k].workspace /\ lost.agent = creations[k].agent
  BY <1>2 DEF CreationRecord
<1>4. /\ creations' = [creations EXCEPT ![k] = lost]
      /\ creations \in [Keys -> CreationRecord \cup {Missing}]
  BY DEF Reports, Stores, CreationInv, CreationTypeOK
<1> HIDE DEF lost
<1>5. /\ creations' \in [Keys -> CreationRecord \cup {Missing}] /\ creations'[k] = lost
      /\ \A j \in Keys \ {k} : creations'[j] = creations[j]
  BY <1>3, <1>4
<1>6. CreationTypeOK'
  BY <1>1, <1>5 DEF CreationInv, CreationTypeOK, request, world
<1>7. Admitted'
  <2> SUFFICES ASSUME admission # NobodyYet, admission.key = k PROVE Admitted'
    <3>1. admission # NobodyYet /\ admission.key # k => Admitted'
      <4>1. admission # NobodyYet => admission.key \in Keys
        BY DEF CreationInv, CreationTypeOK
      <4> QED
        BY <1>1, <1>5, <4>1 DEF CreationInv, Admitted, active, Settled
    <3> QED
      BY <1>1, <3>1 DEF Admitted
  <2>1. admission.at \in {"record", "claim"}
    BY DEF CreationInv, CreationTypeOK
  <2> QED
    BY <1>2, <2>1 DEF CreationInv, Admitted
<1>8. OnDisk(k)'
  <2>1. Done(k, creations[k])
    BY <1>2 DEF CreationInv, Holds, OnDisk
  <2>2. creations'[k] # Missing
    BY <1>3, <1>5, CreationAssumption
  <2> QED
    BY <1>1, <1>3, <1>5, <2>1, <2>2 DEF OnDisk, Done, Told, Complete, Asks, world
<1>9. ~active(k)'
  BY <1>1, <1>2 DEF active
<1> QED
  BY <1>1, <1>5, <1>6, <1>7, <1>8, <1>9, AdmissionStep

LEMMA PersistsKeeps ==
    ASSUME CreationInv, NEW k \in Keys, Persists(k)
    PROVE  CreationInv'
<1>1. /\ UNCHANGED <<request, claims, world, runs, crashes>>
      /\ UNCHANGED <<intent, named, effects>>
  BY DEF Persists, request, world
<1>2. /\ admission = [key |-> k, at |-> "record"]
      /\ creations \in [Keys -> CreationRecord \cup {Missing}]
  BY DEF Persists, CreationInv, CreationTypeOK
<1>3. creations[k] = Missing /\ ~active(k) /\ OnDisk(k)
  <2>1. admission # NobodyYet
    BY <1>2, CreationAssumption DEF NobodyYet
  <2> QED
    BY <1>2, <2>1 DEF CreationInv, Admitted, Holds
<1>4. initialRecord \in CreationRecord /\ initialRecord # Missing
  BY InitialTypes, CreationAssumption
<1>5. \/ creations'[k] = initialRecord /\ admission' = [key |-> k, at |-> "claim"]
      \/ creations' = creations /\ admission' = NobodyYet
  BY <1>2 DEF Persists, Stores, AdmissionGoes, AdmissionEnds
<1>6. /\ creations' \in [Keys -> CreationRecord \cup {Missing}]
      /\ \A j \in Keys \ {k} : creations'[j] = creations[j]
  BY <1>2, <1>4 DEF Persists, Stores
<1>7. CreationTypeOK'
  <2>1. admission' \in [key: Keys, at: {"record", "claim"}] \cup {NobodyYet}
    BY <1>5
  <2>2. faults' \in 0..MaxFaults
    BY CreationAssumption DEF Persists, Works, Fails, CreationInv, CreationTypeOK
  <2> QED
    BY <1>1, <1>6, <2>1, <2>2 DEF CreationInv, CreationTypeOK, request, world
<1>8. Admitted'
  BY <1>1, <1>3, <1>4, <1>5, InitialTypes DEF Admitted, active, Settled
<1>9. OnDisk(k)' /\ ~active(k)'
  <2>1. \A stage \in RunStages : effects[k][stage] = 0
    BY <1>3 DEF OnDisk
  <2>2. effects[k]["workspace"] = 0 /\ effects[k]["agent"] = 0 /\ effects[k]["prompt"] = 0
    BY <2>1 DEF RunStages
  <2> QED
    BY <1>1, <1>3, <1>4, <1>5, <2>1, <2>2, InitialTypes DEF OnDisk, Done, Told, Complete, active
<1> QED
  BY <1>1, <1>6, <1>7, <1>8, <1>9, AdmissionStep

LEMMA ClaimsKeeps ==
    ASSUME CreationInv, NEW k \in Keys, NEW r \in Resources, Claims(k, r)
    PROVE  CreationInv'
<1>1. /\ UNCHANGED <<request, creations, world, runs, crashes>>
      /\ UNCHANGED <<intent, named, effects>>
  BY DEF Claims, request, world
<1>2. admission = [key |-> k, at |-> "claim"] /\ admission # NobodyYet
  BY CreationAssumption DEF Claims, NobodyYet
<1>3. ~active(k) /\ OnDisk(k)
  BY <1>2 DEF CreationInv, Admitted, Holds
<1>4. \/ claims' = claims
      \/ claims[r] = Missing /\ claims' = [claims EXCEPT ![r] = k]
      \/ claims[r] = Missing /\ claims' = [claims EXCEPT ![r] = Torn]
  BY DEF Claims, Conflicts
<1>5. /\ claims' \in [Resources -> Keys \cup {Missing, Torn}]
      /\ \A q \in Resources, j \in Keys : claims[q] = j => claims'[q] = j
  BY <1>4, CreationAssumption DEF CreationInv, CreationTypeOK
<1>6. admission' \in {admission, NobodyYet}
  BY DEF Claims, AdmissionEnds
<1>7. CreationTypeOK'
  <2>2. faults' \in 0..MaxFaults
    BY CreationAssumption DEF Claims, Works, Fails, CreationInv, CreationTypeOK
  <2> QED
    BY <1>1, <1>5, <1>6, <2>2 DEF CreationInv, CreationTypeOK, request, world
<1>8. Admitted'
  BY <1>1, <1>6 DEF CreationInv, Admitted, active, Settled
<1>9. OnDisk(k)' /\ ~active(k)'
  BY <1>1, <1>3 DEF OnDisk, Done, Told, Complete, Asks, active
<1> QED
  BY <1>1, <1>5, <1>7, <1>8, <1>9, AdmissionStep

\* A failed or untouched creation is taken up where its record says
LEMMA StartsKeeps ==
    ASSUME CreationInv, NEW k \in Keys, Starts(k)
    PROVE  CreationInv'
<1> DEFINE record == Resumed(creations[k])
           run    == [NoRun EXCEPT !.at = "next", !.record = record]
<1>1. /\ UNCHANGED <<request, claims, world, crashes>>
      /\ UNCHANGED <<intent, named, effects>> /\ admission' = NobodyYet
      /\ \A r \in Needed(k) : claims[r] = k
  BY DEF Starts, AdmissionEnds, request, world
<1>2. admission = [key |-> k, at |-> "claim"] /\ admission # NobodyYet
  BY CreationAssumption DEF Starts, NobodyYet
<1>3. /\ ~active(k) /\ OnDisk(k) /\ creations[k] # Missing /\ ~Settled(creations[k])
      /\ creations[k].inFlight = Missing
      /\ creations \in [Keys -> CreationRecord \cup {Missing}]
      /\ creations[k] \in CreationRecord /\ runs \in [Keys -> Run]
      /\ effects[k]["workspace"] \in Nat /\ effects[k]["agent"] \in Nat
  BY <1>2 DEF CreationInv, Admitted, Holds, CreationTypeOK, Run, RunStages
<1>4. /\ record \in CreationRecord
      /\ record.workspace = creations[k].workspace /\ record.agent = creations[k].agent
      /\ record.unknown = creations[k].unknown /\ record.phase # "completed"
  <2>1. CASE creations[k].phase = "failed"
    <3> DEFINE phase == IF creations[k].workspace THEN "workspace_ready" ELSE "accepted"
    <3>1. record = [creations[k] EXCEPT !.phase = phase]
      BY <2>1 DEF Resumed
    <3>2. phase \in {"accepted", "workspace_ready"}
      OBVIOUS
    <3> HIDE DEF phase, record
    <3> QED
      BY <1>3, <3>1, <3>2 DEF CreationRecord
  <2>2. CASE creations[k].phase # "failed"
    BY <1>3, <2>2 DEF Resumed, Settled
  <2> QED
    BY <2>1, <2>2
<1>5. /\ run \in Run /\ run.at = "next" /\ run.record = record /\ ~run.rejected
  <2> HIDE DEF record
  <2> QED
    BY <1>4, InitialTypes DEF Run, RunSteps
<1>6. \/ Works /\ creations' = [creations EXCEPT ![k] = record] /\ runs' = [runs EXCEPT ![k] = run]
      \/ Fails /\ creations' = creations /\ runs' = runs
  <2>1. CASE /\ Works /\ Stores(k, record)
             /\ runs' = [runs EXCEPT ![k] = [NoRun EXCEPT !.at = "next", !.record = creations'[k]]]
    <3>1. creations'[k] = record
      BY <1>3, <2>1 DEF Stores
    <3> QED
      BY <2>1, <3>1 DEF Stores
  <2> QED
    BY <2>1 DEF Starts
<1> HIDE DEF record, run
<1>7. /\ creations' \in [Keys -> CreationRecord \cup {Missing}] /\ runs' \in [Keys -> Run]
      /\ \A j \in Keys \ {k} : runs'[j] = runs[j] /\ creations'[j] = creations[j]
      /\ \/ creations'[k] = record /\ runs'[k] = run
         \/ creations'[k] = creations[k] /\ runs'[k] = runs[k]
  BY <1>3, <1>4, <1>5, <1>6
<1>8. CreationTypeOK'
  <2>2. faults' \in 0..MaxFaults
    BY <1>6, CreationAssumption DEF Works, Fails, CreationInv, CreationTypeOK
  <2> QED
    BY <1>1, <1>7, <2>2 DEF CreationInv, CreationTypeOK, request, world, Run
<1>9. Admitted'
  BY <1>1 DEF Admitted, NobodyYet
<1>10. Done(k, record) /\ Told(k, record) /\ Complete(k, record) /\ record # Missing
       /\ Done(k, creations[k]) /\ Told(k, creations[k]) /\ Complete(k, creations[k])
  <2>1. Done(k, creations[k]) /\ Told(k, creations[k]) /\ Complete(k, creations[k])
    BY <1>3 DEF OnDisk
  <2>2. "workspace" # Missing /\ "agent" # Missing /\ record # Missing
    BY <1>4, CreationAssumption DEF RunStages
  <2> QED
    BY <1>3, <1>4, <2>1, <2>2 DEF Done, Told, Complete, Settled
<1>11. OnDisk(k)'
  BY <1>1, <1>3, <1>7, <1>10 DEF OnDisk, Done, Told, Complete, Asks
<1>12. active(k)' => Running(k)'
  <2> SUFFICES ASSUME active(k)' PROVE Running(k)'
    OBVIOUS
  <2>1. creations'[k] = record /\ runs'[k] = run
    BY <1>3, <1>7 DEF active
  <2>2. Stage(k, "next", record, FALSE)
    <3>1. ~record.unknown
      BY <1>3, <1>4 DEF Settled
    <3>2. creations[k].inFlight # "workspace" /\ creations[k].inFlight # "agent"
      BY <1>3, CreationAssumption DEF RunStages
    <3>3. /\ effects[k]["workspace"] > 0 => record.workspace
          /\ effects[k]["agent"] > 0 => record.agent
      BY <1>3, <1>4, <1>10, <3>1, <3>2 DEF Told
    <3> QED
      BY <1>10, <3>1, <3>3 DEF Stage
  <2>3. Stage(k, runs[k].at, runs[k].record, runs[k].rejected)'
    BY <1>1, <1>5, <2>1, <2>2 DEF Stage, Done, Asks
  <2>4. \A r \in Needed(k)' : claims'[r] = k
    BY <1>1 DEF Needed
  <2> QED
    BY <1>5, <1>10, <2>1, <2>3, <2>4 DEF Running
<1>13. \A r \in Resources, j \in Keys : claims[r] = j => claims'[r] = j
  BY <1>1
<1> QED
  BY <1>1, <1>7, <1>8, <1>9, <1>11, <1>12, <1>13, AdmissionStep

-----------------------------------------------------------------------------
LEMMA CrashKeeps ==
    ASSUME CreationInv, CreationCrashes
    PROVE  CreationInv'
<1>1. /\ UNCHANGED <<intent, named, creations, existing, effects>> /\ UNCHANGED faults
      /\ admission' = NobodyYet /\ runs' = [k \in Keys |-> NoRun]
  BY DEF CreationCrashes, AdmissionEnds, request, world
<1>2. \A k \in Keys : ~active(k)'
  BY <1>1, InitialTypes DEF active
<1>3. /\ claims' \in [Resources -> Keys \cup {Missing, Torn}]
      /\ \A q \in Resources, j \in Keys : claims[q] = j => claims'[q] = j
  <2>1. \/ claims' = claims
        \/ \E r \in Resources : claims[r] = Missing /\ claims' = [claims EXCEPT ![r] = Torn]
    BY DEF CreationCrashes, Conflicts
  <2> QED
    BY <2>1, CreationAssumption DEF CreationInv, CreationTypeOK
<1>4. CreationTypeOK'
  <2>1. crashes' \in 0..MaxCrashes
    BY CreationAssumption DEF CreationCrashes, CreationInv, CreationTypeOK
  <2> QED
    BY <1>1, <1>3, <2>1, InitialTypes DEF CreationInv, CreationTypeOK
<1>5. ASSUME NEW k \in Keys PROVE Holds(k)'
  <2>1. Once(k) /\ OnDisk(k) /\ <<"workspace", named[k]>> \in Resources
    BY NeededAre DEF CreationInv, Holds
  <2>2. Once(k)'
    BY <1>1, <1>3, <2>1 DEF Once, Asks
  <2>3. OnDisk(k)'
    BY <1>1, <2>1 DEF OnDisk, Done, Told, Complete, Asks
  <2> QED
    BY <1>2, <2>2, <2>3 DEF Holds
<1> QED
  BY <1>1, <1>4, <1>5 DEF CreationInv, Admitted

LEMMA InitCreation == CreationInit => CreationInv
<1> SUFFICES ASSUME CreationInit PROVE CreationInv
  OBVIOUS
<1>1. CreationTypeOK /\ \A k \in Keys : ~active(k)
  BY InitialTypes, CreationAssumption DEF CreationInit, CreationTypeOK, active
<1>2. ASSUME NEW k \in Keys PROVE Holds(k)
  <2>1. \A j \in Keys, stage \in RunStages : effects[j][stage] = 0
    BY DEF CreationInit
  <2>2. \A j \in Keys : effects[j]["workspace"] = 0 /\ effects[j]["agent"] = 0
                        /\ effects[j]["prompt"] = 0
    BY <2>1 DEF RunStages
  <2> QED
    BY <1>1, <2>1, <2>2 DEF Holds, Once, OnDisk, CreationInit
<1>3. Admitted
  BY DEF CreationInit, Admitted
<1> QED
  BY <1>1, <1>2, <1>3 DEF CreationInv

LEMMA NextCreation == CreationInv /\ [CreationNext]_creationVars => CreationInv'
<1> SUFFICES ASSUME CreationInv, [CreationNext]_creationVars PROVE CreationInv'
  OBVIOUS
<1>1. CASE UNCHANGED creationVars
  <2>1. /\ UNCHANGED <<intent, named, creations, claims, existing>>
        /\ UNCHANGED <<effects, admission, runs, crashes, faults>>
    BY <1>1 DEF creationVars
  <2>2. CreationTypeOK' /\ Admitted'
    BY <2>1 DEF CreationInv, CreationTypeOK, Admitted, active, Settled
  <2>3. ASSUME NEW k \in Keys PROVE Holds(k)'
    BY <2>1 DEF CreationInv, Holds, Once, OnDisk, Running, Stage, Done, Told, Complete, Asks,
                Needed, active
  <2> QED
    BY <2>2, <2>3 DEF CreationInv
<1>2. ASSUME NEW k \in Keys,
             \/ Admits(k) \/ Reports(k) \/ Persists(k) \/ Starts(k)
             \/ \E r \in Resources : Claims(k, r)
      PROVE  CreationInv'
  BY <1>2, AdmitsKeeps, ReportsKeeps, PersistsKeeps, StartsKeeps, ClaimsKeeps
<1>3. ASSUME NEW k \in Keys,
             \/ Marks(k) \/ Provisions(k) \/ WorkspaceReady(k) \/ CreatesAgent(k)
             \/ AgentReady(k) \/ PromptsAgent(k) \/ PromptStarted(k) \/ Ends(k)
      PROVE  CreationInv'
  BY <1>3, MarksKeeps, ProvisionsKeeps, WorkspaceReadyKeeps, CreatesAgentKeeps,
     AgentReadyKeeps, PromptsAgentKeeps, PromptStartedKeeps, EndsKeeps
<1>4. CASE CreationCrashes
  BY <1>4, CrashKeeps
<1> QED
  BY <1>1, <1>2, <1>3, <1>4 DEF CreationNext

(***************************************************************************)
(* The inductive invariant: what a runner attempted is in its record or in *)
(* flight there, what the disk says is enough, and only the holder of a    *)
(* claim, or the one who registers an agent first, attempts anything.      *)
(***************************************************************************)
THEOREM CreationInvHolds == CreationSpec => []CreationInv
<1>1. CreationInit => CreationInv
  BY InitCreation
<1>2. CreationInv /\ [CreationNext]_creationVars => CreationInv'
  BY NextCreation
<1> QED
  BY <1>1, <1>2, PTL DEF CreationSpec

(***************************************************************************)
(* create: asking again with the same key, after any failed write and any  *)
(* stop, never provisions a second workspace, registers a second agent or  *)
(* sends a second prompt, and two keys that name the same id never both    *)
(* create.                                                                 *)
(***************************************************************************)
THEOREM NothingRepeatedHolds == CreationSpec => []NothingRepeated
<1>1. CreationInv => NothingRepeated
  <2> SUFFICES ASSUME CreationInv PROVE NothingRepeated
    OBVIOUS
  <2>1. ASSUME NEW k \in Keys
        PROVE  /\ Once(k)
               /\ effects[k]["workspace"] \in Nat /\ effects[k]["agent"] \in Nat
               /\ effects[k]["workspace"] <= 1
    BY DEF CreationInv, Holds, Once, CreationTypeOK, RunStages
  <2>2. ASSUME NEW j \in Keys, NEW k \in Keys, j # k, named[j] = named[k]
        PROVE  /\ effects[j]["workspace"] + effects[k]["workspace"] <= 1
               /\ effects[j]["agent"] + effects[k]["agent"] <= 1
    <3>0. Once(j) /\ Once(k)
      BY <2>1
    <3>1. effects[j]["workspace"] = 0 \/ effects[k]["workspace"] = 0
      <4>1. /\ effects[j]["workspace"] > 0 => claims[<<"workspace", named[j]>>] = j
            /\ effects[k]["workspace"] > 0 => claims[<<"workspace", named[k]>>] = k
        BY <3>0 DEF Once
      <4>2. ~(effects[j]["workspace"] > 0 /\ effects[k]["workspace"] > 0)
        BY <2>2, <4>1
      <4> QED
        BY <2>1, <4>2
    <3>2. effects[j]["agent"] + effects[k]["agent"] <= 1
      BY <2>1, <2>2 DEF Once
    <3> QED
      BY <2>1, <3>1, <3>2
  <2> QED
    BY <2>1, <2>2 DEF NothingRepeated, Once
<1> QED
  BY <1>1, CreationInvHolds, PTL

(***************************************************************************)
(* The creation's record on disk: completed means that all was created,    *)
(* and nothing was attempted that a restart would not learn from it.       *)
(***************************************************************************)
THEOREM RecordTellsHolds == CreationSpec => []RecordTells
<1>1. CreationInv => RecordTells
  <2> SUFFICES ASSUME CreationInv, NEW k \in Keys
               PROVE  LET record == creations[k] IN
                      /\ record # Missing /\ record.phase = "completed" =>
                            \A stage \in {"workspace", "agent"} \cap intent[k] :
                               effects[k][stage] = 1
                      /\ effects[k]["workspace"] > 0 =>
                            record.workspace \/ record.inFlight = "workspace" \/ record.unknown
                      /\ effects[k]["agent"] > 0 =>
                            record.agent \/ record.inFlight = "agent" \/ record.unknown
                      /\ effects[k]["prompt"] > 0 => record.agent
    BY DEF RecordTells
  <2>1. OnDisk(k)
    BY DEF CreationInv, Holds
  <2>2. CASE creations[k] = Missing
    BY <2>1, <2>2 DEF OnDisk, RunStages
  <2>3. CASE creations[k] # Missing
    BY <2>1, <2>3 DEF OnDisk, Done, Told, Complete, Asks
  <2> QED
    BY <2>2, <2>3
<1> QED
  BY <1>1, CreationInvHolds, PTL

=============================================================================
