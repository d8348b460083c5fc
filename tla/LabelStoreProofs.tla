--------------------------- MODULE LabelStoreProofs ---------------------------
(***************************************************************************)
(* The journal of the label store is atomic, for any labels and any        *)
(* workspaces, whichever write fails and wherever the daemon stops.        *)
(*                                                                         *)
(* The invariant says, for each stage of an operation, how the two files   *)
(* and the journal relate to what the daemon serves: until the commit      *)
(* point the before images over the records give back what is served, and  *)
(* they still do when other mutations rewrite the records meanwhile.       *)
(***************************************************************************)
EXTENDS LabelStore, TLAPS

\* Nothing of an operation is on disk that is not served
Steady == catalog = labels /\ records = cache

\* Rolling back gives what is served: the before images are of the catalog served and, for
\* the workspaces that no plain mutation relabelled, of the records served
Restorable ==
    /\ marker.catalog = labels
    /\ Restarted(records) = Restarted(cache)
    /\ \A w \in Workspaces \ overwritten : Restarted(cache)[w] = cache[w]

Undoing == commit.at \in {"undo", "undoRecords", "undoMarker"}
Writing == commit.at \in {"marking", "cataloging", "recording", "committing"}

WhereItStands ==
    /\ daemon = "down" => At("idle")
    /\ daemon = "starting" => At("idle") \/ Undoing
    /\ At("failed") \/ Writing => daemon = "up"
    /\ daemon # "up" => ~blocked

\* The stages before the commit point and after it
Forward ==
    /\ daemon = "up" /\ ~blocked /\ commit.at \in {"idle", "marking", "cleaning"} => ~Prepared /\ Steady
    /\ Writing => commit.plan \in Plans(labels, cache)
    /\ commit.at \in {"cataloging", "recording", "committing"}
          => marker = Before(labels, cache, commit.plan)
    /\ At("cataloging") => Steady
    /\ At("recording") => catalog = commit.plan.catalog /\ records = cache
    /\ At("committing") => /\ catalog = commit.plan.catalog
                           /\ records = Relabelled(cache, commit.plan.assigned)

\* A failed operation, and the recovery after it or at the start
Backward ==
    /\ At("failed") /\ marker = Absent => Steady
    /\ Undoing => Prepared
    /\ daemon = "up" /\ (Undoing \/ (At("failed") /\ Prepared)) => Restorable
    /\ daemon = "starting" => At("undoMarker") \/ cache = records
    /\ commit.at \in {"undoRecords", "undoMarker"} => catalog = marker.catalog
    /\ At("undoMarker") => records = Restarted(cache)

StoreInv == StoreTypeOK /\ WhereItStands /\ Forward /\ Backward

-----------------------------------------------------------------------------
(* Records, plans and before images *)

LEMMA AssignmentDomain ==
    ASSUME NEW a \in Assignments
    PROVE  DOMAIN a \in SUBSET Workspaces /\ \A w \in DOMAIN a : a[w] \in SUBSET Labels
BY DEF Assignments

LEMMA MadeAssignment ==
    ASSUME NEW ws \in SUBSET Workspaces, NEW a \in [ws -> SUBSET Labels]
    PROVE  a \in Assignments
BY DEF Assignments

LEMMA RelabelledRecords ==
    ASSUME NEW recs \in Records, NEW a \in Assignments
    PROVE  /\ Relabelled(recs, a) \in Records
           /\ Present(Relabelled(recs, a)) = Present(recs)
           /\ \A w \in Workspaces :
                 /\ w \notin DOMAIN a => Relabelled(recs, a)[w] = recs[w]
                 /\ recs[w] = Absent => Relabelled(recs, a)[w] = Absent
                 /\ recs[w] # Absent /\ w \in DOMAIN a
                       => Relabelled(recs, a)[w] = [labels |-> a[w], archived |-> recs[w].archived]
<1>1. ASSUME NEW w \in Workspaces, recs[w] # Absent, w \in DOMAIN a
      PROVE  /\ Relabelled(recs, a)[w] = [labels |-> a[w], archived |-> recs[w].archived]
             /\ Relabelled(recs, a)[w] \in Record
  <2>1. recs[w] \in Record
    BY <1>1 DEF Records
  <2> QED
    BY <1>1, <2>1, AssignmentDomain DEF Relabelled, Record
<1>2. ASSUME NEW w \in Workspaces, recs[w] = Absent \/ w \notin DOMAIN a
      PROVE  Relabelled(recs, a)[w] = recs[w]
  BY <1>2 DEF Relabelled
<1>3. Relabelled(recs, a) \in Records
  <2>1. \A w \in Workspaces : Relabelled(recs, a)[w] \in Record \cup {Absent}
    BY <1>1, <1>2 DEF Records
  <2> QED
    BY <2>1 DEF Records, Relabelled
<1>4. Present(Relabelled(recs, a)) = Present(recs)
  BY <1>1, <1>2, StoreAssumption DEF Present
<1> QED
  BY <1>1, <1>2, <1>3, <1>4

\* A record that the daemon has is not the mark of one that it has not
LEMMA PresentRecord ==
    ASSUME NEW recs \in Records, NEW w \in Workspaces
    PROVE  /\ recs[w] # Absent => recs[w] \in Record /\ recs[w].labels \in SUBSET Labels
           /\ LabelsOf(recs, w) = Absent <=> recs[w] = Absent
           /\ recs[w] # Absent => LabelsOf(recs, w) = recs[w].labels
BY StoreAssumption DEF Records, Record, LabelsOf

LEMMA NewLabels ==
    ASSUME NEW recs \in Records, NEW ws \in SUBSET Present(recs), NEW l \in Labels, NEW k \in Labels
    PROVE  /\ WithLabel(recs, ws, l) \in [ws -> SUBSET Labels]
           /\ WithoutLabel(recs, ws, l) \in [ws -> SUBSET Labels]
           /\ Renamed(recs, ws, l, k) \in [ws -> SUBSET Labels]
<1>1. \A w \in ws : recs[w].labels \in SUBSET Labels
  BY PresentRecord DEF Present
<1> QED
  BY <1>1 DEF WithLabel, WithoutLabel, Renamed

\* The four kinds of plans
LEMMA PlanKinds ==
    ASSUME NEW known, NEW recs, NEW plan
    PROVE  plan \in Plans(known, recs) <=>
              \/ \E w \in Labelled(recs), l \in Labels : plan = AssignPlan(known, recs, w, l)
              \/ \E w \in Labelled(recs), l \in Labels : plan = UnassignPlan(known, recs, w, l)
              \/ \E l \in known, k \in Labels \ known : plan = RenamePlan(known, recs, l, k)
              \/ \E l \in Labels : plan = DeletePlan(known, recs, l)
BY DEF Plans

\* A plan is a catalog and new labels for some of the workspaces there are
LEMMA PlanShape ==
    ASSUME NEW known \in SUBSET Labels, NEW recs \in Records, NEW plan \in Plans(known, recs)
    PROVE  \E cat \in SUBSET Labels, ws \in SUBSET Present(recs) :
              \E a \in [ws -> SUBSET Labels] : plan = [catalog |-> cat, assigned |-> a]
<1>1. ASSUME NEW w \in Labelled(recs), NEW l \in Labels, plan = AssignPlan(known, recs, w, l)
      PROVE  \E cat \in SUBSET Labels, ws \in SUBSET Present(recs) :
                \E a \in [ws -> SUBSET Labels] : plan = [catalog |-> cat, assigned |-> a]
  <2>1. {w} \ Holders(recs, l) \in SUBSET Present(recs) /\ known \cup {l} \in SUBSET Labels
    BY DEF Labelled
  <2> QED
    BY <1>1, <2>1, NewLabels DEF AssignPlan
<1>2. ASSUME NEW w \in Labelled(recs), NEW l \in Labels, plan = UnassignPlan(known, recs, w, l)
      PROVE  \E cat \in SUBSET Labels, ws \in SUBSET Present(recs) :
                \E a \in [ws -> SUBSET Labels] : plan = [catalog |-> cat, assigned |-> a]
  <2>1. {w} \cap Holders(recs, l) \in SUBSET Present(recs)
    BY DEF Labelled
  <2> QED
    BY <1>2, <2>1, NewLabels DEF UnassignPlan
<1>3. ASSUME NEW l \in known, NEW k \in Labels \ known, plan = RenamePlan(known, recs, l, k)
      PROVE  \E cat \in SUBSET Labels, ws \in SUBSET Present(recs) :
                \E a \in [ws -> SUBSET Labels] : plan = [catalog |-> cat, assigned |-> a]
  <2>1. Holders(recs, l) \in SUBSET Present(recs) /\ (known \ {l}) \cup {k} \in SUBSET Labels
    BY DEF Holders
  <2> QED
    BY <1>3, <2>1, NewLabels DEF RenamePlan
<1>4. ASSUME NEW l \in Labels, plan = DeletePlan(known, recs, l)
      PROVE  \E cat \in SUBSET Labels, ws \in SUBSET Present(recs) :
                \E a \in [ws -> SUBSET Labels] : plan = [catalog |-> cat, assigned |-> a]
  <2>1. (IF l \in known THEN Holders(recs, l) ELSE {}) \in SUBSET Present(recs)
    BY DEF Holders
  <2> QED
    BY <1>4, <2>1, NewLabels DEF DeletePlan
<1> QED
  BY <1>1, <1>2, <1>3, <1>4, PlanKinds

LEMMA PlanTypes ==
    ASSUME NEW known \in SUBSET Labels, NEW recs \in Records, NEW plan \in Plans(known, recs)
    PROVE  /\ plan \in Plan /\ DOMAIN plan.assigned \subseteq Present(recs)
           /\ Before(known, recs, plan) \in Plan
<1>1. \A w \in Present(recs) : recs[w].labels \in SUBSET Labels
  BY PresentRecord DEF Present
<1>2. PICK cat \in SUBSET Labels, ws \in SUBSET Present(recs) :
         \E a \in [ws -> SUBSET Labels] : plan = [catalog |-> cat, assigned |-> a]
  BY PlanShape
<1>3. PICK a \in [ws -> SUBSET Labels] : plan = [catalog |-> cat, assigned |-> a]
  BY <1>2
<1>4. ws \in SUBSET Workspaces
  BY DEF Present
<1>5. a \in Assignments /\ DOMAIN a = ws
  BY <1>4, MadeAssignment
<1>6. plan \in Plan /\ plan.assigned = a
  BY <1>3, <1>5 DEF Plan
<1>7. [w \in DOMAIN plan.assigned |-> recs[w].labels] \in Assignments
  <2>1. [w \in ws |-> recs[w].labels] \in [ws -> SUBSET Labels]
    BY <1>1
  <2> QED
    BY <2>1, <1>4, <1>5, <1>6, MadeAssignment
<1> QED
  BY <1>5, <1>6, <1>7 DEF Before, Plan

LEMMA SameRecords ==
    ASSUME NEW r \in Records, NEW q \in Records, \A w \in Workspaces : r[w] = q[w]
    PROVE  r = q
BY DEF Records

\* Rolling back twice is rolling back once
LEMMA RelabelledTwice ==
    ASSUME NEW recs \in Records, NEW a \in Assignments
    PROVE  Relabelled(Relabelled(recs, a), a) = Relabelled(recs, a)
<1>1. Relabelled(recs, a) \in Records
  BY RelabelledRecords
<1>2. Relabelled(Relabelled(recs, a), a) \in Records
  BY <1>1, RelabelledRecords
<1>3. ASSUME NEW w \in Workspaces
      PROVE  Relabelled(Relabelled(recs, a), a)[w] = Relabelled(recs, a)[w]
  <2>1. CASE w \in DOMAIN a /\ recs[w] # Absent
    <3>1. Relabelled(recs, a)[w] = [labels |-> a[w], archived |-> recs[w].archived]
      BY <2>1, RelabelledRecords
    <3>2. Relabelled(recs, a)[w] # Absent
      BY <2>1, RelabelledRecords DEF Present
    <3>3. Relabelled(Relabelled(recs, a), a)[w]
             = [labels |-> a[w], archived |-> Relabelled(recs, a)[w].archived]
      BY <2>1, <3>2, <1>1, RelabelledRecords
    <3> QED
      BY <3>1, <3>3
  <2>2. CASE ~(w \in DOMAIN a /\ recs[w] # Absent)
    BY <2>2, <1>1, RelabelledRecords
  <2> QED
    BY <2>1, <2>2
<1> QED
  BY <1>1, <1>2, <1>3, SameRecords

\* The before images of a plan undo it, and change nothing where it was not applied
LEMMA BeforeUndoes ==
    ASSUME NEW known \in SUBSET Labels, NEW recs \in Records, NEW plan \in Plans(known, recs)
    PROVE  /\ Relabelled(recs, Before(known, recs, plan).assigned) = recs
           /\ Relabelled(Relabelled(recs, plan.assigned), Before(known, recs, plan).assigned)
                 = recs
<1> DEFINE b == Before(known, recs, plan).assigned
           new == Relabelled(recs, plan.assigned)
<1>1. /\ plan.assigned \in Assignments /\ b \in Assignments
      /\ DOMAIN b = DOMAIN plan.assigned /\ DOMAIN b \subseteq Present(recs)
      /\ \A w \in DOMAIN b : b[w] = recs[w].labels
  <2>1. plan \in Plan /\ Before(known, recs, plan) \in Plan
    BY PlanTypes
  <2>3. DOMAIN plan.assigned \subseteq Present(recs)
    BY PlanTypes
  <2>5. DOMAIN b = DOMAIN plan.assigned
    BY DEF Before
  <2>4. \A w \in DOMAIN plan.assigned : b[w] = recs[w].labels
    BY DEF Before
  <2>2. \A p \in Plan : p.assigned \in Assignments
    BY DEF Plan
  <2> QED
    BY <2>1, <2>2, <2>3, <2>4, <2>5
<1> HIDE DEF b
<1>2. new \in Records /\ Present(new) = Present(recs)
  BY <1>1, RelabelledRecords
<1>3. Relabelled(recs, b) \in Records /\ Relabelled(new, b) \in Records
  BY <1>1, <1>2, RelabelledRecords
<1>4. ASSUME NEW w \in Workspaces
      PROVE  Relabelled(recs, b)[w] = recs[w] /\ Relabelled(new, b)[w] = recs[w]
  <2>1. CASE w \in DOMAIN b
    <3>1. recs[w] # Absent /\ recs[w] \in Record /\ new[w] # Absent
      BY <2>1, <1>1, <1>2, PresentRecord DEF Present
    <3>2. new[w] = [labels |-> plan.assigned[w], archived |-> recs[w].archived]
      BY <2>1, <3>1, <1>1, RelabelledRecords
    <3>3. /\ Relabelled(recs, b)[w] = [labels |-> b[w], archived |-> recs[w].archived]
          /\ Relabelled(new, b)[w] = [labels |-> b[w], archived |-> new[w].archived]
      BY <2>1, <3>1, <1>1, <1>2, RelabelledRecords
    <3>4. recs[w] = [labels |-> b[w], archived |-> recs[w].archived]
      BY <2>1, <3>1, <1>1 DEF Record
    <3> QED
      BY <3>2, <3>3, <3>4
  <2>2. CASE w \notin DOMAIN b
    <3>1. Relabelled(recs, b)[w] = recs[w] /\ Relabelled(new, b)[w] = new[w]
      BY <2>2, <1>1, <1>2, RelabelledRecords
    <3>2. new[w] = recs[w]
      BY <2>2, <1>1, RelabelledRecords
    <3> QED
      BY <3>1, <3>2
  <2> QED
    BY <2>1, <2>2
<1>5. Relabelled(recs, b) = recs
  BY <1>3, <1>4, SameRecords
<1>6. Relabelled(new, b) = recs
  BY <1>3, <1>4, SameRecords
<1> QED
  BY <1>5, <1>6 DEF b

-----------------------------------------------------------------------------
(* Types *)

LEMMA JournalTypes ==
    ASSUME StoreTypeOK
    PROVE  /\ Prepared => /\ marker \in Plan /\ marker.catalog \in SUBSET Labels
                          /\ marker.assigned \in Assignments
           /\ \A recs \in Records : Restarted(recs) \in Records
           /\ RestartCatalog \in SUBSET Labels
<1>1. Prepared => /\ marker \in Plan /\ marker.catalog \in SUBSET Labels
                  /\ marker.assigned \in Assignments
  BY DEF StoreTypeOK, Markers, Prepared, Plan
<1> QED
  BY <1>1, RelabelledRecords DEF Restarted, RestartCatalog, StoreTypeOK

LEMMA IsPrepared ==
    ASSUME NEW p \in Plan
    PROVE  p \in Markers /\ p \notin {Absent, Committed}
BY StoreAssumption DEF Markers

LEMMA SomePlan ==
    ASSUME StoreTypeOK, NEW plan \in Plans(labels, cache)
    PROVE  /\ plan \in Plan /\ plan.catalog \in SUBSET Labels /\ plan.assigned \in Assignments
           /\ Before(labels, cache, plan) \in Plan
<1>1. plan \in Plan /\ Before(labels, cache, plan) \in Plan
  BY PlanTypes DEF StoreTypeOK
<1>2. \A p \in Plan : p.catalog \in SUBSET Labels /\ p.assigned \in Assignments
  BY DEF Plan
<1> QED
  BY <1>1, <1>2

LEMMA InitTypes == StoreInit => StoreTypeOK
<1> SUFFICES ASSUME StoreInit PROVE StoreTypeOK
  OBVIOUS
<1>1. Unlabelled \in Records
  BY DEF Unlabelled, Records, Record
<1>2. Absent \in Plan \cup {Absent} /\ Absent \in Markers /\ Idle.at = "idle"
  BY DEF Markers, Idle
<1>3. Idle \in [at: Steps, plan: Plan \cup {Absent}]
  BY DEF Idle, Steps
<1> QED
  BY <1>1, <1>2, <1>3 DEF StoreInit, StoreTypeOK

\* What an action does to the operation in progress
LEMMA Gone ==
    ASSUME StoreTypeOK, NEW step \in Steps, Goes(step)
    PROVE  /\ commit' \in [at: Steps, plan: Plan \cup {Absent}]
           /\ commit'.at = step /\ commit'.plan = commit.plan
BY DEF StoreTypeOK, Goes

LEMMA Rests ==
    ASSUME commit' = Idle
    PROVE  /\ commit' \in [at: Steps, plan: Plan \cup {Absent}]
           /\ commit'.at = "idle"
BY DEF Idle, Steps

LEMMA OperationTypes ==
    ASSUME StoreInv, LabelSteps
    PROVE  StoreTypeOK'
<1> USE DEF StoreTypeOK, StoreInv
<1>0. Committed \in Markers /\ Absent \in Markers
  BY DEF Markers
<1>1. ASSUME NEW plan \in Plans(labels, cache), StagesPlan(plan) PROVE StoreTypeOK'
  <2>1. plan \in Plan
    BY SomePlan
  <2>2. commit' \in [at: Steps, plan: Plan \cup {Absent}] /\ commit'.at \in {"cleaning", "marking"}
    BY <1>1, <2>1 DEF StagesPlan, Steps
  <2> QED
    BY <1>1, <2>2 DEF StagesPlan, disk
<1>2. CASE PlannerThrows
  <2>1. commit' \in [at: Steps, plan: Plan \cup {Absent}] /\ commit'.at = "failed"
    BY <1>2, Gone DEF PlannerThrows, Steps
  <2> QED
    BY <1>2, <2>1 DEF PlannerThrows, disk, memory
<1>3. CASE WritesPrepared
  <2>1. commit.plan \in Plans(labels, cache) /\ ~blocked
    BY <1>3 DEF WritesPrepared, Forward, Writing, At, Idle
  <2>2. Before(labels, cache, commit.plan) \in Plan
    BY <2>1, SomePlan
  <2>3. Before(labels, cache, commit.plan) \in Markers /\ Before(labels, cache, commit.plan) \notin {Absent, Committed}
    BY <2>2, IsPrepared
  <2>4. commit' \in [at: Steps, plan: Plan \cup {Absent}] /\ commit'.at \in {"cataloging", "failed"}
    BY <1>3, Gone DEF WritesPrepared, Writes, Steps
  <2>5. commit'.at = "cataloging" => marker' = Before(labels, cache, commit.plan)
    BY <1>3, Gone DEF WritesPrepared, Writes, Steps
  <2>6. marker' \in Markers
    BY <1>3, <2>3 DEF WritesPrepared, Writes
  <2>7. commit'.at \in {"cataloging", "recording", "committing"} => Prepared'
    BY <2>3, <2>4, <2>5 DEF Prepared
  <2> QED
    BY <1>3, <2>1, <2>4, <2>6, <2>7 DEF WritesPrepared, memory
<1>4. CASE WritesCatalog
  <2>1. commit.plan \in Plans(labels, cache) /\ ~blocked
    BY <1>4 DEF WritesCatalog, Forward, Writing, At, Idle
  <2>2. commit.plan.catalog \in SUBSET Labels
    BY <2>1, SomePlan
  <2>3. /\ commit' \in [at: Steps, plan: Plan \cup {Absent}]
        /\ commit'.at \in {"recording", "committing", "failed"}
    BY <1>4, Gone DEF WritesCatalog, Writes, Steps
  <2>4. Prepared
    BY <1>4 DEF WritesCatalog, At
  <2>5. catalog' \in SUBSET Labels
    BY <1>4, <2>2 DEF WritesCatalog, Writes
  <2> QED
    BY <1>4, <2>1, <2>3, <2>4, <2>5 DEF WritesCatalog, memory, Prepared
<1>5. CASE WritesRecords
  <2>1. commit.plan \in Plans(labels, cache) /\ ~blocked
    BY <1>5 DEF WritesRecords, Forward, Writing, At, Idle
  <2>2. Relabelled(cache, commit.plan.assigned) \in Records
    BY <2>1, SomePlan, RelabelledRecords
  <2>3. /\ commit' \in [at: Steps, plan: Plan \cup {Absent}]
        /\ commit'.at \in {"committing", "failed"}
    BY <1>5, Gone DEF WritesRecords, Writes, Steps
  <2>4. Prepared
    BY <1>5 DEF WritesRecords, At
  <2>5. records' \in Records
    BY <1>5, <2>2 DEF WritesRecords, Writes
  <2> QED
    BY <1>5, <2>1, <2>3, <2>4, <2>5 DEF WritesRecords, memory, Prepared
<1>6. CASE WritesCommitted
  <2>1. commit.plan \in Plans(labels, cache) /\ ~blocked
    BY <1>6 DEF WritesCommitted, Forward, Writing, At, Idle
  <2>2. Relabelled(cache, commit.plan.assigned) \in Records /\ commit.plan.catalog \in SUBSET Labels
    BY <2>1, SomePlan, RelabelledRecords
  <2>3. commit' \in [at: Steps, plan: Plan \cup {Absent}] /\ commit'.at \in {"cleaning", "failed"}
    BY <1>6, Gone DEF WritesCommitted, Steps
  <2> QED
    BY <1>6, <1>0, <2>1, <2>2, <2>3 DEF WritesCommitted
<1>7. CASE Cleans
  BY <1>7, <1>0, Rests DEF Cleans, memory
<1>8. CASE ResolvesFailed
  <2>1. /\ commit' \in [at: Steps, plan: Plan \cup {Absent}]
        /\ commit'.at \in {"idle", "undo"}
        /\ blocked' => commit' = Idle
        /\ blocked' \in BOOLEAN
    <3>1. ~blocked
      BY <1>8 DEF ResolvesFailed, At, Idle
    <3>2. CASE Prepared /\ Goes("undo") /\ UNCHANGED blocked
      BY <3>1, <3>2, Gone DEF Steps
    <3> QED
      BY <1>8, <3>1, <3>2, Rests DEF ResolvesFailed, Blocks
  <2> QED
    BY <1>8, <2>1 DEF ResolvesFailed, disk
<1>9. CASE UndoesCatalog \/ UndoesRecords \/ UndoesMarker
  <2>1. Undoing /\ Prepared /\ ~blocked => StoreTypeOK'
    <3> SUFFICES ASSUME Undoing, Prepared, ~blocked PROVE StoreTypeOK'
      OBVIOUS
    <3>1. /\ marker.catalog \in SUBSET Labels /\ marker.assigned \in Assignments
          /\ Relabelled(cache, marker.assigned) \in Records
      BY JournalTypes, RelabelledRecords
    <3>2. catalog' \in SUBSET Labels /\ records' \in Records /\ marker' \in Markers
      BY <1>9, <3>1, <1>0 DEF UndoesCatalog, UndoesRecords, UndoesMarker, Undo
    <3>3. [w \in Workspaces |-> Absent] \in Records
      BY DEF Records
    <3>4. ASSUME UndoFails PROVE StoreTypeOK'
      <4>1. overwritten' = overwritten
        BY <1>9 DEF UndoesCatalog, UndoesRecords, UndoesMarker
      <4>2. CASE daemon = "up" /\ Blocks /\ UNCHANGED <<daemon, labels, cache, read>>
        BY <3>2, <4>1, <4>2, Rests DEF Blocks
      <4>3. CASE daemon = "starting" /\ Stopped
        BY <3>2, <3>3, <4>1, <4>3, Rests DEF Stopped
      <4> QED
        BY <3>4, <4>2, <4>3 DEF UndoFails
    <3>5. ASSUME NEW step \in {"undoRecords", "undoMarker"}, Goes(step),
                 UNCHANGED <<daemon, memory, read, overwritten>>
          PROVE  StoreTypeOK'
      <4>1. step \in Steps
        BY DEF Steps
      <4>2. commit' \in [at: Steps, plan: Plan \cup {Absent}] /\ commit'.at = step
        BY <3>5, <4>1, Gone
      <4> QED
        BY <3>2, <3>5, <4>2 DEF memory
    <3>6. CASE UndoesCatalog
      BY <3>4, <3>5, <3>6 DEF UndoesCatalog, Undo
    <3>7. CASE UndoesRecords
      BY <3>4, <3>5, <3>7 DEF UndoesRecords, Undo
    <3>8. CASE UndoesMarker
      BY <3>1, <3>2, <3>4, <3>8, Rests DEF UndoesMarker
    <3> QED
      BY <1>9, <3>6, <3>7, <3>8
  <2>2. Undoing
    BY <1>9 DEF UndoesCatalog, UndoesRecords, UndoesMarker, At, Undoing
  <2>3. ~blocked
    BY <2>2 DEF Undoing, Idle
  <2>4. Prepared
    BY <2>2 DEF Backward
  <2> QED
    BY <2>1, <2>2, <2>3, <2>4
<1> QED
  BY <1>1, <1>2, <1>3, <1>4, <1>5, <1>6, <1>7, <1>8, <1>9 DEF LabelSteps

LEMMA MutationTypes ==
    ASSUME StoreTypeOK, NEW recs \in Records, Mutates(recs),
           read' \in [workspace: Workspaces, record: Record] \cup {NoRead}
    PROVE  StoreTypeOK'
<1>1. overwritten' \in SUBSET Workspaces
  BY DEF Mutates, Present, StoreTypeOK
<1>2. commit' = commit /\ marker' = marker /\ blocked' = blocked
  BY DEF Mutates
<1> QED
  BY <1>1, <1>2 DEF Mutates, StoreTypeOK, Prepared

LEMMA MutationRecords ==
    ASSUME StoreTypeOK, NEW w \in Workspaces
    PROVE  /\ cache[w] # Absent => [cache EXCEPT ![w].archived = TRUE] \in Records
           /\ [cache EXCEPT ![w] = Absent] \in Records
           /\ \A r \in Record : /\ [r EXCEPT !.archived = FALSE] \in Record
                                /\ [cache EXCEPT ![w] = r] \in Records
<1>1. cache[w] # Absent => [cache EXCEPT ![w].archived = TRUE] \in Records
  <2>1. cache[w] # Absent => [cache[w] EXCEPT !.archived = TRUE] \in Record
    BY PresentRecord DEF Record, StoreTypeOK
  <2> QED
    BY <2>1 DEF StoreTypeOK, Records
<1>2. [cache EXCEPT ![w] = Absent] \in Records
  BY DEF StoreTypeOK, Records
<1>3. ASSUME NEW r \in Record
      PROVE [r EXCEPT !.archived = FALSE] \in Record /\ [cache EXCEPT ![w] = r] \in Records
  <2>1. [r EXCEPT !.archived = FALSE] \in Record
    BY DEF Record
  <2> QED
    BY <2>1 DEF StoreTypeOK, Records
<1> QED
  BY <1>1, <1>2, <1>3

LEMMA OtherTypes ==
    ASSUME StoreTypeOK, WhereItStands, RegistrySteps \/ StoreCrashes \/ StoreStarts \/ Loads
    PROVE  StoreTypeOK'
<1> USE DEF StoreTypeOK
<1>0. Committed \in Markers /\ Absent \in Markers
  BY DEF Markers
<1>1. ASSUME NEW w \in Workspaces, Archives(w) PROVE StoreTypeOK'
  BY <1>1, MutationTypes, MutationRecords DEF Archives, Present
<1>2. ASSUME NEW w \in Workspaces, RemovesWorkspace(w) PROVE StoreTypeOK'
  BY <1>2, MutationTypes, MutationRecords DEF RemovesWorkspace, Present
<1>3. ASSUME NEW w \in Workspaces, ReadsRecord(w) PROVE StoreTypeOK'
  <2>1. cache[w] \in Record
    BY <1>3, PresentRecord DEF ReadsRecord, Present
  <2>2. read' \in [workspace: Workspaces, record: Record]
    BY <1>3, <2>1 DEF ReadsRecord
  <2> QED
    BY <1>3, <2>2 DEF ReadsRecord, disk, memory, Prepared
<1>4. CASE Upserts
  <2>1. read.workspace \in Workspaces /\ read.record \in Record
    BY <1>4 DEF Upserts
  <2>2. [cache EXCEPT ![read.workspace] = [read.record EXCEPT !.archived = FALSE]] \in Records
    BY <2>1, MutationRecords
  <2> QED
    BY <1>4, <2>2, MutationTypes DEF Upserts
<1>5. CASE UpsertBlocked
  BY <1>5 DEF UpsertBlocked, disk, memory, Prepared
<1>6. CASE StoreCrashes
  <2>1. [w \in Workspaces |-> Absent] \in Records
    BY DEF Records
  <2> QED
    BY <1>6, <2>1, Rests DEF StoreCrashes, Stopped, disk
<1>7. CASE StoreStarts
  BY <1>7 DEF StoreStarts, disk, Prepared
<1>8. CASE Loads
  <2>1. CASE Prepared /\ Goes("undo") /\ UNCHANGED <<marker, daemon, labels>>
    <3>1. commit' \in [at: Steps, plan: Plan \cup {Absent}] /\ commit'.at = "undo"
      BY <2>1, Gone DEF Steps
    <3>2. ~blocked
      BY <1>8 DEF Loads, WhereItStands
    <3> QED
      BY <1>8, <2>1, <3>1, <3>2 DEF Loads
  <2>2. CASE /\ ~Prepared /\ labels' = catalog /\ marker' \in {marker, Absent}
             /\ daemon' = "up" /\ UNCHANGED commit
    BY <1>8, <2>2, <1>0 DEF Loads, At
  <2> QED
    BY <1>8, <2>1, <2>2 DEF Loads
<1> QED
  BY <1>1, <1>2, <1>3, <1>4, <1>5, <1>6, <1>7, <1>8 DEF RegistrySteps

-----------------------------------------------------------------------------
(* The stages of an operation *)

Stages == WhereItStands /\ Forward /\ Backward

LEMMA InitStages == StoreInit => Stages
BY DEF StoreInit, Stages, WhereItStands, Forward, Backward, Idle, At, Steady, Prepared, Undoing,
       Writing

LEMMA StagesPlanStages ==
    ASSUME StoreInv, NEW plan \in Plans(labels, cache), StagesPlan(plan)
    PROVE  Stages'
<1>1. /\ daemon = "up" /\ daemon' = "up" /\ ~blocked' /\ ~Prepared' /\ Steady'
      /\ commit'.plan = plan /\ commit'.at \in {"cleaning", "marking"}
      /\ plan \in Plans(labels', cache')
  BY DEF StoreInv, StagesPlan, Forward, Prepared, Steady, At, disk
<1> QED
  BY <1>1 DEF Stages, WhereItStands, Forward, Backward, At, Undoing, Writing

LEMMA PlannerThrowsStages ==
    ASSUME StoreInv, PlannerThrows
    PROVE  Stages'
<1>1. /\ daemon = "up" /\ daemon' = "up" /\ ~blocked' /\ ~Prepared' /\ Steady'
      /\ commit'.at = "failed"
  BY Gone DEF StoreInv, PlannerThrows, Forward, Prepared, Steady, At, disk, memory, Steps
<1> QED
  BY <1>1 DEF Stages, WhereItStands, Forward, Backward, At, Undoing, Writing

\* What the stages between the marker and the commit point leave to undo
LEMMA RestoresServed ==
    ASSUME StoreTypeOK, NEW plan \in Plans(labels, cache), Prepared,
           marker = Before(labels, cache, plan),
           records \in {cache, Relabelled(cache, plan.assigned)}
    PROVE  Restorable
<1>1. marker.catalog = labels
  BY DEF Before
<1>2. Restarted(cache) = cache /\ Restarted(Relabelled(cache, plan.assigned)) = cache
  BY BeforeUndoes DEF Restarted, StoreTypeOK
<1> QED
  BY <1>1, <1>2 DEF Restorable

\* The same after a step that writes the marker or the records
LEMMA FailsRestorable ==
    ASSUME StoreTypeOK', NEW plan \in Plans(labels', cache'), Prepared',
           marker' = Before(labels', cache', plan),
           records' \in {cache', Relabelled(cache', plan.assigned)},
           daemon' = "up", commit'.at = "failed"
    PROVE  Stages'
<1>1. Restorable'
  <2>1. marker'.catalog = labels'
    BY DEF Before
  <2>2. /\ Restarted(cache)' = cache'
        /\ Relabelled(Relabelled(cache', plan.assigned), marker'.assigned) = cache'
    BY BeforeUndoes DEF Restarted, StoreTypeOK
  <2>3. Restarted(records)' = cache'
    BY <2>2 DEF Restarted
  <2> QED
    BY <2>1, <2>2, <2>3 DEF Restorable
<1>2. marker' # Absent
  BY DEF Prepared
<1> QED
  BY <1>1, <1>2 DEF Stages, WhereItStands, Forward, Backward, At, Undoing, Writing

LEMMA WritesPreparedStages ==
    ASSUME StoreInv, StoreTypeOK', WritesPrepared
    PROVE  Stages'
<1>1. /\ daemon = "up" /\ daemon' = "up" /\ ~blocked /\ ~Prepared /\ Steady
      /\ labels' = labels /\ cache' = cache /\ catalog' = catalog /\ records' = records
      /\ commit.plan \in Plans(labels, cache)
      /\ blocked' = blocked
  BY DEF StoreInv, StoreTypeOK, WritesPrepared, WhereItStands, Forward, At, Writing, Idle, memory
<1>2. Before(labels, cache, commit.plan) \in Plan
  BY <1>1, SomePlan DEF StoreInv
<1>3. Before(labels, cache, commit.plan) \notin {Absent, Committed}
  BY <1>2, IsPrepared
<1>4. /\ Goes("cataloging") => commit'.at = "cataloging" /\ commit'.plan = commit.plan
      /\ Goes("failed") => commit'.at = "failed"
  BY Gone DEF StoreInv, Steps
<1>5. CASE marker' = Before(labels, cache, commit.plan) /\ Goes("cataloging")
  <2>1. Steady' /\ Prepared'
    BY <1>1, <1>3, <1>5 DEF Steady, Prepared
  <2> QED
    BY <1>1, <1>4, <1>5, <2>1 DEF Stages, WhereItStands, Forward, Backward, At, Undoing, Writing
<1>6. CASE marker' = Before(labels, cache, commit.plan) /\ Goes("failed")
  <2>1. records' = cache' /\ Prepared'
    BY <1>1, <1>3, <1>6 DEF Steady, Prepared
  <2> QED
    BY <1>1, <1>4, <1>6, <2>1, FailsRestorable
<1>7. CASE UNCHANGED marker /\ Goes("failed")
  <2>1. Steady' /\ ~Prepared'
    BY <1>1, <1>7 DEF Steady, Prepared
  <2> QED
    BY <1>1, <1>4, <1>7, <2>1 DEF Stages, WhereItStands, Forward, Backward, At, Undoing, Writing
<1> QED
  BY <1>5, <1>6, <1>7 DEF WritesPrepared, Writes

LEMMA WritesCatalogStages ==
    ASSUME StoreInv, StoreTypeOK', WritesCatalog
    PROVE  Stages'
<1>1. /\ daemon = "up" /\ daemon' = "up" /\ Prepared' /\ Steady
      /\ labels' = labels /\ cache' = cache /\ marker' = marker /\ records' = records
      /\ commit.plan \in Plans(labels, cache)
      /\ marker = Before(labels, cache, commit.plan)
      /\ ~blocked'
  BY DEF StoreInv, StoreTypeOK, WritesCatalog, WhereItStands, Forward, At, Writing, Prepared, memory, Idle
<1>2. records' = cache'
  BY <1>1 DEF Steady
<1>3. CASE Goes("failed")
  <2>1. commit'.at = "failed"
    BY <1>3, Gone DEF StoreInv, Steps
  <2> QED
    BY <1>1, <1>2, <2>1, FailsRestorable
<1>4. CASE /\ catalog' = commit.plan.catalog
           /\ Goes(IF DOMAIN commit.plan.assigned = {} THEN "committing" ELSE "recording")
  <2> DEFINE next == IF DOMAIN commit.plan.assigned = {} THEN "committing" ELSE "recording"
  <2>1. commit'.at = next /\ commit'.plan = commit.plan
    BY <1>4, Gone DEF StoreInv, Steps
  <2>2. commit'.at = "committing" => records' = Relabelled(cache', commit'.plan.assigned)
    <3>1. ASSUME DOMAIN commit.plan.assigned = {} PROVE Relabelled(cache, commit.plan.assigned) = cache
      <4>1. cache \in Records /\ commit.plan.assigned \in Assignments
        BY <1>1, SomePlan DEF StoreInv, StoreTypeOK
      <4>2. Relabelled(cache, commit.plan.assigned) \in Records
        BY <4>1, RelabelledRecords
      <4>3. \A w \in Workspaces : Relabelled(cache, commit.plan.assigned)[w] = cache[w]
        BY <3>1 DEF Relabelled
      <4> QED
        BY <4>1, <4>2, <4>3, SameRecords
    <3> QED
      BY <1>1, <1>2, <2>1, <3>1
  <2> QED
    BY <1>1, <1>2, <1>4, <2>1, <2>2
       DEF Stages, WhereItStands, Forward, Backward, At, Undoing, Writing
<1> QED
  BY <1>3, <1>4 DEF WritesCatalog, Writes

LEMMA WritesRecordsStages ==
    ASSUME StoreInv, StoreTypeOK', WritesRecords
    PROVE  Stages'
<1>1. /\ daemon = "up" /\ daemon' = "up" /\ Prepared' /\ records = cache
      /\ labels' = labels /\ cache' = cache /\ marker' = marker /\ catalog' = catalog
      /\ commit.plan \in Plans(labels, cache) /\ catalog = commit.plan.catalog
      /\ marker = Before(labels, cache, commit.plan)
      /\ ~blocked'
  BY DEF StoreInv, StoreTypeOK, WritesRecords, WhereItStands, Forward, At, Writing, Prepared, memory, Idle
<1>2. records' \in {cache', Relabelled(cache', commit.plan.assigned)}
  BY <1>1 DEF WritesRecords, Writes
<1>3. CASE Goes("failed")
  <2>1. commit'.at = "failed"
    BY <1>3, Gone DEF StoreInv, Steps
  <2> QED
    BY <1>1, <1>2, <2>1, FailsRestorable
<1>4. CASE records' = Relabelled(cache, commit.plan.assigned) /\ Goes("committing")
  <2>1. commit'.at = "committing" /\ commit'.plan = commit.plan
    BY <1>4, Gone DEF StoreInv, Steps
  <2> QED
    BY <1>1, <1>4, <2>1 DEF Stages, WhereItStands, Forward, Backward, At, Undoing, Writing
<1> QED
  BY <1>3, <1>4 DEF WritesRecords, Writes

LEMMA WritesCommittedStages ==
    ASSUME StoreInv, StoreTypeOK', WritesCommitted
    PROVE  Stages'
<1>1. /\ daemon = "up" /\ daemon' = "up" /\ Prepared
      /\ records' = records /\ catalog' = catalog /\ records = Relabelled(cache, commit.plan.assigned)
      /\ commit.plan \in Plans(labels, cache) /\ catalog = commit.plan.catalog
      /\ marker = Before(labels, cache, commit.plan)
      /\ ~blocked'
  BY DEF StoreInv, StoreTypeOK, WritesCommitted, WhereItStands, Forward, At, Writing, Prepared, Idle
<1>2. Goes("failed") => commit'.at = "failed"
  BY Gone DEF StoreInv, Steps
<1>3. CASE marker' = marker /\ Goes("failed") /\ UNCHANGED <<labels, cache>>
  BY <1>1, <1>2, <1>3, FailsRestorable DEF Prepared
<1>4. CASE marker' = Committed /\ Goes("failed") /\ UNCHANGED <<labels, cache>>
  <2>1. ~Prepared' /\ marker' # Absent
    BY <1>4, StoreAssumption DEF Prepared
  <2> QED
    BY <1>1, <1>2, <1>4, <2>1 DEF Stages, WhereItStands, Forward, Backward, At, Undoing, Writing
<1>5. CASE /\ marker' = Committed /\ labels' = commit.plan.catalog
           /\ cache' = Relabelled(cache, commit.plan.assigned) /\ Goes("cleaning")
  <2>1. commit'.at = "cleaning"
    BY <1>5, Gone DEF StoreInv, Steps
  <2>2. ~Prepared' /\ Steady'
    BY <1>1, <1>5 DEF Prepared, Steady
  <2> QED
    BY <1>1, <2>1, <2>2 DEF Stages, WhereItStands, Forward, Backward, At, Undoing, Writing
<1> QED
  BY <1>3, <1>4, <1>5 DEF WritesCommitted

LEMMA CleansStages ==
    ASSUME StoreInv, Cleans
    PROVE  Stages'
<1>1. daemon' = daemon /\ blocked' = blocked /\ commit'.at = "idle"
  BY Rests DEF Cleans, memory
<1>2. At("cleaning") /\ daemon = "up" /\ ~blocked
  BY DEF StoreInv, StoreTypeOK, WhereItStands, Cleans, At, Idle, Undoing
<1>3. ~Prepared' /\ Steady'
  BY <1>2 DEF Cleans, StoreInv, Forward, At, Prepared, Steady, memory
<1> QED
  BY <1>1, <1>2, <1>3 DEF Stages, WhereItStands, Forward, Backward, At, Undoing, Writing

LEMMA ResolvesFailedStages ==
    ASSUME StoreInv, ResolvesFailed
    PROVE  Stages'
<1>1. At("failed") /\ daemon = "up" /\ daemon' = "up"
  BY DEF StoreInv, WhereItStands, ResolvesFailed, At, Writing
<1>2. CASE marker = Absent /\ commit' = Idle /\ UNCHANGED blocked
  <2>1. ~Prepared' /\ Steady' /\ commit'.at = "idle"
    BY <1>1, <1>2, Rests DEF ResolvesFailed, StoreInv, Backward, disk, Prepared, Steady
  <2> QED
    BY <1>1, <2>1 DEF Stages, WhereItStands, Forward, Backward, At, Undoing, Writing
<1>3. CASE Prepared /\ Goes("undo") /\ UNCHANGED blocked
  <2>1. Prepared' /\ commit'.at = "undo"
    BY <1>1, <1>3, Gone DEF ResolvesFailed, StoreInv, disk, Prepared, Steps
  <2>2. Restorable'
    BY <1>1, <1>3 DEF StoreInv, Backward, ResolvesFailed, disk, Restorable, Restarted, Prepared
  <2> QED
    BY <1>1, <2>1, <2>2 DEF Stages, WhereItStands, Forward, Backward, At, Undoing, Writing
<1>4. CASE Blocks
  <2>1. blocked' /\ commit'.at = "idle"
    BY <1>4, Rests DEF Blocks
  <2> QED
    BY <1>1, <2>1 DEF Stages, WhereItStands, Forward, Backward, At, Undoing, Writing
<1> QED
  BY <1>2, <1>3, <1>4 DEF ResolvesFailed

LEMMA UndoFailsStages ==
    ASSUME UndoFails
    PROVE  Stages' /\ commit'.at = "idle" /\ (daemon' = "up" => blocked')
<1>1. CASE daemon = "up" /\ Blocks /\ UNCHANGED <<daemon, labels, cache, read>>
  <2>1. daemon' = "up" /\ blocked' /\ commit'.at = "idle"
    BY <1>1, Rests DEF Blocks
  <2> QED
    BY <2>1 DEF Stages, WhereItStands, Forward, Backward, At, Undoing, Writing
<1>2. CASE daemon = "starting" /\ Stopped
  <2>1. daemon' = "down" /\ ~blocked' /\ commit'.at = "idle"
    BY <1>2, Rests DEF Stopped
  <2> QED
    BY <2>1 DEF Stages, WhereItStands, Forward, Backward, At, Undoing, Writing
<1> QED
  BY <1>1, <1>2 DEF UndoFails

\* While it recovers, what the files hold rolls back to what the journal says
LEMMA Recovering ==
    ASSUME StoreInv, Undoing
    PROVE  /\ Prepared /\ daemon \in {"up", "starting"} /\ ~blocked
           /\ marker.catalog \in SUBSET Labels /\ marker.assigned \in Assignments
           /\ Relabelled(cache, marker.assigned) \in Records
           /\ ~At("undoMarker") => Restarted(records) = Relabelled(cache, marker.assigned)
           /\ daemon = "up" => Restorable
<1>1. Prepared /\ (daemon = "up" => Restorable)
  BY DEF StoreInv, Backward
<1>2. daemon \in {"up", "starting"} /\ ~blocked
  BY DEF StoreInv, StoreTypeOK, WhereItStands, Undoing, At, Idle
<1>3. marker.catalog \in SUBSET Labels /\ marker.assigned \in Assignments
  BY <1>1, JournalTypes DEF StoreInv
<1>4. Relabelled(cache, marker.assigned) \in Records
  BY <1>3, RelabelledRecords DEF StoreInv, StoreTypeOK
<1>5. ~At("undoMarker") => Restarted(records) = Relabelled(cache, marker.assigned)
  BY <1>1, <1>2 DEF StoreInv, Backward, Restorable, Restarted
<1> QED
  BY <1>1, <1>2, <1>3, <1>4, <1>5

LEMMA UndoesCatalogStages ==
    ASSUME StoreInv, UndoesCatalog
    PROVE  Stages'
<1>1. Undoing /\ At("undo") /\ records' = records /\ marker' = marker
      /\ overwritten' = overwritten
  BY DEF UndoesCatalog, Undoing, At
<1>2. /\ Prepared /\ daemon \in {"up", "starting"} /\ ~blocked
      /\ marker.assigned \in Assignments
      /\ Relabelled(cache, marker.assigned) \in Records
      /\ Restarted(records) = Relabelled(cache, marker.assigned)
      /\ daemon = "up" => Restorable
  BY <1>1, Recovering DEF At
<1>3. CASE UndoFails
  BY <1>3, UndoFailsStages
<1>4. ASSUME NEW next \in {"undoMarker", "undoRecords"}, Goes(next),
             next = "undoMarker" => DOMAIN marker.assigned \cap Present(cache) = {},
             catalog' = marker.catalog, UNCHANGED <<daemon, memory, read>>
      PROVE  Stages'
  <2>1. commit'.at = next
    BY <1>4, Gone DEF StoreInv, Steps
  <2>2. Prepared' /\ (daemon' = "up" => Restorable')
    BY <1>1, <1>2, <1>4 DEF Prepared, Restorable, Restarted, memory
  <2>3. daemon' = "starting" => cache' = records'
    BY <1>1, <1>4 DEF StoreInv, Backward, At, memory
  <2>4. next = "undoMarker" => records' = Restarted(cache)'
    <3> SUFFICES ASSUME next = "undoMarker" PROVE records = Relabelled(cache, marker.assigned)
      BY <1>1, <1>2, <1>4 DEF Restarted, Prepared, memory
    <3> DEFINE a == marker.assigned
    <3> HIDE DEF a
    <3>1. records \in Records /\ cache \in Records /\ a \in Assignments
      BY <1>2 DEF StoreInv, StoreTypeOK, a
    <3>2. Relabelled(records, a) = Relabelled(cache, a)
      BY <1>2 DEF Restarted, a
    <3>3. Present(records) = Present(cache)
      BY <3>1, <3>2, RelabelledRecords
    <3>4. DOMAIN a \cap Present(records) = {}
      BY <1>4, <3>3 DEF a
    <3>5. \A w \in Workspaces : Relabelled(records, a)[w] = records[w]
      BY <3>4 DEF Relabelled, Present
    <3>6. Relabelled(records, a) \in Records
      BY <3>1, RelabelledRecords
    <3>7. Relabelled(records, a) = records
      BY <3>1, <3>5, <3>6, SameRecords
    <3> QED
      BY <3>2, <3>7 DEF a
  <2>5. daemon' \in {"up", "starting"} /\ ~blocked' /\ catalog' = marker'.catalog
    BY <1>1, <1>2, <1>4 DEF memory
  <2> QED
    BY <2>1, <2>2, <2>3, <2>4, <2>5 DEF Stages, WhereItStands, Forward, Backward, At, Undoing, Writing
<1> QED
  BY <1>3, <1>4 DEF UndoesCatalog, Undo

LEMMA UndoesRecordsStages ==
    ASSUME StoreInv, UndoesRecords
    PROVE  Stages'
<1>1. Undoing /\ At("undoRecords") /\ catalog' = catalog /\ marker' = marker
      /\ overwritten' = overwritten
  BY DEF UndoesRecords, Undoing, At
<1>2. /\ Prepared /\ daemon \in {"up", "starting"} /\ ~blocked
      /\ marker.assigned \in Assignments /\ catalog = marker.catalog
      /\ daemon = "up" => Restorable
  BY <1>1, Recovering DEF At, StoreInv, Backward
<1>3. CASE UndoFails
  BY <1>3, UndoFailsStages
<1>4. CASE /\ records' = Relabelled(cache, marker.assigned) /\ Goes("undoMarker")
           /\ UNCHANGED <<daemon, memory, read>>
  <2>1. commit'.at = "undoMarker"
    BY <1>4, Gone DEF StoreInv, Steps
  <2>2. Relabelled(Relabelled(cache, marker.assigned), marker.assigned)
           = Relabelled(cache, marker.assigned)
    BY <1>2, RelabelledTwice DEF StoreInv, StoreTypeOK
  <2>3. Prepared' /\ records' = Restarted(cache)' /\ Restarted(records)' = Restarted(cache)'
    BY <1>1, <1>2, <1>4, <2>2 DEF Prepared, Restarted, memory
  <2>4. daemon' = "up" => Restorable'
    BY <1>1, <1>2, <1>4, <2>3 DEF Prepared, Restorable, Restarted, memory
  <2>5. daemon' \in {"up", "starting"} /\ ~blocked' /\ catalog' = marker'.catalog
    BY <1>1, <1>2, <1>4 DEF memory
  <2> QED
    BY <2>1, <2>3, <2>4, <2>5 DEF Stages, WhereItStands, Forward, Backward, At, Undoing, Writing
<1> QED
  BY <1>3, <1>4 DEF UndoesRecords, Undo

LEMMA UndoesMarkerStages ==
    ASSUME StoreInv, UndoesMarker
    PROVE  Stages'
<1>1. Undoing /\ At("undoMarker") /\ catalog' = catalog /\ records' = records
  BY DEF UndoesMarker, Undoing, At
<1>2. CASE UndoFails
  BY <1>2, UndoFailsStages
<1>3. CASE /\ marker' = Absent /\ labels' = marker.catalog
           /\ cache' = Relabelled(cache, marker.assigned)
           /\ daemon' = "up" /\ commit' = Idle
  <2>1. catalog = marker.catalog /\ records = Relabelled(cache, marker.assigned)
    BY <1>1, Recovering DEF StoreInv, Backward, At, Restarted
  <2>2. ~Prepared' /\ Steady' /\ commit'.at = "idle"
    BY <1>1, <1>3, <2>1, Rests DEF Prepared, Steady
  <2> QED
    BY <1>3, <2>2 DEF Stages, WhereItStands, Forward, Backward, At, Undoing, Writing
<1> QED
  BY <1>2, <1>3 DEF UndoesMarker

\* Other mutations rewrite records and cache alike, also in the middle of an operation
LEMMA MutatesStages ==
    ASSUME StoreInv, StoreTypeOK', NEW recs \in Records, Mutates(recs),
           daemon = "up" \/ (daemon = "starting" /\ At("idle"))
    PROVE  Stages'
<1>1. /\ records' = recs /\ cache' = recs /\ catalog' = catalog /\ marker' = marker
      /\ daemon' = daemon /\ labels' = labels /\ ~blocked /\ blocked' = blocked /\ commit' = commit
  BY DEF Mutates
<1>2. commit.at \in {"idle", "cleaning", "failed", "undo"}
  BY DEF Mutates, Locked, StoreInv, StoreTypeOK, Steps
<1>3. daemon = "up" /\ commit.at \in {"idle", "cleaning"} => ~Prepared' /\ Steady'
  BY <1>1, <1>2 DEF StoreInv, Forward, Prepared, Steady
<1>4. At("failed") /\ marker = Absent => Steady'
  BY <1>1 DEF StoreInv, Backward, Steady
<1>5. Undoing => Prepared'
  BY <1>1 DEF StoreInv, Backward, Prepared
<1>6. ASSUME daemon = "up", Undoing \/ (At("failed") /\ Prepared)
      PROVE  Restorable'
  <2>1. Restorable /\ Prepared
    BY <1>6 DEF StoreInv, Backward
  <2>2. marker.assigned \in Assignments /\ Restarted(recs) \in Records /\ Restarted(cache) \in Records
    BY <2>1, JournalTypes DEF StoreInv, StoreTypeOK
  <2>3. ASSUME NEW w \in Workspaces \ overwritten'
        PROVE  Restarted(recs)[w] = recs[w]
    <3>1. CASE recs[w] = Absent \/ w \notin DOMAIN marker.assigned
      BY <3>1, <2>1, <2>2, RelabelledRecords DEF Restarted
    <3>2. CASE recs[w] # Absent /\ w \in DOMAIN marker.assigned
      <4>1. /\ w \notin overwritten
            /\ LabelsOf(recs, w) = LabelsOf(cache, w)
            /\ LabelsOf(Restarted(recs), w) = LabelsOf(Restarted(records), w)
        BY <2>3, <3>2 DEF Mutates, Present
      <4>2. Restarted(records) = Restarted(cache) /\ Restarted(cache)[w] = cache[w]
        BY <2>1, <4>1 DEF Restorable
      <4>3. LabelsOf(Restarted(recs), w) = LabelsOf(recs, w)
        BY <4>1, <4>2 DEF LabelsOf
      <4>4. Restarted(recs)[w] = [labels |-> marker.assigned[w], archived |-> recs[w].archived]
        BY <2>1, <2>2, <3>2, RelabelledRecords DEF Restarted
      <4>5. recs[w] \in Record /\ LabelsOf(recs, w) = recs[w].labels
        BY <3>2, PresentRecord
      <4>6. Restarted(recs)[w] # Absent
        BY <2>1, <2>2, <3>2, RelabelledRecords DEF Restarted, Present
      <4>7. LabelsOf(Restarted(recs), w) = marker.assigned[w]
        BY <4>4, <4>6 DEF LabelsOf
      <4>8. recs[w] = [labels |-> recs[w].labels, archived |-> recs[w].archived]
        BY <4>5 DEF Record
      <4> QED
        BY <4>3, <4>4, <4>5, <4>7, <4>8
    <3> QED
      BY <3>1, <3>2
  <2>4. Restarted(records)' = Restarted(recs) /\ Restarted(cache)' = Restarted(recs)
    BY <1>1, <2>1 DEF Restarted, Prepared
  <2> QED
    BY <1>1, <2>1, <2>3, <2>4 DEF Restorable
<1> QED
  BY <1>1, <1>2, <1>3, <1>4, <1>5, <1>6
     DEF StoreInv, Stages, WhereItStands, Forward, Backward, At, Undoing, Writing, Prepared

LEMMA StopsStages ==
    ASSUME StoreInv, StoreCrashes \/ StoreStarts
    PROVE  Stages'
<1>1. CASE StoreCrashes
  <2>1. daemon' = "down" /\ ~blocked' /\ commit'.at = "idle"
    BY <1>1, Rests DEF StoreCrashes, Stopped
  <2> QED
    BY <2>1 DEF Stages, WhereItStands, Forward, Backward, At, Undoing, Writing
<1>2. CASE StoreStarts
  <2>1. daemon' = "starting" /\ ~blocked' /\ commit'.at = "idle" /\ cache' = records'
    BY <1>2 DEF StoreStarts, StoreInv, WhereItStands, At, disk
  <2> QED
    BY <2>1 DEF Stages, WhereItStands, Forward, Backward, At, Undoing, Writing
<1> QED
  BY <1>1, <1>2

LEMMA LoadsStages ==
    ASSUME StoreInv, Loads
    PROVE  Stages'
<1>1. /\ daemon = "starting" /\ At("idle") /\ cache = records /\ ~blocked'
      /\ catalog' = catalog /\ records' = records /\ cache' = cache
  BY DEF StoreInv, WhereItStands, Backward, Loads, At
<1>2. CASE Prepared /\ Goes("undo") /\ UNCHANGED <<marker, daemon, labels>>
  <2>1. commit'.at = "undo" /\ Prepared'
    BY <1>2, Gone DEF StoreInv, Prepared, Steps
  <2> QED
    BY <1>1, <1>2, <2>1 DEF Stages, WhereItStands, Forward, Backward, At, Undoing, Writing
<1>3. CASE /\ ~Prepared /\ labels' = catalog /\ marker' \in {marker, Absent}
           /\ daemon' = "up" /\ UNCHANGED commit
  <2>1. ~Prepared' /\ Steady' /\ commit'.at = "idle"
    BY <1>1, <1>3 DEF Prepared, Steady, At
  <2> QED
    BY <1>3, <2>1 DEF Stages, WhereItStands, Forward, Backward, At, Undoing, Writing
<1> QED
  BY <1>2, <1>3 DEF Loads

LEMMA InitStoreInv == StoreInit => StoreInv
BY InitTypes, InitStages DEF StoreInv, Stages

LEMMA NextStoreInv == StoreInv /\ [StoreNext]_storeVars => StoreInv'
<1> SUFFICES ASSUME StoreInv, [StoreNext]_storeVars PROVE StoreInv'
  OBVIOUS
<1>0. ASSUME StoreTypeOK', Stages' PROVE StoreInv'
  BY <1>0 DEF StoreInv, Stages
<1>1. CASE LabelSteps
  <2>1. StoreTypeOK'
    BY <1>1, OperationTypes
  <2>2. Stages'
    BY <1>1, <2>1, StagesPlanStages, PlannerThrowsStages, WritesPreparedStages, WritesCatalogStages,
       WritesRecordsStages, WritesCommittedStages, CleansStages, ResolvesFailedStages,
       UndoesCatalogStages, UndoesRecordsStages, UndoesMarkerStages DEF LabelSteps
  <2> QED
    BY <1>0, <2>1, <2>2
<1>2. CASE RegistrySteps
  <2>1. StoreTypeOK'
    BY <1>2, OtherTypes DEF StoreInv
  <2>2. ASSUME NEW w \in Workspaces, Archives(w) PROVE Stages'
    <3>1. [cache EXCEPT ![w].archived = TRUE] \in Records
      BY <2>2, MutationRecords DEF StoreInv, Archives, Present
    <3> QED
      BY <2>1, <2>2, <3>1, MutatesStages DEF Archives
  <2>3. ASSUME NEW w \in Workspaces, RemovesWorkspace(w) PROVE Stages'
    <3>1. [cache EXCEPT ![w] = Absent] \in Records
      BY MutationRecords DEF StoreInv
    <3> QED
      BY <2>1, <2>3, <3>1, MutatesStages DEF RemovesWorkspace
  <2>4. ASSUME Upserts PROVE Stages'
    <3>1. read.workspace \in Workspaces /\ read.record \in Record
      BY <2>4 DEF Upserts, StoreInv, StoreTypeOK
    <3>2. [cache EXCEPT ![read.workspace] = [read.record EXCEPT !.archived = FALSE]] \in Records
      BY <3>1, MutationRecords DEF StoreInv
    <3> QED
      BY <2>1, <2>4, <3>2, MutatesStages DEF Upserts
  <2>5. ASSUME UNCHANGED <<disk, daemon, memory, commit, overwritten>> PROVE Stages'
    BY <2>5 DEF StoreInv, Stages, WhereItStands, Forward, Backward, At, Undoing, Writing, Prepared,
                Steady, Restorable, Restarted, disk, memory
  <2>6. Stages'
    BY <1>2, <2>2, <2>3, <2>4, <2>5 DEF RegistrySteps, ReadsRecord, UpsertBlocked
  <2> QED
    BY <1>0, <2>1, <2>6
<1>3. CASE StoreCrashes \/ StoreStarts \/ Loads
  <2>1. StoreTypeOK'
    BY <1>3, OtherTypes DEF StoreInv
  <2>2. Stages'
    BY <1>3, StopsStages, LoadsStages
  <2> QED
    BY <1>0, <2>1, <2>2
<1>4. CASE UNCHANGED storeVars
  <2>1. StoreTypeOK'
    BY <1>4 DEF StoreInv, StoreTypeOK, storeVars, Prepared
  <2>2. Stages'
    BY <1>4 DEF StoreInv, Stages, WhereItStands, Forward, Backward, At, Undoing, Writing, Prepared,
                Steady, Restorable, Restarted, storeVars
  <2> QED
    BY <1>0, <2>1, <2>2
<1> QED
  BY <1>1, <1>2, <1>3, <1>4 DEF StoreNext

\* The journal, the two files and what is served agree as each stage says
THEOREM StoreInvHolds == StoreSpec => []StoreInv
<1>1. StoreInit => StoreInv
  BY InitStoreInv
<1>2. StoreInv /\ [StoreNext]_storeVars => StoreInv'
  BY NextStoreInv
<1> QED
  BY <1>1, <1>2, PTL DEF StoreSpec

-----------------------------------------------------------------------------
(***************************************************************************)
(* The refinement: what a restart would serve and what is served change    *)
(* together, by whole operations                                           *)
(***************************************************************************)
Pairs == [catalog: SUBSET Labels, records: Records]

LEMMA SeenRecords ==
    ASSUME StoreTypeOK, NEW recs \in Records
    PROVE  /\ Seen(recs) \in Records
           /\ Present(Seen(recs)) = Present(recs) \ overwritten
           /\ \A w \in Workspaces \ overwritten : Seen(recs)[w] = recs[w]
           /\ \A w \in overwritten : Seen(recs)[w] = Absent
BY DEF Seen, Records, Present, StoreTypeOK

LEMMA PairTypes ==
    ASSUME StoreTypeOK
    PROVE  Stored \in Pairs /\ Served \in Pairs
<1>1. Restarted(records) \in Records /\ RestartCatalog \in SUBSET Labels
  BY JournalTypes DEF StoreTypeOK
<1>2. Seen(Restarted(records)) \in Records /\ Seen(cache) \in Records
  BY <1>1, SeenRecords DEF StoreTypeOK
<1> QED
  BY <1>1, <1>2 DEF Stored, Served, Pairs, StoreTypeOK

\* Unless the daemon lost track, a restart would serve what is served
LEMMA UpAgrees ==
    ASSUME StoreInv, Mode = "up"
    PROVE  Stored = Served
<1>1. daemon = "up" /\ ~blocked /\ ~(At("failed") /\ marker = Committed)
  BY DEF Mode
<1> SUFFICES RestartCatalog = labels /\ Seen(Restarted(records)) = Seen(cache)
  BY <1>1 DEF Stored, Served
<1>2. CASE ~Prepared /\ Steady
  BY <1>2 DEF RestartCatalog, Restarted, Steady
<1>3. CASE Prepared /\ Restorable
  <2>1. RestartCatalog = labels
    BY <1>3 DEF RestartCatalog, Restorable
  <2>2. Restarted(records) \in Records /\ cache \in Records
    BY JournalTypes DEF StoreInv, StoreTypeOK
  <2>3. Seen(Restarted(records)) \in Records /\ Seen(cache) \in Records
    BY <2>2, SeenRecords DEF StoreInv
  <2>4. \A w \in Workspaces \ overwritten : Restarted(records)[w] = cache[w]
    BY <1>3 DEF Restorable
  <2>5. \A w \in Workspaces : Seen(Restarted(records))[w] = Seen(cache)[w]
    BY <2>4 DEF Seen
  <2>6. Seen(Restarted(records)) = Seen(cache)
    BY <2>3, <2>5, SameRecords
  <2> QED
    BY <2>1, <2>6
<1>4. CASE commit.at \in {"idle", "marking", "cleaning"}
  BY <1>1, <1>2, <1>4 DEF StoreInv, Forward
<1>5. CASE commit.at \in {"cataloging", "recording", "committing"}
  <2>1. /\ commit.plan \in Plans(labels, cache) /\ marker = Before(labels, cache, commit.plan)
        /\ records \in {cache, Relabelled(cache, commit.plan.assigned)}
    BY <1>5 DEF StoreInv, Forward, Writing, At, Steady
  <2>2. Prepared
    BY <1>5 DEF StoreInv, StoreTypeOK
  <2>3. Restorable
    BY <2>1, <2>2, RestoresServed DEF StoreInv
  <2> QED
    BY <1>3, <2>2, <2>3
<1>6. CASE At("failed")
  <2>1. CASE marker = Absent
    BY <1>2, <1>6, <2>1 DEF StoreInv, Backward, Prepared
  <2>2. CASE Prepared
    BY <1>1, <1>3, <1>6, <2>2 DEF StoreInv, Backward
  <2> QED
    BY <1>1, <1>6, <2>1, <2>2 DEF Prepared
<1>7. CASE Undoing
  BY <1>1, <1>3, <1>7 DEF StoreInv, Backward
<1> QED
  BY <1>4, <1>5, <1>6, <1>7 DEF StoreInv, StoreTypeOK, Steps, Undoing, At

LEMMA UpAgreesAfter == StoreInv' /\ Mode' = "up" => Stored' = Served'
<1>1. StoreInv /\ Mode = "up" => Stored = Served
  BY UpAgrees
<1>2. (StoreInv /\ Mode = "up" => Stored = Served)'
  BY <1>1, PTL
<1> QED
  BY <1>2

LEMMA SeenCommutes ==
    ASSUME StoreTypeOK, NEW recs \in Records, NEW a \in Assignments
    PROVE  Seen(Relabelled(recs, a)) = Relabelled(Seen(recs), a)
<1>1. Relabelled(recs, a) \in Records /\ Seen(recs) \in Records
  BY RelabelledRecords, SeenRecords
<1>2. Seen(Relabelled(recs, a)) \in Records /\ Relabelled(Seen(recs), a) \in Records
  BY <1>1, RelabelledRecords, SeenRecords
<1>3. ASSUME NEW w \in Workspaces
      PROVE  Seen(Relabelled(recs, a))[w] = Relabelled(Seen(recs), a)[w]
  BY DEF Seen, Relabelled
<1> QED
  BY <1>2, <1>3, SameRecords

\* The same relabelling, on workspaces where two assignments agree
LEMMA SameRelabelling ==
    ASSUME NEW recs \in Records, NEW a \in Assignments, NEW b \in Assignments,
           \A w \in Present(recs) : /\ w \in DOMAIN a <=> w \in DOMAIN b
                                    /\ w \in DOMAIN a => a[w] = b[w]
    PROVE  Relabelled(recs, a) = Relabelled(recs, b)
<1>1. Relabelled(recs, a) \in Records /\ Relabelled(recs, b) \in Records
  BY RelabelledRecords
<1>2. \A w \in Workspaces : Relabelled(recs, a)[w] = Relabelled(recs, b)[w]
  BY DEF Relabelled, Present
<1> QED
  BY <1>1, <1>2, SameRecords

LEMMA SeenHolders ==
    ASSUME StoreTypeOK, NEW recs \in Records, NEW l \in Labels
    PROVE  /\ Holders(Seen(recs), l) = Holders(recs, l) \ overwritten
           /\ Labelled(Seen(recs)) = Labelled(recs) \ overwritten
<1>1. /\ Present(Seen(recs)) = Present(recs) \ overwritten
      /\ \A w \in Workspaces \ overwritten : Seen(recs)[w] = recs[w]
  BY SeenRecords
<1> QED
  BY <1>1 DEF Holders, Labelled, Present

\* An operation planned on all the records is one on the records of the pair, or none
LEMMA PlanSeen ==
    ASSUME StoreTypeOK, NEW known \in SUBSET Labels, NEW recs \in Records,
           NEW plan \in Plans(known, recs)
    PROVE  [catalog |-> plan.catalog, records |-> Seen(Relabelled(recs, plan.assigned))]
              \in PairChanges([catalog |-> known, records |-> Seen(recs)])
<1> DEFINE p == [catalog |-> known, records |-> Seen(recs)]
           q == [catalog |-> plan.catalog, records |-> Seen(Relabelled(recs, plan.assigned))]
<1>1. plan.assigned \in Assignments
  <2>1. plan \in Plan
    BY PlanTypes
  <2> QED
    BY <2>1 DEF Plan
<1>2. q.records = Relabelled(Seen(recs), plan.assigned) /\ Seen(recs) \in Records
  BY <1>1, SeenCommutes, SeenRecords
<1>3. ASSUME NEW other \in Plans(known, Seen(recs)), other.catalog = plan.catalog,
             Relabelled(Seen(recs), other.assigned) = Relabelled(Seen(recs), plan.assigned)
      PROVE  q \in PairChanges(p)
  <2>1. q = [catalog |-> other.catalog, records |-> Relabelled(p.records, other.assigned)]
    BY <1>2, <1>3
  <2>2. other \in Plans(p.catalog, p.records)
    BY <1>3
  <2> QED
    BY <2>1, <2>2 DEF PairChanges
<1>4. ASSUME \A w \in Present(Seen(recs)) : w \notin DOMAIN plan.assigned
      PROVE  q = [p EXCEPT !.catalog = plan.catalog]
  <2>1. \A w \in Workspaces : Relabelled(Seen(recs), plan.assigned)[w] = Seen(recs)[w]
    BY <1>4 DEF Relabelled, Present
  <2>2. Relabelled(Seen(recs), plan.assigned) = Seen(recs)
    BY <1>1, <1>2, <2>1, RelabelledRecords, SameRecords
  <2> QED
    BY <1>2, <2>2
<1>5. ASSUME q = p PROVE q \in PairChanges(p)
  <2>1. p = [p EXCEPT !.records = Seen(recs)]
    OBVIOUS
  <2>2. Seen(recs) \in {r \in Records : \A w \in Present(r) :
                           LabelsOf(r, w) = LabelsOf(p.records, w)}
    BY <1>2
  <2> QED
    BY <1>5, <2>1, <2>2 DEF PairChanges
<1>6. ASSUME NEW w \in Labelled(recs), NEW l \in Labels, plan = AssignPlan(known, recs, w, l)
      PROVE  q \in PairChanges(p)
  <2>1. w \in Workspaces /\ w \in Present(recs)
    BY DEF Labelled, Present
  <2>2. CASE w \notin overwritten
    <3>1. /\ Seen(recs)[w] = recs[w] /\ w \in Labelled(Seen(recs))
          /\ {w} \ Holders(Seen(recs), l) = {w} \ Holders(recs, l)
      BY <2>1, <2>2, SeenRecords, SeenHolders
    <3>2. AssignPlan(known, Seen(recs), w, l) = plan
      BY <1>6, <3>1 DEF WithLabel, AssignPlan
    <3>3. plan \in Plans(known, Seen(recs))
      BY <3>1, <3>2, PlanKinds
    <3> QED
      BY <1>3, <3>3
  <2>3. CASE w \in overwritten
    <3>1. w \notin Present(Seen(recs))
      BY <2>3, SeenRecords
    <3>2. q = [p EXCEPT !.catalog = p.catalog \cup {l}]
      BY <1>4, <1>6, <3>1 DEF WithLabel, AssignPlan
    <3>3. Present(p.records) # Workspaces
      BY <2>1, <3>1
    <3> QED
      BY <3>2, <3>3 DEF PairChanges
  <2> QED
    BY <2>2, <2>3
<1>7. ASSUME NEW w \in Labelled(recs), NEW l \in Labels, plan = UnassignPlan(known, recs, w, l)
      PROVE  q \in PairChanges(p)
  <2>1. w \in Workspaces /\ w \in Present(recs)
    BY DEF Labelled, Present
  <2>2. CASE w \notin overwritten
    <3>1. /\ Seen(recs)[w] = recs[w] /\ w \in Labelled(Seen(recs))
          /\ {w} \cap Holders(Seen(recs), l) = {w} \cap Holders(recs, l)
      BY <2>1, <2>2, SeenRecords, SeenHolders
    <3>2. UnassignPlan(known, Seen(recs), w, l) = plan
      BY <1>7, <3>1 DEF WithoutLabel, UnassignPlan
    <3>3. plan \in Plans(known, Seen(recs))
      BY <3>1, <3>2, PlanKinds
    <3> QED
      BY <1>3, <3>3
  <2>3. CASE w \in overwritten
    <3>1. w \notin Present(Seen(recs))
      BY <2>3, SeenRecords
    <3>2. q = p
      BY <1>4, <1>7, <3>1 DEF WithoutLabel, UnassignPlan
    <3> QED
      BY <1>5, <3>2
  <2> QED
    BY <2>2, <2>3
<1>8. ASSUME NEW l \in known, NEW k \in Labels \ known, plan = RenamePlan(known, recs, l, k)
      PROVE  q \in PairChanges(p)
  <2> DEFINE other == RenamePlan(known, Seen(recs), l, k)
  <2>1. other \in Plans(known, Seen(recs))
    BY PlanKinds
  <2>2. other.assigned \in Assignments
    BY <1>2, <2>1, PlanTypes DEF Plan
  <2>3. \A w \in Present(Seen(recs)) :
           /\ w \in DOMAIN other.assigned <=> w \in DOMAIN plan.assigned
           /\ w \in DOMAIN other.assigned => other.assigned[w] = plan.assigned[w]
    <3>1. \A w \in Present(Seen(recs)) : w \in Workspaces \ overwritten /\ Seen(recs)[w] = recs[w]
      BY SeenRecords DEF Present
    <3> QED
      BY <1>8, <3>1, SeenHolders DEF Renamed, RenamePlan
  <2>4. Relabelled(Seen(recs), other.assigned) = Relabelled(Seen(recs), plan.assigned)
    BY <1>1, <1>2, <2>2, <2>3, SameRelabelling
  <2>5. other.catalog = plan.catalog
    BY <1>8 DEF RenamePlan
  <2> QED
    BY <1>3, <2>1, <2>4, <2>5
<1>9. ASSUME NEW l \in Labels, plan = DeletePlan(known, recs, l)
      PROVE  q \in PairChanges(p)
  <2> DEFINE other == DeletePlan(known, Seen(recs), l)
  <2>1. other \in Plans(known, Seen(recs))
    BY PlanKinds
  <2>2. other.assigned \in Assignments
    BY <1>2, <2>1, PlanTypes DEF Plan
  <2>3. \A w \in Present(Seen(recs)) :
           /\ w \in DOMAIN other.assigned <=> w \in DOMAIN plan.assigned
           /\ w \in DOMAIN other.assigned => other.assigned[w] = plan.assigned[w]
    <3>1. \A w \in Present(Seen(recs)) : w \in Workspaces \ overwritten /\ Seen(recs)[w] = recs[w]
      BY SeenRecords DEF Present
    <3> QED
      BY <1>9, <3>1, SeenHolders DEF WithoutLabel, DeletePlan
  <2>4. Relabelled(Seen(recs), other.assigned) = Relabelled(Seen(recs), plan.assigned)
    BY <1>1, <1>2, <2>2, <2>3, SameRelabelling
  <2>5. other.catalog = plan.catalog
    BY <1>9 DEF DeletePlan
  <2> QED
    BY <1>3, <2>1, <2>4, <2>5
<1> QED
  BY <1>6, <1>7, <1>8, <1>9, PlanKinds

Promise == StoredPair!Next \/ UNCHANGED StoredPair!vars

\* The steps of an operation that do not reach the commit point: what is served stays, and so
\* does what a restart would serve, whether the daemon keeps track or not
LEMMA QuietStep ==
    ASSUME StoreInv, StoreInv', Mode = "up", Mode' \in {"up", "uncertain"},
           UNCHANGED <<labels, cache, overwritten>>, daemon' = "up",
           Mode' = "uncertain" => Stored' = Stored
    PROVE  Promise
<1>1. Served' = Served
  BY DEF Served, Seen, Mode
<1>2. Stored = Served
  BY UpAgrees
<1>3. Mode' = "up" => Stored' = Served'
  BY UpAgreesAfter
<1>4. CASE Mode' = "up"
  BY <1>1, <1>2, <1>3, <1>4 DEF Promise, StoredPair!vars
<1>5. CASE Mode' = "uncertain"
  BY <1>1, <1>5 DEF Promise, StoredPair!Next, StoredPair!LoseTrack
<1> QED
  BY <1>4, <1>5

\* Nothing that the pair depends on changes
LEMMA SameStored ==
    ASSUME UNCHANGED <<disk, overwritten>>
    PROVE  Stored' = Stored
BY DEF disk, Stored, Seen, RestartCatalog, Restarted, Prepared

LEMMA StagesPlanKeeps ==
    ASSUME StoreInv, StoreInv', NEW plan \in Plans(labels, cache), StagesPlan(plan)
    PROVE  Promise
<1>1. Mode = "up" /\ Mode' = "up"
  BY DEF StagesPlan, Mode, At, disk
<1> QED
  BY <1>1, QuietStep DEF StagesPlan

LEMMA PlannerThrowsKeeps ==
    ASSUME StoreInv, StoreInv', PlannerThrows
    PROVE  Promise
<1>1. Mode = "up" /\ Mode' \in {"up", "uncertain"} /\ daemon' = "up"
  BY DEF PlannerThrows, Mode, At
<1>2. Stored' = Stored
  BY SameStored DEF PlannerThrows
<1> QED
  BY <1>1, <1>2, QuietStep DEF PlannerThrows, memory

LEMMA WritesKeep ==
    ASSUME StoreInv, StoreInv', WritesPrepared \/ WritesCatalog \/ WritesRecords
    PROVE  Promise
<1>1. /\ Writing /\ daemon = "up" /\ ~blocked /\ ~At("failed") /\ daemon' = "up" /\ ~blocked'
      /\ UNCHANGED <<labels, cache, overwritten>>
  BY DEF StoreInv, StoreTypeOK, WhereItStands, WritesPrepared, WritesCatalog, WritesRecords, At, Idle,
         Writing, memory
<1>2. Mode = "up" /\ Mode' \in {"up", "uncertain"}
  BY <1>1 DEF Mode
<1>3. Mode' = "uncertain" => marker' = Committed
  BY <1>1 DEF Mode
<1>4. marker' = Committed => UNCHANGED <<disk, overwritten>>
  <2>1. CASE WritesPrepared
    <3>1. commit.plan \in Plans(labels, cache)
      BY <1>1, <2>1 DEF StoreInv, Forward
    <3>2. Before(labels, cache, commit.plan) # Committed
      BY <3>1, SomePlan, IsPrepared DEF StoreInv
    <3> QED
      BY <1>1, <2>1, <3>2 DEF WritesPrepared, Writes, disk
  <2>2. CASE WritesCatalog \/ WritesRecords
    BY <2>2 DEF WritesCatalog, WritesRecords, StoreInv, StoreTypeOK, At, Prepared
  <2> QED
    BY <2>1, <2>2
<1>5. Mode' = "uncertain" => Stored' = Stored
  BY <1>3, <1>4, SameStored
<1> QED
  BY <1>1, <1>2, <1>5, QuietStep

\* The commit point: the pair changes by the whole plan
LEMMA WritesCommittedKeeps ==
    ASSUME StoreInv, StoreInv', WritesCommitted
    PROVE  Promise
<1>1. /\ daemon = "up" /\ daemon' = "up" /\ ~blocked /\ ~blocked' /\ Mode = "up"
      /\ overwritten' = overwritten
      /\ commit.plan \in Plans(labels, cache)
      /\ catalog' = commit.plan.catalog /\ records' = Relabelled(cache, commit.plan.assigned)
  BY DEF StoreInv, StoreTypeOK, WhereItStands, Forward, WritesCommitted, At, Idle, Writing, Mode
<1>2. Stored = Served /\ Served = [catalog |-> labels, records |-> Seen(cache)]
  BY <1>1, UpAgrees DEF Served
<1>3. [catalog |-> commit.plan.catalog, records |-> Seen(Relabelled(cache, commit.plan.assigned))]
         \in PairChanges(Stored)
  BY <1>1, <1>2, PlanSeen DEF StoreInv, StoreTypeOK
<1>4. marker' = Committed => Stored' \in PairChanges(Stored)
  <2> SUFFICES ASSUME marker' = Committed PROVE Stored' \in PairChanges(Stored)
    OBVIOUS
  <2>1. Stored' = [catalog |-> catalog', records |-> Seen(records)']
    BY DEF Stored, RestartCatalog, Restarted, Prepared, Seen
  <2>2. Seen(records)' = Seen(Relabelled(cache, commit.plan.assigned))
    BY <1>1 DEF Seen
  <2> QED
    BY <1>1, <1>3, <2>1, <2>2
<1>5. Goes("failed") => commit'.at = "failed"
  BY Gone DEF StoreInv, Steps
<1>6. CASE marker' = Committed /\ Goes("cleaning")
  <2>1. Mode' = "up"
    BY <1>1, <1>6, Gone DEF StoreInv, Steps, Mode, At
  <2>2. Stored' = Served'
    BY <2>1, UpAgreesAfter
  <2> QED
    BY <1>1, <1>2, <1>4, <1>6, <2>1, <2>2 DEF Promise, StoredPair!Next, StoredPair!Commit
<1>7. CASE marker' = Committed /\ Goes("failed") /\ UNCHANGED <<labels, cache>>
  <2>1. Mode' = "uncertain"
    BY <1>1, <1>5, <1>7 DEF Mode, At
  <2>2. Served' = Served
    BY <1>1, <1>7 DEF Served, Seen
  <2> QED
    BY <1>1, <1>4, <1>7, <2>1, <2>2 DEF Promise, StoredPair!Next, StoredPair!LoseTrack
<1>8. CASE marker' = marker /\ Goes("failed") /\ UNCHANGED <<labels, cache>>
  <2>1. marker # Committed
    BY DEF WritesCommitted, StoreInv, StoreTypeOK, At, Prepared
  <2>2. Mode' = "up"
    BY <1>1, <1>8, <2>1 DEF Mode
  <2> QED
    BY <1>1, <1>8, <2>2, QuietStep
<1> QED
  BY <1>6, <1>7, <1>8 DEF WritesCommitted

LEMMA CleansKeeps ==
    ASSUME StoreInv, StoreInv', Cleans
    PROVE  Promise
<1>1. daemon = "up" /\ ~blocked
  BY DEF StoreInv, StoreTypeOK, WhereItStands, Cleans, At, Idle, Undoing
<1>2. Mode = "up" /\ Mode' = "up" /\ daemon' = "up"
  BY <1>1, Rests DEF Cleans, Mode, At, memory
<1> QED
  BY <1>2, QuietStep DEF Cleans, memory

LEMMA ResolvesFailedKeeps ==
    ASSUME StoreInv, StoreInv', ResolvesFailed
    PROVE  Promise
<1>1. /\ At("failed") /\ daemon = "up" /\ daemon' = "up"
      /\ UNCHANGED <<labels, cache, overwritten>> /\ Stored' = Stored
  BY SameStored DEF StoreInv, WhereItStands, ResolvesFailed, At, Writing
<1>2. Served' = Served
  BY <1>1 DEF Served, Seen
<1>3. Mode \in {"up", "uncertain"} /\ Mode' \in {"up", "uncertain"}
  BY <1>1 DEF Mode
<1>4. CASE Mode = "up"
  BY <1>1, <1>3, <1>4, QuietStep
<1>5. CASE Mode = "uncertain"
  <2>1. ~blocked
    BY <1>1 DEF StoreInv, StoreTypeOK, At, Idle
  <2>2. marker = Committed
    BY <1>1, <1>5, <2>1 DEF Mode
  <2>3. blocked'
    BY <2>2, StoreAssumption DEF ResolvesFailed, Blocks, Prepared
  <2>4. Mode' = "uncertain"
    BY <1>1, <2>3 DEF Mode
  <2> QED
    BY <1>1, <1>2, <1>5, <2>4 DEF Promise, StoredPair!vars
<1> QED
  BY <1>3, <1>4, <1>5

\* Rolling back leaves what a restart would serve
LEMMA UndoKeepsStored ==
    ASSUME StoreInv, UndoesCatalog \/ UndoesRecords \/ UndoesMarker
    PROVE  Stored' = Stored
<1>1. /\ Prepared /\ marker.assigned \in Assignments
      /\ ~At("undoMarker") => Restarted(records) = Relabelled(cache, marker.assigned)
  BY Recovering DEF UndoesCatalog, UndoesRecords, UndoesMarker, Undoing, At
<1>2. Relabelled(Relabelled(cache, marker.assigned), marker.assigned)
         = Relabelled(cache, marker.assigned)
  BY <1>1, RelabelledTwice DEF StoreInv, StoreTypeOK
<1>3. overwritten' = overwritten
  BY DEF UndoesCatalog, UndoesRecords, UndoesMarker
<1>4. RestartCatalog' = RestartCatalog /\ Restarted(records)' = Restarted(records)
  <2>1. CASE UndoesCatalog
    BY <1>1, <2>1 DEF UndoesCatalog, RestartCatalog, Restarted, Prepared
  <2>2. CASE UndoesRecords
    <3>1. RestartCatalog' = RestartCatalog
      BY <1>1, <2>2 DEF UndoesRecords, RestartCatalog, Prepared
    <3>2. records' \in {records, Relabelled(cache, marker.assigned)} /\ Prepared' /\ marker' = marker
      BY <1>1, <2>2 DEF UndoesRecords, Undo, Prepared
    <3>3. Restarted(records) = Relabelled(cache, marker.assigned)
      BY <1>1, <2>2 DEF UndoesRecords, At
    <3> QED
      BY <1>1, <1>2, <3>1, <3>2, <3>3 DEF Restarted
  <2>3. CASE UndoesMarker
    <3>1. catalog = marker.catalog /\ records = Restarted(cache)
      BY <2>3 DEF UndoesMarker, StoreInv, Backward, At
    <3>2. RestartCatalog = catalog /\ Restarted(records) = records
      BY <1>1, <1>2, <3>1 DEF RestartCatalog, Restarted
    <3>3. catalog' = catalog /\ records' = records /\ marker' \in {marker, Absent}
      BY <2>3 DEF UndoesMarker
    <3>4. CASE marker' = marker
      BY <3>3, <3>4 DEF RestartCatalog, Restarted, Prepared
    <3>5. CASE marker' = Absent
      <4>1. ~Prepared'
        BY <3>5 DEF Prepared
      <4> QED
        BY <3>2, <3>3, <4>1 DEF RestartCatalog, Restarted
    <3> QED
      BY <3>3, <3>4, <3>5
  <2> QED
    BY <2>1, <2>2, <2>3
<1> QED
  BY <1>3, <1>4 DEF Stored, Seen

LEMMA UndoKeeps ==
    ASSUME StoreInv, StoreInv', UndoesCatalog \/ UndoesRecords \/ UndoesMarker
    PROVE  Promise
<1>1. Stored' = Stored
  BY UndoKeepsStored
<1>2. Undoing /\ daemon \in {"up", "starting"} /\ ~blocked /\ overwritten' = overwritten
  BY Recovering DEF UndoesCatalog, UndoesRecords, UndoesMarker, Undoing, At
<1>3. CASE daemon = "up"
  <2>1. Mode = "up"
    BY <1>2, <1>3 DEF Mode, Undoing, At
  <2>2. daemon' = "up"
    BY <1>3 DEF UndoesCatalog, UndoesRecords, UndoesMarker, Undo, UndoFails
  <2>3. Mode' \in {"up", "uncertain"}
    BY <2>2 DEF Mode
  <2>4. CASE UndoesMarker /\ commit' = Idle /\ UNCHANGED <<blocked, read>>
    <3>1. Mode' = "up"
      BY <1>2, <2>2, <2>4, Rests DEF Mode, At
    <3>2. Stored' = Served' /\ Stored = Served
      BY <2>1, <3>1, UpAgrees, UpAgreesAfter
    <3> QED
      BY <1>1, <2>1, <3>1, <3>2 DEF Promise, StoredPair!vars
  <2>5. CASE UNCHANGED <<labels, cache>>
    BY <1>1, <1>2, <2>1, <2>2, <2>3, <2>5, QuietStep
  <2> QED
    BY <1>3, <2>4, <2>5 DEF UndoesCatalog, UndoesRecords, UndoesMarker, Undo, UndoFails, Stopped, memory
<1>4. CASE daemon = "starting"
  <2>1. Mode = "down" /\ Served = Stored
    BY <1>4 DEF Mode, Served
  <2>2. CASE daemon' # "up"
    <3>1. Mode' = "down" /\ Served' = Stored'
      BY <2>2 DEF Mode, Served
    <3> QED
      BY <1>1, <2>1, <3>1 DEF Promise, StoredPair!vars
  <2>3. CASE daemon' = "up"
    <3>1. commit' = Idle /\ blocked' = blocked
      BY <1>4, <2>3 DEF UndoesCatalog, UndoesRecords, UndoesMarker, Undo, UndoFails, Stopped
    <3>2. Mode' = "up"
      BY <1>2, <2>3, <3>1, Rests DEF Mode, At
    <3>3. Served' = Stored'
      BY <3>2, UpAgreesAfter
    <3> QED
      BY <1>1, <2>1, <3>2, <3>3 DEF Promise, StoredPair!Next, StoredPair!Restart
  <2> QED
    BY <2>2, <2>3
<1> QED
  BY <1>2, <1>3, <1>4

LEMMA StopsKeep ==
    ASSUME StoreInv, StoreInv', StoreCrashes \/ StoreStarts \/ Loads
    PROVE  Promise
<1>1. CASE StoreCrashes
  <2>1. Stored' = Stored
    BY <1>1, SameStored DEF StoreCrashes
  <2>2. Mode' = "down" /\ Served' = Stored'
    BY <1>1 DEF StoreCrashes, Stopped, Mode, Served
  <2> QED
    BY <2>1, <2>2 DEF Promise, StoredPair!Next, StoredPair!Crash
<1>2. CASE StoreStarts
  <2>1. Stored' = Stored
    BY <1>2, SameStored DEF StoreStarts
  <2>2. Mode = "down" /\ Mode' = "down" /\ Served = Stored /\ Served' = Stored'
    BY <1>2 DEF StoreStarts, Mode, Served
  <2> QED
    BY <2>1, <2>2 DEF Promise, StoredPair!vars
<1>3. CASE Loads
  <2>1. /\ daemon = "starting" /\ At("idle") /\ ~blocked /\ ~blocked'
        /\ catalog' = catalog /\ records' = records /\ overwritten' = overwritten
    BY <1>3 DEF Loads, StoreInv, WhereItStands
  <2>2. Mode = "down" /\ Served = Stored
    BY <2>1 DEF Mode, Served
  <2>3. CASE Prepared /\ UNCHANGED <<marker, daemon, labels>>
    <3>1. Stored' = Stored
      BY <2>1, <2>3, SameStored DEF disk
    <3>2. Mode' = "down" /\ Served' = Stored'
      BY <2>1, <2>3 DEF Mode, Served
    <3> QED
      BY <2>2, <3>1, <3>2 DEF Promise, StoredPair!vars
  <2>4. CASE ~Prepared /\ marker' \in {marker, Absent} /\ daemon' = "up" /\ UNCHANGED commit
    <3>1. ~Prepared'
      BY <2>4 DEF Prepared
    <3>2. Stored' = Stored
      BY <2>1, <2>4, <3>1 DEF Stored, Seen, RestartCatalog, Restarted
    <3>3. Mode' = "up"
      BY <2>1, <2>4 DEF Mode, At
    <3>4. Served' = Stored'
      BY <3>3, UpAgreesAfter
    <3> QED
      BY <2>2, <3>2, <3>3, <3>4 DEF Promise, StoredPair!Next, StoredPair!Restart
  <2> QED
    BY <1>3, <2>3, <2>4 DEF Loads
<1> QED
  BY <1>1, <1>2, <1>3

\* A plain mutation changes the labels of no workspace that the pair still has
LEMMA MutatesChanges ==
    ASSUME StoreInv, StoreInv', NEW recs \in Records, Mutates(recs)
    PROVE  /\ Stored' \in PairChanges(Stored)
           /\ Seen(cache)' \in {r \in Records : \A w \in Present(r) :
                                   LabelsOf(r, w) = LabelsOf(Seen(cache), w)}
<1>1. /\ records' = recs /\ cache' = recs /\ catalog' = catalog /\ marker' = marker
      /\ overwritten \subseteq overwritten'
      /\ \A w \in Present(recs) \ overwritten' :
            /\ LabelsOf(recs, w) = LabelsOf(cache, w)
            /\ LabelsOf(Restarted(recs), w) = LabelsOf(Restarted(records), w)
  BY DEF Mutates
<1>2. /\ Restarted(recs) \in Records /\ Restarted(records) \in Records
      /\ Present(Restarted(recs)) = Present(recs)
  BY JournalTypes, RelabelledRecords DEF StoreInv, StoreTypeOK, Restarted
<1> DEFINE Hidden(r) == [w \in Workspaces |-> IF w \in overwritten' THEN Absent ELSE r[w]]
<1>3. ASSUME NEW new \in Records, NEW old \in Records,
             \A w \in Present(new) \ overwritten' : LabelsOf(new, w) = LabelsOf(old, w)
      PROVE  Hidden(new) \in {r \in Records : \A w \in Present(r) :
                                 LabelsOf(r, w) = LabelsOf(Seen(old), w)}
  <2>1. Hidden(new) \in Records
    BY DEF Records
  <2>2. ASSUME NEW w \in Present(Hidden(new)) PROVE LabelsOf(Hidden(new), w) = LabelsOf(Seen(old), w)
    <3>1. w \in Workspaces /\ w \notin overwritten' /\ w \in Present(new) /\ Hidden(new)[w] = new[w]
      BY DEF Present
    <3>2. w \notin overwritten /\ Seen(old)[w] = old[w]
      BY <1>1, <3>1 DEF Seen
    <3> QED
      BY <1>3, <3>1, <3>2 DEF LabelsOf
  <2> QED
    BY <2>1, <2>2
<1>4. Seen(cache)' = Hidden(recs)
  BY <1>1 DEF Seen
<1>5. Hidden(recs) \in {r \in Records : \A w \in Present(r) :
                           LabelsOf(r, w) = LabelsOf(Seen(cache), w)}
  BY <1>1, <1>3 DEF StoreInv, StoreTypeOK
<1>6. Hidden(Restarted(recs)) \in {r \in Records : \A w \in Present(r) :
                                      LabelsOf(r, w) = LabelsOf(Seen(Restarted(records)), w)}
  BY <1>1, <1>2, <1>3
<1>7. Stored' = [Stored EXCEPT !.records = Hidden(Restarted(recs))]
  <2>1. RestartCatalog' = RestartCatalog /\ Restarted(records)' = Restarted(recs)
    BY <1>1 DEF RestartCatalog, Restarted, Prepared
  <2>2. Seen(Restarted(records))' = Hidden(Restarted(recs))
    BY <2>1 DEF Seen
  <2>3. Stored' = [catalog |-> RestartCatalog', records |-> Seen(Restarted(records))']
    BY DEF Stored
  <2>4. Stored = [catalog |-> RestartCatalog, records |-> Seen(Restarted(records))]
    BY DEF Stored
  <2> HIDE DEF Hidden
  <2> QED
    BY <2>1, <2>2, <2>3, <2>4
<1>8. Stored' \in PairChanges(Stored)
  <2>1. Stored.records = Seen(Restarted(records))
    BY DEF Stored
  <2> HIDE DEF Hidden
  <2> QED
    BY <1>6, <1>7, <2>1 DEF PairChanges
<1> QED
  BY <1>4, <1>5, <1>8

LEMMA MutatesKeeps ==
    ASSUME StoreInv, StoreInv', NEW recs \in Records, Mutates(recs)
    PROVE  Promise
<1>1. /\ Stored' \in PairChanges(Stored)
      /\ Seen(cache)' \in {r \in Records : \A w \in Present(r) :
                              LabelsOf(r, w) = LabelsOf(Seen(cache), w)}
  BY MutatesChanges
<1>2. UNCHANGED <<marker, daemon, labels, blocked, commit>>
  BY DEF Mutates
<1>3. Mode' = Mode
  BY <1>2 DEF Mode, At
<1>4. Served' \in PairChanges(Served)
  <2>1. CASE daemon = "up"
    <3>1. Served = [catalog |-> labels, records |-> Seen(cache)]
      BY <2>1 DEF Served
    <3>2. Served' = [catalog |-> labels', records |-> Seen(cache)']
      BY <1>2, <2>1 DEF Served
    <3>3. Served' = [Served EXCEPT !.records = Seen(cache)']
      BY <1>2, <3>1, <3>2
    <3> QED
      BY <1>1, <3>1, <3>3 DEF PairChanges
  <2>2. CASE daemon # "up"
    BY <1>1, <1>2, <2>2 DEF Served
  <2> QED
    BY <2>1, <2>2
<1>5. Mode # "uncertain" => Served' = Stored'
  <2>1. CASE Mode = "up"
    BY <1>3, <2>1, UpAgreesAfter
  <2>2. CASE daemon # "up"
    BY <1>2, <2>2 DEF Served
  <2> QED
    BY <2>1, <2>2 DEF Mode
<1> QED
  BY <1>1, <1>3, <1>4, <1>5 DEF Promise, StoredPair!Next, StoredPair!Commit

LEMMA RegistryKeeps ==
    ASSUME StoreInv, StoreInv', RegistrySteps
    PROVE  Promise
<1>1. ASSUME NEW w \in Workspaces, Archives(w) PROVE Promise
  <2>1. [cache EXCEPT ![w].archived = TRUE] \in Records
    BY <1>1, MutationRecords DEF StoreInv, Archives, Present
  <2> QED
    BY <1>1, <2>1, MutatesKeeps DEF Archives
<1>2. ASSUME NEW w \in Workspaces, RemovesWorkspace(w) PROVE Promise
  <2>1. [cache EXCEPT ![w] = Absent] \in Records
    BY MutationRecords DEF StoreInv
  <2> QED
    BY <1>2, <2>1, MutatesKeeps DEF RemovesWorkspace
<1>3. CASE Upserts
  <2>1. read.workspace \in Workspaces /\ read.record \in Record
    BY <1>3 DEF Upserts, StoreInv, StoreTypeOK
  <2>2. [cache EXCEPT ![read.workspace] = [read.record EXCEPT !.archived = FALSE]] \in Records
    BY <2>1, MutationRecords DEF StoreInv
  <2> QED
    BY <1>3, <2>2, MutatesKeeps DEF Upserts
<1>4. ASSUME UNCHANGED <<disk, daemon, memory, commit, overwritten>> PROVE Promise
  <2>1. Stored' = Stored
    BY <1>4, SameStored
  <2>2. Served' = Served
    BY <1>4, <2>1 DEF Served, Seen, memory
  <2>3. Mode' = Mode
    BY <1>4 DEF Mode, At, memory, disk
  <2> QED
    BY <2>1, <2>2, <2>3 DEF Promise, StoredPair!vars
<1> QED
  BY <1>1, <1>2, <1>3, <1>4 DEF RegistrySteps, ReadsRecord, UpsertBlocked

LEMMA InitPair == StoreInit => StoredPair!Init
<1> SUFFICES ASSUME StoreInit PROVE StoredPair!Init
  OBVIOUS
<1>1. Mode = "up" /\ Stored = Served
  <2>1. Mode = "up"
    BY DEF StoreInit, Mode, At, Idle
  <2> QED
    BY <2>1, InitStoreInv, UpAgrees
<1>2. Seen(cache) = Unlabelled
  BY DEF StoreInit, Seen, Unlabelled
<1>3. Served = [catalog |-> {}, records |-> Unlabelled]
  BY <1>2 DEF StoreInit, Served
<1> QED
  BY <1>1, <1>3 DEF StoredPair!Init

LEMMA NextPair == StoreInv /\ StoreInv' /\ [StoreNext]_storeVars => Promise
<1> SUFFICES ASSUME StoreInv, StoreInv', [StoreNext]_storeVars PROVE Promise
  OBVIOUS
<1>1. CASE LabelSteps
  BY <1>1, StagesPlanKeeps, PlannerThrowsKeeps, WritesKeep, WritesCommittedKeeps, CleansKeeps,
     ResolvesFailedKeeps, UndoKeeps DEF LabelSteps
<1>2. CASE RegistrySteps
  BY <1>2, RegistryKeeps
<1>3. CASE StoreCrashes \/ StoreStarts \/ Loads
  BY <1>3, StopsKeep
<1>4. CASE UNCHANGED storeVars
  <2>1. Stored' = Stored
    BY <1>4, SameStored DEF storeVars, disk
  <2>2. Served' = Served
    BY <1>4, <2>1 DEF Served, Seen, storeVars
  <2>3. Mode' = Mode
    BY <1>4 DEF Mode, At, storeVars
  <2> QED
    BY <2>1, <2>2, <2>3 DEF Promise, StoredPair!vars
<1> QED
  BY <1>1, <1>2, <1>3, <1>4 DEF StoreNext

(***************************************************************************)
(* The two files and the journal implement one pair that changes by whole  *)
(* operations: whichever write fails, with or without its effect, wherever *)
(* the daemon stops, and whatever other mutations run between the stages   *)
(***************************************************************************)
THEOREM LabelsAreAtomicHolds == StoreSpec => LabelsAreAtomic
<1>1. StoreInit => StoredPair!Init
  BY InitPair
<1>2. StoreInv /\ StoreInv' /\ [StoreNext]_storeVars => StoredPair!Next \/ UNCHANGED StoredPair!vars
  BY NextPair DEF Promise
<1> QED
  BY <1>1, <1>2, StoreInvHolds, PTL DEF StoreSpec, LabelsAreAtomic, StoredPair!Spec

-----------------------------------------------------------------------------
(* Only labels of the catalog are carried *)

\* A plan gives only labels of the new catalog, and leaves no other label behind
LEMMA PlanDefined ==
    ASSUME NEW known \in SUBSET Labels, NEW recs \in Records, NEW plan \in Plans(known, recs),
           \A w \in Present(recs) : recs[w].labels \subseteq known,
           NEW v \in Present(recs)
    PROVE  /\ v \in DOMAIN plan.assigned => plan.assigned[v] \subseteq plan.catalog
           /\ v \notin DOMAIN plan.assigned => recs[v].labels \subseteq plan.catalog
<1>0. recs[v].labels \subseteq known
  OBVIOUS
<1>1. ASSUME NEW w \in Labelled(recs), NEW l \in Labels, plan = AssignPlan(known, recs, w, l)
      PROVE  /\ v \in DOMAIN plan.assigned => plan.assigned[v] \subseteq plan.catalog
             /\ v \notin DOMAIN plan.assigned => recs[v].labels \subseteq plan.catalog
  BY <1>0, <1>1 DEF AssignPlan, WithLabel
<1>2. ASSUME NEW w \in Labelled(recs), NEW l \in Labels, plan = UnassignPlan(known, recs, w, l)
      PROVE  /\ v \in DOMAIN plan.assigned => plan.assigned[v] \subseteq plan.catalog
             /\ v \notin DOMAIN plan.assigned => recs[v].labels \subseteq plan.catalog
  BY <1>0, <1>2 DEF UnassignPlan, WithoutLabel
<1>3. ASSUME NEW l \in known, NEW k \in Labels \ known, plan = RenamePlan(known, recs, l, k)
      PROVE  /\ v \in DOMAIN plan.assigned => plan.assigned[v] \subseteq plan.catalog
             /\ v \notin DOMAIN plan.assigned => recs[v].labels \subseteq plan.catalog
  BY <1>0, <1>3 DEF RenamePlan, Renamed, Holders
<1>4. ASSUME NEW l \in Labels, plan = DeletePlan(known, recs, l)
      PROVE  /\ v \in DOMAIN plan.assigned => plan.assigned[v] \subseteq plan.catalog
             /\ v \notin DOMAIN plan.assigned => recs[v].labels \subseteq plan.catalog
  BY <1>0, <1>4 DEF DeletePlan, WithoutLabel, Holders
<1> QED
  BY <1>1, <1>2, <1>3, <1>4, PlanKinds

LEMMA ChangesKeepDefined ==
    ASSUME NEW p \in Pairs, Defined(p), NEW q \in PairChanges(p)
    PROVE  Defined(q)
<1>0. p.catalog \in SUBSET Labels /\ p.records \in Records
  BY DEF Pairs
<1>1. ASSUME NEW plan \in Plans(p.catalog, p.records),
             q = [catalog |-> plan.catalog, records |-> Relabelled(p.records, plan.assigned)]
      PROVE  Defined(q)
  <2>1. plan.assigned \in Assignments
    BY <1>0, PlanTypes DEF Plan
  <2>2. SUFFICES ASSUME NEW w \in Present(q.records)
                 PROVE  q.records[w].labels \subseteq plan.catalog
    BY <1>1 DEF Defined
  <2>3. w \in Present(p.records) /\ w \in Workspaces /\ p.records[w] # Absent
    BY <1>0, <1>1, <2>1, RelabelledRecords DEF Present
  <2>4. /\ w \in DOMAIN plan.assigned => plan.assigned[w] \subseteq plan.catalog
        /\ w \notin DOMAIN plan.assigned => p.records[w].labels \subseteq plan.catalog
    BY <1>0, <2>3, PlanDefined DEF Defined
  <2>5. CASE w \in DOMAIN plan.assigned
    <3>1. q.records[w] = [labels |-> plan.assigned[w], archived |-> p.records[w].archived]
      BY <1>0, <1>1, <2>1, <2>3, <2>5, RelabelledRecords
    <3> QED
      BY <2>4, <2>5, <3>1
  <2>6. CASE w \notin DOMAIN plan.assigned
    <3>1. q.records[w] = p.records[w]
      BY <1>0, <1>1, <2>1, <2>3, <2>6, RelabelledRecords
    <3> QED
      BY <2>4, <2>6, <3>1
  <2> QED
    BY <2>5, <2>6
<1>2. ASSUME NEW r \in Records, \A w \in Present(r) : LabelsOf(r, w) = LabelsOf(p.records, w),
             q = [p EXCEPT !.records = r]
      PROVE  Defined(q)
  <2>1. q.catalog = p.catalog /\ q.records = r
    BY <1>2 DEF Pairs
  <2>2. SUFFICES ASSUME NEW w \in Present(r) PROVE r[w].labels \subseteq p.catalog
    BY <2>1 DEF Defined
  <2>3. w \in Workspaces /\ r[w] # Absent /\ LabelsOf(r, w) = LabelsOf(p.records, w)
    BY <1>2 DEF Present
  <2>4. p.records[w] # Absent /\ p.records[w].labels = r[w].labels
    BY <1>0, <2>3, PresentRecord
  <2> QED
    BY <2>3, <2>4 DEF Defined, Present
<1>3. ASSUME NEW l \in Labels, q = [p EXCEPT !.catalog = p.catalog \cup {l}]
      PROVE  Defined(q)
  <2>1. q.catalog = p.catalog \cup {l} /\ q.records = p.records
    BY <1>3 DEF Pairs
  <2> QED
    BY <2>1 DEF Defined
<1> QED
  BY <1>1, <1>2, <1>3 DEF PairChanges

(***************************************************************************)
(* A workspace carries only labels of the catalog, both in what is served  *)
(* and in what a restart would serve, unless an upsert put old labels back *)
(***************************************************************************)
THEOREM DefinedHolds == StoreSpec => []DefinedUnlessOverwritten
<1>1. StoreInit => DefinedUnlessOverwritten
  <2> SUFFICES ASSUME StoreInit PROVE DefinedUnlessOverwritten
    OBVIOUS
  <2>1. Stored = [catalog |-> {}, records |-> Unlabelled] /\ Served = Stored
    BY InitPair DEF StoredPair!Init
  <2> QED
    BY <2>1 DEF DefinedUnlessOverwritten, Defined, Present, Unlabelled
<1>2. StoreInv /\ StoreInv' /\ DefinedUnlessOverwritten /\ [StoreNext]_storeVars
         => DefinedUnlessOverwritten'
  <2> SUFFICES ASSUME StoreInv, StoreInv', DefinedUnlessOverwritten, [StoreNext]_storeVars
               PROVE  DefinedUnlessOverwritten'
    OBVIOUS
  <2>1. Stored \in Pairs /\ Served \in Pairs /\ Defined(Stored) /\ Defined(Served)
    BY PairTypes DEF StoreInv, DefinedUnlessOverwritten
  <2>2. /\ Stored' \in PairChanges(Stored) \cup {Stored, Served}
        /\ Served' \in PairChanges(Served) \cup {Stored, Served}
    <3>1. Promise
      BY NextPair
    <3> QED
      BY <3>1 DEF Promise, StoredPair!Next, StoredPair!Commit, StoredPair!LoseTrack,
                  StoredPair!Crash, StoredPair!Restart, StoredPair!vars
  <2>3. Defined(Stored') /\ Defined(Served')
    BY <2>1, <2>2, ChangesKeepDefined
  <2> QED
    BY <2>3 DEF DefinedUnlessOverwritten, Defined, Present
<1> QED
  BY <1>1, <1>2, StoreInvHolds, PTL DEF StoreSpec

===============================================================================
