------------------------------ MODULE LabelPair ------------------------------
(***************************************************************************)
(* What the label storage promises: the catalog of labels and the labels   *)
(* of the workspaces change by whole operations, an operation is on disk   *)
(* exactly when it is served unless the daemon says that it lost track,    *)
(* and a restart serves what is on disk.  LabelStore implements it with    *)
(* two files and a journal.                                                *)
(***************************************************************************)
CONSTANTS Initial,     \* the pair of an empty catalog
          Changes(_)   \* the pairs that one operation makes of a pair

VARIABLES stored,  \* the pair a restart would serve
          served,  \* the pair the running daemon answers from
          mode     \* "up", "uncertain" (frozen until a restart), "down"

vars == <<stored, served, mode>>

Init == stored = Initial /\ served = Initial /\ mode = "up"

\* An operation takes effect on disk and in memory at once
Commit ==
    /\ stored' \in Changes(stored)
    /\ served' \in Changes(served)
    /\ mode # "uncertain" => served' = stored'
    /\ UNCHANGED mode

\* The daemon cannot tell whether an operation took effect
LoseTrack ==
    /\ mode = "up"
    /\ stored' \in Changes(stored) \cup {stored}
    /\ mode' = "uncertain"
    /\ UNCHANGED served

Crash ==
    /\ mode' = "down"
    /\ served' = stored
    /\ UNCHANGED stored

Restart ==
    /\ mode = "down" /\ mode' = "up"
    /\ UNCHANGED <<stored, served>>

Next == Commit \/ LoseTrack \/ Crash \/ Restart

Spec == Init /\ [][Next]_vars
==============================================================================
