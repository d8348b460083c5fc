------------------------------- MODULE RunSlot -------------------------------
(***************************************************************************)
(* What the daemon promises about one agent's run slot, without saying how *)
(* it keeps the promise: one owner at a time, a prompt is admitted only    *)
(* when no earlier prompt may still be running in the provider, the owner  *)
(* keeps the slot until its turn can no longer run, and a call that has    *)
(* had the slot never gets it back.  AgentTurns implements it.             *)
(***************************************************************************)
CONSTANTS Calls, Autonomous, None

VARIABLES owner,    \* the slot's owner: a call, the provider's own activity, or None
          working,  \* calls whose turn the provider may be running
          served    \* calls that have had the slot

vars == <<owner, working, served>>

Init == owner = None /\ working = {} /\ served = {}

Admit(c) ==
    /\ owner = None /\ working = {} /\ c \notin served
    /\ owner' = c
    /\ working' = {c}
    /\ served' = served \cup {c}

\* The provider's own activity takes the free slot
Occupy ==
    /\ owner = None
    /\ owner' = Autonomous
    /\ UNCHANGED <<working, served>>

\* Turns end, or the provider confirms that they cannot run any more
Finish ==
    /\ working' \subseteq working
    /\ UNCHANGED <<owner, served>>

Release ==
    /\ owner # None /\ owner \notin working
    /\ owner' = None
    /\ UNCHANGED <<working, served>>

\* The provider turns the owner's prompt down
Reject(c) ==
    /\ owner = c
    /\ owner' = None
    /\ working' = working \ {c}
    /\ UNCHANGED served

Next == Occupy \/ Finish \/ Release \/ \E c \in Calls : Admit(c) \/ Reject(c)

Spec == Init /\ [][Next]_vars
==============================================================================
