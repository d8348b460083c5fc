------------------------------ MODULE MCLiveness ------------------------------
(***************************************************************************)
(* What every foreground call and every accepted finish subscription must  *)
(* come to, in one run: part says whether the agent's turns move or its    *)
(* caller's subscriptions, the other stays as it begins.  Nothing is       *)
(* shared between the two here, so the behaviors are those of each alone.  *)
(***************************************************************************)
EXTENDS AgentTurns

CONSTANTS N, Owned, Remote, Attempts, LateReject, Faults, WorldEvents, MaxFaults, MaxLives
VARIABLES service, disk, chain, ahead, reg, priors, watch, active, attached, heard, dropped,
          reports, faults, lives, part

Finish == INSTANCE FinishSubscriptions

finishVars == <<service, disk, chain, ahead, reg, priors, watch, active, attached, heard, dropped,
                reports, faults, lives>>
livenessVars == <<vars, finishVars, part>>

LivenessInit == part \in {"turns", "finish"} /\ Init /\ Finish!Init

LivenessNext ==
    /\ UNCHANGED part
    /\ \/ part = "turns" /\ Next /\ UNCHANGED finishVars
       \/ part = "finish" /\ Finish!Next /\ UNCHANGED vars

\* Of the steps that the fairness of AgentTurns names, some is taken: less than it asks for
TurnStep ==
    \/ Dispatch
    \/ \E c \in Calls :
          \/ CallStep(c) \/ TimerStep(c) \/ InterruptAcked(c) \/ InterruptRefused(c)
          \/ \E answer \in {"accepted", "unavailable", "rejected"} : SteerAnswered(c, answer)

\* Likewise for FinishSubscriptions: some step is taken, and of the children that could
\* finish again and again some does
FinishStep ==
    \/ Finish!Boot \/ Finish!Mutates \/ Finish!Closes
    \/ \E r \in Finish!Registration : Finish!Accept(r) \/ (reg[r] = "candidate" /\ Finish!Reject(r))
    \/ \E w \in Finish!Watch : Finish!Runs(w) \/ Finish!Dispatches(w)
ChildFinishes == \E w \in Finish!Watch : Finish!Observes(w, "finished")

LivenessSpec ==
    LivenessInit /\ [][LivenessNext]_livenessVars
    /\ WF_vars(part = "turns" /\ TurnStep)
    /\ WF_finishVars(part = "finish" /\ FinishStep)
    /\ SF_finishVars(part = "finish" /\ ChildFinishes)

\* Every accepted registration is answered: its caller hears of the child, or
\* is archived or no longer the owner (finish-subscriptions/index.ts, observeAndFinish).
AcceptedIsAnswered == Finish!AcceptedIsAnswered

\* close() settles every watch and the daemon goes down (finish-subscriptions/index.ts, close).
ShutdownCompletes == Finish!ShutdownCompletes
==============================================================================
