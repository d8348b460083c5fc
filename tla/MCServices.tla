------------------------------ MODULE MCServices ------------------------------
(***************************************************************************)
(* The services that owe their clients an answer, in one run with their    *)
(* fairness: part says which of them moves, the others stay in one initial *)
(* state.  Nothing is shared between them here, so the behaviors are those *)
(* of each one alone.                                                      *)
(***************************************************************************)
EXTENDS LabelSync, AgentMessages, AgentRuntime, TimelineSync, TerminalStream,
        FinishObservation

CONSTANTS a, h, n, o, plan   \* messages and a session mode

\* A message of an agent, one of a human, and two notices that ask for modes of their own
ModeOfMessage == [m \in {a, n, o} |-> IF m = o THEN plan ELSE AnyMode]

VARIABLE part

Parts == {"sync", "messages", "runtime", "timeline", "terminal", "observation"}

serviceVars == <<syncVars, messageVars, runtimeVars, timelineVars, streamVars, observationVars,
                 part>>

ServicesInit ==
    /\ part \in Parts
    /\ SyncInit /\ MessagesInit /\ RuntimeInit /\ TimelineInit /\ StreamInit
    /\ ObservationInit
    /\ part # "sync" => held = NoLabels
    /\ part # "timeline" => chat = NewChat(NoRange)
    /\ part # "observation" => Busy

ServicesNext ==
    /\ UNCHANGED part
    /\ \/ /\ part = "sync" /\ SyncNext
          /\ UNCHANGED <<messageVars, runtimeVars, timelineVars, streamVars, observationVars>>
       \/ /\ part = "messages" /\ MessagesNext
          /\ UNCHANGED <<syncVars, runtimeVars, timelineVars, streamVars, observationVars>>
       \/ /\ part = "runtime" /\ RuntimeNext
          /\ UNCHANGED <<syncVars, messageVars, timelineVars, streamVars, observationVars>>
       \/ /\ part = "timeline" /\ TimelineNext
          /\ UNCHANGED <<syncVars, messageVars, runtimeVars, streamVars, observationVars>>
       \/ /\ part = "terminal" /\ StreamNext
          /\ UNCHANGED <<syncVars, messageVars, runtimeVars, timelineVars, observationVars>>
       \/ /\ part = "observation" /\ ObservationNext
          /\ UNCHANGED <<syncVars, messageVars, runtimeVars, timelineVars, streamVars>>

\* While a service moves, some step of those that its fairness names is taken: this asks
\* for less than the fairness of the service does
ServicesFairness ==
    /\ WF_syncVars(part = "sync" /\ (AnswersList \/ Lists \/ Updates \/ ConnectsClient))
    /\ WF_messageVars(part = "messages" /\ (QuietEnds \/ Settles \/ CloseEnds))
    /\ WF_runtimeVars(part = "runtime" /\ (PromptSteps \/ LaneSteps \/ InitReads \/ Hydrates))
    /\ WF_timelineVars(part = "timeline" /\ TimelineSteps)
    /\ WF_streamVars(part = "terminal" /\ StreamSteps)
    /\ WF_observationVars(part = "observation" /\ ObservationSteps)

ServicesSpec == ServicesInit /\ [][ServicesNext]_serviceVars /\ ServicesFairness

\* The types of the variables of these services.
ServicesTypeOK ==
    /\ SyncTypeOK /\ MessagesTypeOK /\ RuntimeTypeOK /\ TimelineTypeOK /\ StreamTypeOK
    /\ ObservationTypeOK
==============================================================================
