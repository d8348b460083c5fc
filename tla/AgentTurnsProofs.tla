-------------------------- MODULE AgentTurnsProofs --------------------------
(***************************************************************************)
(* What holds of AgentTurns for every set of calls and autonomous turns:   *)
(* type correctness, no split-brain, who owns the turn, and that it        *)
(* implements RunSlot.                                                     *)
(***************************************************************************)
EXTENDS AgentTurns, SequenceTheorems, WellFoundedInduction, TLAPS

-----------------------------------------------------------------------------
(* The inductive invariant *)

\* A step inside the foreground lane is taken by the call at its head
\* (runForegroundMutation chains the calls on one promise tail).
LaneOwned == \A c \in Calls : pc[c] \in OwnerSteps => Owns(c)

\* Events that tell of a turn's end tell the truth
Plausible == {e \in Event : e.type = "started" \/ prov[e.turn] \in {"over", "spent"}}

EventsPlausible ==
    queue \in Seq(Plausible) /\ staged \in Seq(Plausible) /\ held \in Seq(Plausible)

\* A run is a call's or nobody's, and a call's run is of a turn asked for
RunShape ==
    /\ run.kind = "foreground" => /\ run.by \in Calls
                                  /\ run.turn \in {None, run.by}
                                  /\ prov[run.by] # "none"
    /\ run.kind # "foreground" => run.by = None
    /\ run.kind = "none" => run = NoRun

\* The provider has work only from the call that owns the run
WorkOwned == \A c \in Calls : prov[c] \in {"asked", "live"}
                                 => run.kind = "foreground" /\ run.by = c

\* While a cancellation waits, its captured run is the run: the interrupt reaches
\* the run's turn, and once acknowledged that turn cannot run any more.
Waits == {"interrupting", "settlingAcked", "settlingRefused"}
CaptureHolds ==
    \A c \in Calls :
        /\ pc[c] \in Waits /\ ~settled
              => run.kind # "none"
        /\ pc[c] = "interrupting" /\ ~settled /\ run.kind = "foreground"
              => run.by \in before
        /\ pc[c] = "settlingAcked" /\ ~settled /\ run.kind = "foreground"
              => prov[run.by] \notin {"asked", "live"}

\* A call whose prompt was not sent has no turn
Unasked == {"new", "awaitingStart", "steerQueued", "fallback", "cancelQueued", "resuming"}
              \cup OwnerSteps
NotYetAsked == \A c \in Calls : pc[c] \in Unasked => prov[c] = "none"

TypeInv == TypeOK /\ LaneOwned
SlotInv == EventsPlausible /\ RunShape /\ WorkOwned /\ CaptureHolds /\ NotYetAsked
IInv == TypeInv /\ SlotInv

-----------------------------------------------------------------------------
(* Type correctness *)

\* Some call's step, or one of the environment's: Next, split for the proofs
LEMMA NextCases ==
    ASSUME Next
    PROVE  \/ Dispatch
           \/ \E c \in Calls :
                 \/ SteerChoose(c) \/ SteerAdmit(c) \/ SteerReturns(c) \/ SteerFallback(c)
                 \/ CancelBegins(c) \/ CancelSettled(c) \/ Resume(c)
                 \/ CancelRefused(c) \/ SettlementTimesOut(c)
                 \/ Send(c) \/ RunAgent(c) \/ Steer(c) \/ Stop(c)
                 \/ TurnBegins(c) \/ RunStarted(c) \/ RunRejected(c) \/ RunWentStale(c)
                 \/ InterruptAcked(c) \/ InterruptRefused(c)
                 \/ \E answer \in {"accepted", "unavailable", "rejected"} :
                        SteerAnswered(c, answer)
           \/ \E a \in Autos : AutonomousBegins(a)
           \/ \E t \in Turns, type \in {"ended", "failed"} : TurnEnds(t, type)
BY DEF Next, CallStep, TimerStep, ClientStep, SessionStep

LEMMA TypeInit == Init => TypeInv
<1> SUFFICES ASSUME Init PROVE TypeInv
  OBVIOUS
<1> USE DEF Init
<1>1. agent \in Agent /\ run \in Run
  BY DEF Agent, Run, NoRun
<1>2. staged \in Seq(Event) /\ held \in Seq(Event) /\ queue \in Seq(Event) /\ lane \in Seq(Calls)
  BY EmptySeq
<1>3. pc \in [Calls -> Steps] /\ kind \in [Calls -> Kinds \cup {"none"}]
  BY DEF Steps
<1>4. prov \in [Turns -> ProviderStates] /\ expects \in [Calls -> Turns \cup {None}]
  BY DEF ProviderStates
<1>5. LaneOwned
  BY DEF LaneOwned, OwnerSteps
<1> QED
  BY <1>1, <1>2, <1>3, <1>4, <1>5 DEF TypeInv, TypeOK

LEMMA EventSeqs ==
    ASSUME NEW S
    PROVE  /\ <<>> \in Seq(S)
           /\ \A s \in Seq(S), e \in S : Append(s, e) \in Seq(S)
           /\ \A s, t \in Seq(S) : s \o t \in Seq(S)
           /\ \A s \in Seq(S) : s # <<>> => Head(s) \in S /\ Tail(s) \in Seq(S)
BY EmptySeq, AppendProperties, ConcatProperties, HeadTailProperties

\* RemoveFirst takes out one occurrence, and the items behind it move up
LEMMA LeastNumber ==
    ASSUME NEW I \in SUBSET Nat, I # {}
    PROVE  \E m \in I : \A k \in I : m <= k
<1>1. PICK m \in I : \A k \in I : ~ (<<k, m>> \in OpToRel(<, Nat))
  BY WFMin, NatLessThanWellFounded
<1>2. \A k \in I : ~(k < m)
  BY <1>1 DEF OpToRel
<1> QED
  BY <1>2

LEMMA RemovedAt ==
    ASSUME NEW S, NEW s \in Seq(S), NEW e, \E i \in 1..Len(s) : s[i] = e
    PROVE  \E k \in 1..Len(s) : s[k] = e /\ RemoveFirst(s, e) = RemoveAt(s, k)
<1> DEFINE I == {i \in 1..Len(s) : s[i] = e}
<1> DEFINE k == CHOOSE x \in I : \A y \in I : x <= y
<1>1. I \in SUBSET Nat /\ I # {}
  BY LenProperties
<1> HIDE DEF I
<1>2. k \in I
  BY <1>1, LeastNumber
<1>3. RemoveFirst(s, e) = RemoveAt(s, k)
  <2>1. Min(I) = k
    BY DEF Min
  <2> QED
    BY <1>1, <2>1 DEF RemoveFirst, SelectInSeq, I
<1> QED
  BY <1>2, <1>3 DEF I

LEMMA RemovedItems ==
    ASSUME NEW S, NEW s \in Seq(S), NEW k \in 1..Len(s)
    PROVE  /\ RemoveAt(s, k) \in Seq(S)
           /\ Len(RemoveAt(s, k)) = Len(s) - 1
           /\ \A j \in 1..(Len(s) - 1) : RemoveAt(s, k)[j] = IF j < k THEN s[j] ELSE s[j + 1]
<1>1. Len(s) \in Nat /\ k \in Nat /\ \A i \in 1..Len(s) : s[i] \in S
  BY LenProperties, ElementOfSeq
<1>2. /\ SubSeq(s, 1, k - 1) \in Seq(S) /\ Len(SubSeq(s, 1, k - 1)) = k - 1
      /\ \A j \in 1..(k - 1) : SubSeq(s, 1, k - 1)[j] = s[j]
  BY <1>1, SubSeqProperties
<1>3. /\ SubSeq(s, k + 1, Len(s)) \in Seq(S) /\ Len(SubSeq(s, k + 1, Len(s))) = Len(s) - k
      /\ \A j \in 1..(Len(s) - k) : SubSeq(s, k + 1, Len(s))[j] = s[k + j]
  BY <1>1, SubSeqProperties
<1> DEFINE l == SubSeq(s, 1, k - 1)
           r == SubSeq(s, k + 1, Len(s))
<1>4. RemoveAt(s, k) = l \o r
  BY DEF RemoveAt
<1>5. /\ l \in Seq(S) /\ Len(l) = k - 1 /\ \A j \in 1..(k - 1) : l[j] = s[j]
      /\ r \in Seq(S) /\ Len(r) = Len(s) - k /\ \A j \in 1..(Len(s) - k) : r[j] = s[k + j]
  BY <1>2, <1>3
<1> HIDE DEF l, r
<1>6. /\ l \o r \in Seq(S) /\ Len(l \o r) = Len(l) + Len(r)
      /\ \A j \in 1..(Len(l) + Len(r)) : (l \o r)[j] = IF j <= Len(l) THEN l[j] ELSE r[j - Len(l)]
  BY <1>5, ConcatProperties
<1>7. ASSUME NEW j \in 1..(Len(s) - 1)
      PROVE  (l \o r)[j] = IF j < k THEN s[j] ELSE s[j + 1]
  <2>1. CASE j < k
    BY <1>1, <1>5, <1>6, <2>1
  <2>2. CASE ~(j < k)
    <3>1. j - (k - 1) \in 1..(Len(s) - k) /\ k + (j - (k - 1)) = j + 1
      BY <1>1, <2>2
    <3>2. (l \o r)[j] = r[j - (k - 1)]
      BY <1>1, <1>5, <1>6, <2>2
    <3> QED
      BY <1>5, <2>2, <3>1, <3>2
  <2> QED
    BY <2>1, <2>2
<1>8. Len(l \o r) = Len(s) - 1
  BY <1>1, <1>5, <1>6
<1> QED
  BY <1>4, <1>6, <1>7, <1>8

LEMMA UnstagedSeq ==
    ASSUME NEW S, NEW s \in Seq(S), NEW e
    PROVE  RemoveFirst(s, e) \in Seq(S)
<1>1. CASE \E i \in 1..Len(s) : s[i] = e
  <2>1. PICK k \in 1..Len(s) : RemoveFirst(s, e) = RemoveAt(s, k)
    BY <1>1, RemovedAt
  <2> QED
    BY <2>1, RemovedItems
<1>2. CASE ~(\E i \in 1..Len(s) : s[i] = e)
  BY <1>2 DEF RemoveFirst
<1> QED
  BY <1>1, <1>2

LEMMA LaneSeqs ==
    /\ \A l \in Seq(Calls) : l # <<>> => Tail(l) \in Seq(Calls)
    /\ \A l \in Seq(Calls), c \in Calls :
          /\ Append(l, c) \in Seq(Calls) /\ Append(l, c) # <<>>
          /\ l # <<>> => Head(Append(l, c)) = Head(l)
BY AppendProperties, HeadTailProperties, HeadTailAppend

\* The pieces that several actions share
LEMMA StreamAgentTypes ==
    ASSUME TypeInv, NEW c \in Calls, StreamAgent(c)
    PROVE  /\ agent' \in Agent /\ run' \in Run /\ staged' \in Seq(Event)
           /\ pc' \in [Calls -> Steps] /\ prov' \in [Turns -> ProviderStates]
           /\ finalized' = finalized /\ held' = held /\ queue' = queue
           /\ settled' = settled /\ before' = before
           /\ lane' = lane => LaneOwned'
<1>1. agent \in Agent /\ run \in Run /\ pc \in [Calls -> Steps] /\ prov \in [Turns -> ProviderStates]
  BY DEF TypeInv, TypeOK
<1>2. agent' \in Agent /\ run' \in Run
  BY <1>1 DEF StreamAgent, PendingRun, Run, Agent
<1>3. staged' \in Seq(Event)
  BY EventSeqs DEF StreamAgent
<1>4. pc' \in [Calls -> Steps] /\ prov' \in [Turns -> ProviderStates]
  BY <1>1 DEF StreamAgent, Steps, ProviderStates, Turns
<1>5. lane' = lane => LaneOwned'
  BY <1>1 DEF StreamAgent, TypeInv, LaneOwned, Owns, OwnerSteps
<1> QED
  BY <1>2, <1>3, <1>4, <1>5 DEF StreamAgent

LEMMA BeginReplacementTypes ==
    ASSUME TypeInv, NEW c \in Calls, BeginReplacement(c)
    PROVE  /\ agent' \in Agent /\ lane' \in Seq(Calls) /\ pc' \in [Calls -> Steps]
           /\ finalized' = finalized /\ run' = run /\ UNCHANGED buffers
           /\ settled' = settled /\ before' = before /\ prov' = prov
           /\ LaneOwned'
<1>1. agent \in Agent /\ lane \in Seq(Calls) /\ pc \in [Calls -> Steps]
  BY DEF TypeInv, TypeOK
<1>2. agent' \in Agent
  BY <1>1 DEF BeginReplacement, Agent
<1>3. lane' \in Seq(Calls) /\ pc' \in [Calls -> Steps]
  BY <1>1, LaneSeqs DEF BeginReplacement, Steps
<1>4. LaneOwned'
  BY <1>1, LaneSeqs DEF BeginReplacement, TypeInv, LaneOwned, Owns, OwnerSteps
<1> QED
  BY <1>2, <1>3, <1>4 DEF BeginReplacement

LEMMA SendOrReplaceTypes ==
    ASSUME TypeInv, NEW c \in Calls, SendOrReplace(c), UNCHANGED <<held, queue>>
    PROVE  /\ agent' \in Agent /\ run' \in Run /\ lane' \in Seq(Calls)
           /\ staged' \in Seq(Event) /\ held' \in Seq(Event) /\ queue' \in Seq(Event)
           /\ pc' \in [Calls -> Steps] /\ prov' \in [Turns -> ProviderStates]
           /\ LaneOwned'
<1>1. CASE BeginReplacement(c)
  BY <1>1, BeginReplacementTypes DEF TypeInv, TypeOK, buffers
<1>2. CASE StreamAgent(c) /\ UNCHANGED lane
  BY <1>2, StreamAgentTypes DEF TypeInv, TypeOK
<1> QED
  BY <1>1, <1>2 DEF SendOrReplace

\* The owner of the lane leaves it
LEMMA ReturnsTypes ==
    ASSUME TypeInv, NEW c \in Calls, NEW to, Owns(c), Returns(c, to)
    PROVE  /\ lane' \in Seq(Calls) /\ pc' \in [Calls -> Steps]
           /\ settled' \in BOOLEAN /\ before' \subseteq Calls
           /\ LaneOwned'
<1>1. lane \in Seq(Calls) /\ pc \in [Calls -> Steps]
  BY DEF TypeInv, TypeOK
<1>2. lane' \in Seq(Calls) /\ pc' \in [Calls -> Steps]
  BY <1>1, LaneSeqs DEF Returns, Owns, Steps
<1>3. \A d \in Calls : pc'[d] \notin OwnerSteps
  BY <1>1 DEF Returns, TypeInv, LaneOwned, Owns, OwnerSteps
<1> QED
  BY <1>2, <1>3 DEF Returns, LaneOwned

LEMMA TerminalTypes ==
    ASSUME TypeInv, NEW t \in Turns \cup {None}, NEW type, Terminal(t, type)
    PROVE  agent' \in Agent /\ run' \in Run /\ finalized' \subseteq Turns
<1>1. agent \in Agent /\ run \in Run /\ finalized \subseteq Turns
  BY DEF TypeInv, TypeOK
<1>2. TerminalHandled(t, type) \in Agent
  BY <1>1 DEF TerminalHandled, Agent
<1>3. Finalized(TerminalHandled(t, type), t) \in Agent
  BY <1>2 DEF Finalized, Agent
<1>4. NoRun \in Run
  BY DEF NoRun, Run
<1> QED
  BY <1>1, <1>2, <1>3, <1>4 DEF Terminal, IsForeground

LEMMA StreamEndsTypes ==
    ASSUME TypeInv, NEW t \in Calls
    PROVE  /\ StreamEnds(t) \in [Calls -> Steps]
           /\ \A d \in Calls : StreamEnds(t)[d] \in OwnerSteps => pc[d] \in OwnerSteps
BY DEF TypeInv, TypeOK, StreamEnds, Steps, OwnerSteps

LEMMA UnnamedRunTypes == AutonomousRun(None) \in Run
BY DEF AutonomousRun, Run

\* What a failed start leaves behind
LEMMA RejectionTypes ==
    ASSUME TypeInv, NEW c \in Calls, RunRejected(c)
    PROVE  agent' \in Agent /\ run' \in Run
<1>1. agent \in Agent /\ run \in Run
  BY DEF TypeInv, TypeOK
<1>2. TerminalHandled(CurrentTurn, "failed") \in Agent
  BY <1>1 DEF TerminalHandled, Agent
<1>3. \A a \in Agent : Finalized([a EXCEPT !.replacing = FALSE], None) \in Agent
  BY DEF Finalized, Agent
<1>4. NoRun \in Run
  BY DEF NoRun, Run
<1> QED
  BY <1>1, <1>2, <1>3, <1>4 DEF RunRejected

LEMMA RunStartedTypes ==
    ASSUME TypeInv, NEW c \in Calls, RunStarted(c)
    PROVE  /\ agent' \in Agent /\ run' \in Run
           /\ staged' \in Seq(Event) /\ held' \in Seq(Event) /\ queue' \in Seq(Event)
<1>1. agent \in Agent /\ run \in Run /\ c \in Turns
  BY DEF TypeInv, TypeOK, Turns
<1>2. staged \in Seq(Event) /\ held \in Seq(Event) /\ queue \in Seq(Event)
  BY DEF TypeInv, TypeOK
<1>3. CASE run.by = c
  <2>1. agent' \in Agent
    BY <1>1, <1>3 DEF RunStarted, Agent
  <2>2. run' \in Run
    BY <1>1, <1>3 DEF RunStarted, Run
  <2>3. staged' \in Seq(Event) /\ held' \in Seq(Event) /\ queue' \in Seq(Event)
    <3>1. /\ held \o Unstaged(c) \in Seq(Event) /\ queue \o Unstaged(c) \in Seq(Event)
          /\ <<>> \in Seq(Event)
      BY <1>2, EventSeqs, UnstagedSeq DEF Unstaged
    <3> QED
      BY <1>2, <1>3, <3>1 DEF RunStarted
  <2> QED
    BY <2>1, <2>2, <2>3
<1>4. CASE run.by # c
  BY <1>1, <1>2, <1>4 DEF RunStarted, buffers
<1> QED
  BY <1>3, <1>4

LEMMA DispatchTypes ==
    ASSUME TypeInv, Dispatch
    PROVE  /\ agent' \in Agent /\ run' \in Run /\ finalized' \subseteq Turns
           /\ pc' \in [Calls -> Steps]
           /\ \A d \in Calls : pc'[d] \in OwnerSteps => pc[d] \in OwnerSteps
<1> DEFINE e == Head(queue)
<1>1. /\ agent \in Agent /\ run \in Run /\ finalized \subseteq Turns /\ pc \in [Calls -> Steps]
      /\ queue \in Seq(Event) /\ queue # <<>>
  BY DEF TypeInv, TypeOK, Dispatch
<1>2. e \in Event /\ e.turn \in Turns
  <2>1. e \in Event
    BY <1>1, EventSeqs
  <2> QED
    BY <2>1 DEF Event
<1>3. CASE e.type = "started"
  <2>1. Started(e.turn)
    BY <1>3 DEF Dispatch
  <2>2. AutonomousRun(e.turn) \in Run
    BY <1>2 DEF AutonomousRun, Run
  <2>3. [agent EXCEPT !.active = e.turn, !.failed = FALSE, !.lifecycle = "running"] \in Agent
    BY <1>1, <1>2 DEF Agent
  <2> QED
    BY <1>1, <2>1, <2>2, <2>3 DEF Started
<1>4. CASE e.type # "started"
  <2>1. Terminal(e.turn, e.type) /\ pc' = IF e.turn \in Calls THEN StreamEnds(e.turn) ELSE pc
    BY <1>4 DEF Dispatch
  <2> QED
    BY <1>1, <1>2, <2>1, TerminalTypes, StreamEndsTypes
<1> QED
  BY <1>3, <1>4

LEMMA SettlementTypes ==
    ASSUME TypeInv, NEW c \in Calls, SettlementTimesOut(c)
    PROVE  TypeInv'
<1>1. /\ agent \in Agent /\ run \in Run /\ finalized \subseteq Turns /\ pc \in [Calls -> Steps]
      /\ lane \in Seq(Calls) /\ staged \in Seq(Event) /\ held \in Seq(Event) /\ queue \in Seq(Event)
      /\ settled \in BOOLEAN /\ before \subseteq Calls
      /\ run.turn \in Turns \cup {None} /\ CurrentTurn \in Turns \cup {None}
  BY DEF TypeInv, TypeOK, Run, Agent, CurrentTurn
<1>2. Owns(c)
  BY DEF SettlementTimesOut, TypeInv, LaneOwned, OwnerSteps
<1>3. /\ kind' \in [Calls -> Kinds \cup {"none"}] /\ expects' \in [Calls -> Turns \cup {None}]
      /\ prov' \in [Turns -> ProviderStates]
  BY DEF SettlementTimesOut, TypeInv, TypeOK
<1>4. CASE ForceTurn(c)
  <2>1. Terminal(run.turn, "ended")
    BY <1>4 DEF ForceTurn
  <2>2. pc' \in [Calls -> Steps]
    BY <1>1, <1>4, StreamEndsTypes DEF ForceTurn, Steps
  <2>3. LaneOwned'
    BY <1>1, <1>2, <1>4, StreamEndsTypes DEF ForceTurn, TypeInv, LaneOwned, Owns
  <2>4. settled' \in BOOLEAN
    BY <1>1, <1>4 DEF ForceTurn, NoteSettled
  <2> QED
    BY <1>1, <1>3, <1>4, <2>1, <2>2, <2>3, <2>4, TerminalTypes DEF ForceTurn, buffers, TypeInv, TypeOK
<1>5. CASE ForcePending(c)
  <2>1. agent' \in Agent /\ run' \in Run
    BY <1>1, <1>5 DEF ForcePending, Agent, NoRun, Run
  <2> QED
    BY <1>1, <1>2, <1>3, <1>5, <2>1, EventSeqs, ReturnsTypes DEF ForcePending, TypeInv, TypeOK
<1>6. CASE ForceUnnamed(c)
  <2>1. Terminal(CurrentTurn, "ended")
    BY <1>6 DEF ForceUnnamed
  <2> QED
    BY <1>1, <1>2, <1>3, <1>6, <2>1, TerminalTypes, ReturnsTypes DEF ForceUnnamed, buffers, TypeInv, TypeOK
<1> QED
  BY <1>4, <1>5, <1>6 DEF SettlementTimesOut

\* One step per action; the types of what it assigns, then the owner of the lane
LEMMA TypeStep == TypeInv /\ [Next]_vars => TypeInv'
<1> SUFFICES ASSUME TypeInv, [Next]_vars PROVE TypeInv'
  OBVIOUS
<1>1. agent \in Agent /\ run \in Run
  BY DEF TypeInv, TypeOK
<1>2. staged \in Seq(Event) /\ held \in Seq(Event) /\ queue \in Seq(Event)
  BY DEF TypeInv, TypeOK
<1>3. lane \in Seq(Calls) /\ settled \in BOOLEAN /\ before \subseteq Calls /\ finalized \subseteq Turns
  BY DEF TypeInv, TypeOK
<1>4. /\ pc \in [Calls -> Steps] /\ kind \in [Calls -> Kinds \cup {"none"}]
      /\ expects \in [Calls -> Turns \cup {None}] /\ prov \in [Turns -> ProviderStates]
  BY DEF TypeInv, TypeOK
<1>5. LaneOwned
  BY DEF TypeInv
<1>11. ASSUME NEW c \in Calls, SteerAdmit(c) PROVE TypeInv'
  <2>1. lane' \in Seq(Calls) /\ settled' \in BOOLEAN /\ before' \subseteq Calls /\ finalized' \subseteq Turns
    BY <1>11, <1>3, <1>5, LaneSeqs DEF SteerAdmit, Owns
  <2>2. /\ pc' \in [Calls -> Steps] /\ kind' \in [Calls -> Kinds \cup {"none"}]
        /\ expects' \in [Calls -> Turns \cup {None}] /\ prov' \in [Turns -> ProviderStates]
    BY <1>11, <1>4 DEF SteerAdmit, calls, Steps
  <2>3. LaneOwned'
    BY <1>11, <1>3, <1>4, <1>5 DEF SteerAdmit, calls, Owns, OwnerSteps, LaneOwned
  <2> QED
    BY <1>11, <2>1, <2>2, <2>3, <1>1, <1>2 DEF SteerAdmit, buffers, TypeInv, TypeOK
<1>12. ASSUME NEW c \in Calls, SteerReturns(c) PROVE TypeInv'
  <2>1. lane' \in Seq(Calls) /\ settled' \in BOOLEAN /\ before' \subseteq Calls /\ finalized' \subseteq Turns
    BY <1>12, <1>3, <1>5, LaneSeqs DEF SteerReturns, LaneOwned, Owns, OwnerSteps
  <2>2. /\ pc' \in [Calls -> Steps] /\ kind' \in [Calls -> Kinds \cup {"none"}]
        /\ expects' \in [Calls -> Turns \cup {None}] /\ prov' \in [Turns -> ProviderStates]
    BY <1>12, <1>4 DEF SteerReturns, calls, Steps
  <2>3. LaneOwned'
    BY <1>12, <1>3, <1>4, <1>5 DEF SteerReturns, calls, Owns, OwnerSteps, LaneOwned
  <2> QED
    BY <1>12, <2>1, <2>2, <2>3, <1>1, <1>2 DEF SteerReturns, buffers, TypeInv, TypeOK
<1>13. ASSUME NEW c \in Calls, NEW answer \in {"accepted", "unavailable", "rejected"}, SteerAnswered(c, answer) PROVE TypeInv'
  <2>1. staged' \in Seq(Event) /\ held' \in Seq(Event) /\ queue' \in Seq(Event)
    BY <1>13, <1>2, EventSeqs DEF SteerAnswered, calls, buffers
  <2>2. /\ pc' \in [Calls -> Steps] /\ kind' \in [Calls -> Kinds \cup {"none"}]
        /\ expects' \in [Calls -> Turns \cup {None}] /\ prov' \in [Turns -> ProviderStates]
    BY <1>13, <1>4 DEF SteerAnswered, calls, Steps
  <2>3. LaneOwned'
    BY <1>13, <1>3, <1>4, <1>5 DEF SteerAnswered, calls, Owns, OwnerSteps, LaneOwned
  <2> QED
    BY <1>13, <2>1, <2>2, <2>3, <1>1, <1>3 DEF SteerAnswered, TypeInv, TypeOK
<1>14. ASSUME NEW c \in Calls, CancelBegins(c) PROVE TypeInv'
  <2>1. agent' \in Agent /\ run' \in Run
    BY <1>14, <1>1, UnnamedRunTypes DEF CancelBegins
  <2>2. lane' \in Seq(Calls) /\ settled' \in BOOLEAN /\ before' \subseteq Calls /\ finalized' \subseteq Turns
    BY <1>14, <1>3, <1>5, ReturnsTypes DEF CancelBegins
  <2>3. /\ pc' \in [Calls -> Steps] /\ kind' \in [Calls -> Kinds \cup {"none"}]
        /\ expects' \in [Calls -> Turns \cup {None}] /\ prov' \in [Turns -> ProviderStates]
    BY <1>14, <1>4, ReturnsTypes DEF CancelBegins, calls, Steps
  <2>4. LaneOwned'
    BY <1>14, <1>3, <1>4, <1>5, ReturnsTypes DEF CancelBegins, calls, Owns, OwnerSteps, LaneOwned
  <2> QED
    BY <1>14, <2>1, <2>2, <2>3, <2>4, <1>2 DEF CancelBegins, buffers, TypeInv, TypeOK
<1>15. ASSUME NEW c \in Calls, CancelSettled(c) PROVE TypeInv'
  <2>1. Owns(c)
    BY <1>15, <1>5 DEF CancelSettled, LaneOwned, OwnerSteps
  <2>2. lane' \in Seq(Calls) /\ settled' \in BOOLEAN /\ before' \subseteq Calls /\ finalized' \subseteq Turns
    BY <1>15, <1>3, <1>5, <2>1, ReturnsTypes DEF CancelSettled
  <2>3. /\ pc' \in [Calls -> Steps] /\ kind' \in [Calls -> Kinds \cup {"none"}]
        /\ expects' \in [Calls -> Turns \cup {None}] /\ prov' \in [Turns -> ProviderStates]
    BY <1>15, <1>4, <2>1, ReturnsTypes DEF CancelSettled, calls
  <2>4. LaneOwned'
    BY <1>15, <1>3, <1>4, <1>5, <2>1, ReturnsTypes DEF CancelSettled, calls, LaneOwned
  <2> QED
    BY <1>15, <2>1, <2>2, <2>3, <2>4, <1>1, <1>2 DEF CancelSettled, buffers, TypeInv, TypeOK
<1>16. ASSUME NEW c \in Calls, CancelRefused(c) PROVE TypeInv'
  <2>1. Owns(c)
    BY <1>16, <1>5 DEF CancelRefused, LaneOwned, OwnerSteps
  <2>2. agent' \in Agent /\ run' \in Run
    BY <1>16, <1>1 DEF CancelRefused, Agent
  <2>3. lane' \in Seq(Calls) /\ settled' \in BOOLEAN /\ before' \subseteq Calls /\ finalized' \subseteq Turns
    BY <1>16, <1>3, <1>5, <2>1, ReturnsTypes DEF CancelRefused
  <2>4. /\ pc' \in [Calls -> Steps] /\ kind' \in [Calls -> Kinds \cup {"none"}]
        /\ expects' \in [Calls -> Turns \cup {None}] /\ prov' \in [Turns -> ProviderStates]
    BY <1>16, <1>4, <2>1, ReturnsTypes DEF CancelRefused, calls
  <2>5. LaneOwned'
    BY <1>16, <1>3, <1>4, <1>5, <2>1, ReturnsTypes DEF CancelRefused, calls, LaneOwned
  <2> QED
    BY <1>16, <2>1, <2>2, <2>3, <2>4, <2>5, <1>2 DEF CancelRefused, buffers, TypeInv, TypeOK
<1>17. ASSUME NEW c \in Calls, InterruptAcked(c) PROVE TypeInv'
  <2>1. /\ pc' \in [Calls -> Steps] /\ kind' \in [Calls -> Kinds \cup {"none"}]
        /\ expects' \in [Calls -> Turns \cup {None}] /\ prov' \in [Turns -> ProviderStates]
    BY <1>17, <1>4 DEF InterruptAcked, calls, Steps, ProviderStates
  <2>2. LaneOwned'
    BY <1>17, <1>3, <1>4, <1>5 DEF InterruptAcked, calls, Owns, OwnerSteps, LaneOwned
  <2> QED
    BY <1>17, <2>1, <2>2, <1>1, <1>2, <1>3 DEF InterruptAcked, buffers, TypeInv, TypeOK
<1>18. ASSUME NEW c \in Calls, InterruptRefused(c) PROVE TypeInv'
  <2>1. /\ pc' \in [Calls -> Steps] /\ kind' \in [Calls -> Kinds \cup {"none"}]
        /\ expects' \in [Calls -> Turns \cup {None}] /\ prov' \in [Turns -> ProviderStates]
    BY <1>18, <1>4 DEF InterruptRefused, calls, Steps
  <2>2. LaneOwned'
    BY <1>18, <1>3, <1>4, <1>5 DEF InterruptRefused, calls, Owns, OwnerSteps, LaneOwned
  <2> QED
    BY <1>18, <2>1, <2>2, <1>1, <1>2, <1>3 DEF InterruptRefused, buffers, TypeInv, TypeOK
<1>19. ASSUME NEW c \in Calls, Steer(c) PROVE TypeInv'
  <2>1. /\ pc' \in [Calls -> Steps] /\ kind' \in [Calls -> Kinds \cup {"none"}]
        /\ expects' \in [Calls -> Turns \cup {None}] /\ prov' \in [Turns -> ProviderStates]
    BY <1>19, <1>4, <1>1 DEF Steer, Issue, calls, Steps, Run, Turns
  <2>2. LaneOwned'
    BY <1>19, <1>3, <1>4, <1>5 DEF Steer, Issue, calls, Owns, OwnerSteps, LaneOwned
  <2> QED
    BY <1>19, <2>1, <2>2, <1>1, <1>2, <1>3 DEF Steer, Issue, buffers, TypeInv, TypeOK
<1>20. ASSUME NEW c \in Calls, Stop(c) PROVE TypeInv'
  <2>1. lane' \in Seq(Calls) /\ settled' \in BOOLEAN /\ before' \subseteq Calls /\ finalized' \subseteq Turns
    BY <1>20, <1>3, <1>5, LaneSeqs DEF Stop, Issue
  <2>2. /\ pc' \in [Calls -> Steps] /\ kind' \in [Calls -> Kinds \cup {"none"}]
        /\ expects' \in [Calls -> Turns \cup {None}] /\ prov' \in [Turns -> ProviderStates]
    BY <1>20, <1>4 DEF Stop, Issue, calls, Steps
  <2>3. LaneOwned'
    BY <1>20, <1>3, <1>4, <1>5, LaneSeqs DEF Stop, Issue, calls, Owns, OwnerSteps, LaneOwned
  <2> QED
    BY <1>20, <2>1, <2>2, <2>3, <1>1, <1>2 DEF Stop, Issue, buffers, TypeInv, TypeOK
<1>21. ASSUME NEW c \in Calls, Send(c) PROVE TypeInv'
  <2>1. agent' \in Agent /\ run' \in Run
    BY <1>21, <1>1, SendOrReplaceTypes DEF Send, Issue
  <2>2. staged' \in Seq(Event) /\ held' \in Seq(Event) /\ queue' \in Seq(Event)
    BY <1>21, <1>2, SendOrReplaceTypes DEF Send, Issue, calls, buffers
  <2>3. lane' \in Seq(Calls) /\ settled' \in BOOLEAN /\ before' \subseteq Calls /\ finalized' \subseteq Turns
    BY <1>21, <1>3, <1>5, SendOrReplaceTypes DEF Send, Issue
  <2>4. /\ pc' \in [Calls -> Steps] /\ kind' \in [Calls -> Kinds \cup {"none"}]
        /\ expects' \in [Calls -> Turns \cup {None}] /\ prov' \in [Turns -> ProviderStates]
    BY <1>21, <1>4, SendOrReplaceTypes DEF Send, Issue, calls
  <2>5. LaneOwned'
    BY <1>21, <1>3, <1>4, <1>5, SendOrReplaceTypes DEF Send, Issue, calls, LaneOwned
  <2> QED
    BY <2>1, <2>2, <2>3, <2>4, <2>5 DEF TypeInv, TypeOK
<1>22. ASSUME NEW c \in Calls, RunAgent(c) PROVE TypeInv'
  <2>1. agent' \in Agent /\ run' \in Run
    BY <1>22, <1>1, StreamAgentTypes DEF RunAgent, Issue
  <2>2. staged' \in Seq(Event) /\ held' \in Seq(Event) /\ queue' \in Seq(Event)
    BY <1>22, <1>2, StreamAgentTypes DEF RunAgent, Issue, calls, buffers
  <2>3. lane' \in Seq(Calls) /\ settled' \in BOOLEAN /\ before' \subseteq Calls /\ finalized' \subseteq Turns
    BY <1>22, <1>3, <1>5, StreamAgentTypes DEF RunAgent, Issue
  <2>4. /\ pc' \in [Calls -> Steps] /\ kind' \in [Calls -> Kinds \cup {"none"}]
        /\ expects' \in [Calls -> Turns \cup {None}] /\ prov' \in [Turns -> ProviderStates]
    BY <1>22, <1>4, StreamAgentTypes DEF RunAgent, Issue, calls, Steps
  <2>5. LaneOwned'
    BY <1>22, <1>3, <1>4, <1>5, StreamAgentTypes DEF RunAgent, Issue, calls, Owns, OwnerSteps, LaneOwned
  <2> QED
    BY <2>1, <2>2, <2>3, <2>4, <2>5 DEF TypeInv, TypeOK
<1>23. ASSUME NEW c \in Calls, Resume(c) PROVE TypeInv'
  <2>1. agent' \in Agent /\ run' \in Run
    BY <1>23, <1>1, StreamAgentTypes DEF Resume, Agent
  <2>2. staged' \in Seq(Event) /\ held' \in Seq(Event) /\ queue' \in Seq(Event)
    BY <1>23, <1>2, StreamAgentTypes DEF Resume, calls, buffers
  <2>3. lane' \in Seq(Calls) /\ settled' \in BOOLEAN /\ before' \subseteq Calls /\ finalized' \subseteq Turns
    BY <1>23, <1>3, <1>5, StreamAgentTypes DEF Resume
  <2>4. /\ pc' \in [Calls -> Steps] /\ kind' \in [Calls -> Kinds \cup {"none"}]
        /\ expects' \in [Calls -> Turns \cup {None}] /\ prov' \in [Turns -> ProviderStates]
    BY <1>23, <1>4, StreamAgentTypes DEF Resume, calls, Steps
  <2>5. LaneOwned'
    BY <1>23, <1>3, <1>4, <1>5, StreamAgentTypes DEF Resume, calls, Owns, OwnerSteps, LaneOwned
  <2> QED
    BY <2>1, <2>2, <2>3, <2>4, <2>5 DEF TypeInv, TypeOK
<1>24. ASSUME NEW c \in Calls, SteerChoose(c) PROVE TypeInv'
  <2>1. agent' \in Agent /\ run' \in Run
    BY <1>24, <1>1, SendOrReplaceTypes DEF SteerChoose, SendInstead
  <2>2. staged' \in Seq(Event) /\ held' \in Seq(Event) /\ queue' \in Seq(Event)
    BY <1>24, <1>2, SendOrReplaceTypes DEF SteerChoose, SendInstead, calls, buffers
  <2>3. lane' \in Seq(Calls) /\ settled' \in BOOLEAN /\ before' \subseteq Calls /\ finalized' \subseteq Turns
    BY <1>24, <1>3, <1>5, SendOrReplaceTypes, LaneSeqs DEF SteerChoose, SendInstead
  <2>4. /\ pc' \in [Calls -> Steps] /\ kind' \in [Calls -> Kinds \cup {"none"}]
        /\ expects' \in [Calls -> Turns \cup {None}] /\ prov' \in [Turns -> ProviderStates]
    BY <1>24, <1>4, <1>1, SendOrReplaceTypes DEF SteerChoose, SendInstead, calls, Steps, CurrentTurn, Agent
  <2>5. LaneOwned'
    BY <1>24, <1>3, <1>4, <1>5, SendOrReplaceTypes, LaneSeqs DEF SteerChoose, SendInstead, calls, Owns, OwnerSteps, LaneOwned
  <2> QED
    BY <2>1, <2>2, <2>3, <2>4, <2>5 DEF TypeInv, TypeOK
<1>25. ASSUME NEW c \in Calls, SteerFallback(c) PROVE TypeInv'
  <2>1. agent' \in Agent /\ run' \in Run
    BY <1>25, <1>1, SendOrReplaceTypes, BeginReplacementTypes DEF SteerFallback, SendInstead
  <2>2. staged' \in Seq(Event) /\ held' \in Seq(Event) /\ queue' \in Seq(Event)
    BY <1>25, <1>2, SendOrReplaceTypes, BeginReplacementTypes DEF SteerFallback, SendInstead, calls, buffers
  <2>3. lane' \in Seq(Calls) /\ settled' \in BOOLEAN /\ before' \subseteq Calls /\ finalized' \subseteq Turns
    BY <1>25, <1>3, <1>5, SendOrReplaceTypes, BeginReplacementTypes DEF SteerFallback, SendInstead
  <2>4. /\ pc' \in [Calls -> Steps] /\ kind' \in [Calls -> Kinds \cup {"none"}]
        /\ expects' \in [Calls -> Turns \cup {None}] /\ prov' \in [Turns -> ProviderStates]
    BY <1>25, <1>4, SendOrReplaceTypes, BeginReplacementTypes DEF SteerFallback, SendInstead, calls, Steps
  <2>5. LaneOwned'
    BY <1>25, <1>3, <1>4, <1>5, SendOrReplaceTypes, BeginReplacementTypes DEF SteerFallback, SendInstead, calls, Owns, OwnerSteps, LaneOwned
  <2> QED
    BY <2>1, <2>2, <2>3, <2>4, <2>5 DEF TypeInv, TypeOK
<1>26. ASSUME NEW c \in Calls, TurnBegins(c) PROVE TypeInv'
  <2>1. staged' \in Seq(Event) /\ held' \in Seq(Event) /\ queue' \in Seq(Event)
    BY <1>26, <1>2, EventSeqs DEF TurnBegins, calls, buffers, Enqueue, Event, Turns, Start
  <2>2. /\ pc' \in [Calls -> Steps] /\ kind' \in [Calls -> Kinds \cup {"none"}]
        /\ expects' \in [Calls -> Turns \cup {None}] /\ prov' \in [Turns -> ProviderStates]
    BY <1>26, <1>4 DEF TurnBegins, calls, ProviderStates, Turns
  <2>3. LaneOwned'
    BY <1>26, <1>3, <1>4, <1>5 DEF TurnBegins, calls, Owns, LaneOwned
  <2> QED
    BY <1>26, <2>1, <2>2, <2>3, <1>1, <1>3 DEF TurnBegins, TypeInv, TypeOK
<1>27. ASSUME NEW a \in Autos, AutonomousBegins(a) PROVE TypeInv'
  <2>1. staged' \in Seq(Event) /\ held' \in Seq(Event) /\ queue' \in Seq(Event)
    BY <1>27, <1>2, EventSeqs DEF AutonomousBegins, calls, buffers, Enqueue, Event, Turns, Start
  <2>2. /\ pc' \in [Calls -> Steps] /\ kind' \in [Calls -> Kinds \cup {"none"}]
        /\ expects' \in [Calls -> Turns \cup {None}] /\ prov' \in [Turns -> ProviderStates]
    BY <1>27, <1>4 DEF AutonomousBegins, calls, ProviderStates, Turns
  <2>3. LaneOwned'
    BY <1>27, <1>3, <1>4, <1>5 DEF AutonomousBegins, calls, Owns, LaneOwned
  <2> QED
    BY <1>27, <2>1, <2>2, <2>3, <1>1, <1>3 DEF AutonomousBegins, TypeInv, TypeOK
<1>28. ASSUME NEW t \in Turns, NEW type \in {"ended", "failed"}, TurnEnds(t, type) PROVE TypeInv'
  <2>1. staged' \in Seq(Event) /\ held' \in Seq(Event) /\ queue' \in Seq(Event)
    BY <1>28, <1>2, EventSeqs DEF TurnEnds, calls, buffers, Enqueue, Event, Turns
  <2>2. /\ pc' \in [Calls -> Steps] /\ kind' \in [Calls -> Kinds \cup {"none"}]
        /\ expects' \in [Calls -> Turns \cup {None}] /\ prov' \in [Turns -> ProviderStates]
    BY <1>28, <1>4 DEF TurnEnds, calls, ProviderStates, Turns
  <2>3. LaneOwned'
    BY <1>28, <1>3, <1>4, <1>5 DEF TurnEnds, calls, Owns, LaneOwned
  <2> QED
    BY <1>28, <2>1, <2>2, <2>3, <1>1, <1>3 DEF TurnEnds, TypeInv, TypeOK
<1>29. ASSUME NEW c \in Calls, RunStarted(c) PROVE TypeInv'
  <2>1. agent' \in Agent /\ run' \in Run
    BY <1>29, <1>1, RunStartedTypes DEF RunStarted
  <2>2. staged' \in Seq(Event) /\ held' \in Seq(Event) /\ queue' \in Seq(Event)
    BY <1>29, <1>2, RunStartedTypes DEF RunStarted, calls, buffers
  <2>3. /\ pc' \in [Calls -> Steps] /\ kind' \in [Calls -> Kinds \cup {"none"}]
        /\ expects' \in [Calls -> Turns \cup {None}] /\ prov' \in [Turns -> ProviderStates]
    BY <1>29, <1>4 DEF RunStarted, calls, Steps
  <2>4. LaneOwned'
    BY <1>29, <1>3, <1>4, <1>5 DEF RunStarted, calls, Owns, OwnerSteps, LaneOwned
  <2> QED
    BY <1>29, <2>1, <2>2, <2>3, <2>4, <1>3 DEF RunStarted, TypeInv, TypeOK
<1>30. ASSUME NEW c \in Calls, RunRejected(c) PROVE TypeInv'
  <2>1. agent' \in Agent /\ run' \in Run
    BY <1>30, <1>1, RejectionTypes DEF RunRejected
  <2>2. staged' \in Seq(Event) /\ held' \in Seq(Event) /\ queue' \in Seq(Event)
    BY <1>30, <1>2, EventSeqs DEF RunRejected, calls, buffers
  <2>3. lane' \in Seq(Calls) /\ settled' \in BOOLEAN /\ before' \subseteq Calls /\ finalized' \subseteq Turns
    BY <1>30, <1>3, <1>5 DEF RunRejected, NoteSettled
  <2>4. /\ pc' \in [Calls -> Steps] /\ kind' \in [Calls -> Kinds \cup {"none"}]
        /\ expects' \in [Calls -> Turns \cup {None}] /\ prov' \in [Turns -> ProviderStates]
    BY <1>30, <1>4 DEF RunRejected, calls, Steps, ProviderStates
  <2>5. LaneOwned'
    BY <1>30, <1>3, <1>4, <1>5 DEF RunRejected, calls, Owns, OwnerSteps, LaneOwned
  <2> QED
    BY <2>1, <2>2, <2>3, <2>4, <2>5 DEF TypeInv, TypeOK
<1>31. ASSUME NEW c \in Calls, RunWentStale(c) PROVE TypeInv'
  <2>1. agent' \in Agent /\ run' \in Run
    BY <1>31, <1>1 DEF RunWentStale, NoRun, Run, Agent
  <2>2. staged' \in Seq(Event) /\ held' \in Seq(Event) /\ queue' \in Seq(Event)
    BY <1>31, <1>2, EventSeqs DEF RunWentStale, calls, buffers
  <2>3. lane' \in Seq(Calls) /\ settled' \in BOOLEAN /\ before' \subseteq Calls /\ finalized' \subseteq Turns
    BY <1>31, <1>3, <1>5 DEF RunWentStale, NoteSettled
  <2>4. /\ pc' \in [Calls -> Steps] /\ kind' \in [Calls -> Kinds \cup {"none"}]
        /\ expects' \in [Calls -> Turns \cup {None}] /\ prov' \in [Turns -> ProviderStates]
    BY <1>31, <1>4 DEF RunWentStale, calls, Steps, ProviderStates
  <2>5. LaneOwned'
    BY <1>31, <1>3, <1>4, <1>5 DEF RunWentStale, calls, Owns, OwnerSteps, LaneOwned
  <2> QED
    BY <2>1, <2>2, <2>3, <2>4, <2>5 DEF TypeInv, TypeOK
<1>32. ASSUME Dispatch PROVE TypeInv'
  <2>1. agent' \in Agent /\ run' \in Run
    BY <1>32, <1>1, DispatchTypes DEF Dispatch
  <2>2. staged' \in Seq(Event) /\ held' \in Seq(Event) /\ queue' \in Seq(Event)
    BY <1>32, <1>2, EventSeqs DEF Dispatch, calls, buffers
  <2>3. lane' \in Seq(Calls) /\ settled' \in BOOLEAN /\ before' \subseteq Calls /\ finalized' \subseteq Turns
    BY <1>32, <1>3, <1>5, DispatchTypes DEF Dispatch, NoteSettled
  <2>4. /\ pc' \in [Calls -> Steps] /\ kind' \in [Calls -> Kinds \cup {"none"}]
        /\ expects' \in [Calls -> Turns \cup {None}] /\ prov' \in [Turns -> ProviderStates]
    BY <1>32, <1>4, DispatchTypes DEF Dispatch, calls
  <2>5. LaneOwned'
    BY <1>32, <1>3, <1>4, <1>5, DispatchTypes DEF Dispatch, calls, Owns, LaneOwned
  <2> QED
    BY <2>1, <2>2, <2>3, <2>4, <2>5 DEF TypeInv, TypeOK
<1>40. CASE UNCHANGED vars
  BY <1>1, <1>2, <1>3, <1>4, <1>5, <1>40 DEF vars, TypeInv, TypeOK, LaneOwned, Owns
<1> QED
  BY <1>11, <1>12, <1>13, <1>14, <1>15, <1>16, <1>17, <1>18, <1>19, <1>20, <1>21, <1>22, <1>23, <1>24, <1>25, <1>26, <1>27, <1>28, <1>29, <1>30, <1>31, <1>32, <1>40, SettlementTypes, NextCases

\* Every reachable state is well typed, and only the head of the lane is inside it:
\* two cancellations or steers never overlap (foregroundMutationTails).
THEOREM TypeCorrect == Spec => []TypeOK
<1>1. TypeInv => TypeOK
  BY DEF TypeInv
<1> QED
  BY <1>1, TypeInit, TypeStep, PTL DEF Spec
-----------------------------------------------------------------------------
(* The run slot *)

LEMMA SlotInit == Init => SlotInv
<1> SUFFICES ASSUME Init PROVE SlotInv
  OBVIOUS
<1>1. EventsPlausible
  BY EventSeqs DEF Init, EventsPlausible
<1>2. RunShape
  BY DEF Init, RunShape, NoRun
<1>3. WorkOwned /\ CaptureHolds /\ NotYetAsked
  BY DEF Init, WorkOwned, CaptureHolds, Waits, NotYetAsked, Unasked, Turns
<1> QED
  BY <1>1, <1>2, <1>3 DEF SlotInv

\* What is said of a turn's end stays true: a turn that is over does not run again
LEMMA PlausibleStays ==
    ASSUME TypeInv, \A t \in Turns : prov[t] \in {"over", "spent"} => prov'[t] \in {"over", "spent"}
    PROVE  \A s \in Seq(Plausible) : s \in Seq(Plausible')
<1>1. Plausible \subseteq Plausible'
  BY DEF Plausible, Event
<1> QED
  BY <1>1, SeqMonotonic

\* The four ways events move
LEMMA BuffersKept ==
    ASSUME TypeInv, EventsPlausible,
           \A t \in Turns : prov[t] \in {"over", "spent"} => prov'[t] \in {"over", "spent"},
           staged' \in {staged, <<>>}, UNCHANGED <<held, queue>>
    PROVE  EventsPlausible'
BY PlausibleStays, EventSeqs DEF EventsPlausible

LEMMA EventEnqueued ==
    ASSUME TypeInv, EventsPlausible, NEW e, e \in Plausible', Enqueue(e),
           \A t \in Turns : prov[t] \in {"over", "spent"} => prov'[t] \in {"over", "spent"}
    PROVE  EventsPlausible'
<1>1. queue \in Seq(Plausible') /\ staged \in Seq(Plausible') /\ held \in Seq(Plausible')
  BY PlausibleStays DEF EventsPlausible
<1>2. /\ Append(queue, e) \in Seq(Plausible') /\ Append(staged, e) \in Seq(Plausible')
      /\ Append(held, e) \in Seq(Plausible')
  BY <1>1, EventSeqs
<1> QED
  BY <1>1, <1>2 DEF Enqueue, EventsPlausible

LEMMA EventsReleased ==
    ASSUME EventsPlausible, UNCHANGED prov,
           \E c \in Calls :
              /\ held' \in {held, <<>>, held \o Unstaged(c)}
              /\ staged' \in {staged, <<>>, staged \o held}
              /\ queue' \in {queue, queue \o Unstaged(c), queue \o held}
    PROVE  EventsPlausible'
<1> PICK c \in Calls :
              /\ held' \in {held, <<>>, held \o Unstaged(c)}
              /\ staged' \in {staged, <<>>, staged \o held}
              /\ queue' \in {queue, queue \o Unstaged(c), queue \o held}
  OBVIOUS
<1>1. Plausible' = Plausible
  BY DEF Plausible
<1>2. queue \in Seq(Plausible) /\ staged \in Seq(Plausible) /\ held \in Seq(Plausible)
  BY DEF EventsPlausible
<1>3. /\ <<>> \in Seq(Plausible) /\ held \o Unstaged(c) \in Seq(Plausible)
      /\ staged \o held \in Seq(Plausible)
      /\ queue \o Unstaged(c) \in Seq(Plausible) /\ queue \o held \in Seq(Plausible)
  BY <1>2, EventSeqs, UnstagedSeq DEF Unstaged
<1> QED
  BY <1>1, <1>2, <1>3 DEF EventsPlausible

LEMMA EventTaken ==
    ASSUME EventsPlausible, Dispatch
    PROVE  Head(queue) \in Plausible /\ EventsPlausible'
<1>1. Plausible' = Plausible
  BY DEF Dispatch, Plausible
<1>2. Head(queue) \in Plausible /\ Tail(queue) \in Seq(Plausible)
  BY EventSeqs DEF EventsPlausible, Dispatch
<1> QED
  BY <1>1, <1>2 DEF EventsPlausible, Dispatch

\* A step that moves calls along without touching the run or the provider
LEMMA CallsMove ==
    ASSUME TypeInv, SlotInv, EventsPlausible', UNCHANGED <<run, prov, settled, before>>,
           \A d \in Calls : /\ pc'[d] \in Unasked => pc[d] \in Unasked
                            /\ pc'[d] \in Waits => \/ pc'[d] = pc[d]
                                                   \/ pc'[d] = "settlingRefused" /\ pc[d] = "interrupting"
    PROVE  SlotInv'
<1>1. RunShape' /\ WorkOwned'
  BY DEF SlotInv, RunShape, WorkOwned
<1>2. CaptureHolds'
  BY DEF SlotInv, CaptureHolds, Waits
<1>3. NotYetAsked'
  BY DEF SlotInv, NotYetAsked, Unasked, OwnerSteps
<1> QED
  BY <1>1, <1>2, <1>3 DEF SlotInv

LEMMA StreamAgentSlot ==
    ASSUME TypeInv, SlotInv, NEW c \in Calls, StreamAgent(c), run = NoRun, pc[c] \in Unasked
    PROVE  SlotInv'
<1>1. /\ prov[c] = "none" /\ prov \in [Turns -> ProviderStates] /\ c \in Turns
      /\ pc \in [Calls -> Steps]
  BY DEF SlotInv, NotYetAsked, TypeInv, TypeOK, Turns
<1>2. prov' = [prov EXCEPT ![c] = "asked"] /\ pc' = [pc EXCEPT ![c] = "starting"]
  BY DEF StreamAgent
<1>3. EventsPlausible'
  BY <1>1, <1>2, BuffersKept DEF StreamAgent, SlotInv
<1>4. RunShape'
  BY <1>1, <1>2 DEF StreamAgent, PendingRun, RunShape
<1>5. WorkOwned'
  BY <1>1, <1>2 DEF StreamAgent, PendingRun, SlotInv, WorkOwned, NoRun, Turns
<1>6. CaptureHolds'
  BY <1>1, <1>2 DEF StreamAgent, SlotInv, CaptureHolds, Waits, NoRun
<1>7. NotYetAsked'
  BY <1>1, <1>2 DEF SlotInv, NotYetAsked, Unasked, OwnerSteps, Turns
<1> QED
  BY <1>3, <1>4, <1>5, <1>6, <1>7 DEF SlotInv

LEMMA BeginReplacementSlot ==
    ASSUME TypeInv, SlotInv, NEW c \in Calls, BeginReplacement(c), pc[c] \in Unasked
    PROVE  SlotInv'
<1>1. EventsPlausible'
  BY BuffersKept DEF BeginReplacement, buffers, SlotInv
<1>2. pc \in [Calls -> Steps]
  BY DEF TypeInv, TypeOK
<1>3. \A d \in Calls : /\ pc'[d] \in Unasked => pc[d] \in Unasked
                       /\ pc'[d] \in Waits => pc'[d] = pc[d]
  BY <1>2 DEF BeginReplacement, Waits
<1> QED
  BY <1>1, <1>3, CallsMove DEF BeginReplacement

LEMMA SendOrReplaceSlot ==
    ASSUME TypeInv, SlotInv, NEW c \in Calls, SendOrReplace(c), pc[c] \in Unasked
    PROVE  SlotInv'
BY BeginReplacementSlot, StreamAgentSlot DEF SendOrReplace, HasInFlightRun

\* The owner leaves the lane: nobody waits for a captured run any more
LEMMA ReturnsSlot ==
    ASSUME TypeInv, SlotInv, NEW c \in Calls, NEW to, Owns(c), Returns(c, to),
           pc[c] \in Unasked, UNCHANGED prov, RunShape', WorkOwned', EventsPlausible'
    PROVE  SlotInv'
<1>1. pc \in [Calls -> Steps]
  BY DEF TypeInv, TypeOK
<1>2. CaptureHolds'
  <2>1. \A d \in Calls : pc'[d] \notin {"interrupting", "settlingAcked", "settlingRefused"}
    BY <1>1 DEF Returns, TypeInv, LaneOwned, Owns, OwnerSteps
  <2> QED
    BY <2>1 DEF CaptureHolds, Waits
<1>3. NotYetAsked'
  BY <1>1 DEF Returns, SlotInv, NotYetAsked, Unasked, OwnerSteps
<1> QED
  BY <1>2, <1>3 DEF SlotInv

\* The run is cleared, and a cancellation that waits for it is told
LEMMA ClearedSlot ==
    ASSUME TypeInv, SlotInv, EventsPlausible', NoteSettled, UNCHANGED <<prov, before>>,
           run' \in {run, NoRun},
           run' = NoRun => \A d \in Calls : prov[d] \notin {"asked", "live"},
           \A d \in Calls : /\ pc'[d] \in Unasked => pc[d] \in Unasked
                            /\ pc'[d] \in Waits => pc'[d] = pc[d]
    PROVE  SlotInv'
<1>1. RunShape'
  BY DEF SlotInv, RunShape, NoRun
<1>2. WorkOwned'
  BY DEF SlotInv, WorkOwned
<1>3. CaptureHolds'
  BY DEF SlotInv, CaptureHolds, NoteSettled, Cancelling, Waits
<1>4. NotYetAsked'
  BY DEF SlotInv, NotYetAsked, Unasked, OwnerSteps
<1> QED
  BY <1>1, <1>2, <1>3, <1>4 DEF SlotInv

\* Calls that only move: one leaf for each way the events may move with them
LEMMA LaneStepsSlot ==
    ASSUME TypeInv, SlotInv, NEW c \in Calls,
           \/ SteerAdmit(c) \/ SteerReturns(c) \/ Steer(c) \/ Stop(c) \/ InterruptRefused(c)
           \/ \E answer \in {"accepted", "unavailable", "rejected"} : SteerAnswered(c, answer)
    PROVE  SlotInv'
<1>1. pc \in [Calls -> Steps]
  BY DEF TypeInv, TypeOK
<1>2. UNCHANGED <<run, prov, settled, before>>
  BY DEF SteerAdmit, SteerReturns, Steer, Stop, InterruptRefused, SteerAnswered, buffers
<1>3. EventsPlausible'
  <2>1. CASE UNCHANGED buffers
    BY <1>2, <2>1, BuffersKept DEF buffers, SlotInv
  <2>2. ASSUME NEW answer, SteerAnswered(c, answer) PROVE EventsPlausible'
    BY <2>2, EventsReleased DEF SteerAnswered, SlotInv
  <2> QED
    BY <2>1, <2>2 DEF SteerAdmit, SteerReturns, Steer, Stop, InterruptRefused, buffers
<1>4. \A d \in Calls : pc'[d] \in Unasked => pc[d] \in Unasked
  BY <1>1 DEF SteerAdmit, SteerReturns, Steer, Stop, Issue, InterruptRefused, SteerAnswered,
              Unasked, OwnerSteps
<1>5. \A d \in Calls : pc'[d] \in Waits => \/ pc'[d] = pc[d]
                                           \/ pc'[d] = "settlingRefused" /\ pc[d] = "interrupting"
  BY <1>1 DEF SteerAdmit, SteerReturns, Steer, Stop, Issue, InterruptRefused, SteerAnswered, Waits
<1> QED
  BY <1>2, <1>3, <1>4, <1>5, CallsMove

\* Calls that stream, replace, or give up
LEMMA StartStepsSlot ==
    ASSUME TypeInv, SlotInv, NEW c \in Calls,
           Send(c) \/ RunAgent(c) \/ Resume(c) \/ SteerChoose(c) \/ SteerFallback(c)
    PROVE  SlotInv'
<1>1. pc[c] \in Unasked
  BY DEF Send, RunAgent, Resume, SteerChoose, SteerFallback, Issue, Unasked
<1>2. CASE StreamAgent(c) /\ run = NoRun
  BY <1>1, <1>2, StreamAgentSlot
<1>3. CASE SendOrReplace(c)
  BY <1>1, <1>3, SendOrReplaceSlot
<1>4. CASE BeginReplacement(c)
  BY <1>1, <1>4, BeginReplacementSlot
<1>5. CASE /\ UNCHANGED <<run, buffers, settled, before, prov>>
           /\ \E to \in {"failed", "steerQueued", "fallback"} : pc' = [pc EXCEPT ![c] = to]
  <2>1. EventsPlausible'
    BY <1>5, BuffersKept DEF buffers, SlotInv
  <2>2. pc \in [Calls -> Steps]
    BY DEF TypeInv, TypeOK
  <2>3. \A d \in Calls : (pc'[d] \in Unasked => pc[d] \in Unasked) /\ (pc'[d] \in Waits => pc'[d] = pc[d])
    BY <1>1, <1>5, <2>2 DEF Unasked, OwnerSteps, Waits
  <2> QED
    BY <1>5, <2>1, <2>3, CallsMove
<1> QED
  BY <1>2, <1>3, <1>4, <1>5
     DEF Send, RunAgent, Resume, SteerChoose, SteerFallback, SendInstead, CanStream

\* The provider's own steps
LEMMA ProviderStepsSlot ==
    ASSUME TypeInv, SlotInv,
           \/ \E c \in Calls : TurnBegins(c)
           \/ \E a \in Autos : AutonomousBegins(a)
           \/ \E t \in Turns, type \in {"ended", "failed"} : TurnEnds(t, type)
    PROVE  SlotInv'
<1>1. prov \in [Turns -> ProviderStates]
  BY DEF TypeInv, TypeOK
<1>2. PICK t \in Turns, to \in {"live", "over", "spent"}, e \in Event :
         /\ prov' = [prov EXCEPT ![t] = to] /\ Enqueue(e) /\ e.turn = t
         /\ UNCHANGED <<run, settled, before, pc>>
         /\ \/ t \in Calls /\ prov[t] = "asked" /\ to = "live" /\ e.type = "started"
            \/ t \in Autos /\ prov[t] = "none" /\ to = "live" /\ e.type = "started"
            \/ prov[t] \in {"live", "stopped", "over"} /\ to \in {"over", "spent"}
  <2>1. CASE \E c \in Calls : TurnBegins(c)
    <3>1. PICK c \in Calls : TurnBegins(c)
      BY <2>1
    <3>2. Start(c) \in Event /\ Start(c).turn = c /\ Start(c).type = "started"
      BY DEF Start, Event, Turns
    <3> QED
      BY <3>1, <3>2 DEF TurnBegins, Turns, calls
  <2>2. CASE \E a \in Autos : AutonomousBegins(a)
    <3>1. PICK a \in Autos : AutonomousBegins(a)
      BY <2>2
    <3>2. Start(a) \in Event /\ Start(a).turn = a /\ Start(a).type = "started"
      BY DEF Start, Event, Turns
    <3> QED
      BY <3>1, <3>2 DEF AutonomousBegins, Turns, calls
  <2>3. CASE \E t \in Turns, type \in {"ended", "failed"} : TurnEnds(t, type)
    BY <2>3 DEF TurnEnds, Event, Turns, calls
  <2> QED
    BY <2>1, <2>2, <2>3
<1>3. \A d \in Turns : prov[d] \in {"over", "spent"} => prov'[d] \in {"over", "spent"}
  BY <1>1, <1>2
<1>4. EventsPlausible'
  <2>1. e \in Plausible'
    BY <1>1, <1>2 DEF Plausible
  <2> QED
    BY <1>2, <1>3, <2>1, EventEnqueued DEF SlotInv
<1>5. \A d \in Calls : /\ prov'[d] \in {"asked", "live"} => prov[d] \in {"asked", "live"}
                       /\ prov'[d] = "none" <=> prov[d] = "none"
  BY <1>1, <1>2, CallsAssumption DEF Turns
<1>6. RunShape' /\ WorkOwned'
  BY <1>2, <1>5 DEF SlotInv, RunShape, WorkOwned, NoRun
<1>7. CaptureHolds'
  BY <1>2, <1>5 DEF SlotInv, CaptureHolds, Waits, RunShape
<1>8. NotYetAsked'
  BY <1>2, <1>5 DEF SlotInv, NotYetAsked, Unasked, OwnerSteps
<1> QED
  BY <1>4, <1>6, <1>7, <1>8 DEF SlotInv

\* startTurn answers: the run gets its turn, or it and its work are gone
LEMMA StartAnswersSlot ==
    ASSUME TypeInv, SlotInv, NEW c \in Calls,
           RunStarted(c) \/ RunRejected(c) \/ RunWentStale(c)
    PROVE  SlotInv'
<1>1. pc \in [Calls -> Steps] /\ prov \in [Turns -> ProviderStates] /\ c \in Turns /\ run \in Run
  BY DEF TypeInv, TypeOK, Turns
<1>2. CASE RunStarted(c)
  <2>1. EventsPlausible'
    BY <1>2, EventsReleased DEF RunStarted, buffers, SlotInv
  <2>2. /\ run'.kind = run.kind /\ run'.by = run.by
        /\ run' = run \/ (run.by = c /\ run' = [run EXCEPT !.turn = c])
    BY <1>1, <1>2 DEF RunStarted, Run
  <2>3. \A d \in Calls : (pc'[d] \in Unasked => pc[d] \in Unasked) /\ (pc'[d] \in Waits => pc'[d] = pc[d])
    BY <1>1, <1>2 DEF RunStarted, Unasked, OwnerSteps, Waits
  <2>4. RunShape'
    BY <1>2, <2>2, CallsAssumption DEF RunStarted, SlotInv, RunShape, TypeInv, TypeOK, Run, NoRun
  <2>5. WorkOwned' /\ CaptureHolds' /\ NotYetAsked'
    BY <1>2, <2>2, <2>3
       DEF RunStarted, SlotInv, WorkOwned, CaptureHolds, NotYetAsked, Waits, Unasked, OwnerSteps
  <2> QED
    BY <2>1, <2>4, <2>5 DEF SlotInv
<1>3. CASE RunRejected(c) \/ RunWentStale(c)
  <2>1. /\ prov[c] \in {"asked", "stopped"} /\ prov' = [prov EXCEPT ![c] = "spent"]
        /\ pc[c] = "starting" /\ pc' = [pc EXCEPT ![c] = "failed"]
        /\ run' = (IF run.by = c THEN NoRun ELSE run)
        /\ staged' \in {staged, <<>>} /\ UNCHANGED <<held, queue, before>> /\ NoteSettled
    BY <1>3 DEF RunRejected, RunWentStale
  <2>2. EventsPlausible'
    BY <1>1, <2>1, BuffersKept DEF SlotInv
  <2>3. RunShape'
    BY <1>1, <2>1 DEF SlotInv, RunShape, NoRun
  <2>4. WorkOwned'
    BY <1>1, <2>1 DEF SlotInv, WorkOwned, Turns
  <2>5. CaptureHolds'
    BY <1>1, <2>1 DEF SlotInv, RunShape, CaptureHolds, NoteSettled, Cancelling, Waits, Turns
  <2>6. NotYetAsked'
    BY <1>1, <2>1 DEF SlotInv, NotYetAsked, Unasked, OwnerSteps
  <2> QED
    BY <2>2, <2>3, <2>4, <2>5, <2>6 DEF SlotInv
<1> QED
  BY <1>2, <1>3

\* One event is dispatched: only the end of a turn that is over clears a run
LEMMA DispatchSlot ==
    ASSUME TypeInv, SlotInv, Dispatch
    PROVE  SlotInv'
<1> DEFINE e == Head(queue)
<1>1. /\ pc \in [Calls -> Steps] /\ run \in Run
      /\ UNCHANGED <<prov, before>> /\ NoteSettled
  BY DEF TypeInv, TypeOK, Dispatch
<1>2. EventsPlausible' /\ e \in Plausible
  BY EventTaken DEF SlotInv
<1>3. CASE e.type = "started"
  <2>1. pc' = pc /\ (run' = run \/ (run = NoRun /\ run' = AutonomousRun(e.turn)))
    <3>1. Started(e.turn)
      BY <1>3 DEF Dispatch
    <3> QED
      BY <3>1 DEF Started
  <2>2. RunShape' /\ WorkOwned'
    BY <1>1, <2>1 DEF SlotInv, RunShape, WorkOwned, AutonomousRun, NoRun
  <2>3. settled => settled'
    BY <1>1 DEF NoteSettled
  <2>4. CaptureHolds'
    BY <1>1, <2>1, <2>3 DEF SlotInv, CaptureHolds, NoRun, Waits
  <2>5. NotYetAsked'
    BY <1>1, <2>1 DEF SlotInv, NotYetAsked, Unasked, OwnerSteps
  <2> QED
    BY <1>2, <2>2, <2>4, <2>5 DEF SlotInv
<1>4. CASE e.type # "started"
  <2>1. /\ run' = run \/ (Settles(e.turn) /\ run' = NoRun)
        /\ pc' = IF e.turn \in Calls THEN StreamEnds(e.turn) ELSE pc
    <3>1. Terminal(e.turn, e.type) /\ pc' = IF e.turn \in Calls THEN StreamEnds(e.turn) ELSE pc
      BY <1>4 DEF Dispatch
    <3> QED
      BY <3>1 DEF Terminal
  <2>2. prov[e.turn] \in {"over", "spent"}
    BY <1>2, <1>4 DEF Plausible
  <2>3. Settles(e.turn) => \A d \in Calls : prov[d] \notin {"asked", "live"}
    BY <2>2 DEF Settles, SlotInv, RunShape, WorkOwned
  <2>4. \A d \in Calls : (pc'[d] \in Unasked => pc[d] \in Unasked) /\ (pc'[d] \in Waits => pc'[d] = pc[d])
    BY <1>1, <2>1 DEF StreamEnds, Unasked, OwnerSteps, Waits
  <2>5. run = NoRun => \A d \in Calls : prov[d] \notin {"asked", "live"}
    BY DEF SlotInv, WorkOwned, NoRun
  <2> QED
    BY <1>1, <1>2, <2>1, <2>3, <2>4, <2>5, ClearedSlot
<1> QED
  BY <1>3, <1>4

\* A cancellation begins, is answered, or gives the lane back
LEMMA CancelStepsSlot ==
    ASSUME TypeInv, SlotInv, NEW c \in Calls,
           CancelBegins(c) \/ InterruptAcked(c) \/ CancelSettled(c) \/ CancelRefused(c)
    PROVE  SlotInv'
<1>1. pc \in [Calls -> Steps] /\ prov \in [Turns -> ProviderStates] /\ before \subseteq Calls
  BY DEF TypeInv, TypeOK
<1>2. UNCHANGED buffers
  BY DEF CancelBegins, InterruptAcked, CancelSettled, CancelRefused, buffers
<1>3. Owns(c) /\ pc[c] \in Unasked
  BY DEF CancelBegins, InterruptAcked, CancelSettled, CancelRefused, TypeInv, LaneOwned,
         OwnerSteps, Unasked
<1>4. ASSUME NEW to, Returns(c, to), UNCHANGED <<run, prov>> PROVE SlotInv'
  <2>1. EventsPlausible'
    BY <1>2, <1>4, BuffersKept DEF buffers, SlotInv
  <2>2. RunShape' /\ WorkOwned'
    BY <1>4 DEF SlotInv, RunShape, WorkOwned
  <2> QED
    BY <1>3, <1>4, <2>1, <2>2, ReturnsSlot
<1>5. ASSUME CancelBegins(c), pc' = [pc EXCEPT ![c] = "interrupting"],
             run' = (IF run = NoRun THEN AutonomousRun(None) ELSE run),
             before' = {d \in Calls : prov[d] # "none"}
      PROVE  SlotInv'
  <2>1. UNCHANGED prov
    BY <1>5 DEF CancelBegins
  <2>2. EventsPlausible'
    BY <1>2, <2>1, BuffersKept DEF buffers, SlotInv
  <2>3. RunShape' /\ WorkOwned'
    BY <1>5, <2>1 DEF SlotInv, RunShape, WorkOwned, AutonomousRun, NoRun
  <2>4. \A d \in Calls \ {c} : pc'[d] \notin {"interrupting", "settlingAcked", "settlingRefused"}
    BY <1>1, <1>3, <1>5 DEF TypeInv, LaneOwned, Owns, OwnerSteps
  <2>5. CaptureHolds'
    BY <1>1, <1>5, <2>1, <2>4 DEF SlotInv, RunShape, CaptureHolds, Waits, AutonomousRun, NoRun
  <2>6. NotYetAsked'
    BY <1>1, <1>3, <1>5, <2>1 DEF SlotInv, NotYetAsked, Unasked, OwnerSteps
  <2> QED
    BY <2>2, <2>3, <2>5, <2>6 DEF SlotInv
<1>6. CASE InterruptAcked(c)
  <2>1. /\ pc[c] = "interrupting" /\ pc' = [pc EXCEPT ![c] = "settlingAcked"]
        /\ UNCHANGED <<run, settled, before>>
        /\ \A t \in Turns : prov'[t] = IF t \in before /\ prov[t] \in {"asked", "live"}
                                       THEN "stopped" ELSE prov[t]
    BY <1>6 DEF InterruptAcked
  <2>2. EventsPlausible'
    BY <1>2, <2>1, BuffersKept DEF buffers, SlotInv
  <2>3. RunShape' /\ WorkOwned'
    BY <2>1 DEF SlotInv, RunShape, WorkOwned, NoRun, Turns
  <2>4. \A d \in Calls \ {c} : pc'[d] \notin {"interrupting", "settlingAcked", "settlingRefused"}
    BY <1>1, <1>3, <2>1 DEF TypeInv, LaneOwned, Owns, OwnerSteps
  <2>5. CaptureHolds'
    BY <1>1, <2>1, <2>4 DEF SlotInv, RunShape, CaptureHolds, Waits, Turns
  <2>6. NotYetAsked'
    BY <1>1, <2>1 DEF SlotInv, NotYetAsked, Unasked, OwnerSteps, Turns
  <2> QED
    BY <2>2, <2>3, <2>5, <2>6 DEF SlotInv
<1> QED
  BY <1>4, <1>5, <1>6 DEF CancelBegins, CancelSettled, CancelRefused

\* The forced settlement comes only after an acknowledged interrupt, so the run it
\* clears has no turn that can still run
LEMMA SettlementSlot ==
    ASSUME TypeInv, SlotInv, NEW c \in Calls, SettlementTimesOut(c)
    PROVE  SlotInv'
<1>1. pc \in [Calls -> Steps] /\ run \in Run
  BY DEF TypeInv, TypeOK
<1>2. Owns(c) /\ pc[c] \in Unasked /\ pc[c] = "settlingAcked" /\ ~settled /\ UNCHANGED prov
  BY DEF SettlementTimesOut, TypeInv, LaneOwned, OwnerSteps, Unasked
<1>3. \A d \in Calls : prov[d] \notin {"asked", "live"}
  BY <1>2 DEF SlotInv, WorkOwned, CaptureHolds
<1>4. CASE ForceTurn(c)
  <2>1. EventsPlausible'
    BY <1>2, <1>4, BuffersKept DEF ForceTurn, buffers, SlotInv
  <2>2. \A d \in Calls : (pc'[d] \in Unasked => pc[d] \in Unasked) /\ (pc'[d] \in Waits => pc'[d] = pc[d])
    BY <1>1, <1>2, <1>4 DEF ForceTurn, StreamEnds, Unasked, OwnerSteps, Waits
  <2>3. run' \in {run, NoRun}
    BY <1>4 DEF ForceTurn, Terminal
  <2> QED
    BY <1>2, <1>3, <1>4, <2>1, <2>2, <2>3, ClearedSlot DEF ForceTurn
<1>5. ASSUME run' \in {run, NoRun}, Returns(c, "settled"), EventsPlausible' PROVE SlotInv'
  <2>1. RunShape' /\ WorkOwned'
    BY <1>2, <1>3, <1>5 DEF SlotInv, RunShape, WorkOwned, NoRun
  <2> QED
    BY <1>2, <1>5, <2>1, ReturnsSlot
<1>6. CASE ForcePending(c)
  <2>1. EventsPlausible'
    BY <1>2, <1>6, BuffersKept DEF ForcePending, SlotInv
  <2> QED
    BY <1>5, <1>6, <2>1 DEF ForcePending
<1>7. CASE ForceUnnamed(c)
  <2>1. EventsPlausible'
    BY <1>2, <1>7, BuffersKept DEF ForceUnnamed, buffers, SlotInv
  <2>2. run' \in {run, NoRun}
    BY <1>7 DEF ForceUnnamed, Terminal
  <2> QED
    BY <1>5, <1>7, <2>1, <2>2 DEF ForceUnnamed
<1> QED
  BY <1>4, <1>6, <1>7 DEF SettlementTimesOut

LEMMA SlotStep == TypeInv /\ SlotInv /\ [Next]_vars => SlotInv'
<1> SUFFICES ASSUME TypeInv, SlotInv, [Next]_vars PROVE SlotInv'
  OBVIOUS
<1>1. CASE UNCHANGED vars
  <2>1. EventsPlausible'
    BY <1>1, BuffersKept DEF vars, SlotInv
  <2> QED
    BY <1>1, <2>1, CallsMove DEF vars
<1>2. CASE Next
  BY <1>2, NextCases, LaneStepsSlot, StartStepsSlot, ProviderStepsSlot, StartAnswersSlot,
     DispatchSlot, CancelStepsSlot, SettlementSlot
<1> QED
  BY <1>1, <1>2

LEMMA Inductive == Spec => []IInv
<1>1. Init => IInv
  BY TypeInit, SlotInit DEF IInv
<1>2. IInv /\ [Next]_vars => IInv'
  BY TypeStep, SlotStep DEF IInv
<1> QED
  BY <1>1, <1>2, PTL DEF Spec

\* The provider never has work of a call that does not own the run slot: in any
\* interleaving of sends, steers and stops with refused, acknowledged or timed-out
\* interrupts and late or repeated terminal events, the session is never split.
THEOREM NoSplitBrainHolds == Spec => []NoSplitBrain
<1>1. IInv => NoSplitBrain
  BY DEF IInv, SlotInv, WorkOwned, NoSplitBrain
<1> QED
  BY <1>1, Inductive, PTL

-----------------------------------------------------------------------------
(* AgentTurns implements RunSlot *)

LEMMA SlotStutters ==
    ASSUME run'.kind = run.kind, run'.by = run.by,
           \A c \in Calls : /\ prov'[c] \in {"asked", "live"} <=> prov[c] \in {"asked", "live"}
                            /\ prov'[c] = "none" <=> prov[c] = "none"
    PROVE  UNCHANGED Slot!vars
<1>1. SlotOwner' = SlotOwner
  BY DEF SlotOwner
<1>2. Working' = Working /\ Served' = Served
  BY DEF Working, Served
<1> QED
  BY <1>1, <1>2 DEF Slot!vars

LEMMA SlotAdmits ==
    ASSUME IInv, NEW c \in Calls, StreamAgent(c), run = NoRun, pc[c] \in Unasked
    PROVE  Slot!Next
<1>1. prov[c] = "none" /\ prov' = [prov EXCEPT ![c] = "asked"] /\ prov \in [Turns -> ProviderStates]
  BY DEF IInv, SlotInv, NotYetAsked, TypeInv, TypeOK, StreamAgent
<1>2. SlotOwner = None /\ SlotOwner' = c
  BY DEF SlotOwner, NoRun, StreamAgent, PendingRun
<1>3. Working = {} /\ Working' = {c}
  BY <1>1, CallsAssumption DEF Working, IInv, SlotInv, WorkOwned, NoRun, Turns
<1>4. c \notin Served /\ Served' = Served \cup {c}
  BY <1>1 DEF Served, Turns
<1> QED
  BY <1>2, <1>3, <1>4 DEF Slot!Next, Slot!Admit

\* A run that is gone, with nothing left of its turn, was released
LEMMA SlotReleases ==
    ASSUME IInv, UNCHANGED prov, run' \in {run, NoRun},
           run' = NoRun => \A d \in Calls : prov[d] \notin {"asked", "live"}
    PROVE  Slot!Next \/ UNCHANGED Slot!vars
<1>1. Working' = Working /\ Served' = Served
  BY DEF Working, Served
<1>2. CASE run' = run
  BY <1>2, SlotStutters
<1>3. CASE run' = NoRun /\ SlotOwner # None
  <2>1. SlotOwner \notin Working /\ SlotOwner' = None
    BY <1>3 DEF SlotOwner, Working, NoRun
  <2> QED
    BY <1>1, <1>3, <2>1 DEF Slot!Next, Slot!Release
<1>4. CASE run' = NoRun /\ SlotOwner = None
  <2>1. SlotOwner' = None
    BY <1>4 DEF SlotOwner, NoRun
  <2> QED
    BY <1>1, <1>4, <2>1 DEF Slot!vars
<1> QED
  BY <1>2, <1>3, <1>4

LEMMA SlotOccupied ==
    ASSUME UNCHANGED prov, run = NoRun, NEW t, run' = AutonomousRun(t)
    PROVE  Slot!Next
<1>1. Working' = Working /\ Served' = Served
  BY DEF Working, Served
<1>2. SlotOwner = None /\ SlotOwner' = "autonomous"
  BY DEF SlotOwner, NoRun, AutonomousRun
<1> QED
  BY <1>1, <1>2 DEF Slot!Next, Slot!Occupy

LEMMA SlotFinishes ==
    ASSUME UNCHANGED run,
           \A c \in Calls : /\ prov'[c] \in {"asked", "live"} => prov[c] \in {"asked", "live"}
                            /\ prov'[c] = "none" <=> prov[c] = "none"
    PROVE  Slot!Next
<1>1. Working' \subseteq Working /\ Served' = Served
  BY DEF Working, Served
<1>2. SlotOwner' = SlotOwner
  BY DEF SlotOwner
<1> QED
  BY <1>1, <1>2 DEF Slot!Next, Slot!Finish

\* Each step of AgentTurns is a step of the slot, or leaves it alone
LEMMA SlotSimulation == IInv /\ [Next]_vars => [Slot!Next]_(Slot!vars)
<1> SUFFICES ASSUME IInv, [Next]_vars PROVE Slot!Next \/ UNCHANGED Slot!vars
  OBVIOUS
<1>1. /\ prov \in [Turns -> ProviderStates] /\ run \in Run /\ TypeInv /\ SlotInv
      /\ pc \in [Calls -> Steps]
  BY DEF IInv, TypeInv, TypeOK
<1>2. CASE UNCHANGED <<run, prov>>
  BY <1>2, SlotStutters
<1>3. ASSUME NEW c \in Calls,
             Send(c) \/ RunAgent(c) \/ Resume(c) \/ SteerChoose(c) \/ SteerFallback(c)
      PROVE  Slot!Next \/ UNCHANGED Slot!vars
  <2>1. pc[c] \in Unasked
    BY <1>3 DEF Send, RunAgent, Resume, SteerChoose, SteerFallback, Issue, Unasked
  <2>2. CASE StreamAgent(c) /\ run = NoRun
    BY <2>1, <2>2, SlotAdmits
  <2> QED
    BY <1>2, <1>3, <2>2
       DEF Send, RunAgent, Resume, SteerChoose, SteerFallback, SendInstead, SendOrReplace,
           BeginReplacement, CanStream, HasInFlightRun
<1>4. ASSUME NEW c \in Calls, TurnBegins(c) PROVE Slot!Next \/ UNCHANGED Slot!vars
  BY <1>1, <1>4, SlotStutters DEF TurnBegins, Turns
<1>5. ASSUME NEW a \in Autos, AutonomousBegins(a) PROVE Slot!Next \/ UNCHANGED Slot!vars
  BY <1>1, <1>5, SlotStutters, CallsAssumption DEF AutonomousBegins, Turns
<1>6. ASSUME NEW t \in Turns, NEW type, TurnEnds(t, type) PROVE Slot!Next \/ UNCHANGED Slot!vars
  BY <1>1, <1>6, SlotFinishes DEF TurnEnds, Turns
<1>7. ASSUME NEW c \in Calls, RunStarted(c) PROVE Slot!Next \/ UNCHANGED Slot!vars
  <2>1. run'.kind = run.kind /\ run'.by = run.by /\ UNCHANGED prov
    BY <1>1, <1>7 DEF RunStarted, Run
  <2> QED
    BY <2>1, SlotStutters
<1>8. ASSUME NEW c \in Calls, RunRejected(c) \/ RunWentStale(c)
      PROVE  Slot!Next \/ UNCHANGED Slot!vars
  <2>1. /\ prov[c] \in {"asked", "stopped"} /\ prov' = [prov EXCEPT ![c] = "spent"]
        /\ run' = (IF run.by = c THEN NoRun ELSE run)
    BY <1>8 DEF RunRejected, RunWentStale
  <2>2. CASE run.by = c
    <3>1. run.kind = "foreground"
      BY <1>1, <2>2, CallsAssumption DEF SlotInv, RunShape
    <3>2. SlotOwner = c /\ SlotOwner' = None
      BY <2>1, <2>2, <3>1 DEF SlotOwner, NoRun
    <3>3. Working' = Working \ {c} /\ Served' = Served
      BY <1>1, <2>1 DEF Working, Served, Turns
    <3> QED
      BY <3>2, <3>3 DEF Slot!Next, Slot!Reject
  <2>3. CASE run.by # c
    <3>1. prov[c] = "stopped"
      BY <1>1, <2>1, <2>3 DEF SlotInv, WorkOwned
    <3> QED
      BY <1>1, <2>1, <2>3, <3>1, SlotStutters DEF Turns
  <2> QED
    BY <2>2, <2>3
<1>9. CASE Dispatch
  <2> DEFINE e == Head(queue)
  <2>1. UNCHANGED prov /\ e \in Plausible
    BY <1>1, <1>9, EventTaken DEF Dispatch, SlotInv
  <2>2. CASE e.type = "started"
    <3>1. Started(e.turn)
      BY <1>9, <2>2 DEF Dispatch
    <3>2. run' = run \/ (run = NoRun /\ run' = AutonomousRun(e.turn))
      BY <3>1 DEF Started
    <3> QED
      BY <1>2, <2>1, <3>2, SlotOccupied
  <2>3. CASE e.type # "started"
    <3>1. Terminal(e.turn, e.type) /\ prov[e.turn] \in {"over", "spent"}
      BY <1>9, <2>1, <2>3 DEF Dispatch, Plausible
    <3>2. run' = run \/ (Settles(e.turn) /\ run' = NoRun)
      BY <3>1 DEF Terminal
    <3>3. Settles(e.turn) => \A d \in Calls : prov[d] \notin {"asked", "live"}
      BY <1>1, <3>1 DEF Settles, SlotInv, RunShape, WorkOwned
    <3>4. run = NoRun => \A d \in Calls : prov[d] \notin {"asked", "live"}
      BY <1>1 DEF SlotInv, WorkOwned, NoRun
    <3> QED
      BY <2>1, <3>2, <3>3, <3>4, SlotReleases
  <2> QED
    BY <2>2, <2>3
<1>10. ASSUME NEW c \in Calls, CancelBegins(c) PROVE Slot!Next \/ UNCHANGED Slot!vars
  <2>1. UNCHANGED prov /\ (run' = run \/ (run = NoRun /\ run' = AutonomousRun(None)))
    BY <1>10 DEF CancelBegins
  <2> QED
    BY <1>2, <2>1, SlotOccupied
<1>11. ASSUME NEW c \in Calls, InterruptAcked(c) PROVE Slot!Next \/ UNCHANGED Slot!vars
  BY <1>1, <1>11, SlotFinishes DEF InterruptAcked, Turns
<1>12. ASSUME NEW c \in Calls, SettlementTimesOut(c) PROVE Slot!Next \/ UNCHANGED Slot!vars
  <2>1. UNCHANGED prov /\ run' \in {run, NoRun}
    BY <1>12 DEF SettlementTimesOut, ForceTurn, ForcePending, ForceUnnamed, Terminal
  <2>2. \A d \in Calls : prov[d] \notin {"asked", "live"}
    BY <1>1, <1>12 DEF SettlementTimesOut, SlotInv, WorkOwned, CaptureHolds
  <2> QED
    BY <2>1, <2>2, SlotReleases
<1>13. ASSUME NEW c \in Calls,
              \/ SteerAdmit(c) \/ SteerReturns(c) \/ Steer(c) \/ Stop(c) \/ InterruptRefused(c)
              \/ CancelSettled(c) \/ CancelRefused(c)
              \/ \E answer \in {"accepted", "unavailable", "rejected"} : SteerAnswered(c, answer)
       PROVE  UNCHANGED <<run, prov>>
  BY <1>13 DEF SteerAdmit, SteerReturns, Steer, Stop, InterruptRefused, CancelSettled,
               CancelRefused, SteerAnswered
<1>14. CASE UNCHANGED vars
  BY <1>2, <1>14 DEF vars
<1>15. CASE Next
  BY <1>2, <1>3, <1>4, <1>5, <1>6, <1>7, <1>8, <1>9, <1>10, <1>11, <1>12, <1>13, <1>15, NextCases
<1> QED
  BY <1>14, <1>15

\* Whatever the interleaving of calls, events and timeouts, the run slot keeps
\* RunSlot's promise.
THEOREM ImplementsSlot == Spec => SlotSpec
<1>1. Init => Slot!Init
  BY CallsAssumption DEF Init, Slot!Init, SlotOwner, Working, Served, NoRun, Turns
<1>2. IInv /\ [Next]_vars => [Slot!Next]_(Slot!vars)
  BY SlotSimulation
<1> QED
  BY <1>1, <1>2, Inductive, PTL DEF Spec, SlotSpec, Slot!Spec

-----------------------------------------------------------------------------
(***************************************************************************)
(* Who owns the published turn, for every set of calls and autonomous      *)
(* turns: the foreground turn is the tracked run's, a finalized turn does  *)
(* not come back, and an admitted steer keeps its turn.                    *)
(*                                                                         *)
(* The argument follows a turn's own "started" event.  onStreamTurnStarted *)
(* makes any turn active when none is published, so the invariant has to   *)
(* say where such an event can still be: in the queue only while its turn  *)
(* is published and before its terminal, behind a barrier only while the   *)
(* run is its call's, among the staged events once at most.                *)
(***************************************************************************)

\* The published turn is a call's, and the run that has a turn is the published one.
\* A turn finalized has been published: its call is past its start.
OwnedTurn ==
    /\ agent.fg \in Calls \cup {None}
    /\ ForegroundOwned
    /\ run.kind = "foreground" /\ run.turn # None => agent.fg = run.turn
    /\ \A c \in Calls : pc[c] = "streaming" <=> agent.fg = c
    /\ Pending => pc[run.by] = "starting"
    /\ finalized \subseteq Calls
    /\ \A c \in Calls : pc[c] \in Unasked \cup {"starting"} => c \notin finalized
    /\ agent.active \in Calls => agent.fg = agent.active

\* A steer with the provider is meant for the published turn, unless it is autonomous
Admitted == \A c \in Calls : pc[c] = "steering" /\ expects[c] \in Calls => agent.fg = expects[c]

\* The barrier goes up on a drained queue, and each buffer is used only in its time
BuffersInTime ==
    /\ BarrierUp => queue = <<>>
    /\ ~BarrierUp => held = <<>>
    /\ ~Pending => staged = <<>>

Announces(s, d) == \E i \in 1..Len(s) : s[i] = Start(d)
Once(s, d) == \A i, j \in 1..Len(s) : s[i] = Start(d) /\ s[j] = Start(d) => i = j
IsEnd(e, d) == e.type # "started" /\ e.turn = d
EndsLater(s, d) == \A i, j \in 1..Len(s) : s[i] = Start(d) /\ IsEnd(s[j], d) => i < j

Answered == {"live", "over", "spent"}

\* Where the "started" event of a call's turn can be
StartsInOrder ==
    \A d \in Calls :
        /\ Announces(queue, d) => agent.fg = d
        /\ EndsLater(queue, d) /\ EndsLater(held, d)
        /\ Announces(held, d) => run.kind = "foreground" /\ run.by = d /\ prov[d] \in Answered
        /\ Announces(staged, d) => run.by = d /\ prov[d] \notin {"none", "asked"}
        /\ Once(held, d) /\ Once(staged, d)
        /\ ~(Announces(staged, d) /\ Announces(held, d))

EventsOwned == BuffersInTime /\ StartsInOrder
OInv == OwnedTurn /\ Admitted /\ EventsOwned

-----------------------------------------------------------------------------
(* Events in a sequence *)

LEMMA NothingAnnounced ==
    ASSUME NEW d
    PROVE  ~Announces(<<>>, d) /\ Once(<<>>, d) /\ EndsLater(<<>>, d)
BY DEF Announces, Once, EndsLater

LEMMA TailAnnounces ==
    ASSUME NEW S, NEW s \in Seq(S), s # <<>>, NEW d, EndsLater(s, d)
    PROVE  /\ EndsLater(Tail(s), d)
           /\ Announces(Tail(s), d) => Announces(s, d) /\ ~IsEnd(Head(s), d)
<1>1. /\ Len(s) \in Nat /\ Len(s) # 0 /\ Len(Tail(s)) = Len(s) - 1 /\ Head(s) = s[1]
      /\ \A i \in 1..Len(Tail(s)) : Tail(s)[i] = s[i + 1]
  BY HeadTailProperties, LenProperties, EmptySeq
<1>2. \A i \in 1..Len(Tail(s)) : i \in Nat /\ i + 1 \in 1..Len(s)
  BY <1>1
<1>3. EndsLater(Tail(s), d)
  BY <1>1, <1>2 DEF EndsLater
<1>4. Announces(Tail(s), d) => Announces(s, d)
  BY <1>1, <1>2 DEF Announces
<1>5. Announces(Tail(s), d) => ~IsEnd(Head(s), d)
  BY <1>1, <1>2 DEF Announces, EndsLater
<1> QED
  BY <1>3, <1>4, <1>5

LEMMA AppendAnnounces ==
    ASSUME NEW S, NEW s \in Seq(S), NEW e \in S, NEW d
    PROVE  /\ Announces(Append(s, e), d) => Announces(s, d) \/ e = Start(d)
           /\ Once(s, d) /\ ~(Announces(s, d) /\ e = Start(d)) => Once(Append(s, e), d)
           /\ EndsLater(s, d) /\ (e = Start(d) => \A j \in 1..Len(s) : ~IsEnd(s[j], d))
                 => EndsLater(Append(s, e), d)
<1>1. /\ Len(s) \in Nat /\ Len(Append(s, e)) = Len(s) + 1
      /\ \A i \in 1..Len(s) : Append(s, e)[i] = s[i]
      /\ Append(s, e)[Len(s) + 1] = e
  BY AppendProperties, LenProperties
<1>2. \A i \in 1..Len(Append(s, e)) : i \in 1..Len(s) \/ i = Len(s) + 1
  BY <1>1
<1>3. Announces(Append(s, e), d) => Announces(s, d) \/ e = Start(d)
  BY <1>1, <1>2 DEF Announces
<1>4. Once(s, d) /\ ~(Announces(s, d) /\ e = Start(d)) => Once(Append(s, e), d)
  BY <1>1, <1>2 DEF Announces, Once
<1>5. ASSUME EndsLater(s, d), e = Start(d) => \A j \in 1..Len(s) : ~IsEnd(s[j], d)
      PROVE  EndsLater(Append(s, e), d)
  <2>1. ~IsEnd(Start(d), d)
    BY DEF IsEnd, Start
  <2> QED
    BY <1>1, <1>2, <1>5, <2>1 DEF EndsLater
<1> QED
  BY <1>3, <1>4, <1>5

LEMMA ConcatAnnounces ==
    ASSUME NEW S, NEW s \in Seq(S), NEW t \in Seq(S), NEW d
    PROVE  /\ Announces(s \o t, d) => Announces(s, d) \/ Announces(t, d)
           /\ Once(s, d) /\ Once(t, d) /\ ~(Announces(s, d) /\ Announces(t, d)) => Once(s \o t, d)
           /\ EndsLater(s, d) /\ ~Announces(t, d) => EndsLater(s \o t, d)
<1>1. /\ Len(s) \in Nat /\ Len(t) \in Nat /\ Len(s \o t) = Len(s) + Len(t)
      /\ \A i \in 1..Len(s) : i \in 1..(Len(s) + Len(t)) /\ (s \o t)[i] = s[i]
      /\ \A i \in 1..(Len(s) + Len(t)) : i \notin 1..Len(s)
              => i - Len(s) \in 1..Len(t) /\ (s \o t)[i] = t[i - Len(s)]
  BY ConcatProperties, LenProperties
<1>2. Announces(s \o t, d) => Announces(s, d) \/ Announces(t, d)
  BY <1>1 DEF Announces
<1>3. Once(s, d) /\ Once(t, d) /\ ~(Announces(s, d) /\ Announces(t, d)) => Once(s \o t, d)
  BY <1>1 DEF Announces, Once
<1>4. ASSUME EndsLater(s, d), ~Announces(t, d) PROVE EndsLater(s \o t, d)
  <2> SUFFICES ASSUME NEW i \in 1..(Len(s) + Len(t)), NEW j \in 1..(Len(s) + Len(t)),
                      (s \o t)[i] = Start(d), IsEnd((s \o t)[j], d)
               PROVE  i < j
    BY <1>1 DEF EndsLater
  <2>1. i \in 1..Len(s) /\ s[i] = Start(d)
    BY <1>1, <1>4 DEF Announces
  <2>2. CASE j \in 1..Len(s)
    <3>1. IsEnd(s[j], d)
      BY <1>1, <2>2
    <3> QED
      BY <1>4, <2>1, <2>2, <3>1 DEF EndsLater
  <2>3. CASE j \notin 1..Len(s)
    BY <1>1, <2>1, <2>3
  <2> QED
    BY <2>2, <2>3
<1> QED
  BY <1>2, <1>3, <1>4

\* What the accepted run releases does not announce its own turn again
LEMMA UnstagedAnnounces ==
    ASSUME NEW S, NEW s \in Seq(S), NEW c, NEW d, Once(s, c), Announces(s, d) => d = c
    PROVE  ~Announces(RemoveFirst(s, Start(c)), d)
<1>1. CASE Announces(s, c)
  <2>1. PICK k \in 1..Len(s) : s[k] = Start(c) /\ RemoveFirst(s, Start(c)) = RemoveAt(s, k)
    BY <1>1, RemovedAt DEF Announces
  <2>2. /\ Len(s) \in Nat /\ Len(RemoveAt(s, k)) = Len(s) - 1
        /\ \A j \in 1..(Len(s) - 1) : RemoveAt(s, k)[j] = IF j < k THEN s[j] ELSE s[j + 1]
    BY RemovedItems, LenProperties
  <2>3. \A j \in 1..(Len(s) - 1) : RemoveAt(s, k)[j] # Start(d)
    <3> SUFFICES ASSUME NEW j \in 1..(Len(s) - 1), RemoveAt(s, k)[j] = Start(d) PROVE FALSE
      OBVIOUS
    <3>1. PICK i \in 1..Len(s) : i # k /\ s[i] = Start(d)
      <4>1. CASE j < k
        BY <2>2, <4>1
      <4>2. CASE ~(j < k)
        BY <2>2, <4>2
      <4> QED
        BY <4>1, <4>2
    <3>2. d = c
      BY <3>1 DEF Announces
    <3> QED
      BY <2>1, <3>1, <3>2 DEF Once
  <2> QED
    BY <2>1, <2>2, <2>3 DEF Announces
<1>2. CASE ~Announces(s, c)
  <2>1. RemoveFirst(s, Start(c)) = s
    BY <1>2 DEF RemoveFirst, Announces
  <2> QED
    BY <1>2, <2>1
<1> QED
  BY <1>1, <1>2

-----------------------------------------------------------------------------
(* The published turn *)

LEMMA OwnedInit == Init => OInv
<1> SUFFICES ASSUME Init PROVE OInv
  OBVIOUS
<1>1. OwnedTurn
  BY CallsAssumption DEF Init, OwnedTurn, ForegroundOwned, NoRun, Pending
<1>2. Admitted
  BY DEF Init, Admitted
<1>3. EventsOwned
  BY NothingAnnounced DEF Init, EventsOwned, BuffersInTime, BarrierUp, StartsInOrder
<1> QED
  BY <1>1, <1>2, <1>3 DEF OInv

\* A step that publishes no turn and ends none
LEMMA TurnKept ==
    ASSUME TypeInv, SlotInv, OwnedTurn, UNCHANGED finalized,
           agent'.fg = agent.fg, agent'.active = agent.active,
           agent'.lifecycle \in {agent.lifecycle, "running"},
           run' = run \/ (run.kind # "foreground" /\ run'.kind = "autonomous"),
           \A d \in Calls : /\ pc'[d] = "streaming" <=> pc[d] = "streaming"
                            /\ pc[d] = "starting" /\ run.by = d => pc'[d] = "starting"
                            /\ pc'[d] \in Unasked \cup {"starting"}
                                  => pc[d] \in Unasked \cup {"starting"}
    PROVE  OwnedTurn'
<1>1. ForegroundOwned'
  BY DEF OwnedTurn, ForegroundOwned
<1>2. Pending' => pc'[run'.by] = "starting"
  BY DEF OwnedTurn, Pending, SlotInv, RunShape
<1>3. run'.kind = "foreground" /\ run'.turn # None => agent'.fg = run'.turn
  BY DEF OwnedTurn
<1>4. \A c \in Calls : pc'[c] \in Unasked \cup {"starting"} => c \notin finalized'
  BY DEF OwnedTurn, Unasked, OwnerSteps
<1> QED
  BY <1>1, <1>2, <1>3, <1>4 DEF OwnedTurn

\* A new run is pending, with nothing published
LEMMA StreamAgentOwned ==
    ASSUME TypeInv, SlotInv, OwnedTurn, NEW c \in Calls, StreamAgent(c), run = NoRun,
           pc[c] \in Unasked
    PROVE  OwnedTurn'
<1>1. /\ agent.fg = None /\ agent'.fg = None /\ agent'.active = agent.active
      /\ UNCHANGED finalized
  BY DEF OwnedTurn, ForegroundOwned, NoRun, StreamAgent, TypeInv, TypeOK, Agent
<1>2. run'.kind = "foreground" /\ run'.by = c /\ run'.turn = None
  BY DEF StreamAgent, PendingRun
<1>3. pc \in [Calls -> Steps] /\ pc' = [pc EXCEPT ![c] = "starting"] /\ pc[c] # "streaming"
  BY DEF StreamAgent, TypeInv, TypeOK, Unasked, OwnerSteps
<1>4. \A d \in Calls : pc'[d] \in Unasked \cup {"starting"} => d \notin finalized'
  BY <1>1, <1>3 DEF OwnedTurn, Unasked, OwnerSteps
<1>5. \A d \in Calls : pc'[d] # "streaming"
  BY <1>1, <1>3, CallsAssumption DEF OwnedTurn
<1> QED
  BY <1>1, <1>2, <1>3, <1>4, <1>5, CallsAssumption DEF OwnedTurn, ForegroundOwned, Pending

LEMMA BeginReplacementOwned ==
    ASSUME TypeInv, SlotInv, OwnedTurn, NEW c \in Calls, BeginReplacement(c), pc[c] \in Unasked
    PROVE  OwnedTurn'
<1>1. /\ agent'.fg = agent.fg /\ agent'.active = agent.active /\ agent'.lifecycle = "running"
      /\ UNCHANGED <<finalized, run>>
  BY DEF BeginReplacement, buffers, TypeInv, TypeOK, Agent
<1>2. pc \in [Calls -> Steps] /\ pc' = [pc EXCEPT ![c] = "cancelQueued"]
  BY DEF BeginReplacement, TypeInv, TypeOK
<1> QED
  BY <1>1, <1>2, TurnKept DEF Unasked, OwnerSteps

\* Calls that only move within the lane, or out of it
LEMMA CallMoved ==
    ASSUME TypeInv, SlotInv, OwnedTurn, UNCHANGED finalized,
           agent'.fg = agent.fg, agent'.active = agent.active, agent'.lifecycle = agent.lifecycle,
           run' = run \/ (run.kind # "foreground" /\ run'.kind = "autonomous"),
           NEW c \in Calls, pc[c] \in Unasked, NEW to,
           to \in Steps \ {"starting", "streaming"}, pc' = [pc EXCEPT ![c] = to]
    PROVE  OwnedTurn'
<1>1. pc \in [Calls -> Steps]
  BY DEF TypeInv, TypeOK
<1> QED
  BY <1>1, TurnKept DEF Unasked, OwnerSteps

LEMMA ClientStepsOwned ==
    ASSUME TypeInv, SlotInv, OwnedTurn, NEW c \in Calls,
           \/ Send(c) \/ RunAgent(c) \/ Resume(c) \/ SteerChoose(c) \/ SteerFallback(c)
           \/ Steer(c) \/ Stop(c)
    PROVE  OwnedTurn'
<1>1. pc[c] \in Unasked
  BY DEF Send, RunAgent, Resume, SteerChoose, SteerFallback, Steer, Stop, Issue, Unasked
<1>2. CASE StreamAgent(c) /\ run = NoRun
  BY <1>1, <1>2, StreamAgentOwned
<1>3. CASE BeginReplacement(c)
  BY <1>1, <1>3, BeginReplacementOwned
<1>4. CASE /\ UNCHANGED <<run, finalized>>
           /\ agent' = agent \/ agent' = [agent EXCEPT !.replacing = FALSE]
           /\ \E to \in Steps \ {"starting", "streaming"} : pc' = [pc EXCEPT ![c] = to]
  <2>1. /\ agent'.fg = agent.fg /\ agent'.active = agent.active
        /\ agent'.lifecycle = agent.lifecycle
    BY <1>4 DEF TypeInv, TypeOK, Agent
  <2> QED
    BY <1>1, <1>4, <2>1, CallMoved
<1> QED
  BY <1>2, <1>3, <1>4
     DEF Send, RunAgent, Resume, SteerChoose, SteerFallback, Steer, Stop, SendInstead,
         SendOrReplace, CanStream, HasInFlightRun, Steps

LEMMA LaneStepsOwned ==
    ASSUME TypeInv, SlotInv, OwnedTurn, NEW c \in Calls,
           \/ SteerAdmit(c) \/ SteerReturns(c) \/ CancelBegins(c) \/ InterruptAcked(c)
           \/ InterruptRefused(c) \/ CancelSettled(c) \/ CancelRefused(c)
           \/ \E answer \in {"accepted", "unavailable", "rejected"} : SteerAnswered(c, answer)
    PROVE  OwnedTurn'
<1>1. /\ agent'.fg = agent.fg /\ agent'.active = agent.active /\ agent'.lifecycle = agent.lifecycle
      /\ UNCHANGED finalized
  BY DEF TypeInv, TypeOK, Agent, SteerAdmit, SteerReturns, CancelBegins, InterruptAcked,
         InterruptRefused, CancelSettled, CancelRefused, SteerAnswered
<1>2. run' = run \/ (run.kind # "foreground" /\ run'.kind = "autonomous")
  <2>1. CASE CancelBegins(c)
    BY <2>1 DEF CancelBegins, AutonomousRun, NoRun
  <2>2. CASE ~CancelBegins(c)
    BY <2>2 DEF SteerAdmit, SteerReturns, InterruptAcked, InterruptRefused, CancelSettled,
                CancelRefused, SteerAnswered
  <2> QED
    BY <2>1, <2>2
<1>3. pc[c] \in Unasked
  BY DEF SteerAdmit, SteerReturns, CancelBegins, InterruptAcked, InterruptRefused,
         CancelSettled, CancelRefused, SteerAnswered, Unasked, OwnerSteps
<1>4. \E to \in Steps \ {"starting", "streaming"} : pc' = [pc EXCEPT ![c] = to]
  BY DEF SteerAdmit, SteerReturns, CancelBegins, InterruptAcked, InterruptRefused,
         CancelSettled, CancelRefused, SteerAnswered, Returns, Steps
<1> QED
  BY <1>1, <1>2, <1>3, <1>4, CallMoved

LEMMA ProviderStepsOwned ==
    ASSUME TypeInv, SlotInv, OwnedTurn, UNCHANGED <<agent, finalized, run, pc>>
    PROVE  OwnedTurn'
BY TurnKept

LEMMA RunStartedOwned ==
    ASSUME TypeInv, SlotInv, OwnedTurn, NEW c \in Calls, RunStarted(c)
    PROVE  OwnedTurn'
<1>1. pc \in [Calls -> Steps] /\ run \in Run /\ agent \in Agent /\ pc[c] = "starting"
  BY DEF TypeInv, TypeOK, RunStarted
<1>2. UNCHANGED finalized /\ c \notin finalized
  BY <1>1 DEF RunStarted, OwnedTurn
<1>3. CASE run.by = c
  <2>1. /\ agent'.fg = c /\ agent'.active = c /\ agent'.lifecycle = "running"
        /\ run'.kind = "foreground" /\ run'.by = c /\ run'.turn = c
        /\ pc' = [pc EXCEPT ![c] = "streaming"]
    BY <1>1, <1>3, CallsAssumption DEF RunStarted, Agent, Run, SlotInv, RunShape
  <2>2. agent.fg = None
    BY <1>1, <1>3 DEF OwnedTurn, ForegroundOwned
  <2>3. \A d \in Calls : pc'[d] = "streaming" <=> d = c
    BY <1>1, <2>1, <2>2, CallsAssumption DEF OwnedTurn
  <2>4. \A d \in Calls : pc'[d] \in Unasked \cup {"starting"} => d \notin finalized'
    BY <1>1, <1>2, <2>1 DEF OwnedTurn, Unasked, OwnerSteps
  <2> QED
    BY <1>2, <2>1, <2>3, <2>4, CallsAssumption DEF OwnedTurn, ForegroundOwned, Pending
<1>4. CASE run.by # c
  BY <1>1, <1>2, <1>4, TurnKept DEF RunStarted, Unasked, OwnerSteps
<1> QED
  BY <1>3, <1>4

\* A start that fails leaves nothing published: the run it had was pending
LEMMA StartFailedOwned ==
    ASSUME TypeInv, SlotInv, OwnedTurn, NEW c \in Calls, RunRejected(c) \/ RunWentStale(c)
    PROVE  OwnedTurn'
<1>1. /\ pc \in [Calls -> Steps] /\ agent \in Agent /\ pc[c] = "starting"
      /\ pc' = [pc EXCEPT ![c] = "failed"] /\ UNCHANGED finalized
  BY DEF TypeInv, TypeOK, RunRejected, RunWentStale
<1>2. CASE run.by = c
  <2>1. agent.fg = None /\ run' = NoRun
    BY <1>1, <1>2 DEF OwnedTurn, ForegroundOwned, RunRejected, RunWentStale
  <2>2. agent'.fg = None /\ agent'.active \in {agent.active, None}
    BY <1>1, <1>2, <2>1 DEF RunRejected, RunWentStale, Finalized, TerminalHandled, Agent
  <2>3. \A d \in Calls : pc'[d] # "streaming"
    BY <1>1, <2>1, CallsAssumption DEF OwnedTurn
  <2>4. \A d \in Calls : pc'[d] \in Unasked \cup {"starting"} => d \notin finalized'
    BY <1>1 DEF OwnedTurn, Unasked, OwnerSteps
  <2> QED
    BY <1>1, <2>1, <2>2, <2>3, <2>4, CallsAssumption
       DEF OwnedTurn, ForegroundOwned, Pending, NoRun
<1>3. CASE run.by # c
  <2>1. UNCHANGED <<agent, run>>
    BY <1>3 DEF RunRejected, RunWentStale
  <2> QED
    BY <1>1, <1>3, <2>1, TurnKept DEF Unasked, OwnerSteps
<1> QED
  BY <1>2, <1>3

\* A terminal event ends the published turn, its run and its stream together, or
\* touches neither of the three
LEMMA TerminalEffect ==
    ASSUME TypeInv, SlotInv, OwnedTurn, NEW t \in Turns \cup {None}, NEW type, Terminal(t, type),
           t = None => agent.fg = None
    PROVE  \/ /\ t # None /\ agent.fg = t /\ t \notin finalized
              /\ agent'.fg = None /\ agent'.active = None
              /\ finalized' = finalized \cup {t} /\ run' = NoRun
           \/ /\ t = None \/ agent.fg # t
              /\ agent'.fg = agent.fg /\ UNCHANGED finalized
              /\ agent'.active \in {agent.active, None}
              /\ agent.fg # None => agent'.active = agent.active /\ agent'.lifecycle = agent.lifecycle
              /\ run' = run \/ (run.kind # "foreground" /\ run' = NoRun)
<1>1. agent \in Agent /\ run \in Run
  BY DEF TypeInv, TypeOK
<1>2. CASE t # None /\ agent.fg = t
  <2>1. t \notin finalized /\ Settles(t) /\ IsForeground(t) /\ ~IsStale(t)
    BY <1>2 DEF OwnedTurn, ForegroundOwned, Settles, IsForeground, IsStale
  <2>2. agent'.fg = None /\ agent'.active = None
    BY <1>1, <1>2, <2>1 DEF Terminal, Finalized, TerminalHandled, Agent
  <2> QED
    BY <1>2, <2>1, <2>2 DEF Terminal
<1>3. CASE t = None \/ agent.fg # t
  <2>1. ~IsForeground(t)
    BY <1>3 DEF IsForeground
  <2>2. agent.fg # None => IsStale(t)
    BY <1>3 DEF OwnedTurn, ForegroundOwned, IsStale
  <2>3. run.kind = "foreground" => ~Settles(t)
    BY <1>3 DEF OwnedTurn, Settles
  <2> QED
    BY <1>1, <1>3, <2>1, <2>2, <2>3 DEF Terminal, TerminalHandled, Agent
<1> QED
  BY <1>2, <1>3

\* ... and the invariant holds of what it leaves
LEMMA TerminalOwned ==
    ASSUME TypeInv, SlotInv, OwnedTurn, NEW t \in Turns \cup {None}, NEW type, Terminal(t, type),
           t = None => agent.fg = None,
           \A d \in Calls : /\ pc'[d] = "streaming" <=> pc[d] = "streaming" /\ ~(t = d /\ d \notin finalized)
                            /\ pc[d] = "starting" => pc'[d] = "starting"
                            /\ pc'[d] \in Unasked \cup {"starting"}
                                  => pc[d] \in Unasked \cup {"starting"}
    PROVE  OwnedTurn'
<1>1. CASE /\ t # None /\ agent.fg = t /\ t \notin finalized
           /\ agent'.fg = None /\ agent'.active = None
           /\ finalized' = finalized \cup {t} /\ run' = NoRun
  <2>1. t \in Calls /\ pc[t] = "streaming"
    BY <1>1 DEF OwnedTurn
  <2>2. \A d \in Calls : pc'[d] # "streaming"
    BY <1>1, <2>1 DEF OwnedTurn
  <2>3. \A d \in Calls : pc'[d] \in Unasked \cup {"starting"} => d \notin finalized'
    BY <1>1, <2>1 DEF OwnedTurn, Unasked, OwnerSteps
  <2> QED
    BY <1>1, <2>1, <2>2, <2>3, CallsAssumption DEF OwnedTurn, ForegroundOwned, Pending, NoRun
<1>2. CASE /\ t = None \/ agent.fg # t
           /\ agent'.fg = agent.fg /\ UNCHANGED finalized
           /\ agent'.active \in {agent.active, None}
           /\ agent.fg # None => agent'.active = agent.active /\ agent'.lifecycle = agent.lifecycle
           /\ run' = run \/ (run.kind # "foreground" /\ run' = NoRun)
  <2>1. ForegroundOwned'
    BY <1>2 DEF OwnedTurn, ForegroundOwned, NoRun
  <2>2. \A d \in Calls : pc'[d] = "streaming" <=> agent'.fg = d
    BY <1>2, CallsAssumption DEF OwnedTurn
  <2>3. \A d \in Calls : pc'[d] \in Unasked \cup {"starting"} => d \notin finalized'
    BY <1>2 DEF OwnedTurn, Unasked, OwnerSteps
  <2>4. Pending' => pc'[run'.by] = "starting"
    BY <1>2 DEF OwnedTurn, Pending, NoRun, SlotInv, RunShape
  <2>5. run'.kind = "foreground" /\ run'.turn # None => agent'.fg = run'.turn
    BY <1>2 DEF OwnedTurn, NoRun
  <2> QED
    BY <1>2, <2>1, <2>2, <2>3, <2>4, <2>5, CallsAssumption DEF OwnedTurn
<1> QED
  BY <1>1, <1>2, TerminalEffect

LEMMA HeadAnnounced ==
    ASSUME TypeInv, EventsOwned, queue # <<>>, Head(queue).type = "started",
           Head(queue).turn \in Calls
    PROVE  agent.fg = Head(queue).turn
<1> DEFINE e == Head(queue)
<1>1. e \in Event /\ Len(queue) \in Nat /\ Len(queue) # 0 /\ e = queue[1]
  BY EventSeqs, LenProperties, EmptySeq, HeadTailProperties DEF TypeInv, TypeOK
<1>2. e = Start(e.turn)
  BY <1>1 DEF Event, Start
<1>3. Announces(queue, e.turn)
  BY <1>1, <1>2 DEF Announces
<1> QED
  BY <1>3 DEF EventsOwned, StartsInOrder

LEMMA DispatchOwned ==
    ASSUME TypeInv, SlotInv, OwnedTurn, EventsOwned, Dispatch
    PROVE  OwnedTurn'
<1> DEFINE e == Head(queue)
<1>1. /\ e \in Event /\ e.turn \in Turns /\ queue # <<>> /\ pc \in [Calls -> Steps]
      /\ agent \in Agent
  <2>1. /\ queue \in Seq(Event) /\ queue # <<>> /\ pc \in [Calls -> Steps] /\ agent \in Agent
    BY DEF Dispatch, TypeInv, TypeOK
  <2>2. e \in Event
    BY <2>1, EventSeqs
  <2>3. e.turn \in Turns
    BY <2>2 DEF Event
  <2> QED
    BY <2>1, <2>2, <2>3
<1>2. CASE e.type = "started"
  <2>1. Started(e.turn)
    BY <1>2 DEF Dispatch
  <2>2. CASE agent.fg # None
    BY <2>1, <2>2, TurnKept DEF Started
  <2>3. CASE agent.fg = None
    <3>1. e.turn \notin Calls
      BY <1>1, <1>2, <2>3, HeadAnnounced, CallsAssumption
    <3>2. agent'.fg = None /\ agent'.active \notin Calls /\ UNCHANGED <<finalized, pc>>
      BY <1>1, <2>1, <2>3, <3>1 DEF Started, Agent
    <3>3. run' = run \/ (run.kind # "foreground" /\ run'.kind = "autonomous")
      BY <2>1, <2>3 DEF Started, NoRun, AutonomousRun
    <3> QED
      BY <2>3, <3>2, <3>3, CallsAssumption DEF OwnedTurn, ForegroundOwned, Pending
  <2> QED
    BY <2>2, <2>3
<1>3. CASE e.type # "started"
  <2>1. Terminal(e.turn, e.type) /\ pc' = IF e.turn \in Calls THEN StreamEnds(e.turn) ELSE pc
    BY <1>3 DEF Dispatch
  <2>2. e.turn # None
    BY <1>1, CallsAssumption DEF Turns
  <2>3. \A d \in Calls : /\ pc'[d] = "streaming"
                             <=> pc[d] = "streaming" /\ ~(e.turn = d /\ d \notin finalized)
                         /\ pc[d] = "starting" => pc'[d] = "starting"
                         /\ pc'[d] \in Unasked \cup {"starting"}
                               => pc[d] \in Unasked \cup {"starting"}
    BY <1>1, <2>1 DEF StreamEnds, Unasked, OwnerSteps
  <2> QED
    BY <1>1, <2>1, <2>2, <2>3, TerminalOwned
<1> QED
  BY <1>2, <1>3

LEMMA SettlementOwned ==
    ASSUME TypeInv, SlotInv, OwnedTurn, NEW c \in Calls, SettlementTimesOut(c)
    PROVE  OwnedTurn'
<1>1. pc[c] = "settlingAcked" /\ pc \in [Calls -> Steps] /\ agent \in Agent /\ run \in Run
  BY DEF SettlementTimesOut, TypeInv, TypeOK
<1>2. run.turn \in Turns \cup {None} /\ CurrentTurn \in Turns \cup {None}
  BY <1>1 DEF Run, Agent, CurrentTurn
<1>3. CASE ForceTurn(c)
  <2>1. Terminal(run.turn, "ended") /\ run.turn # None
        /\ pc' = [(IF run.turn \in Calls THEN StreamEnds(run.turn) ELSE pc) EXCEPT ![c] = "forced"]
    BY <1>3 DEF ForceTurn
  <2>2. \A d \in Calls : /\ pc'[d] = "streaming"
                             <=> pc[d] = "streaming" /\ ~(run.turn = d /\ d \notin finalized)
                         /\ pc[d] = "starting" => pc'[d] = "starting"
                         /\ pc'[d] \in Unasked \cup {"starting"}
                               => pc[d] \in Unasked \cup {"starting"}
    BY <1>1, <2>1 DEF StreamEnds, Unasked, OwnerSteps
  <2> QED
    BY <1>2, <2>1, <2>2, TerminalOwned
<1>4. CASE ForcePending(c)
  <2>1. /\ agent.fg = None /\ agent'.fg = None /\ agent'.active = agent.active
        /\ run' = NoRun /\ UNCHANGED finalized
    BY <1>1, <1>4 DEF ForcePending, OwnedTurn, ForegroundOwned, Pending, Agent
  <2>2. \A d \in Calls : /\ pc'[d] # "streaming"
                         /\ pc'[d] \in Unasked \cup {"starting"}
                               => pc[d] \in Unasked \cup {"starting"}
    BY <1>1, <1>4, <2>1, CallsAssumption
       DEF ForcePending, Returns, OwnedTurn, Unasked, OwnerSteps
  <2> QED
    BY <2>1, <2>2, CallsAssumption DEF OwnedTurn, ForegroundOwned, Pending, NoRun, Unasked, OwnerSteps
<1>5. CASE ForceUnnamed(c)
  <2>1. agent.fg = None /\ Terminal(CurrentTurn, "ended")
    BY <1>5 DEF ForceUnnamed, OwnedTurn, ForegroundOwned
  <2>2. \A d \in Calls : /\ pc'[d] = "streaming" <=> pc[d] = "streaming"
                         /\ pc[d] = "starting" => pc'[d] = "starting"
                         /\ pc'[d] \in Unasked \cup {"starting"}
                               => pc[d] \in Unasked \cup {"starting"}
    BY <1>1, <1>5 DEF ForceUnnamed, Returns, Unasked, OwnerSteps
  <2>3. \A d \in Calls : pc[d] # "streaming"
    BY <2>1, CallsAssumption DEF OwnedTurn
  <2> QED
    BY <1>2, <2>1, <2>2, <2>3, TerminalOwned
<1> QED
  BY <1>3, <1>4, <1>5 DEF SettlementTimesOut

LEMMA OwnedStep == IInv /\ OInv /\ [Next]_vars => OwnedTurn'
<1> SUFFICES ASSUME IInv, OInv, [Next]_vars PROVE OwnedTurn'
  OBVIOUS
<1>1. TypeInv /\ SlotInv /\ OwnedTurn /\ EventsOwned
  BY DEF IInv, OInv
<1>2. CASE UNCHANGED vars
  BY <1>1, <1>2, ProviderStepsOwned DEF vars
<1>3. ASSUME \/ \E c \in Calls : TurnBegins(c)
             \/ \E a \in Autos : AutonomousBegins(a)
             \/ \E t \in Turns, type \in {"ended", "failed"} : TurnEnds(t, type)
      PROVE  OwnedTurn'
  BY <1>1, <1>3, ProviderStepsOwned DEF TurnBegins, AutonomousBegins, TurnEnds, calls
<1>4. CASE Next
  BY <1>1, <1>3, <1>4, NextCases, ClientStepsOwned, LaneStepsOwned, RunStartedOwned,
     StartFailedOwned, DispatchOwned, SettlementOwned
<1> QED
  BY <1>2, <1>4

-----------------------------------------------------------------------------
(* The admitted steer *)

\* Only the head of the lane is inside it
LEMMA LaneExcludes ==
    ASSUME TypeInv, NEW c \in Calls, Owns(c), pc[c] # "steering"
    PROVE  ~BarrierUp
BY DEF TypeInv, LaneOwned, Owns, OwnerSteps, BarrierUp

\* A turn that is published has no start to wait for
LEMMA NothingStarts ==
    ASSUME OwnedTurn, agent.fg # None, NEW c \in Calls, pc[c] = "starting"
    PROVE  run.by # c
BY DEF OwnedTurn, ForegroundOwned

LEMMA AdmittedStep == IInv /\ OInv /\ [Next]_vars => Admitted'
<1> SUFFICES ASSUME IInv, OInv, [Next]_vars,
                    NEW c \in Calls, pc'[c] = "steering", expects'[c] \in Calls
             PROVE  agent'.fg = expects'[c]
  BY DEF Admitted
<1>1. /\ TypeInv /\ SlotInv /\ OwnedTurn /\ Admitted /\ BuffersInTime
      /\ pc \in [Calls -> Steps] /\ expects \in [Calls -> Turns \cup {None}] /\ agent \in Agent
  BY DEF IInv, OInv, EventsOwned, TypeInv, TypeOK
<1>2. CASE pc[c] = "steering" /\ expects'[c] = expects[c]
  <2>1. agent.fg = expects[c] /\ agent.fg # None /\ BarrierUp /\ queue = <<>>
    BY <1>1, <1>2, CallsAssumption DEF Admitted, BarrierUp, BuffersInTime
  <2>2. agent'.fg = agent.fg
    <3>1. CASE UNCHANGED vars
      BY <3>1 DEF vars
    <3>2. ASSUME NEW d \in Calls, RunStarted(d) \/ RunRejected(d) \/ RunWentStale(d)
          PROVE  UNCHANGED agent
      BY <1>1, <2>1, <3>2, NothingStarts DEF RunStarted, RunRejected, RunWentStale
    <3>3. ASSUME NEW d \in Calls, SettlementTimesOut(d) PROVE FALSE
      BY <1>1, <2>1, <3>3, LaneExcludes DEF SettlementTimesOut, TypeInv, LaneOwned, OwnerSteps
    <3>4. ASSUME NEW d \in Calls,
                 \/ Send(d) \/ RunAgent(d) \/ Resume(d) \/ SteerChoose(d) \/ SteerFallback(d)
                 \/ CancelRefused(d)
          PROVE  agent'.fg = agent.fg
      BY <1>1, <3>4 DEF Send, RunAgent, Resume, SteerChoose, SteerFallback, SendInstead,
         SendOrReplace, StreamAgent, BeginReplacement, CancelRefused, Agent
    <3>5. ASSUME NEW d \in Calls,
                 \/ SteerAdmit(d) \/ SteerReturns(d) \/ Steer(d) \/ Stop(d) \/ CancelBegins(d)
                 \/ CancelSettled(d) \/ TurnBegins(d) \/ InterruptAcked(d) \/ InterruptRefused(d)
                 \/ \E answer \in {"accepted", "unavailable", "rejected"} : SteerAnswered(d, answer)
          PROVE  UNCHANGED agent
      BY <3>5 DEF SteerAdmit, SteerReturns, Steer, Stop, CancelBegins, CancelSettled, TurnBegins,
         InterruptAcked, InterruptRefused, SteerAnswered
    <3>6. ASSUME \/ \E a \in Autos : AutonomousBegins(a)
                 \/ \E t \in Turns, type \in {"ended", "failed"} : TurnEnds(t, type)
          PROVE  UNCHANGED agent
      BY <3>6 DEF AutonomousBegins, TurnEnds
    <3>7. ~Dispatch
      BY <2>1 DEF Dispatch
    <3> QED
      BY <3>1, <3>2, <3>3, <3>4, <3>5, <3>6, <3>7, NextCases
  <2> QED
    BY <1>2, <2>1, <2>2
<1>3. CASE SteerAdmit(c)
  BY <1>1, <1>3 DEF SteerAdmit, OwnedTurn
<1>4. CASE ~SteerAdmit(c)
  <2>1. pc[c] = "steering" /\ expects'[c] = expects[c]
    <3>1. CASE UNCHANGED vars
      BY <3>1 DEF vars
    <3>2. ASSUME NEW d \in Calls,
                 \/ Send(d) \/ RunAgent(d) \/ Resume(d) \/ SteerChoose(d) \/ SteerFallback(d)
                 \/ Steer(d) \/ Stop(d)
          PROVE  pc[c] = "steering" /\ expects'[c] = expects[c]
      BY <1>1, <3>2 DEF Send, RunAgent, Resume, SteerChoose, SteerFallback, SendInstead, Steer,
         Stop, Issue, SendOrReplace, StreamAgent, BeginReplacement
    <3>3. ASSUME NEW d \in Calls,
                 \/ SteerAdmit(d) \/ SteerReturns(d) \/ CancelBegins(d)
                 \/ CancelSettled(d) \/ CancelRefused(d) \/ InterruptAcked(d) \/ InterruptRefused(d)
                 \/ \E answer \in {"accepted", "unavailable", "rejected"} : SteerAnswered(d, answer)
          PROVE  pc[c] = "steering" /\ expects'[c] = expects[c]
      BY <1>1, <1>4, <3>3 DEF SteerAdmit, SteerReturns, CancelBegins, CancelSettled, Returns,
         CancelRefused, InterruptAcked, InterruptRefused, SteerAnswered
    <3>4. ASSUME NEW d \in Calls, RunStarted(d) \/ RunRejected(d) \/ RunWentStale(d) \/ TurnBegins(d)
          PROVE  pc[c] = "steering" /\ expects'[c] = expects[c]
      BY <1>1, <3>4 DEF RunStarted, RunRejected, RunWentStale, TurnBegins, calls
    <3>5. ASSUME NEW d \in Calls, SettlementTimesOut(d)
          PROVE  pc[c] = "steering" /\ expects'[c] = expects[c]
      BY <1>1, <3>5 DEF SettlementTimesOut, ForceTurn, ForcePending, ForceUnnamed, Returns, StreamEnds
    <3>6. ASSUME \/ \E a \in Autos : AutonomousBegins(a)
                 \/ \E t \in Turns, type \in {"ended", "failed"} : TurnEnds(t, type)
          PROVE  UNCHANGED calls
      BY <3>6 DEF AutonomousBegins, TurnEnds
    <3>7. ASSUME Dispatch
          PROVE  pc[c] = "steering" /\ expects'[c] = expects[c]
      BY <1>1, <3>7 DEF Dispatch, Started, StreamEnds
    <3> QED
      BY <3>1, <3>2, <3>3, <3>4, <3>5, <3>6, <3>7, NextCases DEF calls
  <2> QED
    BY <1>2, <2>1
<1> QED
  BY <1>3, <1>4

-----------------------------------------------------------------------------
(* The events on their way *)

\* The buffers keep what they have: the steps that move calls or clear a run
LEMMA EventsKept ==
    ASSUME EventsOwned, UNCHANGED <<held, queue>>, staged' \in {staged, <<>>},
           BarrierUp' => queue = <<>>,
           ~BarrierUp' => held = <<>>,
           staged' # <<>> => Pending' /\ run'.by = run.by,
           \A d \in Calls :
              /\ queue # <<>> /\ agent.fg = d => agent'.fg = d
              /\ Announces(held, d) => run'.kind = "foreground" /\ run'.by = d /\ prov'[d] \in Answered
              /\ prov[d] \notin {"none", "asked"} => prov'[d] \notin {"none", "asked"}
    PROVE  EventsOwned'
<1>1. BuffersInTime'
  BY DEF EventsOwned, BuffersInTime
<1>2. ASSUME NEW d \in Calls
      PROVE  /\ Announces(queue', d) => agent'.fg = d
             /\ EndsLater(queue', d) /\ EndsLater(held', d)
             /\ Announces(held', d) => run'.kind = "foreground" /\ run'.by = d /\ prov'[d] \in Answered
             /\ Announces(staged', d) => run'.by = d /\ prov'[d] \notin {"none", "asked"}
             /\ Once(held', d) /\ Once(staged', d)
             /\ ~(Announces(staged', d) /\ Announces(held', d))
  <2>1. queue = <<>> => ~Announces(queue, d)
    BY NothingAnnounced
  <2>2. CASE staged' = <<>>
    BY <1>2, <2>1, <2>2, NothingAnnounced DEF EventsOwned, StartsInOrder
  <2>3. CASE staged' # <<>> /\ staged' = staged
    BY <1>2, <2>1, <2>3 DEF EventsOwned, StartsInOrder
  <2> QED
    BY <2>2, <2>3
<1>3. StartsInOrder'
  BY <1>2 DEF StartsInOrder, Announces, EndsLater, Once, IsEnd, Start
<1> QED
  BY <1>1, <1>3 DEF EventsOwned

LEMMA ClientStepsEvents ==
    ASSUME TypeInv, SlotInv, OInv, NEW c \in Calls,
           \/ Send(c) \/ RunAgent(c) \/ Resume(c) \/ SteerChoose(c) \/ SteerFallback(c)
           \/ Steer(c) \/ Stop(c)
    PROVE  EventsOwned'
<1>1. pc \in [Calls -> Steps] /\ agent \in Agent /\ prov \in [Turns -> ProviderStates] /\ c \in Turns
  BY DEF TypeInv, TypeOK, Turns
<1>2. BarrierUp' <=> BarrierUp
  <2>1. pc[c] # "steering" /\ \E to \in Steps \ {"steering"} : pc' = [pc EXCEPT ![c] = to]
    BY DEF Send, RunAgent, Resume, SteerChoose, SteerFallback, Steer, Stop, SendInstead, Issue,
           SendOrReplace, StreamAgent, BeginReplacement, Steps
  <2> QED
    BY <1>1, <2>1 DEF BarrierUp
<1>3. UNCHANGED <<held, queue>> /\ agent'.fg = agent.fg
  BY <1>1 DEF Send, RunAgent, Resume, SteerChoose, SteerFallback, Steer, Stop, SendInstead,
     SendOrReplace, StreamAgent, BeginReplacement, buffers, Agent
<1>4. CASE UNCHANGED <<staged, run, prov>>
  BY <1>2, <1>3, <1>4, EventsKept DEF OInv, EventsOwned, BuffersInTime, StartsInOrder, Pending
<1>5. CASE StreamAgent(c) /\ run = NoRun
  <2>1. prov[c] = "none" /\ staged' = <<>> /\ prov' = [prov EXCEPT ![c] = "asked"]
    BY <1>5 DEF StreamAgent, SlotInv, NotYetAsked, Send, RunAgent, Resume, SteerChoose,
                SteerFallback, Steer, Stop, Issue, Unasked
  <2>2. \A d \in Calls : ~Announces(held, d)
    BY <1>5 DEF OInv, EventsOwned, StartsInOrder, NoRun
  <2> QED
    BY <1>1, <1>2, <1>3, <2>1, <2>2, EventsKept DEF OInv, EventsOwned, BuffersInTime
<1> QED
  BY <1>4, <1>5 DEF Send, RunAgent, Resume, SteerChoose, SteerFallback, Steer, Stop, SendInstead,
     SendOrReplace, BeginReplacement, CanStream, HasInFlightRun, buffers

LEMMA LaneStepsEvents ==
    ASSUME TypeInv, SlotInv, OInv, NEW c \in Calls,
           \/ SteerAdmit(c) \/ SteerReturns(c) \/ CancelBegins(c) \/ InterruptAcked(c)
           \/ InterruptRefused(c) \/ CancelSettled(c) \/ CancelRefused(c)
    PROVE  EventsOwned'
<1>1. /\ pc \in [Calls -> Steps] /\ agent \in Agent /\ prov \in [Turns -> ProviderStates]
      /\ BuffersInTime /\ StartsInOrder
  BY DEF TypeInv, TypeOK, OInv, EventsOwned
<1>2. UNCHANGED buffers /\ agent'.fg = agent.fg
  BY <1>1 DEF SteerAdmit, SteerReturns, CancelBegins, InterruptAcked, InterruptRefused,
     CancelSettled, CancelRefused, Agent
<1>3. (BarrierUp => BarrierUp') /\ (BarrierUp' => BarrierUp \/ queue = <<>>)
  <2>1. /\ pc[c] # "steering"
        /\ \E to \in Steps : pc' = [pc EXCEPT ![c] = to] /\ (to = "steering" => queue = <<>>)
    <3>1. CASE SteerAdmit(c)
      BY <3>1 DEF SteerAdmit, Steps
    <3>2. CASE SteerReturns(c)
      BY <3>2 DEF SteerReturns, Steps
    <3>3. CASE CancelBegins(c) \/ CancelSettled(c) \/ CancelRefused(c)
      BY <3>3 DEF CancelBegins, CancelSettled, CancelRefused, Returns, Steps
    <3>4. CASE InterruptAcked(c) \/ InterruptRefused(c)
      BY <3>4 DEF InterruptAcked, InterruptRefused, Steps
    <3> QED
      BY <3>1, <3>2, <3>3, <3>4
  <2>2. \A d \in Calls : /\ pc[d] = "steering" => pc'[d] = "steering"
                         /\ pc'[d] = "steering" => pc[d] = "steering" \/ queue = <<>>
    BY <1>1, <2>1
  <2> QED
    BY <2>2 DEF BarrierUp
<1>4. run.kind = "foreground" => run' = run
  <2>1. CASE CancelBegins(c)
    BY <2>1 DEF CancelBegins, NoRun
  <2>2. CASE ~CancelBegins(c)
    BY <2>2 DEF SteerAdmit, SteerReturns, InterruptAcked, InterruptRefused, CancelSettled, CancelRefused
  <2> QED
    BY <2>1, <2>2
<1>5. CASE InterruptAcked(c)
  <2>1. ~BarrierUp
    BY <1>5, LaneExcludes DEF InterruptAcked, TypeInv, LaneOwned, OwnerSteps
  <2>2. \A d \in Calls : ~Announces(held, d)
    BY <1>1, <2>1, NothingAnnounced DEF BuffersInTime
  <2>3. \A d \in Calls : prov[d] \notin {"none", "asked"} => prov'[d] \notin {"none", "asked"}
    BY <1>5 DEF InterruptAcked, Turns
  <2> QED
    BY <1>1, <1>2, <1>3, <1>4, <2>2, <2>3, EventsKept DEF buffers, BuffersInTime, Pending, OInv
<1>6. CASE ~InterruptAcked(c)
  <2>1. UNCHANGED prov
    BY <1>6 DEF SteerAdmit, SteerReturns, CancelBegins, InterruptRefused, CancelSettled, CancelRefused
  <2> QED
    BY <1>1, <1>2, <1>3, <1>4, <2>1, EventsKept DEF buffers, BuffersInTime, StartsInOrder, Pending, OInv
<1> QED
  BY <1>5, <1>6

\* The provider's answer takes the barrier down and releases what it held
LEMMA SteerAnsweredEvents ==
    ASSUME TypeInv, SlotInv, OInv, NEW c \in Calls,
           \E answer \in {"accepted", "unavailable", "rejected"} : SteerAnswered(c, answer)
    PROVE  EventsOwned'
<1>1. /\ pc \in [Calls -> Steps] /\ BuffersInTime /\ StartsInOrder /\ OwnedTurn
      /\ staged \in Seq(Event) /\ held \in Seq(Event) /\ queue = <<>> /\ pc[c] = "steering"
  BY DEF TypeInv, TypeOK, OInv, EventsOwned, SteerAnswered, Quiet
<1>2. /\ UNCHANGED <<agent, run, prov>> /\ held' = <<>>
      /\ staged' = IF Pending THEN staged \o held ELSE staged
      /\ queue' = IF Pending THEN queue ELSE queue \o held
      /\ \E answer \in Steps \ {"steering"} : pc' = [pc EXCEPT ![c] = answer]
  BY DEF SteerAnswered, Steps
<1>3. ~BarrierUp'
  BY <1>1, <1>2 DEF BarrierUp, TypeInv, LaneOwned, Owns, OwnerSteps
<1>4. queue' \in {queue, held} /\ (Pending => queue' = queue)
  BY <1>1, <1>2, ConcatEmptySeq
<1>5. BuffersInTime'
  BY <1>1, <1>2, <1>3 DEF BuffersInTime, Pending
<1>6. ASSUME NEW d \in Calls
      PROVE  /\ Announces(queue', d) => agent'.fg = d
             /\ EndsLater(queue', d) /\ EndsLater(held', d)
             /\ Announces(held', d) => run'.kind = "foreground" /\ run'.by = d /\ prov'[d] \in Answered
             /\ Announces(staged', d) => run'.by = d /\ prov'[d] \notin {"none", "asked"}
             /\ Once(held', d) /\ Once(staged', d)
             /\ ~(Announces(staged', d) /\ Announces(held', d))
  <2>1. ~Pending /\ Announces(held, d) => agent.fg = d
    BY <1>1, <1>6 DEF StartsInOrder, OwnedTurn, Pending, SlotInv, RunShape
  <2>2. /\ Announces(staged', d) => run.by = d /\ prov[d] \notin {"none", "asked"}
        /\ Once(staged', d)
    BY <1>1, <1>2, <1>6, ConcatAnnounces DEF StartsInOrder, Answered
  <2>3. EndsLater(queue', d) /\ (Announces(queue', d) => agent.fg = d)
    BY <1>1, <1>4, <1>6, <2>1, NothingAnnounced DEF StartsInOrder
  <2> QED
    BY <1>2, <2>2, <2>3, NothingAnnounced
<1>7. StartsInOrder'
  BY <1>6 DEF StartsInOrder, Announces, EndsLater, Once, IsEnd, Start
<1> QED
  BY <1>5, <1>7 DEF EventsOwned

\* An event joins one of the buffers
LEMMA EnqueuedOwned ==
    ASSUME TypeInv, SlotInv, OInv, NEW e \in Event, Enqueue(e), queue = <<>>,
           UNCHANGED <<agent, run, pc>>,
           \A d \in Calls : e = Start(d) => prov[d] = "asked" /\ prov'[d] = "live",
           \A d \in Calls : /\ prov[d] \notin {"none", "asked"} => prov'[d] \notin {"none", "asked"}
                            /\ prov[d] \in Answered => prov'[d] \in Answered
    PROVE  EventsOwned'
<1>1. /\ BuffersInTime /\ StartsInOrder /\ OwnedTurn /\ EventsPlausible
      /\ staged \in Seq(Event) /\ held \in Seq(Event) /\ queue \in Seq(Event)
  BY DEF TypeInv, TypeOK, OInv, EventsOwned, SlotInv
<1>2. /\ held'   = IF BarrierUp THEN Append(held, e) ELSE held
      /\ staged' = IF ~BarrierUp /\ Pending THEN Append(staged, e) ELSE staged
      /\ queue'  = IF ~BarrierUp /\ ~Pending THEN Append(queue, e) ELSE queue
  BY DEF Enqueue
<1>3. BuffersInTime'
  BY <1>1, <1>2 DEF BuffersInTime, BarrierUp, Pending
<1>4. ASSUME NEW d \in Calls
      PROVE  /\ Announces(queue', d) => agent'.fg = d
             /\ EndsLater(queue', d) /\ EndsLater(held', d)
             /\ Announces(held', d) => run'.kind = "foreground" /\ run'.by = d /\ prov'[d] \in Answered
             /\ Announces(staged', d) => run'.by = d /\ prov'[d] \notin {"none", "asked"}
             /\ Once(held', d) /\ Once(staged', d)
             /\ ~(Announces(staged', d) /\ Announces(held', d))
  <2>1. ASSUME e = Start(d)
        PROVE  /\ run.kind = "foreground" /\ run.by = d /\ (~Pending => agent.fg = d)
               /\ prov'[d] = "live" /\ ~Announces(held, d) /\ ~Announces(staged, d)
               /\ \A j \in 1..Len(held) : ~IsEnd(held[j], d)
               /\ \A j \in 1..Len(queue) : ~IsEnd(queue[j], d)
    <3>1. prov[d] = "asked" /\ prov'[d] = "live"
      BY <1>4, <2>1
    <3>2. run.kind = "foreground" /\ run.by = d
      BY <1>4, <3>1 DEF SlotInv, WorkOwned
    <3>3. ~Pending => agent.fg = d
      BY <1>1, <3>2 DEF Pending, OwnedTurn, SlotInv, RunShape
    <3>4. ~Announces(held, d) /\ ~Announces(staged, d)
      BY <1>1, <1>4, <3>1 DEF StartsInOrder, Answered
    <3>5. \A j \in 1..Len(held) : held[j] \in Plausible
      BY <1>1, ElementOfSeq DEF EventsPlausible
    <3>6. \A j \in 1..Len(held) : ~IsEnd(held[j], d)
      BY <3>1, <3>5 DEF Plausible, IsEnd
    <3>7. \A j \in 1..Len(queue) : ~IsEnd(queue[j], d)
      BY EmptySeq
    <3> QED
      BY <3>1, <3>2, <3>3, <3>4, <3>6, <3>7
  <2>2. CASE BarrierUp
    <3>1. /\ Announces(Append(held, e), d) => Announces(held, d) \/ e = Start(d)
          /\ Once(Append(held, e), d) /\ EndsLater(Append(held, e), d)
      BY <1>1, <1>4, <2>1, AppendAnnounces DEF StartsInOrder
    <3> QED
      BY <1>1, <1>2, <1>4, <2>1, <2>2, <3>1 DEF StartsInOrder, Answered
  <2>3. CASE ~BarrierUp /\ Pending
    <3>1. /\ Announces(Append(staged, e), d) => Announces(staged, d) \/ e = Start(d)
          /\ Once(Append(staged, e), d)
      BY <1>1, <1>4, <2>1, AppendAnnounces DEF StartsInOrder
    <3> QED
      BY <1>1, <1>2, <1>4, <2>1, <2>3, <3>1 DEF StartsInOrder, Answered
  <2>4. CASE ~BarrierUp /\ ~Pending
    <3>1. /\ Announces(Append(queue, e), d) => Announces(queue, d) \/ e = Start(d)
          /\ EndsLater(Append(queue, e), d)
      BY <1>1, <1>4, <2>1, AppendAnnounces DEF StartsInOrder
    <3> QED
      BY <1>1, <1>2, <1>4, <2>1, <2>4, <3>1 DEF StartsInOrder, Answered
  <2> QED
    BY <2>2, <2>3, <2>4
<1>5. StartsInOrder'
  BY <1>4 DEF StartsInOrder, Announces, EndsLater, Once, IsEnd, Start
<1> QED
  BY <1>3, <1>5 DEF EventsOwned

LEMMA ProviderStepsEvents ==
    ASSUME TypeInv, SlotInv, OInv,
           \/ \E c \in Calls : TurnBegins(c)
           \/ \E a \in Autos : AutonomousBegins(a)
           \/ \E t \in Turns, type \in {"ended", "failed"} : TurnEnds(t, type)
    PROVE  EventsOwned'
<1>1. prov \in [Turns -> ProviderStates]
  BY DEF TypeInv, TypeOK
<1>2. ASSUME NEW t \in Turns, NEW to \in {"live", "over", "spent"}, NEW e \in Event,
             prov' = [prov EXCEPT ![t] = to], Enqueue(e), Quiet, UNCHANGED <<agent, run, pc>>,
             e = Start(t) => t \notin Calls \/ (prov[t] = "asked" /\ to = "live"),
             e # Start(t) => e.type # "started",
             prov[t] \in Answered => to \in Answered
      PROVE  EventsOwned'
  <2>1. \A d \in Calls : e = Start(d) => d = t
    BY <1>2 DEF Start
  <2>2. \A d \in Calls : e = Start(d) => prov[d] = "asked" /\ prov'[d] = "live"
    BY <1>1, <1>2, <2>1 DEF Turns
  <2> QED
    BY <1>1, <1>2, <2>2, EnqueuedOwned DEF Quiet, Answered
<1>3. ASSUME NEW c \in Calls, TurnBegins(c) PROVE EventsOwned'
  <2>1. Start(c) \in Event /\ Start(c).type = "started" /\ c \in Turns
    BY DEF Start, Event, Turns
  <2> QED
    BY <1>2, <1>3, <2>1 DEF TurnBegins, calls, Answered
<1>4. ASSUME NEW a \in Autos, AutonomousBegins(a) PROVE EventsOwned'
  <2>1. Start(a) \in Event /\ Start(a).type = "started" /\ a \in Turns
    BY DEF Start, Event, Turns
  <2> QED
    BY <1>2, <1>4, <2>1, CallsAssumption DEF AutonomousBegins, calls, Answered
<1>5. ASSUME NEW t \in Turns, NEW type \in {"ended", "failed"}, TurnEnds(t, type) PROVE EventsOwned'
  <2> DEFINE e == [type |-> type, turn |-> t]
  <2>1. e \in Event /\ e.type # "started" /\ e # Start(t)
    BY DEF Start, Event
  <2> QED
    BY <1>2, <1>5, <2>1 DEF TurnEnds, calls, Answered
<1> QED
  BY <1>3, <1>4, <1>5

\* The accepted run publishes its start itself and releases what it staged without it
LEMMA RunStartedEvents ==
    ASSUME TypeInv, SlotInv, OInv, OwnedTurn', NEW c \in Calls, RunStarted(c)
    PROVE  EventsOwned'
<1>1. /\ BuffersInTime /\ StartsInOrder /\ OwnedTurn /\ agent \in Agent /\ run \in Run
      /\ pc \in [Calls -> Steps] /\ staged \in Seq(Event) /\ held \in Seq(Event) /\ queue = <<>>
      /\ UNCHANGED prov
  BY DEF TypeInv, TypeOK, OInv, EventsOwned, RunStarted, Quiet
<1>2. BarrierUp' <=> BarrierUp
  BY <1>1 DEF RunStarted, BarrierUp
<1>3. CASE run.by # c
  BY <1>1, <1>2, <1>3, EventsKept DEF RunStarted, OInv, buffers, BuffersInTime, StartsInOrder, Pending
<1>4. CASE run.by = c
  <2>1. /\ run.kind = "foreground" /\ run'.kind = "foreground" /\ run'.by = c /\ run'.turn = c
        /\ staged' = <<>>
    BY <1>1, <1>4, CallsAssumption DEF RunStarted, Run, SlotInv, RunShape
  <2>2. \A d \in Calls : ~Announces(Unstaged(c), d)
    BY <1>1, <1>4, UnstagedAnnounces DEF Unstaged, StartsInOrder
  <2>3. Unstaged(c) \in Seq(Event)
    BY <1>1, UnstagedSeq DEF Unstaged
  <2>4. /\ held' = IF BarrierUp THEN held \o Unstaged(c) ELSE held
        /\ queue' = IF BarrierUp THEN queue ELSE queue \o Unstaged(c)
    BY <1>4 DEF RunStarted
  <2>5. BuffersInTime'
    BY <1>1, <1>2, <2>1, <2>4 DEF BuffersInTime
  <2>6. ASSUME NEW d \in Calls
        PROVE  /\ ~Announces(queue', d) /\ EndsLater(queue', d)
               /\ EndsLater(held', d) /\ Once(held', d)
               /\ Announces(held', d) => Announces(held, d)
    <3>1. ~Announces(queue, d) /\ EndsLater(queue, d) /\ queue \in Seq(Event)
      BY <1>1, NothingAnnounced, EventSeqs
    <3>2. /\ EndsLater(held \o Unstaged(c), d) /\ Once(held \o Unstaged(c), d)
          /\ Announces(held \o Unstaged(c), d) => Announces(held, d)
      <4>1. Once(Unstaged(c), d)
        BY <2>2, <2>6 DEF Announces, Once
      <4> QED
        BY <1>1, <2>2, <2>3, <2>6, <4>1, ConcatAnnounces DEF StartsInOrder
    <3>3. ~Announces(queue \o Unstaged(c), d) /\ EndsLater(queue \o Unstaged(c), d)
      BY <2>2, <2>3, <2>6, <3>1, ConcatAnnounces
    <3> QED
      BY <1>1, <2>4, <2>6, <3>1, <3>2, <3>3 DEF StartsInOrder
  <2>7. ASSUME NEW d \in Calls
        PROVE  /\ Announces(queue', d) => agent'.fg = d
               /\ EndsLater(queue', d) /\ EndsLater(held', d)
               /\ Announces(held', d) => run'.kind = "foreground" /\ run'.by = d /\ prov'[d] \in Answered
               /\ Announces(staged', d) => run'.by = d /\ prov'[d] \notin {"none", "asked"}
               /\ Once(held', d) /\ Once(staged', d)
               /\ ~(Announces(staged', d) /\ Announces(held', d))
    BY <1>1, <1>4, <2>1, <2>6, <2>7, NothingAnnounced DEF StartsInOrder
  <2>8. StartsInOrder'
    BY <2>7 DEF StartsInOrder, Announces, EndsLater, Once, IsEnd, Start
  <2> QED
    BY <2>5, <2>8 DEF EventsOwned
<1> QED
  BY <1>3, <1>4

\* A failed start takes its staged events with it; the barrier holds no start of its turn
LEMMA StartFailedEvents ==
    ASSUME TypeInv, SlotInv, OInv, NEW c \in Calls, RunRejected(c) \/ RunWentStale(c)
    PROVE  EventsOwned'
<1>1. /\ BuffersInTime /\ StartsInOrder /\ pc \in [Calls -> Steps] /\ queue = <<>>
      /\ prov \in [Turns -> ProviderStates] /\ c \in Turns
      /\ pc[c] = "starting" /\ pc' = [pc EXCEPT ![c] = "failed"]
      /\ prov[c] \in {"asked", "stopped"} /\ prov' = [prov EXCEPT ![c] = "spent"]
      /\ UNCHANGED <<held, queue>>
      /\ run' = (IF run.by = c THEN NoRun ELSE run)
      /\ staged' = (IF run.by = c THEN <<>> ELSE staged)
  BY DEF TypeInv, TypeOK, OInv, EventsOwned, RunRejected, RunWentStale, Quiet, Turns
<1>2. BarrierUp' <=> BarrierUp
  BY <1>1 DEF BarrierUp
<1>3. \A d \in Calls : Announces(held, d) => d # c /\ run.by = d /\ run.kind = "foreground"
                                            /\ prov[d] \in Answered
  BY <1>1 DEF StartsInOrder, Answered
<1>4. \A d \in Calls : prov'[d] = IF d = c THEN "spent" ELSE prov[d]
  BY <1>1 DEF Turns
<1>5. \A d \in Calls : /\ Announces(held, d) => run'.kind = "foreground" /\ run'.by = d /\ prov'[d] \in Answered
                       /\ prov[d] \notin {"none", "asked"} => prov'[d] \notin {"none", "asked"}
  BY <1>1, <1>3, <1>4
<1>6. staged' # <<>> => Pending' /\ run'.by = run.by
  BY <1>1 DEF BuffersInTime, Pending
<1> QED
  BY <1>1, <1>2, <1>5, <1>6, EventsKept DEF BuffersInTime, OInv

LEMMA SettlementEvents ==
    ASSUME TypeInv, SlotInv, OInv, NEW c \in Calls, SettlementTimesOut(c)
    PROVE  EventsOwned'
<1>1. /\ BuffersInTime /\ StartsInOrder /\ pc \in [Calls -> Steps] /\ queue = <<>>
      /\ pc[c] = "settlingAcked" /\ UNCHANGED <<held, queue, prov>>
  BY DEF TypeInv, TypeOK, OInv, EventsOwned, SettlementTimesOut, Quiet, ForceTurn, ForcePending,
         ForceUnnamed, buffers
<1>2. ~BarrierUp
  BY <1>1, LaneExcludes DEF TypeInv, LaneOwned, OwnerSteps
<1>3. held = <<>> /\ \A d \in Calls : ~Announces(held, d)
  BY <1>1, <1>2, NothingAnnounced DEF BuffersInTime
<1>4. ~BarrierUp'
  BY <1>1, <1>2 DEF SettlementTimesOut, ForceTurn, ForcePending, ForceUnnamed, Returns, StreamEnds, BarrierUp
<1>5. staged' = <<>>
  BY <1>1 DEF SettlementTimesOut, ForceTurn, ForcePending, ForceUnnamed, buffers, BuffersInTime, Pending
<1> QED
  BY <1>1, <1>3, <1>4, <1>5, EventsKept DEF OInv

\* An event dispatched leaves the queue; a published turn whose start is still queued stays
LEMMA DispatchEvents ==
    ASSUME TypeInv, SlotInv, OInv, Dispatch
    PROVE  EventsOwned'
<1> DEFINE e == Head(queue)
<1>1. /\ BuffersInTime /\ StartsInOrder /\ OwnedTurn /\ pc \in [Calls -> Steps] /\ agent \in Agent
      /\ queue \in Seq(Event) /\ queue # <<>> /\ queue' = Tail(queue)
      /\ UNCHANGED <<held, staged, prov>>
  BY DEF TypeInv, TypeOK, OInv, EventsOwned, Dispatch
<1>2. e \in Event /\ e.turn \in Turns /\ e.turn # None
  <2>1. e \in Event
    BY <1>1, EventSeqs
  <2> QED
    BY <2>1, CallsAssumption DEF Event, Turns
<1>3. ~BarrierUp /\ held = <<>>
  BY <1>1 DEF BuffersInTime
<1>4. ~BarrierUp'
  BY <1>1, <1>3 DEF Dispatch, Started, StreamEnds, BarrierUp
<1>5. /\ Pending => Pending' /\ run'.by = run.by
      /\ \A d \in Calls : agent.fg = d => agent'.fg = d \/ IsEnd(e, d)
  <2>1. CASE e.type = "started"
    <3>1. Started(e.turn)
      BY <2>1 DEF Dispatch
    <3> QED
      BY <1>1, <3>1, CallsAssumption DEF Started, Pending, NoRun
  <2>2. CASE e.type # "started"
    <3>1. Terminal(e.turn, e.type)
      BY <2>2 DEF Dispatch
    <3>2. \/ agent.fg = e.turn /\ run' = NoRun
          \/ agent'.fg = agent.fg /\ (run' = run \/ (run.kind # "foreground" /\ run' = NoRun))
      BY <1>1, <1>2, <3>1, TerminalEffect
    <3>3. Pending => agent.fg = None
      BY <1>1 DEF OwnedTurn, ForegroundOwned, Pending
    <3> QED
      BY <1>2, <2>2, <3>2, <3>3 DEF Pending, IsEnd
  <2> QED
    BY <2>1, <2>2
<1>6. BuffersInTime'
  BY <1>1, <1>3, <1>4, <1>5 DEF BuffersInTime
<1>7. ASSUME NEW d \in Calls
      PROVE  /\ Announces(queue', d) => agent'.fg = d
             /\ EndsLater(queue', d) /\ EndsLater(held', d)
             /\ Announces(held', d) => run'.kind = "foreground" /\ run'.by = d /\ prov'[d] \in Answered
             /\ Announces(staged', d) => run'.by = d /\ prov'[d] \notin {"none", "asked"}
             /\ Once(held', d) /\ Once(staged', d)
             /\ ~(Announces(staged', d) /\ Announces(held', d))
  <2>1. EndsLater(queue', d) /\ (Announces(queue', d) => Announces(queue, d) /\ ~IsEnd(e, d))
    BY <1>1, <1>7, TailAnnounces DEF StartsInOrder
  <2>2. Announces(queue', d) => agent'.fg = d
    BY <1>1, <1>5, <1>7, <2>1 DEF StartsInOrder
  <2>3. ~Announces(held, d)
    BY <1>3, NothingAnnounced
  <2>4. Announces(staged, d) => run'.by = d
    <3>1. Announces(staged, d) => staged # <<>> /\ run.by = d
      BY <1>1, <1>7, NothingAnnounced DEF StartsInOrder
    <3> QED
      BY <1>1, <1>5, <3>1 DEF BuffersInTime
  <2> QED
    BY <1>1, <1>7, <2>1, <2>2, <2>3, <2>4 DEF StartsInOrder
<1>8. StartsInOrder'
  BY <1>7 DEF StartsInOrder, Announces, EndsLater, Once, IsEnd, Start
<1> QED
  BY <1>6, <1>8 DEF EventsOwned

LEMMA EventsStep == IInv /\ OInv /\ OwnedTurn' /\ [Next]_vars => EventsOwned'
<1> SUFFICES ASSUME IInv, OInv, OwnedTurn', [Next]_vars PROVE EventsOwned'
  OBVIOUS
<1>1. TypeInv /\ SlotInv
  BY DEF IInv
<1>2. CASE UNCHANGED vars
  BY <1>2, EventsKept DEF vars, OInv, EventsOwned, BuffersInTime, BarrierUp, Pending, StartsInOrder
<1>3. CASE Next
  BY <1>1, <1>3, NextCases, ClientStepsEvents, LaneStepsEvents, SteerAnsweredEvents,
     ProviderStepsEvents, RunStartedEvents, StartFailedEvents, SettlementEvents, DispatchEvents
<1> QED
  BY <1>2, <1>3

-----------------------------------------------------------------------------
(* The theorems *)

LEMMA OwnershipInductive == Spec => [](IInv /\ OInv)
<1>1. Init => OInv
  BY OwnedInit
<1>2. IInv /\ OInv /\ [Next]_vars => OInv'
  BY OwnedStep, AdmittedStep, EventsStep DEF OInv
<1> QED
  BY <1>1, <1>2, Inductive, PTL DEF Spec

\* The published foreground turn is always the tracked run's and the active one, is not
\* finalized and is shown as running; an open prompt stream always has its run, so a
\* terminal event or a forced cancellation can end it (streamForwarder, settleTerminalRun).
THEOREM TurnsAreOwnedHolds == Spec => []TurnsAreOwned
<1>1. OInv /\ IInv => TurnsAreOwned
  BY CallsAssumption
     DEF OInv, OwnedTurn, TurnsAreOwned, ForegroundOwned, StreamsOwned
<1> QED
  BY <1>1, OwnershipInductive, PTL

\* No late or repeated event, released from whichever buffer in whichever order, makes a
\* finalized turn the active one again (onStreamTurnStarted, finalizedForegroundTurnIds).
THEOREM NoResurrectionHolds == Spec => []NoResurrection
<1>1. OInv => NoResurrection
  BY CallsAssumption DEF OInv, OwnedTurn, ForegroundOwned, NoResurrection
<1> QED
  BY <1>1, OwnershipInductive, PTL

\* A steer that the provider has still to answer keeps the foreground turn it was admitted
\* for: no event, start, cancellation or timeout replaces it (runSteerAdmission).
THEOREM AdmittedTurnStays == Spec => []AdmittedTurnStaysActive
<1>1. OInv => AdmittedTurnStaysActive
  BY CallsAssumption
     DEF OInv, OwnedTurn, ForegroundOwned, Admitted, AdmittedTurnStaysActive
<1> QED
  BY <1>1, OwnershipInductive, PTL

=============================================================================
