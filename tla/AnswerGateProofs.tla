--------------------------- MODULE AnswerGateProofs ---------------------------
(***************************************************************************)
(* Proofs about AnswerGate, for every set of remote participants, timeout   *)
(* and clock bound, with and without the gate.                              *)
(*                                                                         *)
(* None of AnsweredOnce, GateHolds and NoLostAnswer is inductive.  GateInv  *)
(* adds what the code relies on silently: the gate is closed before our     *)
(* offer can be answered (GateFirst), our own id is recorded before the     *)
(* next event (OwnIdKnown), an open gate has a reason that cannot go away   *)
(* (OpenedForReason), and the thread that will answer is the one that set   *)
(* answerDone (AnswererUnique).                                             *)
(***************************************************************************)
EXTENDS AnswerGate, TLAPS

\* joined is the first event, and a handler runs in a served session.
JoinedFirst ==
  /\ ~joinSeen => /\ ~answerGate /\ ~offered /\ ~remoteReady
                  /\ ~answerRequested /\ ~answerDone /\ ~voice
                  /\ pc["server"] = "idle"
  /\ pc["server"] # "idle" => served

GateFirst ==
  /\ Gated /\ (offered \/ voice \/ pc["server"] \in {"configure", "accepted", "answered"})
       => answerGate
  /\ pc["media"] \in {"timeout", "answered"} => answerGate

OwnIdKnown ==
  answerGate /\ inTable /\ pc["server"] \notin {"configure", "self"}
    => pParticipantIdStr = Self

Expired == answerRequested /\ clock >= answerDeadline

OpenedForReason ==
  /\ pc["media"] = "timeout" => Expired
  /\ remoteReady => remoteSeen \/ Expired
  /\ Gated /\ answerDone => remoteReady

AnswererUnique ==
  /\ \A a \in Actors : pc[a] = "answer" => answerDone /\ answers = 0
  /\ ~(pc["server"] = "answer" /\ pc["media"] = "answer")
  /\ answers <= 1
  /\ answers = 1 => answerDone

GateInv ==
  /\ GateTypeOK
  /\ JoinedFirst
  /\ GateFirst
  /\ OwnIdKnown
  /\ OpenedForReason
  /\ AnswererUnique
  /\ NoLostAnswer

-----------------------------------------------------------------------------
\* A leg whose join was acknowledged satisfies the invariant.
LEMMA GateInitInv == GateInit => GateInv
<1> SUFFICES ASSUME GateInit PROVE GateInv
  OBVIOUS
<1> USE DEF GateInit, Actors, Pc
<1>1. GateTypeOK
  BY DEF GateTypeOK
<1>2. JoinedFirst
  BY DEF JoinedFirst
<1>3. GateFirst
  BY DEF GateFirst
<1>4. OwnIdKnown
  BY DEF OwnIdKnown
<1>5. OpenedForReason
  BY DEF OpenedForReason, Expired
<1>6. AnswererUnique
  BY DEF AnswererUnique
<1>7. NoLostAnswer
  BY DEF NoLostAnswer
<1> QED
  BY <1>1, <1>2, <1>3, <1>4, <1>5, <1>6, <1>7 DEF GateInv

\* Every step of the two threads, of Janus and of the clock preserves it.
LEMMA GateStepInv == GateInv /\ [GateNext]_vars => GateInv'
<1> SUFFICES ASSUME GateInv, [GateNext]_vars PROVE GateInv'
  OBVIOUS
<1> USE GateAssumption DEF GateInv, GateTypeOK, JoinedFirst, GateFirst,
      OwnIdKnown, OpenedForReason, Expired, AnswererUnique, NoLostAnswer,
      Actors, Pc, Goto, Found, Dispatch, envVars, gateVars, mediaVars, history
<1>1. CASE Joined
  <2>1. GateTypeOK'
    <3>1. CASE Found /\ Gated
      <4>1. clock + Timeout \in Nat
        OBVIOUS
      <4>2. answerGate' = TRUE /\ answerDeadline' = clock + Timeout
        BY <1>1, <3>1 DEF Joined
      <4> QED
        BY <1>1, <3>1, <4>1, <4>2 DEF Joined
    <3>2. CASE ~(Found /\ Gated)
      BY <1>1, <3>2 DEF Joined
    <3> QED
      BY <3>1, <3>2
  <2>2. JoinedFirst'
    BY <1>1 DEF Joined
  <2>3. GateFirst'
    BY <1>1 DEF Joined
  <2>4. OwnIdKnown'
    BY <1>1 DEF Joined
  <2>5. OpenedForReason'
    BY <1>1 DEF Joined
  <2>6. AnswererUnique'
    BY <1>1 DEF Joined
  <2>7. NoLostAnswer'
    BY <1>1 DEF Joined
  <2> QED
    BY <2>1, <2>2, <2>3, <2>4, <2>5, <2>6, <2>7
<1>2. ASSUME NEW id \in Remotes \cup {Self}, NEW setup \in BOOLEAN,
             Participant(id, setup)
      PROVE  GateInv'
  <2>1. GateTypeOK'
    <3>1. remoteReady' \in BOOLEAN /\ pc' \in [Actors -> Pc]
      BY <1>2 DEF Participant
    <3>2. remoteSeen' \in BOOLEAN
      BY <1>2 DEF Participant
    <3> QED
      BY <1>2, <3>1, <3>2 DEF Participant
  <2>2. JoinedFirst'
    BY <1>2 DEF Participant
  <2>3. GateFirst'
    BY <1>2 DEF Participant
  <2>4. OwnIdKnown'
    BY <1>2 DEF Participant
  <2>5. OpenedForReason'
    BY <1>2 DEF Participant
  <2>6. AnswererUnique'
    BY <1>2 DEF Participant
  <2>7. NoLostAnswer'
    BY <1>2 DEF Participant
  <2> QED
    BY <2>1, <2>2, <2>3, <2>4, <2>5, <2>6, <2>7
<1>3. ASSUME NEW isTrickling \in BOOLEAN, Accepted(isTrickling)
      PROVE  GateInv'
  <2>1. GateTypeOK'
    BY <1>3 DEF Accepted, Proceed
  <2>2. JoinedFirst'
    BY <1>3 DEF Accepted, Proceed
  <2>3. GateFirst'
    BY <1>3 DEF Accepted, Proceed
  <2>4. OwnIdKnown'
    BY <1>3 DEF Accepted, Proceed
  <2>5. OpenedForReason'
    BY <1>3 DEF Accepted, Proceed
  <2>6. AnswererUnique'
    BY <1>3 DEF Accepted, Proceed
  <2>7. NoLostAnswer'
    BY <1>3 DEF Accepted, Proceed
  <2> QED
    BY <2>1, <2>2, <2>3, <2>4, <2>5, <2>6, <2>7
<1>4. CASE TrickleComplete
  BY <1>4 DEF TrickleComplete, Proceed
<1>5. CASE Webrtcup
  BY <1>5 DEF Webrtcup
<1>6. CASE Hungup
  BY <1>6 DEF Hungup
<1>7. CASE JoinedNoPorts
  BY <1>7 DEF JoinedNoPorts
<1>8. ASSUME NEW r \in ConfigureReply, JoinedConfigure(r) PROVE GateInv'
  <2>1. GateTypeOK'
    <3>1. offered' \in BOOLEAN /\ hup' \in BOOLEAN
      BY <1>8 DEF JoinedConfigure
    <3>2. pc' \in [Actors -> Pc]
      BY <1>8 DEF JoinedConfigure
    <3> QED
      BY <1>8, <3>1, <3>2 DEF JoinedConfigure
  <2>2. JoinedFirst'
    BY <1>8 DEF JoinedConfigure
  <2>3. GateFirst'
    BY <1>8 DEF JoinedConfigure
  <2>4. OwnIdKnown'
    BY <1>8 DEF JoinedConfigure
  <2>5. OpenedForReason'
    BY <1>8 DEF JoinedConfigure
  <2>6. AnswererUnique'
    BY <1>8 DEF JoinedConfigure
  <2>7. NoLostAnswer'
    BY <1>8 DEF JoinedConfigure
  <2> QED
    BY <2>1, <2>2, <2>3, <2>4, <2>5, <2>6, <2>7
<1>9. CASE SelfParticipant
  <2>1. GateTypeOK'
    BY <1>9 DEF SelfParticipant
  <2>2. JoinedFirst'
    BY <1>9 DEF SelfParticipant
  <2>3. GateFirst'
    BY <1>9 DEF SelfParticipant
  <2>4. OwnIdKnown'
    BY <1>9 DEF SelfParticipant
  <2>5. OpenedForReason'
    BY <1>9 DEF SelfParticipant
  <2>6. AnswererUnique'
    BY <1>9 DEF SelfParticipant
  <2>7. NoLostAnswer'
    BY <1>9 DEF SelfParticipant
  <2> QED
    BY <2>1, <2>2, <2>3, <2>4, <2>5, <2>6, <2>7
<1>10. CASE AcceptedNext
  BY <1>10 DEF AcceptedNext
<1>11. ASSUME NEW a \in Actors, AnsweredReturn(a) PROVE GateInv'
  BY <1>11 DEF AnsweredReturn
<1>12. ASSUME NEW a \in Actors, AnsweredDefer(a) PROVE GateInv'
  BY <1>12 DEF AnsweredDefer
<1>13. ASSUME NEW a \in Actors, AnsweredGrant(a) PROVE GateInv'
  BY <1>13 DEF AnsweredGrant
<1>14. ASSUME NEW a \in Actors, ChannelAnswer(a) PROVE GateInv'
  BY <1>14 DEF ChannelAnswer
<1>15. CASE ReadFrameExpired
  BY <1>15 DEF ReadFrameExpired
<1>16. CASE ReadFrameRelease
  BY <1>16 DEF ReadFrameRelease
<1>17. CASE SessionLostOrClaimed
  BY <1>17 DEF SessionLostOrClaimed
<1>18. CASE CallerHangup
  BY <1>18 DEF CallerHangup
<1>19. CASE LegRemoved
  <2>1. GateTypeOK'
    <3>1. inTable' \in BOOLEAN
      BY <1>19 DEF LegRemoved
    <3>2. UNCHANGED <<served, hup, joinSeen, offered, gateVars, mediaVars,
                      answers, pc, clock, history>>
      BY <1>19 DEF LegRemoved
    <3> QED
      BY <3>1, <3>2
  <2>2. JoinedFirst'
    BY <1>19 DEF LegRemoved
  <2>3. GateFirst'
    BY <1>19 DEF LegRemoved
  <2>4. OwnIdKnown'
    BY <1>19 DEF LegRemoved
  <2>5. OpenedForReason'
    BY <1>19 DEF LegRemoved
  <2>6. AnswererUnique'
    BY <1>19 DEF LegRemoved
  <2>7. NoLostAnswer'
    BY <1>19 DEF LegRemoved
  <2> QED
    BY <2>1, <2>2, <2>3, <2>4, <2>5, <2>6, <2>7
<1>20. CASE Tick
  <2>1. GateTypeOK'
    BY <1>20 DEF Tick
  <2>2. JoinedFirst'
    BY <1>20 DEF Tick
  <2>3. GateFirst'
    BY <1>20 DEF Tick
  <2>4. OwnIdKnown'
    BY <1>20 DEF Tick
  <2>5. OpenedForReason'
    BY <1>20 DEF Tick
  <2>6. AnswererUnique'
    BY <1>20 DEF Tick
  <2>7. NoLostAnswer'
    BY <1>20 DEF Tick
  <2> QED
    BY <2>1, <2>2, <2>3, <2>4, <2>5, <2>6, <2>7
<1>21. CASE UNCHANGED vars
  BY <1>21 DEF vars
<1>22. "server" \in Actors /\ "media" \in Actors
  OBVIOUS
<1> QED
  BY <1>1, <1>2, <1>3, <1>4, <1>5, <1>6, <1>7, <1>8, <1>9, <1>10, <1>11, <1>12,
     <1>13, <1>14, <1>15, <1>16, <1>17, <1>18, <1>19, <1>20, <1>21, <1>22
     DEF GateNext, Event, ServerHandler, MediaStep, Answered

\* The inductive invariant holds in every state of every behaviour.
THEOREM GateInvariant == GateSpec => []GateInv
  BY GateInitInv, GateStepInv, PTL DEF GateSpec

\* Every field of the leg keeps its type.
THEOREM GateTypeCorrect == GateSpec => []GateTypeOK
<1>1. GateInv => GateTypeOK
  BY DEF GateInv
<1> QED
  BY <1>1, GateInvariant, PTL

\* answered answers the channel once, although the server thread and the media
\* thread may both be in it.
THEOREM LegAnsweredOnce == GateSpec => []AnsweredOnce
<1>1. GateInv => AnsweredOnce
  BY DEF GateInv, AnswererUnique, AnsweredOnce
<1> QED
  BY <1>1, GateInvariant, PTL

\* A gated leg is answered only for a remote participant or at the deadline.
THEOREM LegGateHolds == GateSpec => []GateHolds
<1>1. GateInv => GateHolds
  BY DEF GateInv, OpenedForReason, Expired, GateHolds
<1> QED
  BY <1>1, GateInvariant, PTL

\* An answer that was requested is not lost once the gate is open.
THEOREM LegNoLostAnswer == GateSpec => []NoLostAnswer
<1>1. GateInv => NoLostAnswer
  BY DEF GateInv
<1> QED
  BY <1>1, GateInvariant, PTL
===============================================================================
