------------------------------ MODULE AnswerGate ------------------------------
(***************************************************************************)
(* The answering of one call leg: the events that api_dispatch_poll_event   *)
(* delivers to joined, accepted, trickle, participant, answered and hungup, *)
(* in the server thread, and the fallback in channel_read_frame, in the     *)
(* media thread of the leg.                                                 *)
(*                                                                         *)
(* A leg with janus-answer-on-participant-ready holds its answer until a    *)
(* remote participant is set up or a deadline passes.  Both threads may     *)
(* release it, and the fields they share are tested partly without          *)
(* tech_pvt->flag_mutex.  An action is one critical section of flag_mutex   *)
(* (with the table look-ups that precede it) or one blocking call.          *)
(***************************************************************************)
EXTENDS Naturals, JanusApi

CONSTANTS
  Self,       \* our participant id in the room
  Remotes,    \* the participant ids of others
  NoParticipant,  \* pParticipantIdStr == NULL
  Gated,      \* the channel variable janus-answer-on-participant-ready
  Timeout,    \* janus-answer-participant-timeout-ms
  MaxClock    \* bound: the last instant that is looked at

ASSUME GateAssumption ==
  /\ Self \notin Remotes
  /\ NoParticipant \notin Remotes \cup {Self}
  /\ Gated \in BOOLEAN
  /\ Timeout \in Nat \ {0}
  /\ MaxClock \in Nat

VARIABLES
  served,            \* the leg's session is in globals.serverIdLookup
  inTable,           \* the leg is in pServer->senderIdLookup
  hup,               \* switch_channel_hangup was called
  joinSeen,          \* Janus has sent its joined event
  offered,           \* Janus has our offer
  answerGate,        \* tech_pvt->answerGate
  answerDeadline,    \* tech_pvt->answerDeadline (0: not set)
  remoteReady,       \* tech_pvt->remoteReady
  answerRequested,   \* tech_pvt->answerRequested
  answerDone,        \* tech_pvt->answerDone
  pParticipantIdStr, \* tech_pvt->pParticipantIdStr
  pSdpBody,          \* tech_pvt->pSdpBody != NULL
  isTrickleComplete, \* tech_pvt->isTrickleComplete
  answerOnWebrtcup,  \* the channel variable answer_on_webrtcup
  voice,             \* TFLAG_VOICE: RTP is active and the leg pre-answered
  answers,           \* how often switch_channel_answer was called
  pc,                \* where the server thread and the media thread are
  clock,
  remoteSeen,        \* history: a remote with setup:true was dispatched
  requestedAt        \* history: when the answer was first asked for and held

envVars == <<served, inTable, hup, joinSeen, offered>>
gateVars == <<answerGate, answerDeadline, remoteReady, answerRequested,
              answerDone, pParticipantIdStr>>
mediaVars == <<pSdpBody, isTrickleComplete, answerOnWebrtcup, voice>>
history == <<remoteSeen, requestedAt>>
vars == <<envVars, gateVars, mediaVars, answers, pc, clock, history>>

Actors == {"server", "media"}

Pc == {"idle", "configure", "self", "accepted", "timeout", "answered", "answer"}

\* One type for every variable.
GateTypeOK ==
  /\ served \in BOOLEAN /\ inTable \in BOOLEAN /\ hup \in BOOLEAN
  /\ joinSeen \in BOOLEAN /\ offered \in BOOLEAN
  /\ answerGate \in BOOLEAN /\ remoteReady \in BOOLEAN
  /\ answerRequested \in BOOLEAN /\ answerDone \in BOOLEAN
  /\ answerDeadline \in Nat
  /\ pParticipantIdStr \in {NoParticipant, Self}
  /\ pSdpBody \in BOOLEAN /\ isTrickleComplete \in BOOLEAN /\ voice \in BOOLEAN
  /\ answerOnWebrtcup \in BOOLEAN
  /\ answers \in Nat
  /\ pc \in [Actors -> Pc]
  /\ clock \in Nat
  /\ remoteSeen \in BOOLEAN
  /\ requestedAt \in Nat

\* After channel_on_init and a join request that Janus has acknowledged.
GateInit ==
  /\ served = TRUE /\ inTable = TRUE /\ hup = FALSE
  /\ joinSeen = FALSE /\ offered = FALSE
  /\ answerGate = FALSE /\ remoteReady = FALSE
  /\ answerRequested = FALSE /\ answerDone = FALSE
  /\ answerDeadline = 0
  /\ pParticipantIdStr = NoParticipant
  /\ pSdpBody = FALSE /\ isTrickleComplete = FALSE /\ voice = FALSE
  /\ answerOnWebrtcup \in BOOLEAN
  /\ answers = 0
  /\ pc = [a \in Actors |-> "idle"]
  /\ clock = 0
  /\ remoteSeen = FALSE
  /\ requestedAt = 0

-----------------------------------------------------------------------------
Goto(a, where) == pc' = [pc EXCEPT ![a] = where]

\* hashFind of the server and then of the session.
Found == served /\ inTable

\* The server thread dispatches an event: it polls a registered session, and
\* handles one event after the other.
Dispatch == pc["server"] = "idle" /\ served

\* joined, up to the codec and media setup.  The deadline starts here.
\* (The bound only keeps the deadline within the instants looked at.)
Joined ==
  /\ Dispatch
  /\ ~joinSeen
  /\ clock + Timeout <= MaxClock
  /\ joinSeen' = TRUE
  /\ IF Found
       THEN /\ IF Gated
                 THEN answerGate' = TRUE /\ answerDeadline' = clock + Timeout
                 ELSE UNCHANGED <<answerGate, answerDeadline>>
            /\ Goto("server", "configure")
       ELSE /\ Goto("server", "self")
            /\ UNCHANGED <<answerGate, answerDeadline>>
  /\ UNCHANGED <<served, inTable, hup, offered, remoteReady, answerRequested,
                 answerDone, pParticipantIdStr, mediaVars, answers, clock,
                 history>>

\* switch_core_media_choose_ports fails.
JoinedNoPorts ==
  /\ pc["server"] = "configure"
  /\ hup' = TRUE
  /\ Goto("server", "self")
  /\ UNCHANGED <<served, inTable, joinSeen, offered, gateVars, mediaVars,
                 answers, clock, history>>

\* apiConfigure sends the offer.  Without an acknowledgement the leg is hung
\* up, and Janus may have the offer all the same.  An offer that was never sent
\* for want of an optional field counts as a success.
JoinedConfigure(r) ==
  /\ pc["server"] = "configure"
  /\ IF apiConfigure(r)
       THEN offered' = (r # "unbuilt") /\ UNCHANGED hup
       ELSE offered' \in BOOLEAN /\ hup' = TRUE
  /\ Goto("server", "self")
  /\ UNCHANGED <<served, inTable, joinSeen, gateVars, mediaVars, answers, clock,
                 history>>

\* Mutant: our own id is not recorded.
SelfParticipant_Ignored ==
  /\ pc["server"] = "self"
  /\ Goto("server", "idle")
  /\ UNCHANGED <<envVars, gateVars, mediaVars, answers, clock, history>>

\* participant(isSelf), called after joined for the same event.
SelfParticipant ==
  /\ pc["server"] = "self"
  /\ pParticipantIdStr' = IF Found /\ pParticipantIdStr = NoParticipant
                            THEN Self ELSE pParticipantIdStr
  /\ Goto("server", "idle")
  /\ UNCHANGED <<envVars, answerGate, answerDeadline, remoteReady,
                 answerRequested, answerDone, mediaVars, answers, clock,
                 history>>

\* Mutant: the answer is not released when it was requested before.
Participant_NoRelease(id, setup) ==
  /\ Dispatch
  /\ joinSeen
  /\ IF /\ Found /\ answerGate /\ ~answerDone
        /\ id # pParticipantIdStr /\ setup
       THEN remoteReady' = TRUE
       ELSE UNCHANGED remoteReady
  /\ remoteSeen' = (remoteSeen \/ (id # Self /\ setup))
  /\ UNCHANGED <<envVars, answerGate, answerDeadline, answerRequested,
                 answerDone, pParticipantIdStr, mediaVars, answers, pc, clock,
                 requestedAt>>

\* Mutant: whoever is listed is taken for ourselves.
Participant_RecordsId(id, setup) ==
  /\ Dispatch
  /\ joinSeen
  /\ Found
  /\ pParticipantIdStr' = id
  /\ UNCHANGED <<envVars, answerGate, answerDeadline, remoteReady,
                 answerRequested, answerDone, mediaVars, answers, pc, clock,
                 history>>

\* participant, for one element of a participants array.  (A list is that many
\* calls.)  The own id never opens the gate; a remote one that is set up does,
\* and answers at once if the answer was requested before.
Participant(id, setup) ==
  /\ Dispatch
  /\ joinSeen
  /\ IF /\ Found /\ answerGate /\ ~answerDone
        /\ id # pParticipantIdStr /\ setup
       THEN /\ remoteReady' = TRUE
            /\ Goto("server", IF answerRequested THEN "answered" ELSE "idle")
       ELSE UNCHANGED <<remoteReady, pc>>
  /\ remoteSeen' = (remoteSeen \/ (id # Self /\ setup))
  /\ UNCHANGED <<envVars, answerGate, answerDeadline, answerRequested,
                 answerDone, pParticipantIdStr, mediaVars, answers, clock,
                 requestedAt>>

\* proceed: negotiate, activate RTP and pre-answer.  A failure hangs the leg
\* up, except that a failed pre-answer only returns.
Proceed ==
  \/ voice' = TRUE /\ UNCHANGED hup
  \/ hup' = TRUE /\ UNCHANGED voice
  \/ UNCHANGED <<voice, hup>>

\* accepted, for the jsep of a configure: with trickling, wait for the
\* candidates.
Accepted(isTrickling) ==
  /\ Dispatch
  /\ offered
  /\ ~pSdpBody
  /\ IF Found
       THEN /\ pSdpBody' = TRUE
            /\ IF ~isTrickling \/ isTrickleComplete
                 THEN Proceed ELSE UNCHANGED <<voice, hup>>
       ELSE UNCHANGED <<pSdpBody, voice, hup>>
  /\ Goto("server", "accepted")
  /\ UNCHANGED <<served, inTable, joinSeen, offered, gateVars,
                 isTrickleComplete, answerOnWebrtcup, answers, clock,
                 history>>

\* After accepted, whatever it returned: answered, unless answer_on_webrtcup
\* says otherwise, which it does not for a leg that is not found.
AcceptedNext ==
  /\ pc["server"] = "accepted"
  /\ Goto("server", IF answerOnWebrtcup /\ Found THEN "idle" ELSE "answered")
  /\ UNCHANGED <<envVars, gateVars, mediaVars, answers, clock, history>>

\* trickle, for the last candidate.
TrickleComplete ==
  /\ Dispatch
  /\ offered
  /\ Found
  /\ isTrickleComplete' = TRUE
  /\ IF pSdpBody THEN Proceed ELSE UNCHANGED <<voice, hup>>
  /\ UNCHANGED <<served, inTable, joinSeen, offered, gateVars, pSdpBody,
                 answerOnWebrtcup, answers, pc, clock, history>>

\* The webrtcup event, which Janus sends when media is connected.
Webrtcup ==
  /\ Dispatch
  /\ voice
  /\ answerOnWebrtcup /\ Found
  /\ Goto("server", "answered")
  /\ UNCHANGED <<envVars, gateVars, mediaVars, answers, clock, history>>

\* hungup: the events hangup and detached, and an error from the plugin.
Hungup ==
  /\ Dispatch
  /\ Found
  /\ hup' = TRUE
  /\ UNCHANGED <<served, inTable, joinSeen, offered, gateVars, mediaVars,
                 answers, pc, clock, history>>

-----------------------------------------------------------------------------
(***************************************************************************)
(* answered, in either thread.                                              *)
(***************************************************************************)

\* The session or the leg is gone, or the leg is answered already.
AnsweredReturn(a) ==
  /\ pc[a] = "answered"
  /\ ~Found \/ answerDone
  /\ Goto(a, "idle")
  /\ UNCHANGED <<envVars, gateVars, mediaVars, answers, clock, history>>

\* The gate is closed: note that the answer was asked for.
AnsweredDefer(a) ==
  /\ pc[a] = "answered"
  /\ Found /\ ~answerDone
  /\ answerGate /\ ~remoteReady
  /\ answerRequested' = TRUE
  /\ requestedAt' = IF answerRequested THEN requestedAt ELSE clock
  /\ Goto(a, "idle")
  /\ UNCHANGED <<envVars, answerGate, answerDeadline, remoteReady, answerDone,
                 pParticipantIdStr, mediaVars, answers, clock, remoteSeen>>

\* Mutant: answerDone is set when the channel has been answered.
AnsweredGrant_Late(a) ==
  /\ pc[a] = "answered"
  /\ Found /\ ~answerDone
  /\ ~answerGate \/ remoteReady
  /\ Goto(a, "answer")
  /\ UNCHANGED <<envVars, gateVars, mediaVars, answers, clock, history>>

\* Answer: answerDone is set before flag_mutex is released ...
AnsweredGrant(a) ==
  /\ pc[a] = "answered"
  /\ Found /\ ~answerDone
  /\ ~answerGate \/ remoteReady
  /\ answerDone' = TRUE
  /\ Goto(a, "answer")
  /\ UNCHANGED <<envVars, answerGate, answerDeadline, remoteReady,
                 answerRequested, pParticipantIdStr, mediaVars, answers, clock,
                 history>>

\* ... and then the channel is answered.
ChannelAnswer(a) ==
  /\ pc[a] = "answer"
  /\ answers' = answers + 1
  /\ Goto(a, "idle")
  /\ UNCHANGED <<envVars, gateVars, mediaVars, clock, history>>

-----------------------------------------------------------------------------
(***************************************************************************)
(* channel_read_frame, called for every frame of a channel that has media.  *)
(***************************************************************************)

\* The test, without flag_mutex.
ReadFrameExpired ==
  /\ pc["media"] = "idle"
  /\ voice /\ ~hup
  /\ answerGate /\ answerRequested /\ ~answerDone
  /\ answerDeadline # 0 /\ clock >= answerDeadline
  /\ Goto("media", "timeout")
  /\ UNCHANGED <<envVars, gateVars, mediaVars, answers, clock, history>>

\* Mutant: the gate stays closed at the deadline.
ReadFrameRelease_KeepsGate ==
  /\ pc["media"] = "timeout"
  /\ Goto("media", "answered")
  /\ UNCHANGED <<envVars, gateVars, mediaVars, answers, clock, history>>

\* Open the gate, with flag_mutex; then call answered.
ReadFrameRelease ==
  /\ pc["media"] = "timeout"
  /\ remoteReady' = TRUE
  /\ Goto("media", "answered")
  /\ UNCHANGED <<envVars, answerGate, answerDeadline, answerRequested,
                 answerDone, pParticipantIdStr, mediaVars, answers, clock,
                 history>>

-----------------------------------------------------------------------------
(***************************************************************************)
(* What goes on around the leg.                                             *)
(***************************************************************************)

\* The server thread loses its session, or registers it again by a claim.
SessionLostOrClaimed ==
  /\ pc["server"] = "idle"
  /\ served' = ~served
  /\ UNCHANGED <<inTable, hup, joinSeen, offered, gateVars, mediaVars, answers,
                 pc, clock, history>>

\* The caller hangs up.
CallerHangup ==
  /\ ~hup
  /\ hup' = TRUE
  /\ UNCHANGED <<served, inTable, joinSeen, offered, gateVars, mediaVars,
                 answers, pc, clock, history>>

\* channel_on_hangup, in the thread that reads the frames, deletes the leg
\* from the table.
LegRemoved ==
  /\ hup /\ inTable
  /\ pc["media"] = "idle"
  /\ inTable' = FALSE
  /\ UNCHANGED <<served, hup, joinSeen, offered, gateVars, mediaVars, answers,
                 pc, clock, history>>

Tick ==
  /\ clock < MaxClock
  /\ clock' = clock + 1
  /\ UNCHANGED <<envVars, gateVars, mediaVars, answers, pc, history>>

-----------------------------------------------------------------------------
Answered(a) ==
  \/ AnsweredReturn(a)
  \/ AnsweredDefer(a)
  \/ AnsweredGrant(a)
  \/ ChannelAnswer(a)

\* The handlers carry on until they return.
ServerHandler ==
  \/ JoinedNoPorts
  \/ \E r \in ConfigureReply : JoinedConfigure(r)
  \/ SelfParticipant
  \/ AcceptedNext
  \/ Answered("server")

MediaStep ==
  \/ ReadFrameExpired
  \/ ReadFrameRelease
  \/ Answered("media")

Event ==
  \/ Joined
  \/ \E id \in Remotes \cup {Self}, setup \in BOOLEAN : Participant(id, setup)
  \/ \E isTrickling \in BOOLEAN : Accepted(isTrickling)
  \/ TrickleComplete
  \/ Webrtcup
  \/ Hungup

GateNext ==
  \/ Event
  \/ ServerHandler
  \/ MediaStep
  \/ SessionLostOrClaimed
  \/ CallerHangup
  \/ LegRemoved
  \/ Tick

GateSpec == GateInit /\ [][GateNext]_vars

(***************************************************************************)
(* Both threads run, frames keep being read and time passes; Janus need not *)
(* send anything.                                                           *)
(***************************************************************************)
FairGateSpec ==
  /\ GateSpec
  /\ WF_vars(ServerHandler)
  /\ WF_vars(MediaStep)
  /\ WF_vars(Tick)

-----------------------------------------------------------------------------
(***************************************************************************)
(* Properties.                                                              *)
(***************************************************************************)

\* answered is "the single place that answers the channel", and it does so
\* once, although both threads may be in it: answerDone is tested and set in
\* one critical section.
AnsweredOnce == answers <= 1

\* A gated leg is answered only after a remote participant was seen to be set
\* up, or after Janus asked for the answer and the deadline that joined set has
\* passed.  Our own participant id does not count.
GateHolds ==
  Gated /\ answerDone =>
    remoteSeen \/ (answerRequested /\ clock >= answerDeadline)

\* README.md on janus-answer-participant-timeout-ms: a leg is answered without
\* a remote participant only if none "becomes ready within this window after
\* the leg is otherwise answerable", which is when answered was called and held
\* the answer back.  The deadline starts in joined, before the offer is sent.
WindowFromAnswerable ==
  Gated /\ answerDone => remoteSeen \/ clock >= requestedAt + Timeout

\* No answer gets lost between the threads: if the answer was requested and
\* the gate is open, then the leg is answered, or somebody is about to, or the
\* deadline has passed, so that the next frame tries again.
NoLostAnswer ==
  answerRequested /\ remoteReady /\ inTable /\ ~answerDone =>
    pc["server"] = "answered" \/ clock >= answerDeadline

\* channel_read_frame answers "once the deadline passes so a missing/failed
\* browser cannot wedge the call": a leg with media whose answer was requested
\* is answered or ends, if the session is not lost for ever.
NotWedged ==
  <>[]served => (answerRequested /\ voice ~> answers > 0 \/ hup)
===============================================================================
