------------------------------- MODULE CallLegs -------------------------------
(***************************************************************************)
(* The call legs of one server, composed with ServerThread.                 *)
(*                                                                         *)
(* A leg is dialled (channel_outgoing_channel), runs channel_on_init and    *)
(* channel_on_routing, is in its call, and ends in channel_on_hangup.  Each *)
(* of these runs in the leg's own thread and blocks in requests to Janus,   *)
(* while the server thread loses, claims, gives up and replaces the Janus   *)
(* session under it.  Legs and server thread meet in three places:          *)
(* globals.serverIdLookup, server_t, and server_t.senderIdLookup.  An       *)
(* action here is an action of ServerThread conjoined with what the same    *)
(* code does to the legs, or a step of a leg conjoined with what it does to *)
(* server_t, so every behaviour of this module is one of ServerThread.      *)
(***************************************************************************)
EXTENDS ServerThread

CONSTANT Legs

ASSUME LegsAssumption == IsFiniteSet(Legs) /\ Cardinality(Legs) <= MaxCalls

VARIABLES
  lpc,             \* where each leg is
  legServerId,     \* tech_pvt->serverId
  hup,             \* switch_channel_hangup was called on the leg's channel
  senderIdLookup,  \* the legs in server_t.senderIdLookup
  tableUp,         \* senderIdLookup is created and not destroyed
  todo,            \* what the iteration over senderIdLookup is sure to visit
  globalCalls,     \* globals.callsInProgress
  crashed          \* a destroyed table or a freed session was used

legVars == <<lpc, legServerId, hup, senderIdLookup, tableUp, todo,
             globalCalls, crashed>>
callVars == <<threadVars, legVars>>

LegPc == {"idle", "found", "barred", "init", "attach", "insert", "room",
          "count", "routing", "join", "up", "hangup", "leave", "detach",
          "cleanup", "dead"}

\* The leg's channel exists and its hangup handler has not run.
Active(l) == lpc[l] \in {"init", "attach", "insert", "room", "count",
                         "routing", "join", "up"}

\* One type for every variable of the legs.
CallTypeOK ==
  /\ TypeOK
  /\ lpc \in [Legs -> LegPc]
  /\ legServerId \in [Legs -> Sessions \cup {NoId}]
  /\ hup \in [Legs -> BOOLEAN]
  /\ senderIdLookup \in SUBSET Legs
  /\ tableUp \in BOOLEAN
  /\ todo \in SUBSET Legs
  /\ globalCalls \in 0 .. Cardinality(Legs)
  /\ crashed \in BOOLEAN

CallInit ==
  /\ ThreadInit
  /\ lpc = [l \in Legs |-> "idle"]
  /\ legServerId = [l \in Legs |-> NoId]
  /\ hup = [l \in Legs |-> FALSE]
  /\ senderIdLookup = {}
  /\ tableUp = FALSE
  /\ todo = {}
  /\ globalCalls = 0
  /\ crashed = FALSE

-----------------------------------------------------------------------------
(***************************************************************************)
(* The server thread's steps and their effect on the legs.                  *)
(***************************************************************************)

\* hashCreate: a new, empty table.
CreateTable(t) ==
  /\ ThreadStart(t)
  /\ tableUp' = TRUE
  /\ senderIdLookup' = {}
  /\ UNCHANGED <<lpc, legServerId, hup, todo, globalCalls, crashed>>

\* A refused claim starts the iteration over the table.  The iteration sees
\* every entry that stays in the table, and may see those added meanwhile.
BeginDrain(t) ==
  /\ \E r \in Reply : ClaimRefused(t, r)
  /\ todo' = senderIdLookup
  /\ UNCHANGED <<lpc, legServerId, hup, senderIdLookup, tableUp, globalCalls,
                 crashed>>

\* Mutant: the entry is deleted and the channel is not hung up.
DrainOne_NoHangup(t, l) ==
  /\ tpc[t] = "drain"
  /\ l \in senderIdLookup
  /\ senderIdLookup' = senderIdLookup \ {l}
  /\ todo' = todo \ {l}
  /\ UNCHANGED <<threadVars, lpc, legServerId, hup, tableUp, globalCalls, crashed>>

\* One round of the loop: hang up the channel and delete the entry.  A session
\* that was destroyed before is freed memory: it is used with luck or not.
DrainOne(t, l) ==
  /\ tpc[t] = "drain"
  /\ l \in senderIdLookup
  /\ senderIdLookup' = senderIdLookup \ {l}
  /\ todo' = todo \ {l}
  /\ IF lpc[l] = "dead"
       THEN crashed' \in BOOLEAN /\ UNCHANGED hup
       ELSE hup' = [hup EXCEPT ![l] = TRUE] /\ UNCHANGED crashed
  /\ UNCHANGED <<threadVars, lpc, legServerId, tableUp, globalCalls>>

EndDrain(t) ==
  /\ DrainDone(t)
  /\ todo \cap senderIdLookup = {}
  /\ todo' = {}
  /\ UNCHANGED <<lpc, legServerId, hup, senderIdLookup, tableUp, globalCalls,
                 crashed>>

\* hungup: Janus reports a hangup, a detach or an error for a handle of the
\* session being polled.
JanusHangup(t, l) ==
  /\ tpc[t] = "poll"
  /\ localId[t] \in serverIdLookup
  /\ legServerId[l] = localId[t]
  /\ l \in senderIdLookup
  /\ IF lpc[l] = "dead"
       THEN crashed' \in BOOLEAN /\ UNCHANGED hup
       ELSE hup' = [hup EXCEPT ![l] = TRUE] /\ UNCHANGED crashed
  /\ UNCHANGED <<threadVars, lpc, legServerId, senderIdLookup, tableUp, todo,
                 globalCalls>>

\* A session id that Janus creates is not one that a leg still remembers.
NewSession(t) ==
  /\ \E r \in Reply, s \in Sessions :
       /\ \A l \in Legs : Active(l) \/ lpc[l] \in {"hangup", "leave", "detach"}
                            => legServerId[l] # s
       /\ CreateSuccess(t, r, s)
  /\ UNCHANGED legVars

\* thread_done: hashDestroy of the table, while the session is still
\* registered.
DestroyTable(t) ==
  /\ ThreadDone(t)
  /\ tableUp' = FALSE
  /\ senderIdLookup' = {}
  /\ UNCHANGED <<lpc, legServerId, hup, todo, globalCalls, crashed>>

\* The steps that do not touch the legs.
OtherThreadStep(t) ==
  /\ \/ OuterLoop(t)
     \/ \E r \in Reply : ClaimSockErr(t, r)
     \/ \E r \in Reply : ClaimSuccess(t, r)
     \/ \E r \in Reply : CreateFailed(t, r)
     \/ InsertSuccess(t)
     \/ InsertFailed(t)
     \/ InnerLoop(t)
     \/ PollSuccess(t)
     \/ PollFailed(t)
     \/ ResetServerId(t)
     \/ Unregister(t)
     \/ ThreadExit(t)
  /\ UNCHANGED legVars

ServerStep(t) ==
  \/ CreateTable(t)
  \/ BeginDrain(t)
  \/ \E l \in Legs : DrainOne(t, l)
  \/ EndDrain(t)
  \/ NewSession(t)
  \/ DestroyTable(t)
  \/ OtherThreadStep(t)

ConsoleStep(c) ==
  /\ \/ CallerStep(c)
     \/ \E command \in {"enable", "disable"} : ConsoleFind(c, command)
  /\ UNCHANGED legVars

-----------------------------------------------------------------------------
(***************************************************************************)
(* The legs.                                                                *)
(***************************************************************************)
LGoto(l, pc) == lpc' = [lpc EXCEPT ![l] = pc]

\* switch_channel_hangup by the leg's own handler, which then returns.
HangupAndReturn(l) ==
  /\ LGoto(l, "hangup")
  /\ hup' = [hup EXCEPT ![l] = TRUE]

\* resolveServerForDial: waitServerActive finds a registered id.
DialFind(l) ==
  /\ lpc[l] = "idle"
  /\ Dialable
  /\ LGoto(l, "found")
  /\ UNCHANGED <<threadVars, legServerId, hup, senderIdLookup, tableUp, todo,
                 globalCalls, crashed>>

\* The server was disabled meanwhile: the call is barred and the session that
\* was requested for it is neither started nor destroyed.
DialBarred(l) ==
  /\ lpc[l] = "found"
  /\ "ENABLED" \notin flags
  /\ LGoto(l, "barred")
  /\ UNCHANGED <<threadVars, legServerId, hup, senderIdLookup, tableUp, todo,
                 globalCalls, crashed>>

\* tech_pvt->serverId = pServer->serverId (read without the mutex, and perhaps
\* no longer the id that was found), then CS_INIT.
Originate(l) ==
  /\ lpc[l] = "found"
  /\ "ENABLED" \in flags
  /\ legServerId' = [legServerId EXCEPT ![l] = serverId]
  /\ LGoto(l, "init")
  /\ UNCHANGED <<threadVars, hup, senderIdLookup, tableUp, todo, globalCalls,
                 crashed>>

\* Mutant: a leg with no server is not hung up.
OnInit_NoHangup(l) ==
  /\ lpc[l] = "init"
  /\ hup[l] \/ legServerId[l] \in serverIdLookup
  /\ LGoto(l, IF hup[l] THEN "hangup" ELSE "attach")
  /\ UNCHANGED <<threadVars, legServerId, hup, senderIdLookup, tableUp, todo,
                 globalCalls, crashed>>

\* channel_on_init: find the server.  (A channel that was hung up before goes
\* straight to its hangup handler.)
OnInit(l) ==
  /\ lpc[l] = "init"
  /\ IF hup[l] \/ legServerId[l] \notin serverIdLookup
       THEN HangupAndReturn(l)
       ELSE LGoto(l, "attach") /\ UNCHANGED hup
  /\ UNCHANGED <<threadVars, legServerId, senderIdLookup, tableUp, todo,
                 globalCalls, crashed>>

\* apiGetSenderId fails: hang up, and reset pServer->serverId, which may be
\* another session's id by now.
OnInitAttachFailed(l, r) ==
  /\ lpc[l] = "attach"
  /\ ~apiGetSenderId(r)
  /\ AttachFailed
  /\ HangupAndReturn(l)
  /\ UNCHANGED <<legServerId, senderIdLookup, tableUp, todo, globalCalls, crashed>>

OnInitAttached(l, r) ==
  /\ lpc[l] = "attach"
  /\ apiGetSenderId(r)
  /\ LGoto(l, "insert")
  /\ UNCHANGED <<threadVars, legServerId, hup, senderIdLookup, tableUp, todo,
                 globalCalls, crashed>>

\* hashInsert in pServer->senderIdLookup, whatever became of the server since
\* it was found.
OnInitInsert(l) ==
  /\ lpc[l] = "insert"
  /\ IF tableUp
       THEN /\ senderIdLookup' = senderIdLookup \cup {l}
            /\ LGoto(l, "room")
            /\ UNCHANGED crashed
       ELSE /\ crashed' = TRUE
            /\ UNCHANGED <<senderIdLookup, lpc>>
  /\ UNCHANGED <<threadVars, legServerId, hup, tableUp, todo, globalCalls>>

OnInitInsertFailed(l) ==
  /\ lpc[l] = "insert"
  /\ tableUp
  /\ HangupAndReturn(l)
  /\ UNCHANGED <<threadVars, legServerId, senderIdLookup, tableUp, todo,
                 globalCalls, crashed>>

\* apiCreateRoom, or janus-use-existing-room and no request at all.
OnInitRoomReady(l, r) ==
  /\ lpc[l] = "room"
  /\ apiCreateRoom(r)
  /\ LGoto(l, "count")
  /\ UNCHANGED <<threadVars, legServerId, hup, senderIdLookup, tableUp, todo,
                 globalCalls, crashed>>

OnInitRoomFailed(l, r) ==
  /\ lpc[l] = "room"
  /\ ~apiCreateRoom(r)
  /\ HangupAndReturn(l)
  /\ UNCHANGED <<threadVars, legServerId, senderIdLookup, tableUp, todo,
                 globalCalls, crashed>>

\* The end of channel_on_init: count the call, for the server and globally.
\* (Two critical sections; no code reads both counters.)
OnInitCount(l) ==
  /\ lpc[l] = "count"
  /\ CountCall
  /\ globalCalls' = globalCalls + 1
  /\ LGoto(l, "routing")
  /\ UNCHANGED <<legServerId, hup, senderIdLookup, tableUp, todo, crashed>>

\* Mutant: the leg joins without looking its server up again.
OnRouting_NoLookup(l) ==
  /\ lpc[l] = "routing"
  /\ IF hup[l]
       THEN HangupAndReturn(l)
       ELSE LGoto(l, "join") /\ UNCHANGED hup
  /\ UNCHANGED <<threadVars, legServerId, senderIdLookup, tableUp, todo,
                 globalCalls, crashed>>

\* channel_on_routing: find the server again ...
OnRouting(l) ==
  /\ lpc[l] = "routing"
  /\ IF hup[l] \/ legServerId[l] \notin serverIdLookup
       THEN HangupAndReturn(l)
       ELSE LGoto(l, "join") /\ UNCHANGED hup
  /\ UNCHANGED <<threadVars, legServerId, senderIdLookup, tableUp, todo,
                 globalCalls, crashed>>

\* ... and join the room, which blocks.
OnRoutingJoin(l, r) ==
  /\ lpc[l] = "join"
  /\ IF apiJoin(r)
       THEN LGoto(l, "up") /\ UNCHANGED hup
       ELSE HangupAndReturn(l)
  /\ UNCHANGED <<threadVars, legServerId, senderIdLookup, tableUp, todo,
                 globalCalls, crashed>>

\* The caller, or FreeSWITCH, hangs the channel up.
CallerHangup(l) ==
  /\ Active(l)
  /\ ~hup[l]
  /\ hup' = [hup EXCEPT ![l] = TRUE]
  /\ UNCHANGED <<threadVars, lpc, legServerId, senderIdLookup, tableUp, todo,
                 globalCalls, crashed>>

\* A dialplan transfer routes the channel again.  One in callstate CCS_EARLY
\* returns at once, still in its call; any other joins a second time.
Transfer(l) ==
  /\ lpc[l] = "up"
  /\ LGoto(l, "routing")
  /\ UNCHANGED <<threadVars, legServerId, hup, senderIdLookup, tableUp, todo,
                 globalCalls, crashed>>

\* FreeSWITCH moves a hung up channel to its hangup handler.
EnterHangup(l) ==
  /\ lpc[l] = "up"
  /\ hup[l]
  /\ LGoto(l, "hangup")
  /\ UNCHANGED <<threadVars, legServerId, hup, senderIdLookup, tableUp, todo,
                 globalCalls, crashed>>

\* channel_on_hangup: find the server.  If it is not found the handler returns
\* here, and the session is destroyed.
OnHangup(l) ==
  /\ lpc[l] = "hangup"
  /\ LGoto(l, IF legServerId[l] \in serverIdLookup THEN "leave" ELSE "dead")
  /\ UNCHANGED <<threadVars, legServerId, hup, senderIdLookup, tableUp, todo,
                 globalCalls, crashed>>

\* apiLeave and apiDetach block; the handler carries on whatever they return.
OnHangupLeave(l) ==
  /\ lpc[l] = "leave"
  /\ LGoto(l, "detach")
  /\ UNCHANGED <<threadVars, legServerId, hup, senderIdLookup, tableUp, todo,
                 globalCalls, crashed>>

OnHangupDetach(l) ==
  /\ lpc[l] = "detach"
  /\ LGoto(l, "cleanup")
  /\ UNCHANGED <<threadVars, legServerId, hup, senderIdLookup, tableUp, todo,
                 globalCalls, crashed>>

\* Mutant: the global counter is decremented without the test for 0.
OnHangupCleanup_Unguarded(l) ==
  /\ lpc[l] = "cleanup"
  /\ UncountCall
  /\ senderIdLookup' = senderIdLookup \ {l}
  /\ globalCalls' = globalCalls - 1
  /\ LGoto(l, "dead")
  /\ UNCHANGED <<legServerId, hup, tableUp, todo, crashed>>

\* Mutant: the entry is deleted from the wrong table.
OnHangupCleanup_WrongTable(l) ==
  /\ lpc[l] = "cleanup"
  /\ tableUp
  /\ serverIdLookup' = serverIdLookup \ {legServerId[l]}
  /\ callsInProgress' = IF callsInProgress > 0 THEN callsInProgress - 1 ELSE 0
  /\ globalCalls' = IF globalCalls > 0 THEN globalCalls - 1 ELSE 0
  /\ LGoto(l, "dead")
  /\ UNCHANGED <<flags, pThread, serverId, connect_failures, listed, tpc,
                 localId, cpc, joining, legServerId, hup, senderIdLookup,
                 tableUp, todo, crashed>>

\* hashDelete from senderIdLookup, then both counters, counted or not.
OnHangupCleanup(l) ==
  /\ lpc[l] = "cleanup"
  /\ IF tableUp
       THEN /\ UncountCall
            /\ senderIdLookup' = senderIdLookup \ {l}
            /\ globalCalls' = IF globalCalls > 0 THEN globalCalls - 1 ELSE 0
            /\ LGoto(l, "dead")
            /\ UNCHANGED crashed
       ELSE /\ crashed' = TRUE
            /\ UNCHANGED <<threadVars, senderIdLookup, globalCalls, lpc>>
  /\ UNCHANGED <<legServerId, hup, tableUp, todo>>

LegStep(l) ==
  \/ DialBarred(l)
  \/ Originate(l)
  \/ OnInit(l)
  \/ \E r \in Reply : OnInitAttachFailed(l, r)
  \/ \E r \in Reply : OnInitAttached(l, r)
  \/ OnInitInsert(l)
  \/ OnInitInsertFailed(l)
  \/ \E r \in Reply : OnInitRoomReady(l, r)
  \/ \E r \in Reply : OnInitRoomFailed(l, r)
  \/ OnInitCount(l)
  \/ OnRouting(l)
  \/ \E r \in Reply : OnRoutingJoin(l, r)
  \/ EnterHangup(l)
  \/ OnHangup(l)
  \/ OnHangupLeave(l)
  \/ OnHangupDetach(l)
  \/ OnHangupCleanup(l)

CallNext ==
  /\ ~crashed
  /\ \/ \E t \in Threads : ServerStep(t)
     \/ \E t \in Threads, l \in Legs : JanusHangup(t, l)
     \/ \E c \in Callers : ConsoleStep(c)
     \/ \E l \in Legs : LegStep(l)
     \/ \E l \in Legs : DialFind(l)
     \/ \E l \in Legs : CallerHangup(l)
     \/ \E l \in Legs : Transfer(l)

CallSpec == CallInit /\ [][CallNext]_callVars

(***************************************************************************)
(* As in ServerThread; and the thread of a leg runs, since each request it  *)
(* blocks in has a timeout.  Nobody has to dial or to hang up.              *)
(***************************************************************************)
FairCallSpec ==
  /\ CallSpec
  /\ \A t \in Threads :
       /\ WF_callVars(~crashed /\ ServerStep(t))
       /\ SF_callVars(~crashed /\ (BeginDrain(t) \/ \E r \in Reply :
                                     ClaimSuccess(t, r) /\ UNCHANGED legVars))
       /\ SF_callVars(~crashed /\ NewSession(t))
       /\ SF_callVars(~crashed /\ InsertSuccess(t) /\ UNCHANGED legVars)
  /\ \A l \in Legs : WF_callVars(~crashed /\ LegStep(l))

-----------------------------------------------------------------------------
(***************************************************************************)
(* Properties.                                                              *)
(***************************************************************************)

\* As long as nobody disables the server: a leg that is in its call, and has
\* not been told to hang up, belongs to the session that the server thread
\* keeps, and the thread can find it to deliver events to it.  A refused claim
\* hangs up the legs in senderIdLookup, and a leg that was still in
\* channel_on_init at that time is refused by channel_on_routing.
LegOfServedSession ==
  \A l \in Legs : lpc[l] = "up" /\ ~hup[l] =>
    /\ l \in senderIdLookup
    /\ \E t \in LiveThreads : localId[t] = legServerId[l]

\* A leg whose session the server thread has given up is taken down.
LostLegsEnd ==
  \A l \in Legs :
    lpc[l] = "up" /\ (\A t \in Threads : localId[t] # legServerId[l])
      ~> lpc[l] = "dead" \/ crashed

\* A dialled leg gets into its call or is destroyed: no path through
\* channel_on_init and channel_on_routing leaves it in between.
DialResolves ==
  \A l \in Legs : lpc[l] = "init" ~> lpc[l] \in {"up", "dead"} \/ crashed

\* The legs do nothing to server_t but what ServerThread lets them do (count
\* and uncount a call, reset the id after a failed attach): with legs at any
\* point of their handlers, the server thread behaves as ServerThread says.
ImplementsServerThread == ThreadSpec

\* The comment in channel_on_hangup says it returns early "if the calls are
\* being terminated because the server has failed": the loop over
\* senderIdLookup has then removed the entry, so none outlives its session.
NoDanglingSession == \A l \in senderIdLookup : lpc[l] # "dead"
===============================================================================
