----------------------------- MODULE ServerThread -----------------------------
(***************************************************************************)
(* One server_t of mod_janus: the thread that keeps its Janus session       *)
(* (server_thread_run), the console commands that start and stop it         *)
(* (startServerThread, stopServerThread), and what the threads of the call  *)
(* legs do to the server's fields.                                          *)
(*                                                                         *)
(* Threads are incarnations of the server thread; Callers are console       *)
(* sessions, several of which may act at the same time.  An action is one   *)
(* stretch of code between two points where another thread can see or       *)
(* change the shared fields: a critical section, a hash table operation, or *)
(* the return of a blocking request.                                        *)
(***************************************************************************)
EXTENDS Naturals, FiniteSets, JanusApi

CONSTANTS
  Threads,      \* incarnations of the server thread
  Callers,      \* console sessions that enable and disable the server
  Sessions,     \* Janus session ids
  NoId,         \* a serverId of 0
  NoThread,     \* pThread == NULL
  Dynamic,      \* SFLAG_DYNAMIC: the server was registered by the registry
  FailMax,      \* pod-server-fail-max (0: never evict)
  MaxCalls,     \* bound: calls counted at one time
  InsertFaults  \* may an insertion in globals.serverIdLookup fail?

ASSUME ConstantsAssumption ==
  /\ NoId \notin Sessions
  /\ NoThread \notin Threads
  /\ Dynamic \in BOOLEAN
  /\ FailMax \in Nat
  /\ MaxCalls \in Nat
  /\ InsertFaults \in BOOLEAN

VARIABLES
  flags,            \* server_t.flags: those of Flags that are set
  pThread,          \* server_t.pThread
  serverId,         \* server_t.serverId, the id that dial threads read
  callsInProgress,  \* server_t.callsInProgress
  connect_failures, \* server_t.connect_failures (saturates at FailMax)
  listed,           \* is the server in globals.pServerNameLookup?
  serverIdLookup,   \* globals.serverIdLookup: the ids that map to this server
  tpc,              \* where each incarnation of the thread is
  localId,          \* the local variable serverId of each incarnation
  cpc,              \* where each console session is
  joining           \* the thread that a console session waits for

serverVars == <<flags, pThread, serverId, callsInProgress, connect_failures,
                listed, serverIdLookup>>
threadVars == <<serverVars, tpc, localId, cpc, joining>>

Flags == {"ENABLED", "TERMINATING", "EVICTED"}

ThreadPc == {"none", "start", "loop", "claim", "drain", "create", "insert",
             "inner", "poll", "reset", "done", "unregister", "evict", "exit"}

CallerPc == {"idle", "enable", "disable", "creating", "joining", "clearing",
             "already"}

\* One type for every field; a counter never leaves its range.
TypeOK ==
  /\ flags \in SUBSET Flags
  /\ pThread \in Threads \cup {NoThread}
  /\ serverId \in Sessions \cup {NoId}
  /\ callsInProgress \in 0 .. MaxCalls
  /\ connect_failures \in 0 .. FailMax
  /\ listed \in BOOLEAN
  /\ serverIdLookup \in SUBSET Sessions
  /\ tpc \in [Threads -> ThreadPc]
  /\ localId \in [Threads -> Sessions \cup {NoId}]
  /\ cpc \in [Callers -> CallerPc]
  /\ joining \in [Callers -> Threads \cup {NoThread}]

(***************************************************************************)
(* mod_janus_load and serversCreateRegistryServer: an enabled server has    *)
(* its thread created with force; a server of the registry always is.       *)
(***************************************************************************)
ThreadInit ==
  /\ serverId = NoId
  /\ callsInProgress = 0
  /\ connect_failures = 0
  /\ listed = TRUE
  /\ serverIdLookup = {}
  /\ localId = [t \in Threads |-> NoId]
  /\ cpc = [c \in Callers |-> "idle"]
  /\ joining = [c \in Callers |-> NoThread]
  /\ \/ \E t \in Threads :
          /\ flags = {"ENABLED"}
          /\ pThread = t
          /\ tpc = [u \in Threads |-> IF u = t THEN "start" ELSE "none"]
     \/ /\ ~Dynamic
        /\ flags = {}
        /\ pThread = NoThread
        /\ tpc = [u \in Threads |-> "none"]

-----------------------------------------------------------------------------
(***************************************************************************)
(* serversDynamicRemoveFromLookup, which runs under globals.mutex.          *)
(***************************************************************************)
RemoveFromLookup(f) ==
  IF Dynamic /\ listed
    THEN /\ serverIdLookup' = serverIdLookup \ {serverId}
         /\ serverId' = NoId
         /\ listed' = FALSE
         /\ flags' = f \ {"ENABLED"}
    ELSE /\ flags' = f
         /\ UNCHANGED <<serverIdLookup, serverId, listed>>

(***************************************************************************)
(* The server thread.                                                       *)
(***************************************************************************)
Goto(t, pc) == tpc' = [tpc EXCEPT ![t] = pc]

\* hashCreate of senderIdLookup.
ThreadStart(t) ==
  /\ tpc[t] = "start"
  /\ Goto(t, "loop")
  /\ UNCHANGED <<serverVars, localId, cpc, joining>>

\* The outer loop's test, and the choice between claiming the session the
\* thread remembers and creating one.  (A WebSocket that does not open only
\* makes the loop come back here.)
OuterLoop(t) ==
  /\ tpc[t] = "loop"
  /\ Goto(t, IF "TERMINATING" \in flags THEN "done"
             ELSE IF localId[t] # NoId THEN "claim" ELSE "create")
  /\ UNCHANGED <<serverVars, localId, cpc, joining>>

\* apiClaimServerId returns SOCKERR: the local id is kept for another claim.
ClaimSockErr(t, r) ==
  /\ tpc[t] = "claim"
  /\ apiClaimServerId(r) = "SOCKERR"
  /\ Goto(t, "inner")
  /\ UNCHANGED <<serverVars, localId, cpc, joining>>

ClaimSuccess(t, r) ==
  /\ tpc[t] = "claim"
  /\ apiClaimServerId(r) = "SUCCESS"
  /\ serverId' = localId[t]
  /\ Goto(t, "insert")
  /\ UNCHANGED <<flags, pThread, callsInProgress, connect_failures, listed,
                 serverIdLookup, localId, cpc, joining>>

\* Any other status: the thread goes on to hang up the calls of the session.
ClaimRefused(t, r) ==
  /\ tpc[t] = "claim"
  /\ apiClaimServerId(r) \notin {"SOCKERR", "SUCCESS"}
  /\ Goto(t, "drain")
  /\ UNCHANGED <<serverVars, localId, cpc, joining>>

\* Mutant: the refused session id is kept.
DrainDone_KeepsId(t) ==
  /\ tpc[t] = "drain"
  /\ Goto(t, "inner")
  /\ UNCHANGED <<serverVars, localId, cpc, joining>>

\* The calls have been hung up: forget the session.
DrainDone(t) ==
  /\ tpc[t] = "drain"
  /\ localId' = [localId EXCEPT ![t] = NoId]
  /\ Goto(t, "inner")
  /\ UNCHANGED <<serverVars, cpc, joining>>

\* serversDynamicEvictable, evaluated right after a failure was recorded.
serversDynamicEvictable(failures) ==
  /\ Dynamic
  /\ callsInProgress = 0
  /\ FailMax > 0 /\ failures >= FailMax
  /\ serverId = NoId

\* Mutant: the failure is not recorded before the test.
CreateFailed_NotCounted(t, r) ==
  /\ tpc[t] = "create"
  /\ ~apiGetServerId(r)
  /\ IF serversDynamicEvictable(connect_failures)
       THEN /\ flags' = flags \cup {"EVICTED"}
            /\ Goto(t, "done")
       ELSE /\ Goto(t, "inner")
            /\ UNCHANGED flags
  /\ UNCHANGED <<pThread, serverId, callsInProgress, connect_failures, listed,
                 serverIdLookup, localId, cpc, joining>>

\* apiGetServerId fails.  A dynamic server counts the failure and gives up
\* after FailMax of them in a row, unless it has calls in progress.
CreateFailed(t, r) ==
  LET failures == IF Dynamic /\ connect_failures < FailMax
                    THEN connect_failures + 1 ELSE connect_failures
  IN  /\ tpc[t] = "create"
      /\ ~apiGetServerId(r)
      /\ connect_failures' = failures
      /\ IF serversDynamicEvictable(failures)
           THEN /\ flags' = flags \cup {"EVICTED"}
                /\ Goto(t, "done")
           ELSE /\ Goto(t, "inner")
                /\ UNCHANGED flags
      /\ UNCHANGED <<pThread, serverId, callsInProgress, listed,
                     serverIdLookup, localId, cpc, joining>>

\* apiGetServerId returns a session that Janus has just created.
CreateSuccess(t, r, s) ==
  /\ tpc[t] = "create"
  /\ apiGetServerId(r)
  /\ s \notin serverIdLookup \cup {localId[u] : u \in Threads} \cup {serverId}
  /\ localId' = [localId EXCEPT ![t] = s]
  /\ serverId' = s
  /\ callsInProgress' = 0
  /\ connect_failures' = IF Dynamic THEN 0 ELSE connect_failures
  /\ Goto(t, "insert")
  /\ UNCHANGED <<flags, pThread, listed, serverIdLookup, cpc, joining>>

\* hashInsert in globals.serverIdLookup, after a claim or a create.
InsertSuccess(t) ==
  /\ tpc[t] = "insert"
  /\ serverIdLookup' = serverIdLookup \cup {localId[t]}
  /\ Goto(t, "inner")
  /\ UNCHANGED <<flags, pThread, serverId, callsInProgress, connect_failures,
                 listed, localId, cpc, joining>>

\* hashInsert fails: the session is forgotten, also one that was claimed.
InsertFailed(t) ==
  /\ InsertFaults
  /\ tpc[t] = "insert"
  /\ serverId' = NoId
  /\ localId' = [localId EXCEPT ![t] = NoId]
  /\ Goto(t, "inner")
  /\ UNCHANGED <<flags, pThread, callsInProgress, connect_failures, listed,
                 serverIdLookup, cpc, joining>>

\* Mutant: the inner loop does not look at SFLAG_TERMINATING.
InnerLoop_IgnoresTerminating(t) ==
  /\ tpc[t] = "inner"
  /\ Goto(t, IF localId[t] \notin serverIdLookup THEN "loop" ELSE "poll")
  /\ UNCHANGED <<serverVars, localId, cpc, joining>>

\* The inner loop's test.
InnerLoop(t) ==
  /\ tpc[t] = "inner"
  /\ Goto(t, IF "TERMINATING" \in flags \/ localId[t] \notin serverIdLookup
               THEN "loop" ELSE "poll")
  /\ UNCHANGED <<serverVars, localId, cpc, joining>>

\* apiPoll succeeds (what the events do to the legs is the legs' business).
PollSuccess(t) ==
  /\ tpc[t] = "poll"
  /\ Goto(t, "inner")
  /\ UNCHANGED <<serverVars, localId, cpc, joining>>

\* apiPoll fails: the session leaves globals.serverIdLookup ...
PollFailed(t) ==
  /\ tpc[t] = "poll"
  /\ serverIdLookup' = serverIdLookup \ {localId[t]}
  /\ Goto(t, "reset")
  /\ UNCHANGED <<flags, pThread, serverId, callsInProgress, connect_failures,
                 listed, localId, cpc, joining>>

\* ... and then server_t.serverId is reset.
ResetServerId(t) ==
  /\ tpc[t] = "reset"
  /\ serverId' = NoId
  /\ Goto(t, "inner")
  /\ UNCHANGED <<flags, pThread, callsInProgress, connect_failures, listed,
                 serverIdLookup, localId, cpc, joining>>

\* thread_done: hashDestroy of senderIdLookup ...
ThreadDone(t) ==
  /\ tpc[t] = "done"
  /\ Goto(t, "unregister")
  /\ UNCHANGED <<serverVars, localId, cpc, joining>>

\* Mutant: thread_done leaves the session registered.
Unregister_Forgotten(t) ==
  /\ tpc[t] = "unregister"
  /\ Goto(t, "evict")
  /\ UNCHANGED <<serverVars, localId, cpc, joining>>

\* ... then hashDelete from globals.serverIdLookup ...
Unregister(t) ==
  /\ tpc[t] = "unregister"
  /\ serverIdLookup' = serverIdLookup \ {localId[t]}
  /\ Goto(t, "evict")
  /\ UNCHANGED <<flags, pThread, serverId, callsInProgress, connect_failures,
                 listed, localId, cpc, joining>>

\* ... and last an evicted server removes itself.  A local variable is gone
\* with its thread.
ThreadExit(t) ==
  /\ tpc[t] = "evict"
  /\ IF "EVICTED" \in flags
       THEN RemoveFromLookup(flags)
       ELSE UNCHANGED <<flags, serverIdLookup, serverId, listed>>
  /\ localId' = [localId EXCEPT ![t] = NoId]
  /\ Goto(t, "exit")
  /\ UNCHANGED <<pThread, callsInProgress, connect_failures, cpc, joining>>

-----------------------------------------------------------------------------
(***************************************************************************)
(* The console: serversFind, then startServerThread or stopServerThread     *)
(* with the pointer found, with nothing held in between.                    *)
(***************************************************************************)
CGoto(c, pc) == cpc' = [cpc EXCEPT ![c] = pc]

ConsoleFind(c, command) ==
  /\ cpc[c] = "idle"
  /\ listed
  /\ CGoto(c, command)
  /\ UNCHANGED <<serverVars, tpc, localId, joining>>

\* Mutant: the console forces the start, as mod_janus_load does.
StartServerThread_Forced(c) ==
  /\ cpc[c] = "enable"
  /\ flags' = flags \cup {"ENABLED"}
  /\ CGoto(c, "creating")
  /\ UNCHANGED <<pThread, serverId, callsInProgress, connect_failures, listed,
                 serverIdLookup, tpc, localId, joining>>

\* startServerThread(pServer, FALSE), up to the release of flag_mutex.
StartServerThread(c) ==
  /\ cpc[c] = "enable"
  /\ IF "ENABLED" \notin flags
       THEN /\ flags' = flags \cup {"ENABLED"}
            /\ CGoto(c, "creating")
       ELSE /\ CGoto(c, "idle")
            /\ UNCHANGED flags
  /\ UNCHANGED <<pThread, serverId, callsInProgress, connect_failures, listed,
                 serverIdLookup, tpc, localId, joining>>

\* switch_thread_create.
CreateThread(c, t) ==
  /\ cpc[c] = "creating"
  /\ tpc[t] = "none"
  /\ pThread' = t
  /\ Goto(t, "start")
  /\ CGoto(c, "idle")
  /\ UNCHANGED <<flags, serverId, callsInProgress, connect_failures, listed,
                 serverIdLookup, localId, joining>>

\* Mutant: SFLAG_ENABLED is cleared before the thread has ended.
StopServerThread_ClearsEarly(c) ==
  /\ cpc[c] = "disable"
  /\ IF "ENABLED" \in flags /\ "TERMINATING" \notin flags /\ pThread # NoThread
       THEN /\ flags' = (flags \cup {"TERMINATING"}) \ {"ENABLED"}
            /\ joining' = [joining EXCEPT ![c] = pThread]
            /\ CGoto(c, "joining")
       ELSE /\ CGoto(c, "idle")
            /\ UNCHANGED <<flags, joining>>
  /\ UNCHANGED <<pThread, serverId, callsInProgress, connect_failures, listed,
                 serverIdLookup, tpc, localId>>

\* stopServerThread, up to the release of flag_mutex.
StopServerThread(c) ==
  /\ cpc[c] = "disable"
  /\ IF "ENABLED" \in flags /\ "TERMINATING" \notin flags /\ pThread # NoThread
       THEN /\ flags' = flags \cup {"TERMINATING"}
            /\ joining' = [joining EXCEPT ![c] = pThread]
            /\ CGoto(c, "joining")
       ELSE /\ CGoto(c, "already")
            /\ UNCHANGED <<flags, joining>>
  /\ UNCHANGED <<pThread, serverId, callsInProgress, connect_failures, listed,
                 serverIdLookup, tpc, localId>>

\* There was nothing to stop: a server that is being evicted is removed.
AlreadyStopped(c) ==
  /\ cpc[c] = "already"
  /\ IF "EVICTED" \in flags
       THEN RemoveFromLookup(flags)
       ELSE UNCHANGED <<flags, serverIdLookup, serverId, listed>>
  /\ CGoto(c, "idle")
  /\ UNCHANGED <<pThread, callsInProgress, connect_failures, tpc, localId,
                 joining>>

\* switch_thread_join returns; pThread = NULL.
ThreadJoined(c) ==
  /\ cpc[c] = "joining"
  /\ tpc[joining[c]] = "exit"
  /\ pThread' = NoThread
  /\ Goto(joining[c], "none")
  /\ joining' = [joining EXCEPT ![c] = NoThread]
  /\ CGoto(c, "clearing")
  /\ UNCHANGED <<flags, serverId, callsInProgress, connect_failures, listed,
                 serverIdLookup, localId>>

\* switch_clear_flag_locked(TERMINATING | ENABLED).
ClearFlags(c) ==
  /\ cpc[c] = "clearing"
  /\ flags' = flags \ {"TERMINATING", "ENABLED"}
  /\ CGoto(c, "idle")
  /\ UNCHANGED <<pThread, serverId, callsInProgress, connect_failures, listed,
                 serverIdLookup, tpc, localId, joining>>

-----------------------------------------------------------------------------
(***************************************************************************)
(* What the threads of the call legs do to server_t.                        *)
(***************************************************************************)

\* channel_on_init: pServer->callsInProgress ++.
CountCall ==
  /\ callsInProgress < MaxCalls
  /\ callsInProgress' = callsInProgress + 1
  /\ UNCHANGED <<flags, pThread, serverId, connect_failures, listed,
                 serverIdLookup, tpc, localId, cpc, joining>>

\* Mutant: no test for 0 before the decrement.
UncountCall_Unguarded ==
  /\ callsInProgress' = callsInProgress - 1
  /\ UNCHANGED <<flags, pThread, serverId, connect_failures, listed,
                 serverIdLookup, tpc, localId, cpc, joining>>

\* channel_on_hangup: pServer->callsInProgress --, if it is not 0.
UncountCall ==
  /\ callsInProgress' = IF callsInProgress > 0
                          THEN callsInProgress - 1 ELSE callsInProgress
  /\ UNCHANGED <<flags, pThread, serverId, connect_failures, listed,
                 serverIdLookup, tpc, localId, cpc, joining>>

\* channel_on_init: the attach request failed, so pServer->serverId = 0.
AttachFailed ==
  /\ serverId' = NoId
  /\ UNCHANGED <<flags, pThread, callsInProgress, connect_failures, listed,
                 serverIdLookup, tpc, localId, cpc, joining>>

-----------------------------------------------------------------------------
ThreadStep(t) ==
  \/ ThreadStart(t)
  \/ OuterLoop(t)
  \/ \E r \in Reply : ClaimSockErr(t, r)
  \/ \E r \in Reply : ClaimSuccess(t, r)
  \/ \E r \in Reply : ClaimRefused(t, r)
  \/ DrainDone(t)
  \/ \E r \in Reply : CreateFailed(t, r)
  \/ \E r \in Reply, s \in Sessions : CreateSuccess(t, r, s)
  \/ InsertSuccess(t)
  \/ InsertFailed(t)
  \/ InnerLoop(t)
  \/ PollSuccess(t)
  \/ PollFailed(t)
  \/ ResetServerId(t)
  \/ ThreadDone(t)
  \/ Unregister(t)
  \/ ThreadExit(t)

\* What a console session does once its command has been accepted.
CallerStep(c) ==
  \/ StartServerThread(c)
  \/ \E t \in Threads : CreateThread(c, t)
  \/ StopServerThread(c)
  \/ AlreadyStopped(c)
  \/ ThreadJoined(c)
  \/ ClearFlags(c)

ThreadNext ==
  \/ \E t \in Threads : ThreadStep(t)
  \/ \E c \in Callers : CallerStep(c)
  \/ \E c \in Callers, command \in {"enable", "disable"} : ConsoleFind(c, command)
  \/ CountCall
  \/ UncountCall
  \/ AttachFailed

ThreadSpec == ThreadInit /\ [][ThreadNext]_threadVars

(***************************************************************************)
(* Fairness.  A thread that can run does run: every blocking request has a  *)
(* timeout (HTTP_GET_TIMEOUT, HTTP_POST_TIMEOUT).  A console session        *)
(* completes its command.  A Janus that is asked again and again eventually *)
(* answers, and an insertion in a hash table eventually succeeds.           *)
(***************************************************************************)
Fairness ==
  /\ \A t \in Threads :
       /\ WF_threadVars(ThreadStep(t))
       /\ SF_threadVars(\E r \in Reply : ClaimSuccess(t, r) \/ ClaimRefused(t, r))
       /\ SF_threadVars(\E r \in Reply, s \in Sessions : CreateSuccess(t, r, s))
       /\ SF_threadVars(InsertSuccess(t))
  /\ \A c \in Callers : WF_threadVars(CallerStep(c))

FairThreadSpec == ThreadSpec /\ Fairness

\* The same, with a Janus that may never answer again.
UnreachableSpec ==
  /\ ThreadSpec
  /\ \A t \in Threads : WF_threadVars(ThreadStep(t))
  /\ \A c \in Callers : WF_threadVars(CallerStep(c))

-----------------------------------------------------------------------------
(***************************************************************************)
(* Properties.                                                              *)
(***************************************************************************)
LiveThreads == {t \in Threads : tpc[t] \notin {"none", "exit"}}

\* The server has at most one thread at a time, whatever several console
\* sessions do at the same time: startServerThread and stopServerThread
\* release flag_mutex before they create or join the thread, so only the flags
\* keep two threads from sharing one senderIdLookup and one session field.
OneThread == \A t, u \in LiveThreads : t = u

\* globals.serverIdLookup holds only the session that a running thread polls:
\* the thread removes its entry on every path on which it forgets the session
\* or ends, so a leg that finds a server by session id finds a served session.
LookupOwned == \A s \in serverIdLookup : \E t \in LiveThreads : localId[t] = s

\* A server that is disabled cannot be found by session id: by the time
\* stopServerThread clears SFLAG_ENABLED, the thread has removed its session.
DisabledUnregistered == "ENABLED" \notin flags => serverIdLookup = {}

\* `janus server <name> disable' returns: the thread looks at
\* SFLAG_TERMINATING in both of its loops, so the join ends.
StopCompletes == \A c \in Callers : cpc[c] = "joining" ~> cpc[c] = "idle"

\* waitServerActive succeeds: the id a dial thread reads is registered.
Dialable == serverId \in serverIdLookup

\* An enabled server is registered again and again: after a failed poll, a
\* refused claim or a failed insertion the thread registers a session, unless
\* the server is stopped or evicted.
KeepsReconnecting ==
  []<>(\/ serverIdLookup # {}
       \/ "ENABLED" \notin flags
       \/ "TERMINATING" \in flags)

\* A pod of the registry that cannot be registered with any more, and has no
\* calls, is evicted after FailMax failures unless a console stops it:
\* serversDynamicRecordConnectFailure and serversDynamicEvictable end the thread.
\* (pServer->serverId is part of the premise: a stopped thread leaves its id
\* there, and a pod that is enabled again is not evictable because of it.)
UnregisteredEvicted ==
  <>[](/\ callsInProgress = 0
       /\ "ENABLED" \in flags
       /\ serverId = NoId
       /\ \A t \in Threads : localId[t] = NoId)
    => <>(~listed)
===============================================================================
