-------------------------- MODULE ServerThreadProofs --------------------------
(***************************************************************************)
(* Theorems about ServerThread, for any numbers of threads, consoles and    *)
(* sessions.  Type correctness holds for every server; the exclusion and    *)
(* ownership results for the configured ones (~Dynamic), and for those of   *)
(* the registry too if there is one console.                                *)
(***************************************************************************)
EXTENDS ServerThread, TLAPS

\* A console session that is between taking and giving back the thread.
Busy(c) == cpc[c] \in {"creating", "joining", "clearing"}

\* Where the thread may be while its session is registered.
Registered(t) ==
  \/ tpc[t] \in {"inner", "poll", "done", "unregister"}
  \/ tpc[t] = "loop" /\ "TERMINATING" \in flags

\* The thread that exists is the one pThread names.
ThreadNamed ==
  /\ \A t \in Threads : tpc[t] # "none" => t = pThread
  /\ pThread # NoThread => tpc[pThread] # "none" /\ "ENABLED" \in flags

\* One console at a time is busy, and the flags say so to the others.
ConsoleExclusion ==
  /\ \A c, d \in Callers : Busy(c) /\ Busy(d) => c = d
  /\ \A c \in Callers : Busy(c) => "ENABLED" \in flags
  /\ \A c \in Callers : cpc[c] = "creating" => pThread = NoThread
  /\ \A c \in Callers : cpc[c] = "joining" =>
       pThread # NoThread /\ joining[c] = pThread /\ "TERMINATING" \in flags
  /\ \A c \in Callers : cpc[c] = "clearing" =>
       pThread = NoThread /\ "TERMINATING" \in flags

\* A registered session is the one its thread remembers, and the thread is at
\* a point from which it still removes it before it forgets it.
LookupHeld ==
  \A s \in serverIdLookup :
    /\ pThread # NoThread
    /\ localId[pThread] = s
    /\ Registered(pThread)

\* A thread that claims or registers a session has one.  Needed for the type of
\* serverIdLookup.
SessionHeld ==
  \A t \in Threads : tpc[t] \in {"claim", "insert"} => localId[t] # NoId

\* The inductive invariant.
StaticInv ==
  /\ TypeOK
  /\ "EVICTED" \notin flags
  /\ ThreadNamed
  /\ ConsoleExclusion
  /\ LookupHeld

-----------------------------------------------------------------------------
\* Every field keeps its type: in particular callsInProgress never goes below
\* zero and connect_failures stays within the limit it is compared with.
THEOREM ThreadTypeCorrect == ThreadSpec => []TypeOK
<1> DEFINE TInv == TypeOK /\ SessionHeld
<1>1. ThreadInit => TInv
  BY ConstantsAssumption DEF ThreadInit, TypeOK, SessionHeld, Flags, ThreadPc, CallerPc
<1>2. TInv /\ [ThreadNext]_threadVars => TInv'
  <2> SUFFICES ASSUME TInv, [ThreadNext]_threadVars PROVE TInv'
    OBVIOUS
  <2> USE ConstantsAssumption DEF TypeOK, SessionHeld, Flags, ThreadPc,
                                  CallerPc, serverVars, Goto, CGoto
  <2>1. ASSUME NEW t \in Threads, ThreadStep(t) PROVE TInv'
    <3>1. CASE ThreadStart(t) BY <3>1 DEF ThreadStart
    <3>2. CASE OuterLoop(t) BY <3>2 DEF OuterLoop
    <3>3. CASE \E r \in Reply : ClaimSockErr(t, r) BY <3>3 DEF ClaimSockErr
    <3>4. CASE \E r \in Reply : ClaimSuccess(t, r) BY <3>4 DEF ClaimSuccess
    <3>5. CASE \E r \in Reply : ClaimRefused(t, r) BY <3>5 DEF ClaimRefused
    <3>6. CASE DrainDone(t) BY <3>6 DEF DrainDone
    <3>7. CASE \E r \in Reply : CreateFailed(t, r)
      <4> PICK r \in Reply : CreateFailed(t, r) BY <3>7
      <4>1. connect_failures' \in 0 .. FailMax
        BY DEF CreateFailed
      <4>2. \/ flags' = flags \cup {"EVICTED"} /\ tpc' = [tpc EXCEPT ![t] = "done"]
            \/ flags' = flags /\ tpc' = [tpc EXCEPT ![t] = "inner"]
        BY Zenon DEF CreateFailed
      <4>3. UNCHANGED <<pThread, serverId, callsInProgress, listed,
                        serverIdLookup, localId, cpc, joining>>
        BY DEF CreateFailed
      <4> QED BY <4>1, <4>2, <4>3
    <3>8. CASE \E r \in Reply, s \in Sessions : CreateSuccess(t, r, s)
      BY <3>8 DEF CreateSuccess
    <3>9. CASE InsertSuccess(t)
      BY <3>9 DEF InsertSuccess
    <3>10. CASE InsertFailed(t) BY <3>10 DEF InsertFailed
    <3>11. CASE InnerLoop(t) BY <3>11 DEF InnerLoop
    <3>12. CASE PollSuccess(t) BY <3>12 DEF PollSuccess
    <3>13. CASE PollFailed(t) BY <3>13 DEF PollFailed
    <3>14. CASE ResetServerId(t) BY <3>14 DEF ResetServerId
    <3>15. CASE ThreadDone(t) BY <3>15 DEF ThreadDone
    <3>16. CASE Unregister(t) BY <3>16 DEF Unregister
    <3>17. CASE ThreadExit(t) BY <3>17 DEF ThreadExit, RemoveFromLookup
    <3> QED BY <2>1, <3>1, <3>2, <3>3, <3>4, <3>5, <3>6, <3>7, <3>8, <3>9,
               <3>10, <3>11, <3>12, <3>13, <3>14, <3>15, <3>16, <3>17
            DEF ThreadStep
  <2>2. ASSUME NEW c \in Callers, CallerStep(c) PROVE TInv'
    <3>1. CASE StartServerThread(c) BY <3>1 DEF StartServerThread
    <3>2. CASE \E t \in Threads : CreateThread(c, t) BY <3>2 DEF CreateThread
    <3>3. CASE StopServerThread(c) BY <3>3 DEF StopServerThread
    <3>4. CASE ThreadJoined(c) BY <3>4 DEF ThreadJoined
    <3>5. CASE ClearFlags(c) BY <3>5 DEF ClearFlags
    <3>6. CASE AlreadyStopped(c)
      <4>1. /\ flags' \in SUBSET Flags
            /\ serverId' \in Sessions \cup {NoId}
            /\ listed' \in BOOLEAN
            /\ serverIdLookup' \in SUBSET Sessions
        BY <3>6 DEF AlreadyStopped, RemoveFromLookup
      <4>2. cpc' \in [Callers -> CallerPc]
        BY <3>6 DEF AlreadyStopped
      <4>3. UNCHANGED <<pThread, callsInProgress, connect_failures, tpc, localId,
                        joining>>
        BY <3>6 DEF AlreadyStopped
      <4> QED BY <4>1, <4>2, <4>3
    <3> QED BY <2>2, <3>1, <3>2, <3>3, <3>4, <3>5, <3>6 DEF CallerStep
  <2>3. ASSUME NEW c \in Callers, NEW command \in {"enable", "disable"},
               ConsoleFind(c, command)
        PROVE  TInv'
    BY <2>3 DEF ConsoleFind
  <2>4. CASE CountCall BY <2>4 DEF CountCall
  <2>5. CASE UncountCall BY <2>5 DEF UncountCall
  <2>6. CASE AttachFailed BY <2>6 DEF AttachFailed
  <2>7. CASE UNCHANGED threadVars BY <2>7 DEF threadVars
  <2> QED BY <2>1, <2>2, <2>3, <2>4, <2>5, <2>6, <2>7 DEF ThreadNext
<1>3. TInv => TypeOK OBVIOUS
<1> QED BY <1>1, <1>2, <1>3, PTL DEF ThreadSpec

-----------------------------------------------------------------------------
\* A configured server is never evicted, its thread is the one that pThread
\* names, one console at a time handles it, and a registered session is held by
\* the thread: no step of ThreadNext breaks this.
LEMMA StaticStep ==
  ASSUME ~Dynamic, StaticInv, TypeOK', [ThreadNext]_threadVars
  PROVE  StaticInv'
<1> USE ConstantsAssumption DEF StaticInv, TypeOK, Flags, ThreadPc, CallerPc,
        serverVars, Goto, CGoto, ThreadNamed, ConsoleExclusion, LookupHeld,
        Busy, Registered
<1>1. ASSUME NEW t \in Threads, ThreadStep(t) PROVE StaticInv'
  <2>1. CASE ThreadStart(t)
    BY <2>1 DEF ThreadStart
  <2>2. CASE OuterLoop(t)
    BY <2>2 DEF OuterLoop
  <2>3. CASE \E r \in Reply : ClaimSockErr(t, r)
    BY <2>3 DEF ClaimSockErr
  <2>4. CASE \E r \in Reply : ClaimSuccess(t, r)
    BY <2>4 DEF ClaimSuccess
  <2>5. CASE \E r \in Reply : ClaimRefused(t, r)
    BY <2>5 DEF ClaimRefused
  <2>6. CASE DrainDone(t)
    BY <2>6 DEF DrainDone
  <2>7. CASE \E r \in Reply : CreateFailed(t, r)
    <3> PICK r \in Reply : CreateFailed(t, r) BY <2>7
    <3>1. flags' = flags /\ tpc' = [tpc EXCEPT ![t] = "inner"] /\ tpc[t] = "create"
      BY Zenon DEF CreateFailed, serversDynamicEvictable
    <3>2. UNCHANGED <<pThread, serverIdLookup, localId, cpc, joining>>
      BY DEF CreateFailed
    <3> QED BY <3>1, <3>2
  <2>8. CASE \E r \in Reply, s \in Sessions : CreateSuccess(t, r, s)
    BY <2>8 DEF CreateSuccess
  <2>9. CASE InsertSuccess(t)
    BY <2>9 DEF InsertSuccess
  <2>10. CASE InsertFailed(t)
    BY <2>10 DEF InsertFailed
  <2>11. CASE InnerLoop(t)
    BY <2>11 DEF InnerLoop
  <2>12. CASE PollSuccess(t)
    BY <2>12 DEF PollSuccess
  <2>13. CASE PollFailed(t)
    BY <2>13 DEF PollFailed
  <2>14. CASE ResetServerId(t)
    BY <2>14 DEF ResetServerId
  <2>15. CASE ThreadDone(t)
    BY <2>15 DEF ThreadDone
  <2>16. CASE Unregister(t)
    BY <2>16 DEF Unregister
  <2>17. CASE ThreadExit(t)
    BY <2>17 DEF ThreadExit, RemoveFromLookup
  <2> QED BY <1>1, <2>1, <2>2, <2>3, <2>4, <2>5, <2>6, <2>7, <2>8, <2>9, <2>10, <2>11, <2>12, <2>13, <2>14, <2>15, <2>16, <2>17
          DEF ThreadStep
<1>2. ASSUME NEW c \in Callers, CallerStep(c) PROVE StaticInv'
  <2>1. CASE StartServerThread(c)
    BY <2>1 DEF StartServerThread
  <2>2. CASE \E t \in Threads : CreateThread(c, t)
    BY <2>2 DEF CreateThread
  <2>3. CASE StopServerThread(c)
    BY <2>3 DEF StopServerThread
  <2>4. CASE ThreadJoined(c)
    BY <2>4 DEF ThreadJoined
  <2>5. CASE ClearFlags(c)
    BY <2>5 DEF ClearFlags
  <2>6. CASE AlreadyStopped(c)
    BY <2>6 DEF AlreadyStopped
  <2> QED BY <1>2, <2>1, <2>2, <2>3, <2>4, <2>5, <2>6 DEF CallerStep
<1>3. ASSUME NEW c \in Callers, NEW command \in {"enable", "disable"},
             ConsoleFind(c, command)
      PROVE  StaticInv'
  BY <1>3 DEF ConsoleFind
<1>4. CASE CountCall BY <1>4 DEF CountCall
<1>5. CASE UncountCall BY <1>5 DEF UncountCall
<1>6. CASE AttachFailed BY <1>6 DEF AttachFailed
<1>7. CASE UNCHANGED threadVars BY <1>7 DEF threadVars
<1> QED BY <1>1, <1>2, <1>3, <1>4, <1>5, <1>6, <1>7 DEF ThreadNext

\* The strengthened invariant of a configured server holds in every state.
THEOREM StaticInvariant == ~Dynamic => (ThreadSpec => []StaticInv)
<1> SUFFICES ASSUME ~Dynamic PROVE ThreadSpec => []StaticInv
  OBVIOUS
<1>1. ThreadInit => StaticInv
  BY ConstantsAssumption DEF ThreadInit, StaticInv, TypeOK, Flags, ThreadPc,
     CallerPc, ThreadNamed, ConsoleExclusion, LookupHeld, Busy, Registered
<1>2. StaticInv /\ TypeOK' /\ [ThreadNext]_threadVars => StaticInv'
  BY StaticStep
<1> QED BY <1>1, <1>2, ThreadTypeCorrect, PTL DEF ThreadSpec

\* A configured server has at most one thread, whatever its consoles do:
\* startServerThread creates one only after it has found SFLAG_ENABLED clear,
\* and stopServerThread clears that flag only after it has joined the thread.
THEOREM StaticOneThread == ~Dynamic => (ThreadSpec => []OneThread)
<1>1. StaticInv => OneThread
  BY DEF StaticInv, ThreadNamed, OneThread, LiveThreads
<1> QED BY <1>1, StaticInvariant, PTL

\* Every session in globals.serverIdLookup is polled by a live thread.
THEOREM StaticLookupOwned == ~Dynamic => (ThreadSpec => []LookupOwned)
<1>1. StaticInv => LookupOwned
  BY ConstantsAssumption
     DEF StaticInv, TypeOK, LookupHeld, Registered, LookupOwned, LiveThreads
<1> QED BY <1>1, StaticInvariant, PTL

\* A disabled configured server is not found by any session id.
THEOREM StaticDisabledUnregistered ==
  ~Dynamic => (ThreadSpec => []DisabledUnregistered)
<1>1. StaticInv => DisabledUnregistered
  BY DEF StaticInv, TypeOK, ThreadNamed, LookupHeld, DisabledUnregistered
<1> QED BY <1>1, StaticInvariant, PTL

-----------------------------------------------------------------------------
(***************************************************************************)
(* A server of the registry, too, if one console handles it.  Its thread    *)
(* may end by itself and clear SFLAG_ENABLED, and stopServerThread may      *)
(* remove a server that was evicted: with two consoles that can be one      *)
(* whose thread still runs.                                                 *)
(***************************************************************************)
OneConsole == \A c, d \in Callers : c = d

Live(t) == tpc[t] \notin {"none", "exit"}

\* A thread that runs is the one pThread names, the server is enabled, and the
\* console is not where it takes the thread to be gone.
LiveNamed ==
  \A t \in Threads : Live(t) =>
    /\ t = pThread
    /\ "ENABLED" \in flags
    /\ \A c \in Callers : cpc[c] \notin {"creating", "clearing", "already"}

\* What the flags say of the console, and the console of the flags.
ConsoleStage ==
  /\ "TERMINATING" \in flags => \E c \in Callers : cpc[c] \in {"joining", "clearing"}
  /\ \A c \in Callers : cpc[c] = "creating" => "ENABLED" \in flags
  /\ \A c \in Callers : cpc[c] = "joining" =>
       joining[c] = pThread /\ pThread # NoThread /\ "TERMINATING" \in flags

\* As LookupHeld; pThread may name a thread that has ended.
LiveLookup ==
  \A s \in serverIdLookup : \E t \in Threads : localId[t] = s /\ Registered(t)

OneConsoleInv ==
  /\ TypeOK
  /\ LiveNamed
  /\ ConsoleStage
  /\ LiveLookup

\* No step breaks it, also when the server evicts itself, is removed by the
\* console, or is started again after it was removed.
LEMMA OneConsoleStep ==
  ASSUME OneConsole, OneConsoleInv, TypeOK', [ThreadNext]_threadVars
  PROVE  OneConsoleInv'
<1> USE ConstantsAssumption DEF OneConsole, OneConsoleInv, TypeOK, Flags, ThreadPc,
        CallerPc, serverVars, Goto, CGoto, LiveNamed, ConsoleStage, LiveLookup,
        Live, Registered
<1>1. ASSUME NEW t \in Threads, ThreadStep(t) PROVE OneConsoleInv'
  <2>1. CASE ThreadStart(t)
    BY <2>1 DEF ThreadStart
  <2>2. CASE OuterLoop(t)
    BY <2>2 DEF OuterLoop
  <2>3. CASE \E r \in Reply : ClaimSockErr(t, r)
    BY <2>3 DEF ClaimSockErr
  <2>4. CASE \E r \in Reply : ClaimSuccess(t, r)
    BY <2>4 DEF ClaimSuccess
  <2>5. CASE \E r \in Reply : ClaimRefused(t, r)
    BY <2>5 DEF ClaimRefused
  <2>6. CASE DrainDone(t)
    BY <2>6 DEF DrainDone
  <2>7. CASE \E r \in Reply : CreateFailed(t, r)
    <3> PICK r \in Reply : CreateFailed(t, r) BY <2>7
    <3>1. /\ tpc[t] = "create"
          /\ \/ flags' = flags \cup {"EVICTED"} /\ tpc' = [tpc EXCEPT ![t] = "done"]
             \/ flags' = flags /\ tpc' = [tpc EXCEPT ![t] = "inner"]
      BY Zenon DEF CreateFailed
    <3>2. UNCHANGED <<pThread, serverIdLookup, localId, cpc, joining>>
      BY DEF CreateFailed
    <3> QED BY <3>1, <3>2
  <2>8. CASE \E r \in Reply, s \in Sessions : CreateSuccess(t, r, s)
    BY <2>8 DEF CreateSuccess
  <2>9. CASE InsertSuccess(t)
    BY <2>9 DEF InsertSuccess
  <2>10. CASE InsertFailed(t)
    BY <2>10 DEF InsertFailed
  <2>11. CASE InnerLoop(t)
    BY <2>11 DEF InnerLoop
  <2>12. CASE PollSuccess(t)
    BY <2>12 DEF PollSuccess
  <2>13. CASE PollFailed(t)
    BY <2>13 DEF PollFailed
  <2>14. CASE ResetServerId(t)
    BY <2>14 DEF ResetServerId
  <2>15. CASE ThreadDone(t)
    BY <2>15 DEF ThreadDone
  <2>16. CASE Unregister(t)
    BY <2>16 DEF Unregister
  <2>17. CASE ThreadExit(t)
    BY <2>17 DEF ThreadExit, RemoveFromLookup
  <2> QED BY <1>1, <2>1, <2>2, <2>3, <2>4, <2>5, <2>6, <2>7, <2>8, <2>9, <2>10, <2>11, <2>12, <2>13, <2>14, <2>15, <2>16, <2>17
          DEF ThreadStep
<1>2. ASSUME NEW c \in Callers, CallerStep(c) PROVE OneConsoleInv'
  <2>1. CASE StartServerThread(c)
    BY <2>1 DEF StartServerThread
  <2>2. CASE \E t \in Threads : CreateThread(c, t)
    BY <2>2 DEF CreateThread
  <2>3. CASE StopServerThread(c)
    BY <2>3 DEF StopServerThread
  <2>4. CASE ThreadJoined(c)
    BY <2>4 DEF ThreadJoined
  <2>5. CASE ClearFlags(c)
    BY <2>5 DEF ClearFlags
  <2>6. CASE AlreadyStopped(c)
    BY <2>6 DEF AlreadyStopped, RemoveFromLookup
  <2> QED BY <1>2, <2>1, <2>2, <2>3, <2>4, <2>5, <2>6 DEF CallerStep
<1>3. ASSUME NEW c \in Callers, NEW command \in {"enable", "disable"},
             ConsoleFind(c, command)
      PROVE  OneConsoleInv'
  BY <1>3 DEF ConsoleFind
<1>4. CASE CountCall BY <1>4 DEF CountCall
<1>5. CASE UncountCall BY <1>5 DEF UncountCall
<1>6. CASE AttachFailed BY <1>6 DEF AttachFailed
<1>7. CASE UNCHANGED threadVars BY <1>7 DEF threadVars
<1> QED BY <1>1, <1>2, <1>3, <1>4, <1>5, <1>6, <1>7 DEF ThreadNext

\* The strengthened invariant of a server with one console.
THEOREM OneConsoleInvariant == OneConsole => (ThreadSpec => []OneConsoleInv)
<1> SUFFICES ASSUME OneConsole PROVE ThreadSpec => []OneConsoleInv
  OBVIOUS
<1>1. ThreadInit => OneConsoleInv
  BY ConstantsAssumption DEF ThreadInit, OneConsoleInv, TypeOK, Flags, ThreadPc,
     CallerPc, LiveNamed, ConsoleStage, LiveLookup, Live, Registered
<1>2. OneConsoleInv /\ TypeOK' /\ [ThreadNext]_threadVars => OneConsoleInv'
  BY OneConsoleStep
<1> QED BY <1>1, <1>2, ThreadTypeCorrect, PTL DEF ThreadSpec

\* A server that one console handles has at most one thread, also when it
\* evicts itself while the console starts or stops it.
THEOREM OneConsoleOneThread == OneConsole => (ThreadSpec => []OneThread)
<1>1. OneConsoleInv => OneThread
  BY DEF OneConsoleInv, LiveNamed, Live, OneThread, LiveThreads
<1> QED BY <1>1, OneConsoleInvariant, PTL

\* Every registered session of such a server is polled by a live thread: the
\* eviction, too, leaves none behind.
THEOREM OneConsoleLookupOwned == OneConsole => (ThreadSpec => []LookupOwned)
<1>1. OneConsoleInv => LookupOwned
  BY DEF OneConsoleInv, LiveLookup, Registered, LookupOwned, LiveThreads
<1> QED BY <1>1, OneConsoleInvariant, PTL

\* Such a server, disabled or evicted, is not found by any session id.
THEOREM OneConsoleDisabledUnregistered ==
  OneConsole => (ThreadSpec => []DisabledUnregistered)
<1>1. OneConsoleInv => DisabledUnregistered
  BY DEF OneConsoleInv, LiveLookup, Registered, LiveNamed, Live, DisabledUnregistered
<1> QED BY <1>1, OneConsoleInvariant, PTL
===============================================================================
