---------------------------- MODULE CallLegsProofs ----------------------------
(***************************************************************************)
(* The composition of the legs with the server thread implements            *)
(* ServerThread: whatever the legs do to server_t is one of the steps that  *)
(* ServerThread allows them.  So what is proved of ServerThread holds with  *)
(* the legs present.                                                        *)
(*                                                                         *)
(* LegsInv adds the types of the legs, and that the counters never exceed   *)
(* the number of legs that passed the point where they are counted, so that *)
(* the bound MaxCalls is never in the way.                                  *)
(*                                                                         *)
(* ServedInv carries LegOfServedSession: there is one thread, its session   *)
(* is registered only where the loop serves it (SessionAt), a leg that was  *)
(* not hung up stays in senderIdLookup (InsertedFound), and once it looked  *)
(* up its session again in channel_on_routing it is of the thread's, or the *)
(* loop over a refused session has yet to reach it (JoinedServed).          *)
(***************************************************************************)
EXTENDS CallLegs, FiniteSetTheorems, ServerThreadProofs

\* Every step of a leg is a step that ServerThread grants to the legs, or
\* leaves server_t alone.
LEMMA LegStepMaps ==
  ASSUME NEW l \in Legs, LegStep(l)
  PROVE  [ThreadNext]_threadVars
<1>1. CASE \E r \in Reply : OnInitAttachFailed(l, r)
  BY <1>1 DEF OnInitAttachFailed, ThreadNext
<1>2. CASE OnInitCount(l)
  BY <1>2 DEF OnInitCount, ThreadNext
<1>3. CASE OnHangupCleanup(l)
  BY <1>3 DEF OnHangupCleanup, ThreadNext
<1>4. ASSUME \/ DialBarred(l) \/ Originate(l) \/ OnInit(l)
             \/ \E r \in Reply : OnInitAttached(l, r)
             \/ OnInitInsert(l) \/ OnInitInsertFailed(l)
             \/ \E r \in Reply : OnInitRoomReady(l, r)
             \/ \E r \in Reply : OnInitRoomFailed(l, r)
             \/ OnRouting(l)
             \/ \E r \in Reply : OnRoutingJoin(l, r)
             \/ EnterHangup(l) \/ OnHangup(l)
             \/ OnHangupLeave(l) \/ OnHangupDetach(l)
      PROVE  UNCHANGED threadVars
  BY <1>4 DEF DialBarred, Originate, OnInit, OnInitAttached, OnInitInsert,
       OnInitInsertFailed, OnInitRoomReady, OnInitRoomFailed, OnRouting,
       OnRoutingJoin, EnterHangup, OnHangup, OnHangupLeave, OnHangupDetach
<1> QED
  BY <1>1, <1>2, <1>3, <1>4 DEF LegStep

\* Every step of the server thread, with its effect on the legs, is a step of
\* ServerThread.
LEMMA ServerStepMaps ==
  ASSUME NEW t \in Threads, ServerStep(t)
  PROVE  [ThreadNext]_threadVars
<1>1. CASE CreateTable(t)
  BY <1>1 DEF CreateTable, ThreadNext, ThreadStep
<1>2. CASE BeginDrain(t)
  BY <1>2 DEF BeginDrain, ThreadNext, ThreadStep
<1>3. CASE \E l \in Legs : DrainOne(t, l)
  BY <1>3 DEF DrainOne
<1>4. CASE EndDrain(t)
  BY <1>4 DEF EndDrain, ThreadNext, ThreadStep
<1>5. CASE NewSession(t)
  BY <1>5 DEF NewSession, ThreadNext, ThreadStep
<1>6. CASE DestroyTable(t)
  BY <1>6 DEF DestroyTable, ThreadNext, ThreadStep
<1>7. CASE OtherThreadStep(t)
  BY <1>7 DEF OtherThreadStep, ThreadNext, ThreadStep
<1> QED
  BY <1>1, <1>2, <1>3, <1>4, <1>5, <1>6, <1>7 DEF ServerStep

\* Every step of the composition is a step of ServerThread or a stutter.
LEMMA CallStepMaps == [CallNext]_callVars => [ThreadNext]_threadVars
<1> SUFFICES ASSUME [CallNext]_callVars PROVE [ThreadNext]_threadVars
  OBVIOUS
<1>1. CASE \E t \in Threads : ServerStep(t)
  BY <1>1, ServerStepMaps
<1>2. CASE \E t \in Threads, l \in Legs : JanusHangup(t, l)
  BY <1>2 DEF JanusHangup
<1>3. CASE \E c \in Callers : ConsoleStep(c)
  BY <1>3 DEF ConsoleStep, ThreadNext
<1>4. CASE \E l \in Legs : LegStep(l)
  BY <1>4, LegStepMaps
<1>5. CASE \E l \in Legs : DialFind(l) \/ CallerHangup(l) \/ Transfer(l)
  BY <1>5 DEF DialFind, CallerHangup, Transfer
<1>6. CASE UNCHANGED callVars
  BY <1>6 DEF callVars
<1> QED
  BY <1>1, <1>2, <1>3, <1>4, <1>5, <1>6 DEF CallNext

\* The legs and the server thread together implement ServerThread.
THEOREM CallsImplementThread == CallSpec => ImplementsServerThread
<1>1. CallInit => ThreadInit
  BY DEF CallInit
<1> QED
  BY <1>1, CallStepMaps, PTL DEF CallSpec, ThreadSpec, ImplementsServerThread

\* With any number of legs, a server that is configured or has one console has
\* one thread, only the session that it keeps is registered, and none is when
\* the server is disabled.
THEOREM CallsKeepServer ==
  ~Dynamic \/ OneConsole =>
    (CallSpec => [](OneThread /\ LookupOwned /\ DisabledUnregistered))
<1>1. CASE ~Dynamic
  BY <1>1, CallsImplementThread, StaticOneThread, StaticLookupOwned,
     StaticDisabledUnregistered, PTL DEF ImplementsServerThread
<1>2. CASE OneConsole
  BY <1>2, CallsImplementThread, OneConsoleOneThread, OneConsoleLookupOwned,
     OneConsoleDisabledUnregistered, PTL DEF ImplementsServerThread
<1> QED
  BY <1>1, <1>2

-----------------------------------------------------------------------------
(***************************************************************************)
(* The counters.  A leg counts its call once, at the end of channel_on_init, *)
(* and is never before that point again: there are never more calls counted  *)
(* than legs that have passed it, also when legs that were not counted, or   *)
(* were counted in an earlier session, uncount a call.                      *)
(***************************************************************************)
Uncounted == {"idle", "found", "barred", "init", "attach", "insert", "room", "count"}
Passed == {l \in Legs : lpc[l] \notin Uncounted}

CountInv ==
  /\ globalCalls \in Nat
  /\ globalCalls <= Cardinality(Passed)
  /\ callsInProgress <= Cardinality(Passed)

LegTypes ==
  /\ lpc \in [Legs -> LegPc]
  /\ legServerId \in [Legs -> Sessions \cup {NoId}]
  /\ hup \in [Legs -> BOOLEAN]
  /\ senderIdLookup \in SUBSET Legs
  /\ tableUp \in BOOLEAN
  /\ todo \in SUBSET Legs
  /\ crashed \in BOOLEAN

LegsInv == TypeOK /\ LegTypes /\ CountInv


\* No leg goes back to a point before its call is counted: the legs that
\* passed it stay, and the counters do not grow.
LEMMA CountKept ==
  ASSUME LegsInv, TypeOK',
         \A l \in Legs : lpc'[l] \in Uncounted => lpc[l] \in Uncounted,
         globalCalls' \in Nat, globalCalls' <= globalCalls,
         callsInProgress' <= callsInProgress
  PROVE  CountInv'
<1>1. Passed \in SUBSET Passed' /\ Passed' \in SUBSET Legs
  BY DEF Passed
<1>2. IsFiniteSet(Passed')
  BY <1>1, FS_Subset, LegsAssumption
<1>3. IsFiniteSet(Passed)
  BY <1>1, <1>2, FS_Subset
<1>4. /\ Cardinality(Passed') \in Nat /\ Cardinality(Passed) \in Nat
      /\ Cardinality(Passed) <= Cardinality(Passed')
  BY <1>1, <1>2, <1>3, FS_Subset, FS_CardinalityType
<1> QED
  BY <1>4, ConstantsAssumption DEF LegsInv, CountInv, TypeOK

\* The step that counts takes one more leg past the point.
LEMMA CountGrows ==
  ASSUME LegsInv, NEW l \in Legs, OnInitCount(l)
  PROVE  CountInv'
<1>1. Passed' = Passed \cup {l} /\ l \notin Passed
  BY DEF OnInitCount, LGoto, LegsInv, LegTypes, Passed, Uncounted
<1>2. IsFiniteSet(Passed)
  <2>1. Passed \in SUBSET Legs
    BY DEF Passed
  <2> QED
    BY <2>1, FS_Subset, LegsAssumption
<1>3. Cardinality(Passed) \in Nat /\ Cardinality(Passed') = Cardinality(Passed) + 1
  BY <1>1, <1>2, FS_AddElement, FS_CardinalityType
<1>4. callsInProgress \in Nat
  BY ConstantsAssumption DEF LegsInv, TypeOK
<1> QED
  BY <1>3, <1>4 DEF LegsInv, CountInv, OnInitCount, CountCall

\* A step of a leg's own handlers keeps the types and the counters.
LEMMA LegStepInv ==
  ASSUME LegsInv, TypeOK', NEW l \in Legs,
         LegStep(l) \/ DialFind(l) \/ CallerHangup(l) \/ Transfer(l)
  PROVE  LegTypes' /\ CountInv'
<1>t. LegTypes /\ globalCalls \in Nat /\ callsInProgress \in Nat
  BY ConstantsAssumption DEF LegsInv, CountInv, TypeOK
<1>h. HangupAndReturn(l) => hup' \in [Legs -> BOOLEAN] /\ LGoto(l, "hangup")
  BY <1>t DEF HangupAndReturn, LegTypes
<1>1. ASSUME NEW pc \in LegPc, LGoto(l, pc),
             legServerId' \in [Legs -> Sessions \cup {NoId}],
             hup' \in [Legs -> BOOLEAN], senderIdLookup' \in SUBSET Legs,
             crashed' \in BOOLEAN, UNCHANGED <<tableUp, todo>>
      PROVE  LegTypes'
  BY <1>1, <1>t DEF LGoto, LegTypes
<1>2. ASSUME NEW pc, LGoto(l, pc), pc \in Uncounted => lpc[l] \in Uncounted,
             UNCHANGED <<callsInProgress, globalCalls>>
      PROVE  CountInv'
  <2>1. \A m \in Legs : lpc'[m] \in Uncounted => lpc[m] \in Uncounted
    BY <1>2, <1>t DEF LGoto, LegTypes
  <2> QED
    BY <1>2, <1>t, <2>1, CountKept
<1>3. CASE DialFind(l) \/ DialBarred(l) \/ Transfer(l) \/ EnterHangup(l)
             \/ OnHangup(l) \/ OnHangupLeave(l) \/ OnHangupDetach(l)
             \/ (\E r \in Reply : OnInitAttached(l, r) \/ OnInitRoomReady(l, r))
  <2>1. PICK pc \in LegPc : LGoto(l, pc) /\ (pc \in Uncounted => lpc[l] \in Uncounted)
    BY <1>3 DEF DialFind, DialBarred, Transfer, EnterHangup, OnHangup, OnHangupLeave,
         OnHangupDetach, OnInitAttached, OnInitRoomReady, LegPc, Uncounted
  <2>2. UNCHANGED <<threadVars, legServerId, hup, senderIdLookup, tableUp, todo,
                    globalCalls, crashed>>
    BY <1>3 DEF DialFind, DialBarred, Transfer, EnterHangup, OnHangup, OnHangupLeave,
         OnHangupDetach, OnInitAttached, OnInitRoomReady
  <2> QED
    BY <1>1, <1>2, <1>t, <2>1, <2>2 DEF LegTypes, threadVars, serverVars
<1>4. CASE OnInit(l) \/ OnInitInsertFailed(l) \/ OnRouting(l)
             \/ (\E r \in Reply : OnInitRoomFailed(l, r) \/ OnRoutingJoin(l, r)
                                    \/ OnInitAttachFailed(l, r))
  <2>1. PICK pc \in LegPc : LGoto(l, pc) /\ (pc \in Uncounted => lpc[l] \in Uncounted)
                              /\ hup' \in [Legs -> BOOLEAN]
    BY <1>4, <1>h, <1>t DEF OnInit, OnInitInsertFailed, OnRouting, OnInitRoomFailed,
         OnRoutingJoin, OnInitAttachFailed, LegPc, Uncounted, LegTypes
  <2>2. UNCHANGED <<callsInProgress, legServerId, senderIdLookup, tableUp, todo,
                    globalCalls, crashed>>
    BY <1>4 DEF OnInit, OnInitInsertFailed, OnRouting, OnInitRoomFailed,
         OnRoutingJoin, OnInitAttachFailed, AttachFailed, threadVars, serverVars
  <2> QED
    BY <1>1, <1>2, <1>t, <2>1, <2>2 DEF LegTypes
<1>5. CASE Originate(l)
  <2>1. legServerId' \in [Legs -> Sessions \cup {NoId}]
    BY <1>5, <1>t DEF Originate, LegTypes, LegsInv, TypeOK
  <2>2. LGoto(l, "init") /\ "init" \in LegPc /\ lpc[l] \in Uncounted
    BY <1>5 DEF Originate, LegPc, Uncounted
  <2> QED
    BY <1>1, <1>2, <1>5, <1>t, <2>1, <2>2 DEF Originate, LegTypes, threadVars, serverVars
<1>6. CASE OnInitInsert(l)
  <2>1. CASE tableUp
    <3>1. LGoto(l, "room") /\ "room" \in LegPc /\ lpc[l] \in Uncounted
          /\ senderIdLookup' \in SUBSET Legs
      BY <1>6, <1>t, <2>1 DEF OnInitInsert, LegPc, Uncounted, LegTypes
    <3> QED
      BY <1>1, <1>2, <1>6, <1>t, <2>1, <3>1 DEF OnInitInsert, LegTypes, threadVars, serverVars
  <2>2. CASE ~tableUp
    <3>1. crashed' \in BOOLEAN
      BY <1>6, <2>2 DEF OnInitInsert
    <3>2. UNCHANGED <<lpc, legServerId, hup, senderIdLookup, tableUp, todo,
                      globalCalls, callsInProgress>>
      BY <1>6, <2>2 DEF OnInitInsert, threadVars, serverVars
    <3> QED
      BY <1>t, <3>1, <3>2, CountKept DEF LegTypes
  <2> QED
    BY <2>1, <2>2
<1>7. CASE OnInitCount(l)
  <2>1. LGoto(l, "routing") /\ "routing" \in LegPc
    BY <1>7 DEF OnInitCount, LegPc
  <2> QED
    BY <1>1, <1>7, <1>t, <2>1, CountGrows DEF OnInitCount, LegTypes
<1>8. CASE OnHangupCleanup(l)
  <2>1. CASE tableUp
    <3>1. LGoto(l, "dead") /\ "dead" \in LegPc /\ "dead" \notin Uncounted
          /\ senderIdLookup' \in SUBSET Legs
      BY <1>8, <1>t, <2>1 DEF OnHangupCleanup, LegPc, Uncounted, LegTypes
    <3>2. LegTypes'
      BY <1>1, <1>8, <1>t, <2>1, <3>1 DEF OnHangupCleanup, LegTypes
    <3>3. \A m \in Legs : lpc'[m] \in Uncounted => lpc[m] \in Uncounted
      BY <1>t, <3>1 DEF LGoto, LegTypes
    <3>4. globalCalls' \in Nat /\ globalCalls' <= globalCalls
          /\ callsInProgress' <= callsInProgress
      BY <1>8, <1>t, <2>1 DEF OnHangupCleanup, UncountCall
    <3> QED
      BY <3>2, <3>3, <3>4, CountKept
  <2>2. CASE ~tableUp
    <3>1. crashed' \in BOOLEAN
      BY <1>8, <2>2 DEF OnHangupCleanup
    <3>2. UNCHANGED <<lpc, legServerId, hup, senderIdLookup, tableUp, todo,
                      globalCalls, callsInProgress>>
      BY <1>8, <2>2 DEF OnHangupCleanup, threadVars, serverVars
    <3> QED
      BY <1>t, <3>1, <3>2, CountKept DEF LegTypes
  <2> QED
    BY <2>1, <2>2
<1>9. CASE CallerHangup(l)
  <2>1. hup' \in [Legs -> BOOLEAN]
    BY <1>9, <1>t DEF CallerHangup, LegTypes
  <2>2. UNCHANGED <<lpc, legServerId, senderIdLookup, tableUp, todo, crashed,
                    globalCalls, callsInProgress>>
    BY <1>9 DEF CallerHangup, threadVars, serverVars
  <2> QED
    BY <1>t, <2>1, <2>2, CountKept DEF LegTypes
<1> QED
  BY <1>3, <1>4, <1>5, <1>6, <1>7, <1>8, <1>9 DEF LegStep

\* A step of the server thread keeps the types and does not count calls.
LEMMA ServerStepInv ==
  ASSUME LegsInv, TypeOK', NEW t \in Threads,
         ServerStep(t) \/ (\E l \in Legs : JanusHangup(t, l))
  PROVE  LegTypes' /\ CountInv'
<1>t. LegTypes /\ globalCalls \in Nat /\ callsInProgress \in Nat
  BY ConstantsAssumption DEF LegsInv, CountInv, TypeOK
<1>1. lpc' = lpc /\ globalCalls' = globalCalls /\ legServerId' = legServerId
  BY DEF ServerStep, CreateTable, BeginDrain, DrainOne, EndDrain, NewSession,
         DestroyTable, OtherThreadStep, JanusHangup, legVars
<1>2. callsInProgress' <= callsInProgress
  <2>1. CASE NewSession(t)
    BY <1>t, <2>1 DEF NewSession, CreateSuccess
  <2>2. CASE CreateTable(t) \/ BeginDrain(t) \/ EndDrain(t) \/ DestroyTable(t)
               \/ (\E l \in Legs : DrainOne(t, l) \/ JanusHangup(t, l))
    BY <1>t, <2>2 DEF CreateTable, BeginDrain, EndDrain, DestroyTable, DrainOne, JanusHangup,
         ThreadStart, ClaimRefused, DrainDone, ThreadDone, threadVars, serverVars
  <2>3. CASE OtherThreadStep(t)
    BY <1>t, <2>3 DEF OtherThreadStep, OuterLoop, ClaimSockErr, ClaimSuccess, CreateFailed,
         InsertSuccess, InsertFailed, InnerLoop, PollSuccess, PollFailed, ResetServerId,
         Unregister, ThreadExit, serverVars
  <2> QED
    BY <2>1, <2>2, <2>3 DEF ServerStep
<1>3. CountInv'
  BY <1>1, <1>2, <1>t, CountKept
<1>4. LegTypes'
  <2>1. CASE CreateTable(t) \/ DestroyTable(t)
    <3>1. tableUp' \in BOOLEAN /\ senderIdLookup' \in SUBSET Legs
      BY <2>1 DEF CreateTable, DestroyTable
    <3>2. UNCHANGED <<hup, todo, crashed>>
      BY <2>1 DEF CreateTable, DestroyTable
    <3> QED
      BY <1>1, <1>t, <3>1, <3>2 DEF LegTypes
  <2>2. CASE BeginDrain(t) \/ EndDrain(t)
    <3>1. todo' \in SUBSET Legs
      BY <1>t, <2>2 DEF BeginDrain, EndDrain, LegTypes
    <3>2. UNCHANGED <<hup, senderIdLookup, tableUp, crashed>>
      BY <2>2 DEF BeginDrain, EndDrain
    <3> QED
      BY <1>1, <1>t, <3>1, <3>2 DEF LegTypes
  <2>3. ASSUME NEW l \in Legs, DrainOne(t, l) \/ JanusHangup(t, l) PROVE LegTypes'
    <3>1. crashed' \in BOOLEAN /\ hup' \in [Legs -> BOOLEAN]
      <4>1. CASE lpc[l] = "dead"
        BY <1>t, <2>3, <4>1 DEF DrainOne, JanusHangup, LegTypes
      <4>2. CASE lpc[l] # "dead"
        BY <1>t, <2>3, <4>2 DEF DrainOne, JanusHangup, LegTypes
      <4> QED
        BY <4>1, <4>2
    <3>2. senderIdLookup' \in SUBSET Legs /\ todo' \in SUBSET Legs /\ tableUp' = tableUp
      BY <1>t, <2>3 DEF DrainOne, JanusHangup, LegTypes
    <3> QED
      BY <1>1, <1>t, <3>1, <3>2 DEF LegTypes
  <2>4. CASE NewSession(t) \/ OtherThreadStep(t)
    BY <1>t, <2>4 DEF NewSession, OtherThreadStep, legVars, LegTypes
  <2> QED
    BY <2>1, <2>2, <2>3, <2>4 DEF ServerStep
<1> QED
  BY <1>3, <1>4

\* Every step of legs, server thread and consoles does.
LEMMA LegsInvStep == LegsInv /\ TypeOK' /\ [CallNext]_callVars => LegsInv'
<1> SUFFICES ASSUME LegsInv, TypeOK', [CallNext]_callVars PROVE LegTypes' /\ CountInv'
  BY DEF LegsInv
<1>1. CASE \E t \in Threads : ServerStep(t) \/ (\E l \in Legs : JanusHangup(t, l))
  BY <1>1, ServerStepInv
<1>2. CASE \E l \in Legs : LegStep(l) \/ DialFind(l) \/ CallerHangup(l) \/ Transfer(l)
  BY <1>2, LegStepInv
<1>3. CASE \/ \E c \in Callers : ConsoleStep(c)
           \/ UNCHANGED callVars
  <2>1. UNCHANGED legVars /\ callsInProgress' = callsInProgress
    BY <1>3 DEF ConsoleStep, CallerStep, ConsoleFind, StartServerThread, CreateThread,
         StopServerThread, AlreadyStopped, ThreadJoined, ClearFlags, callVars,
         threadVars, serverVars
  <2>2. globalCalls \in Nat /\ callsInProgress \in Nat
    BY ConstantsAssumption DEF LegsInv, CountInv, TypeOK
  <2> QED
    BY <2>1, <2>2, CountKept DEF legVars, LegsInv, LegTypes
<1> QED
  BY <1>1, <1>2, <1>3 DEF CallNext

\* The types of server_t, proved for the server thread with any legs, hold for
\* these legs.
LEMMA CallsThreadTypes == CallSpec => []TypeOK
  BY CallsImplementThread, ThreadTypeCorrect, PTL DEF ImplementsServerThread

\* The legs' part, in every behaviour of the composition.
LEMMA CallsLegsInv == CallSpec => []LegsInv
<1>1. CallInit /\ TypeOK => LegsInv
  <2> SUFFICES ASSUME CallInit, TypeOK PROVE LegTypes /\ CountInv
    BY DEF LegsInv
  <2>1. LegTypes
    BY DEF CallInit, LegTypes, LegPc
  <2>2. Passed = {}
    BY DEF CallInit, Passed, Uncounted
  <2>3. CountInv
    BY <2>2, FS_EmptySet DEF CallInit, ThreadInit, CountInv
  <2> QED
    BY <2>1, <2>3
<1> QED
  BY <1>1, LegsInvStep, CallsThreadTypes, PTL DEF CallSpec

\* Every field of legs and server keeps its type; in particular the global
\* count of calls never exceeds the number of legs and is never negative,
\* although channel_on_hangup uncounts legs that were never counted.
THEOREM CallTypeCorrect == CallSpec => []CallTypeOK
<1>1. LegsInv => CallTypeOK
  <2> SUFFICES ASSUME LegsInv PROVE globalCalls \in 0 .. Cardinality(Legs)
    BY DEF LegsInv, LegTypes, CallTypeOK
  <2>1. Passed \in SUBSET Legs
    BY DEF Passed
  <2>2. Cardinality(Passed) <= Cardinality(Legs) /\ IsFiniteSet(Passed)
    BY <2>1, FS_Subset, LegsAssumption
  <2>3. Cardinality(Passed) \in Nat /\ Cardinality(Legs) \in Nat
    BY <2>2, FS_CardinalityType, LegsAssumption
  <2> QED
    BY <2>2, <2>3 DEF LegsInv, CountInv
<1> QED
  BY <1>1, CallsLegsInv, PTL

\* The bound MaxCalls is never in the way of a leg that counts its call.
THEOREM CountNeverBounded ==
  CallSpec => [](\A l \in Legs : lpc[l] = "count" => callsInProgress < MaxCalls)
<1>1. ASSUME LegsInv, NEW l \in Legs, lpc[l] = "count" PROVE callsInProgress < MaxCalls
  <2>1. Passed \in SUBSET (Legs \ {l})
    BY <1>1 DEF Passed, Uncounted
  <2>2. /\ IsFiniteSet(Legs \ {l}) /\ Cardinality(Legs \ {l}) = Cardinality(Legs) - 1
        /\ Cardinality(Legs) \in Nat
    BY LegsAssumption, FS_RemoveElement, FS_CardinalityType
  <2>3. IsFiniteSet(Passed) /\ Cardinality(Passed) <= Cardinality(Legs) - 1
    BY <2>1, <2>2, FS_Subset
  <2>4. Cardinality(Passed) \in Nat
    BY <2>3, FS_CardinalityType
  <2> QED
    BY <1>1, <2>2, <2>3, <2>4, LegsAssumption, ConstantsAssumption
       DEF LegsInv, CountInv, TypeOK
<1>2. LegsInv => \A l \in Legs : lpc[l] = "count" => callsInProgress < MaxCalls
  BY <1>1
<1> QED
  BY <1>2, CallsLegsInv, PTL

-----------------------------------------------------------------------------
(***************************************************************************)
(* The served session.  Nobody disables the server and no insertion fails;   *)
(* it may be configured or a pod of the registry.                            *)
(***************************************************************************)
Undisturbed == Callers = {} /\ ~InsertFaults

\* There is one thread at most, and nobody asks it to end.
LoneThread ==
  /\ \A t, u \in Threads : tpc[t] # "none" /\ tpc[u] # "none" => t = u
  /\ "TERMINATING" \notin flags

\* Which session the thread has at each point of server_thread_run.
SessionAt ==
  /\ \A t \in Threads :
       /\ tpc[t] \in {"none", "start", "create", "done", "unregister", "evict", "exit"}
            => localId[t] = NoId
       /\ tpc[t] \in {"loop", "claim", "drain", "insert", "reset"}
            => localId[t] \notin serverIdLookup
  /\ \A s \in serverIdLookup : \E t \in Threads : localId[t] = s

\* senderIdLookup has entries only between its creation and its destruction.
TableLife ==
  /\ \A t \in Threads : tpc[t] = "start" => ~tableUp
  /\ ~tableUp => senderIdLookup = {}

Ended == {"none", "unregister", "evict", "exit"}

\* Between channel_on_init's insertion and its join, a leg that was not hung
\* up is in senderIdLookup, unless the thread is gone for good.
InsertedFound ==
  \A l \in Legs : lpc[l] \in {"room", "count", "routing"} /\ ~hup[l] =>
    l \in senderIdLookup \/ \A t \in Threads : tpc[t] \in Ended

\* From the lookup in channel_on_routing on, a leg that was not hung up is of
\* the thread's session, and the loop over a refused session will visit it.
JoinedServed ==
  \A l \in Legs : lpc[l] \in {"join", "up"} /\ ~hup[l] =>
    /\ l \in senderIdLookup
    /\ legServerId[l] # NoId
    /\ \E t \in Threads : localId[t] = legServerId[l] /\ (tpc[t] = "drain" => l \in todo)

ServedInv ==
  LoneThread /\ SessionAt /\ TableLife /\ InsertedFound /\ JoinedServed

\* A step of a leg: it is looked up by its session when it joins, and it
\* leaves senderIdLookup only after it was hung up.
LEMMA LegServed ==
  ASSUME LegsInv, ServedInv, NEW l \in Legs,
         LegStep(l) \/ DialFind(l) \/ CallerHangup(l) \/ Transfer(l)
  PROVE  ServedInv'
<1>t. LegTypes /\ TypeOK
  BY DEF LegsInv
<1>0. UNCHANGED <<tpc, localId, flags, serverIdLookup, tableUp, todo>>
  BY DEF LegStep, DialBarred, Originate, OnInit, OnInitAttachFailed, OnInitAttached,
         OnInitInsert, OnInitInsertFailed, OnInitRoomReady, OnInitRoomFailed, OnInitCount,
         OnRouting, OnRoutingJoin, EnterHangup, OnHangup, OnHangupLeave, OnHangupDetach,
         OnHangupCleanup, DialFind, CallerHangup, Transfer, AttachFailed, CountCall,
         UncountCall, threadVars, serverVars
<1>1. LoneThread' /\ SessionAt'
  BY <1>0 DEF ServedInv, LoneThread, SessionAt
<1>2. ASSUME NEW pc, LGoto(l, pc), pc \notin {"room", "count", "routing", "join", "up"},
             \A m \in Legs : m # l => hup'[m] = hup[m] /\ legServerId'[m] = legServerId[m],
             senderIdLookup' \in {senderIdLookup, senderIdLookup \ {l}}
      PROVE  ServedInv'
  <2>1. \A m \in Legs : m # l => lpc'[m] = lpc[m]
    BY <1>2, <1>t DEF LGoto, LegTypes
  <2>2. lpc'[l] \notin {"room", "count", "routing", "join", "up"}
    BY <1>2, <1>t DEF LGoto, LegTypes
  <2>3. TableLife'
    BY <1>0, <1>2 DEF ServedInv, TableLife
  <2>4. InsertedFound'
    BY <1>0, <1>2, <2>1, <2>2 DEF ServedInv, InsertedFound
  <2>5. JoinedServed'
    BY <1>0, <1>2, <2>1, <2>2 DEF ServedInv, JoinedServed
  <2> QED
    BY <1>1, <2>3, <2>4, <2>5 DEF ServedInv
<1>3. ASSUME HangupAndReturn(l), UNCHANGED <<legServerId, senderIdLookup>> PROVE ServedInv'
  <2>1. LGoto(l, "hangup") /\ \A m \in Legs : m # l => hup'[m] = hup[m]
    BY <1>3, <1>t DEF HangupAndReturn, LegTypes
  <2> QED
    BY <1>2, <1>3, <2>1
<1>4. ASSUME NEW pc, LGoto(l, pc), UNCHANGED <<hup, legServerId, senderIdLookup>>,
             \/ lpc[l] = "room" /\ pc = "count"
             \/ lpc[l] = "count" /\ pc = "routing"
             \/ lpc[l] = "up" /\ pc = "routing"
             \/ lpc[l] = "join" /\ pc = "up"
             \/ lpc[l] = "routing" /\ pc = "join" /\ ~hup[l] /\ legServerId[l] \in serverIdLookup
      PROVE  ServedInv'
  <2>1. lpc'[l] = pc /\ \A m \in Legs : m # l => lpc'[m] = lpc[m]
    BY <1>4, <1>t DEF LGoto, LegTypes
  <2>2. TableLife'
    BY <1>0, <1>4 DEF ServedInv, TableLife
  <2>3. InsertedFound'
    BY <1>0, <1>4, <2>1 DEF ServedInv, InsertedFound, JoinedServed
  <2>4. JoinedServed'
    <3> SUFFICES ASSUME NEW m \in Legs, lpc'[m] \in {"join", "up"}, ~hup[m]
                 PROVE  /\ m \in senderIdLookup /\ legServerId[m] # NoId
                        /\ \E t \in Threads : localId[t] = legServerId[m]
                                               /\ (tpc[t] = "drain" => m \in todo)
      BY <1>0, <1>4 DEF JoinedServed
    <3>1. CASE lpc[m] \in {"join", "up"}
      BY <3>1 DEF ServedInv, JoinedServed
    <3>2. CASE m = l /\ lpc[l] = "routing" /\ pc = "join"
      <4>1. legServerId[l] \in serverIdLookup /\ legServerId[l] # NoId
        BY <1>4, <1>t, <3>2, ConstantsAssumption DEF TypeOK
      <4>2. PICK t \in Threads : localId[t] = legServerId[l]
        BY <4>1 DEF ServedInv, SessionAt
      <4>3. tpc[t] \notin Ended /\ tpc[t] # "drain"
        BY <4>1, <4>2 DEF ServedInv, SessionAt, Ended
      <4>4. l \in senderIdLookup
        BY <1>4, <3>2, <4>3 DEF ServedInv, InsertedFound
      <4> QED
        BY <3>2, <4>1, <4>2, <4>3, <4>4
    <3> QED
      BY <1>4, <2>1, <3>1, <3>2
  <2> QED
    BY <1>1, <2>2, <2>3, <2>4 DEF ServedInv
<1>5. CASE DialFind(l) \/ DialBarred(l) \/ EnterHangup(l) \/ OnHangup(l)
             \/ OnHangupLeave(l) \/ OnHangupDetach(l)
             \/ (\E r \in Reply : OnInitAttached(l, r))
  BY <1>2, <1>5 DEF DialFind, DialBarred, EnterHangup, OnHangup, OnHangupLeave,
       OnHangupDetach, OnInitAttached
<1>6. CASE Originate(l)
  <2>1. \A m \in Legs : m # l => legServerId'[m] = legServerId[m]
    BY <1>6, <1>t DEF Originate, LegTypes
  <2> QED
    BY <1>2, <1>6, <2>1 DEF Originate
<1>7. CASE OnInitInsertFailed(l)
             \/ (\E r \in Reply : OnInitRoomFailed(l, r) \/ OnInitAttachFailed(l, r))
  BY <1>3, <1>7 DEF OnInitInsertFailed, OnInitRoomFailed, OnInitAttachFailed
<1>8. CASE OnInit(l)
  BY <1>2, <1>3, <1>8 DEF OnInit
<1>9. CASE OnInitInsert(l)
  <2>1. CASE tableUp
    <3>1. /\ senderIdLookup' = senderIdLookup \cup {l}
          /\ lpc'[l] = "room" /\ \A m \in Legs : m # l => lpc'[m] = lpc[m]
      BY <1>9, <1>t, <2>1 DEF OnInitInsert, LGoto, LegTypes
    <3>2. UNCHANGED <<hup, legServerId>>
      BY <1>9 DEF OnInitInsert
    <3>3. TableLife'
      BY <1>0, <2>1 DEF ServedInv, TableLife
    <3>4. InsertedFound'
      BY <1>0, <3>1, <3>2 DEF ServedInv, InsertedFound
    <3>5. JoinedServed'
      BY <1>0, <3>1, <3>2 DEF ServedInv, JoinedServed
    <3> QED
      BY <1>1, <3>3, <3>4, <3>5 DEF ServedInv
  <2>2. CASE ~tableUp
    <3>1. UNCHANGED <<lpc, hup, legServerId, senderIdLookup>>
      BY <1>9, <2>2 DEF OnInitInsert
    <3> QED
      BY <1>0, <1>1, <3>1 DEF ServedInv, TableLife, InsertedFound, JoinedServed
  <2> QED
    BY <2>1, <2>2
<1>10. CASE (\E r \in Reply : OnInitRoomReady(l, r)) \/ OnInitCount(l) \/ Transfer(l)
  BY <1>4, <1>10 DEF OnInitRoomReady, OnInitCount, Transfer
<1>11. CASE OnRouting(l)
  BY <1>3, <1>4, <1>11 DEF OnRouting
<1>12. CASE \E r \in Reply : OnRoutingJoin(l, r)
  BY <1>3, <1>4, <1>12 DEF OnRoutingJoin
<1>13. CASE OnHangupCleanup(l)
  <2>1. CASE tableUp
    BY <1>2, <1>13, <2>1 DEF OnHangupCleanup
  <2>2. CASE ~tableUp
    <3>1. UNCHANGED <<lpc, hup, legServerId, senderIdLookup>>
      BY <1>13, <2>2 DEF OnHangupCleanup
    <3> QED
      BY <1>0, <1>1, <3>1 DEF ServedInv, TableLife, InsertedFound, JoinedServed
  <2> QED
    BY <2>1, <2>2
<1>14. CASE CallerHangup(l)
  <2>1. UNCHANGED <<lpc, legServerId, senderIdLookup>>
    BY <1>14 DEF CallerHangup
  <2>2. \A m \in Legs : ~hup'[m] => ~hup[m]
    BY <1>14, <1>t DEF CallerHangup, LegTypes
  <2> QED
    BY <1>0, <1>1, <2>1, <2>2 DEF ServedInv, TableLife, InsertedFound, JoinedServed
<1> QED
  BY <1>5, <1>6, <1>7, <1>8, <1>9, <1>10, <1>11, <1>12, <1>13, <1>14 DEF LegStep

\* A step of the server thread: it forgets a session only after the loop over
\* senderIdLookup has hung up the legs that are in their call.
LEMMA ThreadServed ==
  ASSUME Undisturbed, LegsInv, ServedInv, NEW t \in Threads,
         ServerStep(t) \/ (\E l \in Legs : JanusHangup(t, l))
  PROVE  ServedInv'
<1>t. LegTypes /\ TypeOK
  BY DEF LegsInv
<1>i. LoneThread /\ SessionAt /\ TableLife /\ InsertedFound /\ JoinedServed
  BY DEF ServedInv
<1>n. \A s \in serverIdLookup : s # NoId
  BY <1>t, ConstantsAssumption DEF TypeOK
\* A leg that has joined is of the session of t, if t is not at rest.
<1>j. ASSUME NEW l \in Legs, lpc[l] \in {"join", "up"}, ~hup[l], tpc[t] # "none"
      PROVE  /\ l \in senderIdLookup /\ localId[t] = legServerId[l] /\ localId[t] # NoId
             /\ tpc[t] = "drain" => l \in todo
  BY <1>i, <1>j DEF JoinedServed, LoneThread, SessionAt
\* The thread moves to pc; what it does to its session fits that point.
<1>1. ASSUME NEW pc, Goto(t, pc), tpc[t] # "none", flags' \subseteq flags \cup {"EVICTED"},
             \A u \in Threads : u # t => localId'[u] = localId[u],
             pc \in {"none", "start", "create", "done", "unregister", "evict", "exit"}
               => localId'[t] = NoId,
             pc \in {"loop", "claim", "drain", "insert", "reset"}
               => localId'[t] \notin serverIdLookup',
             serverIdLookup' \subseteq {localId'[t]}
      PROVE  /\ LoneThread' /\ SessionAt'
             /\ tpc'[t] = pc /\ \A u \in Threads : u # t => tpc'[u] = "none"
  <2>1. tpc'[t] = pc /\ \A u \in Threads : u # t => tpc'[u] = tpc[u] /\ tpc[u] = "none"
    BY <1>1, <1>i, <1>t DEF Goto, TypeOK, LoneThread
  <2>2. LoneThread'
    BY <1>1, <1>i, <2>1 DEF LoneThread
  <2>3. SessionAt'
    BY <1>1, <1>i, <1>t, <2>1 DEF SessionAt
  <2> QED
    BY <2>1, <2>2, <2>3
\* ... and does nothing to the legs.
<1>2. ASSUME NEW pc, Goto(t, pc), pc \notin {"none", "start", "drain"}, localId' = localId,
             LoneThread', SessionAt', tpc[t] \notin {"none"}, tpc[t] \in Ended => pc \in Ended,
             UNCHANGED legVars
      PROVE  ServedInv'
  <2>1. tpc'[t] = pc /\ \A u \in Threads : u # t => tpc'[u] = tpc[u] /\ tpc[u] = "none"
    BY <1>2, <1>i, <1>t DEF Goto, TypeOK, LoneThread
  <2>2. TableLife'
    BY <1>2, <1>i, <2>1 DEF TableLife, legVars
  <2>3. InsertedFound'
    <3>1. (\A u \in Threads : tpc[u] \in Ended) => \A u \in Threads : tpc'[u] \in Ended
      BY <1>2, <2>1 DEF Ended
    <3> QED
      BY <1>2, <1>i, <3>1 DEF InsertedFound, legVars
  <2>4. JoinedServed'
    BY <1>2, <1>i, <1>j, <2>1 DEF JoinedServed, legVars
  <2> QED
    BY <1>2, <2>2, <2>3, <2>4 DEF ServedInv
\* The table of sessions holds the session of t or nothing.
<1>l. tpc[t] # "none" => serverIdLookup \subseteq {localId[t]}
  BY <1>i, <1>n DEF LoneThread, SessionAt
<1>3. CASE CreateTable(t)
  <2>1. /\ tpc[t] = "start" /\ Goto(t, "loop") /\ UNCHANGED <<serverVars, localId>>
        /\ tableUp' = TRUE /\ senderIdLookup' = {}
        /\ UNCHANGED <<lpc, legServerId, hup, todo>>
    BY <1>3 DEF CreateTable, ThreadStart
  <2>2. localId[t] = NoId /\ serverIdLookup = {}
    BY <1>i, <1>l, <1>n, <2>1 DEF SessionAt
  <2>3. LoneThread' /\ SessionAt' /\ tpc'[t] = "loop"
        /\ \A u \in Threads : u # t => tpc'[u] = "none"
    BY <1>1, <2>1, <2>2 DEF serverVars
  <2>4. TableLife'
    BY <2>1, <2>3 DEF TableLife
  <2>5. senderIdLookup = {} /\ tpc[t] \notin Ended
    BY <1>i, <2>1 DEF TableLife, Ended
  <2>6. InsertedFound' /\ JoinedServed'
    BY <1>i, <2>1, <2>5 DEF InsertedFound, JoinedServed
  <2> QED
    BY <2>3, <2>4, <2>6 DEF ServedInv
<1>4. CASE BeginDrain(t)
  <2>1. /\ tpc[t] = "claim" /\ Goto(t, "drain") /\ UNCHANGED <<serverVars, localId>>
        /\ todo' = senderIdLookup
        /\ UNCHANGED <<lpc, legServerId, hup, senderIdLookup, tableUp>>
    BY <1>4 DEF BeginDrain, ClaimRefused
  <2>2. localId[t] \notin serverIdLookup
    BY <1>i, <2>1 DEF SessionAt
  <2>3. LoneThread' /\ SessionAt' /\ tpc'[t] = "drain"
        /\ \A u \in Threads : u # t => tpc'[u] = "none"
    BY <1>1, <1>l, <2>1, <2>2 DEF serverVars
  <2>4. TableLife'
    BY <1>i, <2>1, <2>3 DEF TableLife
  <2>5. InsertedFound'
    BY <1>i, <2>1 DEF InsertedFound, Ended
  <2>6. JoinedServed'
    BY <1>i, <1>j, <2>1, <2>3 DEF JoinedServed
  <2> QED
    BY <2>3, <2>4, <2>5, <2>6 DEF ServedInv
<1>5. ASSUME NEW l \in Legs, DrainOne(t, l) PROVE ServedInv'
  <2>1. /\ UNCHANGED <<tpc, localId, flags, serverIdLookup, lpc, legServerId, tableUp>>
        /\ senderIdLookup' = senderIdLookup \ {l} /\ todo' = todo \ {l}
    BY <1>5 DEF DrainOne, threadVars, serverVars
  <2>2. \A m \in Legs : ~hup'[m] => ~hup[m] /\ (m # l \/ lpc[m] = "dead")
    <3>1. CASE lpc[l] = "dead"
      BY <1>5, <3>1 DEF DrainOne
    <3>2. CASE lpc[l] # "dead"
      BY <1>5, <1>t, <3>2 DEF DrainOne, LegTypes
    <3> QED
      BY <3>1, <3>2
  <2>3. LoneThread' /\ SessionAt' /\ TableLife'
    BY <1>i, <2>1 DEF LoneThread, SessionAt, TableLife
  <2>4. InsertedFound'
    BY <1>i, <2>1, <2>2 DEF InsertedFound
  <2>5. JoinedServed'
    BY <1>i, <2>1, <2>2 DEF JoinedServed
  <2> QED
    BY <2>3, <2>4, <2>5 DEF ServedInv
<1>6. CASE EndDrain(t)
  <2>1. /\ tpc[t] = "drain" /\ Goto(t, "inner") /\ UNCHANGED serverVars
        /\ localId' = [localId EXCEPT ![t] = NoId] /\ todo \cap senderIdLookup = {}
        /\ UNCHANGED <<lpc, legServerId, hup, senderIdLookup, tableUp>>
    BY <1>6 DEF EndDrain, DrainDone
  <2>2. localId'[t] = NoId /\ \A u \in Threads : u # t => localId'[u] = localId[u]
    BY <1>t, <2>1 DEF TypeOK
  <2>3. serverIdLookup = {}
    BY <1>i, <1>l, <2>1 DEF SessionAt
  <2>4. LoneThread' /\ SessionAt' /\ tpc'[t] = "inner"
        /\ \A u \in Threads : u # t => tpc'[u] = "none"
    BY <1>1, <2>1, <2>2, <2>3 DEF serverVars
  <2>5. TableLife'
    BY <1>i, <2>1, <2>4 DEF TableLife
  <2>6. InsertedFound'
    BY <1>i, <2>1 DEF InsertedFound, Ended
  <2>7. \A l \in Legs : ~(lpc[l] \in {"join", "up"} /\ ~hup[l])
    BY <1>j, <2>1
  <2>8. JoinedServed'
    BY <2>1, <2>7 DEF JoinedServed
  <2> QED
    BY <2>4, <2>5, <2>6, <2>8 DEF ServedInv
<1>7. CASE NewSession(t)
  <2>1. PICK s \in Sessions : \E r \in Reply : CreateSuccess(t, r, s) /\ UNCHANGED legVars
    BY <1>7 DEF NewSession
  <2>2. /\ tpc[t] = "create" /\ Goto(t, "insert") /\ localId' = [localId EXCEPT ![t] = s]
        /\ UNCHANGED <<flags, serverIdLookup>> /\ UNCHANGED legVars
        /\ s \notin serverIdLookup
    BY <2>1 DEF CreateSuccess
  <2>3. localId'[t] = s /\ (\A u \in Threads : u # t => localId'[u] = localId[u])
    BY <1>t, <2>2 DEF TypeOK
  <2>4. localId[t] = NoId /\ serverIdLookup = {}
    BY <1>i, <1>l, <1>n, <2>2 DEF SessionAt
  <2>5. LoneThread' /\ SessionAt' /\ tpc'[t] = "insert"
        /\ \A u \in Threads : u # t => tpc'[u] = "none"
    BY <1>1, <2>2, <2>3, <2>4
  <2>6. TableLife'
    BY <1>i, <2>2, <2>5 DEF TableLife, legVars
  <2>7. InsertedFound'
    BY <1>i, <2>2 DEF InsertedFound, Ended, legVars
  <2>8. \A l \in Legs : ~(lpc[l] \in {"join", "up"} /\ ~hup[l])
    BY <1>j, <2>2, <2>4
  <2>9. JoinedServed'
    BY <2>2, <2>8 DEF JoinedServed, legVars
  <2> QED
    BY <2>5, <2>6, <2>7, <2>9 DEF ServedInv
<1>8. CASE DestroyTable(t)
  <2>1. /\ tpc[t] = "done" /\ Goto(t, "unregister") /\ UNCHANGED <<serverVars, localId>>
        /\ tableUp' = FALSE /\ senderIdLookup' = {}
        /\ UNCHANGED <<lpc, legServerId, hup, todo>>
    BY <1>8 DEF DestroyTable, ThreadDone
  <2>2. localId[t] = NoId /\ serverIdLookup = {}
    BY <1>i, <1>l, <1>n, <2>1 DEF SessionAt
  <2>3. LoneThread' /\ SessionAt' /\ tpc'[t] = "unregister"
        /\ \A u \in Threads : u # t => tpc'[u] = "none"
    BY <1>1, <2>1, <2>2 DEF serverVars
  <2>4. TableLife'
    BY <2>1 DEF TableLife
  <2>5. InsertedFound'
    BY <2>3 DEF InsertedFound, Ended
  <2>6. \A l \in Legs : ~(lpc[l] \in {"join", "up"} /\ ~hup[l])
    BY <1>j, <2>1, <2>2
  <2>7. JoinedServed'
    BY <2>1, <2>6 DEF JoinedServed
  <2> QED
    BY <2>3, <2>4, <2>5, <2>7 DEF ServedInv
\* The other steps of the thread do nothing to the legs.
<1>o. ASSUME NEW pc, Goto(t, pc), tpc[t] # "none", pc \notin {"none", "start", "drain"},
             flags' \subseteq flags \cup {"EVICTED"}, localId' = localId,
             pc \in {"create", "done", "unregister", "evict", "exit"} => localId[t] = NoId,
             pc \in {"loop", "claim", "insert", "reset"} => localId[t] \notin serverIdLookup',
             serverIdLookup' \subseteq {localId[t]}, tpc[t] \in Ended => pc \in Ended,
             UNCHANGED legVars
      PROVE  ServedInv'
  <2>1. LoneThread' /\ SessionAt'
    BY <1>1, <1>o
  <2> QED
    BY <1>2, <1>o, <2>1
<1>9. CASE OtherThreadStep(t)
  <2>l. UNCHANGED legVars
    BY <1>9 DEF OtherThreadStep
  <2>1. CASE OuterLoop(t)
    <3>1. PICK pc \in {"claim", "create"} : Goto(t, pc) /\ (pc = "create" => localId[t] = NoId)
      BY <1>i, <2>1 DEF OuterLoop, LoneThread
    <3>2. localId[t] \notin serverIdLookup
      BY <1>i, <2>1 DEF OuterLoop, SessionAt
    <3> QED
      BY <1>o, <1>l, <2>1, <2>l, <3>1, <3>2 DEF OuterLoop, serverVars, Ended
  <2>2. CASE \E r \in Reply : ClaimSockErr(t, r)
    BY <1>o, <1>l, <2>2, <2>l DEF ClaimSockErr, serverVars, Ended
  <2>3. CASE \E r \in Reply : ClaimSuccess(t, r)
    <3>1. localId[t] \notin serverIdLookup
      BY <1>i, <2>3 DEF ClaimSuccess, SessionAt
    <3> QED
      BY <1>o, <1>l, <2>3, <2>l, <3>1 DEF ClaimSuccess, Ended
  <2>4. CASE \E r \in Reply : CreateFailed(t, r)
    <3>1. PICK pc \in {"inner", "done"} : Goto(t, pc) /\ flags' \subseteq flags \cup {"EVICTED"}
      BY <2>4, Zenon DEF CreateFailed
    <3>2. tpc[t] = "create" /\ UNCHANGED <<serverIdLookup, localId>>
      BY <2>4, Zenon DEF CreateFailed
    <3>3. localId[t] = NoId
      BY <1>i, <3>2 DEF SessionAt
    <3> QED
      BY <1>o, <1>l, <2>l, <3>1, <3>2, <3>3 DEF Ended
  <2>5. CASE InsertSuccess(t)
    BY <1>o, <1>l, <2>5, <2>l DEF InsertSuccess, Ended
  <2>6. ~InsertFailed(t)
    BY DEF InsertFailed, Undisturbed
  <2>7. CASE InnerLoop(t)
    <3>1. PICK pc \in {"loop", "poll"} : Goto(t, pc) /\ (pc = "loop" => localId[t] \notin serverIdLookup)
      BY <1>i, <2>7 DEF InnerLoop, LoneThread
    <3> QED
      BY <1>o, <1>l, <2>7, <2>l, <3>1 DEF InnerLoop, serverVars, Ended
  <2>8. CASE PollSuccess(t)
    BY <1>o, <1>l, <2>8, <2>l DEF PollSuccess, serverVars, Ended
  <2>9. CASE PollFailed(t)
    BY <1>o, <1>l, <2>9, <2>l DEF PollFailed, Ended
  <2>10. CASE ResetServerId(t)
    BY <1>o, <1>l, <2>10, <2>l DEF ResetServerId, Ended
  <2>11. CASE Unregister(t)
    <3>1. localId[t] = NoId
      BY <1>i, <2>11 DEF Unregister, SessionAt
    <3> QED
      BY <1>o, <1>l, <2>11, <2>l, <3>1 DEF Unregister, Ended
  <2>12. CASE ThreadExit(t)
    <3>1. tpc[t] = "evict" /\ Goto(t, "exit") /\ localId[t] = NoId /\ localId' = localId
      BY <1>i, <1>t, <2>12 DEF ThreadExit, SessionAt, TypeOK
    <3>2. flags' \subseteq flags /\ serverIdLookup' \subseteq serverIdLookup
      BY <2>12 DEF ThreadExit, RemoveFromLookup
    <3> QED
      BY <1>o, <1>l, <2>l, <3>1, <3>2 DEF Ended
  <2> QED
    BY <1>9, <2>1, <2>2, <2>3, <2>4, <2>5, <2>6, <2>7, <2>8, <2>9, <2>10, <2>11, <2>12
       DEF OtherThreadStep
<1>10. ASSUME NEW l \in Legs, JanusHangup(t, l) PROVE ServedInv'
  <2>1. UNCHANGED <<tpc, localId, flags, serverIdLookup, lpc, legServerId,
                    senderIdLookup, tableUp, todo>>
    BY <1>10 DEF JanusHangup, threadVars, serverVars
  <2>2. \A m \in Legs : ~hup'[m] => ~hup[m]
    <3>1. CASE lpc[l] = "dead"
      BY <1>10, <3>1 DEF JanusHangup
    <3>2. CASE lpc[l] # "dead"
      BY <1>10, <1>t, <3>2 DEF JanusHangup, LegTypes
    <3> QED
      BY <3>1, <3>2
  <2> QED
    BY <1>i, <2>1, <2>2 DEF ServedInv, LoneThread, SessionAt, TableLife, InsertedFound,
         JoinedServed
<1> QED
  BY <1>3, <1>4, <1>5, <1>6, <1>7, <1>8, <1>9, <1>10 DEF ServerStep

\* The legs and the thread of a server that nobody disables keep the relation.
LEMMA ServedStep == Undisturbed => (LegsInv /\ ServedInv /\ [CallNext]_callVars => ServedInv')
<1> SUFFICES ASSUME Undisturbed, LegsInv, ServedInv, [CallNext]_callVars PROVE ServedInv'
  OBVIOUS
<1>1. CASE \E t \in Threads : ServerStep(t) \/ (\E l \in Legs : JanusHangup(t, l))
  BY <1>1, ThreadServed
<1>2. CASE \E l \in Legs : LegStep(l) \/ DialFind(l) \/ CallerHangup(l) \/ Transfer(l)
  BY <1>2, LegServed
<1>3. CASE UNCHANGED callVars
  BY <1>3 DEF callVars, threadVars, serverVars, legVars, ServedInv, LoneThread, SessionAt,
       TableLife, InsertedFound, JoinedServed
<1> QED
  BY <1>1, <1>2, <1>3 DEF CallNext, Undisturbed

\* While nobody disables the server and no insertion fails: a leg in its call
\* that was not hung up can be found by the thread, and is of the session that
\* the thread keeps, however the session is lost, claimed, refused and
\* replaced, and wherever the legs were at that time.  The server may be
\* configured or a pod of the registry.
THEOREM LegsServed == Undisturbed => (CallSpec => []LegOfServedSession)
<1> SUFFICES ASSUME Undisturbed PROVE CallSpec => []LegOfServedSession
  OBVIOUS
<1>1. CallInit => ServedInv
  <2> SUFFICES ASSUME CallInit PROVE ServedInv
    OBVIOUS
  <2>1. LoneThread
    BY DEF CallInit, ThreadInit, LoneThread
  <2>2. SessionAt
    BY DEF CallInit, ThreadInit, SessionAt
  <2>3. TableLife /\ InsertedFound /\ JoinedServed
    BY DEF CallInit, TableLife, InsertedFound, JoinedServed
  <2> QED
    BY <2>1, <2>2, <2>3 DEF ServedInv
<1>2. ServedInv => LegOfServedSession
  BY DEF ServedInv, SessionAt, JoinedServed, LegOfServedSession, LiveThreads
<1>3. LegsInv /\ ServedInv /\ [CallNext]_callVars => ServedInv'
  BY ServedStep
<1> QED
  BY <1>1, <1>2, <1>3, CallsLegsInv, PTL DEF CallSpec
===============================================================================
