-------------------------- MODULE WsTransportProofs --------------------------
(***************************************************************************)
(* Proofs about WsTransport, for any number of legs, connections,           *)
(* transactions and events.                                                 *)
(*                                                                         *)
(* None of SerialRequests and OvertakenOnlyNested is inductive.  WsInv adds *)
(* what janus_ws.c relies on:                                               *)
(*   - Connections: a thread that waits read a real ctx pointer, and the    *)
(*     pointer of the server thread is never stale, because only the server *)
(*     thread opens and closes;                                             *)
(*   - Unconnected: without a connection nothing is queued, and the server   *)
(*     thread is at the head of its loop;                                   *)
(*   - MutexHeld: who holds io_mutex, how deep, and where in its code;      *)
(*   - OwnReply: a reply that was kept is the one to the request in flight; *)
(*   - EventQueues: an event is in one of the three queues only, and each   *)
(*     queue, and the queues after each other, are in the order of arrival; *)
(*   - OvertakenQueued: an event still deferred that was overtaken was      *)
(*     deferred by the request of a handler.                                *)
(***************************************************************************)
EXTENDS WsTransport, SequenceTheorems, TLAPS

Pumping == spc \in {"flush", "flushed", "drain", "drained"}
Flushing == spc \in {"flush", "flushed"}

Connections ==
  /\ handle <= opens
  /\ \A t \in Requesters :
       /\ rctx[t] <= opens
       /\ rpc[t] = "wait" => rctx[t] # 0
       /\ rpc[t] # "idle" => txn[t] # 0
  /\ rpc[Server] # "idle" =>
       rctx[Server] = handle /\ spc \in {"registered", "slice", "flush", "drain"}

Unconnected == handle = 0 => spc = "loop" /\ sock = NoSocket /\ ctx = NewContext

\* The pump and a request of the server thread each hold io_mutex once.
ServerDepth ==
  IF rpc[Server] = "wait" THEN (IF Pumping THEN 2 ELSE 1)
                          ELSE (IF Pumping THEN 1 ELSE 0)

MutexHeld ==
  /\ ctx.owner = NoThread => ctx.depth = 0
  /\ ctx.owner # NoThread => ctx.depth # 0
  /\ ctx.owner = Server => ctx.depth = ServerDepth
  /\ ctx.owner \in Legs =>
       ctx.depth = 1 /\ rpc[ctx.owner] = "wait" /\ rctx[ctx.owner] = handle
  /\ Pumping => ctx.owner = Server

OwnReply == ctx.rpc_result # NoFrame => ctx.rpc_result.txn = ctx.rpc_txn

\* The events of a queue are in the order of their numbers.
InOrder(q) ==
  \A i, j \in DOMAIN q :
    i < j /\ q[i].type = "event" /\ q[j].type = "event" => q[i].id < q[j].id

Before(S, T) == \A x \in S, y \in T : x < y

EventQueues ==
  /\ InOrder(sock.inbox) /\ InOrder(ctx.deferred) /\ InOrder(flushing)
  /\ Queued \subseteq 1 .. events
  /\ Range(handled) \subseteq 1 .. events
  /\ Before(EventsIn(flushing), EventsIn(ctx.deferred))
  /\ Before(EventsIn(flushing), EventsIn(sock.inbox))
  /\ Before(EventsIn(ctx.deferred), EventsIn(sock.inbox))
  /\ Before(Range(handled), EventsIn(sock.inbox))
  /\ ~Flushing => flushing = <<>>

OvertakenQueued ==
  /\ Pumping => EventsIn(ctx.deferred) \subseteq nested
  /\ \A e \in EventsIn(flushing) \cup EventsIn(ctx.deferred) :
       e \in nested \/ \A h \in Range(handled) : h <= e

WsInv ==
  /\ WsTypeOK
  /\ Connections
  /\ Unconnected
  /\ MutexHeld
  /\ SerialRequests
  /\ OwnReply
  /\ EventQueues
  /\ OvertakenQueued
  /\ OvertakenOnlyNested

-----------------------------------------------------------------------------
(***************************************************************************)
(* The queues.                                                              *)
(***************************************************************************)

\* The event that a frame is, if it is one.
EventOf(f) == IF f.type = "event" THEN {f.id} ELSE {}

\* An empty queue (a ctx or a list just made) has no events.
LEMMA EmptyQueue == EventsIn(<<>>) = {} /\ InOrder(<<>>)
  BY DEF EventsIn, Range, InOrder

\* janus_ws_defer_event and the network put a frame at the end of a queue.
LEMMA AppendQueue ==
  ASSUME NEW q \in Seq(Frames), NEW f \in Frames
  PROVE  /\ Append(q, f) \in Seq(Frames)
         /\ EventsIn(Append(q, f)) = EventsIn(q) \cup EventOf(f)
         /\ InOrder(q) /\ Before(EventsIn(q), EventOf(f)) => InOrder(Append(q, f))
<1> DEFINE p == Append(q, f)
<1>1. /\ p \in Seq(Frames)
      /\ DOMAIN q = 1 .. Len(q) /\ DOMAIN p = 1 .. Len(q) + 1 /\ Len(q) \in Nat
      /\ \A i \in 1 .. Len(q) : p[i] = q[i]
      /\ p[Len(q) + 1] = f
  BY AppendProperties, LenProperties
<1> HIDE DEF p
<1>2. ASSUME NEW x PROVE x \in EventsIn(p) <=> x \in EventsIn(q) \cup EventOf(f)
  <2>1. x \in EventsIn(p) <=> \E i \in 1 .. Len(q) + 1 : p[i].type = "event" /\ x = p[i].id
    BY <1>1 DEF EventsIn, Range
  <2>2. x \in EventsIn(q) <=> \E i \in 1 .. Len(q) : q[i].type = "event" /\ x = q[i].id
    BY <1>1 DEF EventsIn, Range
  <2>3. x \in EventOf(f) <=> f.type = "event" /\ x = f.id
    BY DEF EventOf
  <2> QED
    BY <1>1, <2>1, <2>2, <2>3
<1>3. ASSUME InOrder(q), Before(EventsIn(q), EventOf(f)) PROVE InOrder(p)
  <2> SUFFICES ASSUME NEW i \in 1 .. Len(q) + 1, NEW j \in 1 .. Len(q) + 1, i < j,
                      p[i].type = "event", p[j].type = "event"
               PROVE  p[i].id < p[j].id
    BY <1>1 DEF InOrder
  <2>1. i \in 1 .. Len(q) /\ p[i] = q[i]
    BY <1>1
  <2>2. CASE j \in 1 .. Len(q)
    BY <1>1, <1>3, <2>1, <2>2 DEF InOrder
  <2>3. CASE j = Len(q) + 1
    <3>1. q[i].id \in EventsIn(q)
      BY <1>1, <2>1 DEF EventsIn, Range
    <3>2. f.id \in EventOf(f) /\ p[j] = f
      BY <1>1, <2>3 DEF EventOf
    <3> QED
      BY <1>3, <2>1, <3>1, <3>2 DEF Before
  <2> QED
    BY <1>1, <2>2, <2>3
<1>4. EventsIn(p) = EventsIn(q) \cup EventOf(f)
  BY <1>2
<1> QED
  BY <1>1, <1>3, <1>4 DEF p

\* A frame is taken from the head of a queue.
LEMMA TailQueue ==
  ASSUME NEW q \in Seq(Frames), q # <<>>, InOrder(q)
  PROVE  /\ Head(q) \in Frames
         /\ Tail(q) \in Seq(Frames)
         /\ EventsIn(q) = EventOf(Head(q)) \cup EventsIn(Tail(q))
         /\ InOrder(Tail(q))
         /\ Before(EventOf(Head(q)), EventsIn(Tail(q)))
<1> DEFINE p == Tail(q)
<1>1. /\ Head(q) = q[1] /\ Head(q) \in Frames
      /\ Len(q) \in Nat \ {0} /\ DOMAIN q = 1 .. Len(q)
      /\ p \in Seq(Frames) /\ Len(p) = Len(q) - 1 /\ DOMAIN p = 1 .. Len(p)
      /\ \A i \in 1 .. Len(p) : p[i] = q[i + 1]
  BY HeadTailProperties, LenProperties, EmptySeq
<1> HIDE DEF p
<1>2. ASSUME NEW x PROVE x \in EventsIn(q) <=> x \in EventOf(q[1]) \cup EventsIn(p)
  <2>1. x \in EventsIn(p) <=> \E i \in 1 .. Len(p) : p[i].type = "event" /\ x = p[i].id
    BY <1>1 DEF EventsIn, Range
  <2>2. x \in EventsIn(q) <=> \E i \in 1 .. Len(q) : q[i].type = "event" /\ x = q[i].id
    BY <1>1 DEF EventsIn, Range
  <2>3. x \in EventOf(q[1]) <=> q[1].type = "event" /\ x = q[1].id
    BY DEF EventOf
  <2>4. \A j \in 1 .. Len(q) : j = 1 \/ (j - 1 \in 1 .. Len(p) /\ p[j - 1] = q[j])
    BY <1>1
  <2>5. \A i \in 1 .. Len(p) : i + 1 \in 1 .. Len(q)
    BY <1>1
  <2> QED
    BY <1>1, <2>1, <2>2, <2>3, <2>4, <2>5
<1>3. InOrder(p)
  <2> SUFFICES ASSUME NEW i \in 1 .. Len(p), NEW j \in 1 .. Len(p), i < j,
                      p[i].type = "event", p[j].type = "event"
               PROVE  p[i].id < p[j].id
    BY <1>1 DEF InOrder
  <2>1. i + 1 \in DOMAIN q /\ j + 1 \in DOMAIN q /\ i + 1 < j + 1
    BY <1>1
  <2> QED
    BY <1>1, <2>1 DEF InOrder
<1>4. Before(EventOf(q[1]), EventsIn(p))
  <2> SUFFICES ASSUME q[1].type = "event", NEW i \in 1 .. Len(p), p[i].type = "event"
               PROVE  q[1].id < p[i].id
    BY <1>1 DEF Before, EventOf, EventsIn, Range
  <2>1. 1 \in DOMAIN q /\ i + 1 \in DOMAIN q /\ 1 < i + 1
    BY <1>1
  <2> QED
    BY <1>1, <2>1 DEF InOrder
<1>5. EventsIn(q) = EventOf(q[1]) \cup EventsIn(p)
  BY <1>2
<1> QED
  BY <1>1, <1>3, <1>4, <1>5 DEF p

\* The history of dispatched events grows by one.
LEMMA AppendHandled ==
  ASSUME WsTypeOK, NEW e \in 1 .. MaxEvents
  PROVE  /\ Append(handled, e) \in Seq(1 .. MaxEvents)
         /\ handled' = Append(handled, e) => Range(handled') = Range(handled) \cup {e}
<1>1. handled \in Seq(1 .. MaxEvents)
  BY DEF WsTypeOK
<1>2. Append(handled, e) \in Seq(1 .. MaxEvents)
  BY <1>1, AppendProperties
<1>3. /\ DOMAIN handled = 1 .. Len(handled) /\ Len(handled) \in Nat
      /\ DOMAIN Append(handled, e) = 1 .. Len(handled) + 1
      /\ \A i \in 1 .. Len(handled) : Append(handled, e)[i] = handled[i]
      /\ Append(handled, e)[Len(handled) + 1] = e
  BY <1>1, <1>2, AppendProperties, LenProperties
<1>4. ASSUME handled' = Append(handled, e) PROVE Range(handled') = Range(handled) \cup {e}
  <2>1. /\ DOMAIN handled' = 1 .. Len(handled) + 1
        /\ \A i \in 1 .. Len(handled) : handled'[i] = handled[i]
        /\ handled'[Len(handled) + 1] = e
    BY <1>3, <1>4
  <2> QED
    BY <1>3, <2>1 DEF Range
<1> QED
  BY <1>2, <1>4

-----------------------------------------------------------------------------
(***************************************************************************)
(* The types.                                                               *)
(***************************************************************************)
\* What an assignment to one field of the socket or of the ctx does.
LEMMA RecordFields ==
  /\ \A s \in Sockets :
       /\ \A v \in BOOLEAN : [s EXCEPT !.up = v] \in Sockets
       /\ \A v \in Seq(Frames) : [s EXCEPT !.inbox = v] \in Sockets
       /\ \A v \in SUBSET Nat : [s EXCEPT !.asked = v] \in Sockets
  /\ \A c \in Contexts :
       /\ \A v \in Requesters \cup {NoThread} : [c EXCEPT !.owner = v] \in Contexts
       /\ \A v \in 0 .. 2 : [c EXCEPT !.depth = v] \in Contexts
       /\ \A v \in Nat : [c EXCEPT !.rpc_txn = v] \in Contexts
       /\ \A v \in Frames \cup {NoFrame} : [c EXCEPT !.rpc_result = v] \in Contexts
       /\ \A v \in Seq(Frames) : [c EXCEPT !.deferred = v] \in Contexts
  /\ NewSocket \in Sockets /\ NoSocket \in Sockets
  /\ NewContext \in Contexts
<1>1. <<>> \in Seq(Frames)
  BY EmptySeq
<1>2. NewSocket \in Sockets /\ NoSocket \in Sockets
  BY <1>1 DEF Sockets, NewSocket, NoSocket
<1>3. NewContext \in Contexts
  BY <1>1 DEF Contexts, NewContext
<1>4. ASSUME NEW s \in Sockets
      PROVE  /\ \A v \in BOOLEAN : [s EXCEPT !.up = v] \in Sockets
             /\ \A v \in Seq(Frames) : [s EXCEPT !.inbox = v] \in Sockets
             /\ \A v \in SUBSET Nat : [s EXCEPT !.asked = v] \in Sockets
  BY DEF Sockets
<1>5. ASSUME NEW c \in Contexts
      PROVE  /\ \A v \in Requesters \cup {NoThread} : [c EXCEPT !.owner = v] \in Contexts
             /\ \A v \in 0 .. 2 : [c EXCEPT !.depth = v] \in Contexts
             /\ \A v \in Nat : [c EXCEPT !.rpc_txn = v] \in Contexts
             /\ \A v \in Frames \cup {NoFrame} : [c EXCEPT !.rpc_result = v] \in Contexts
             /\ \A v \in Seq(Frames) : [c EXCEPT !.deferred = v] \in Contexts
  BY DEF Contexts
<1> QED
  BY <1>2, <1>3, <1>4, <1>5

\* switch_mutex_lock and switch_mutex_unlock on io_mutex, and what is stored
\* in the ctx with them.
LEMMA MutexFields ==
  ASSUME NEW c \in Contexts
  PROVE  /\ \A t \in Requesters : c.depth # 2 =>
              /\ Locked(c, t) \in Contexts
              /\ Locked(c, t).owner = t /\ Locked(c, t).depth = c.depth + 1
              /\ Locked(c, t).rpc_txn = c.rpc_txn
              /\ Locked(c, t).rpc_result = c.rpc_result
              /\ Locked(c, t).deferred = c.deferred
         /\ c.depth # 0 =>
              /\ Unlocked(c) \in Contexts
              /\ Unlocked(c).owner = IF c.depth = 1 THEN NoThread ELSE c.owner
              /\ Unlocked(c).depth = c.depth - 1
              /\ Unlocked(c).rpc_txn = c.rpc_txn
              /\ Unlocked(c).rpc_result = c.rpc_result
              /\ Unlocked(c).deferred = c.deferred
<1>1. c.depth \in 0 .. 2 /\ c.owner \in Requesters \cup {NoThread}
  BY DEF Contexts
<1>2. ASSUME NEW t \in Requesters, c.depth # 2
      PROVE  /\ Locked(c, t) \in Contexts
             /\ Locked(c, t).owner = t /\ Locked(c, t).depth = c.depth + 1
             /\ Locked(c, t).rpc_txn = c.rpc_txn
             /\ Locked(c, t).rpc_result = c.rpc_result
             /\ Locked(c, t).deferred = c.deferred
  <2>1. c.depth + 1 \in 0 .. 2
    BY <1>1, <1>2
  <2>2. Locked(c, t) = [[c EXCEPT !.owner = t] EXCEPT !.depth = c.depth + 1]
    BY DEF Contexts, Locked
  <2> QED
    BY <2>1, <2>2 DEF Contexts
<1>3. ASSUME c.depth # 0
      PROVE  /\ Unlocked(c) \in Contexts
             /\ Unlocked(c).owner = IF c.depth = 1 THEN NoThread ELSE c.owner
             /\ Unlocked(c).depth = c.depth - 1
             /\ Unlocked(c).rpc_txn = c.rpc_txn
             /\ Unlocked(c).rpc_result = c.rpc_result
             /\ Unlocked(c).deferred = c.deferred
  <2> DEFINE o == IF c.depth = 1 THEN NoThread ELSE c.owner
  <2>1. c.depth - 1 \in 0 .. 2 /\ o \in Requesters \cup {NoThread}
    BY <1>1, <1>3
  <2>2. Unlocked(c) = [[c EXCEPT !.owner = o] EXCEPT !.depth = c.depth - 1]
    BY DEF Contexts, Unlocked
  <2> HIDE DEF o
  <2>3. /\ Unlocked(c) \in Contexts
        /\ Unlocked(c).owner = o
        /\ Unlocked(c).depth = c.depth - 1
        /\ Unlocked(c).rpc_txn = c.rpc_txn
        /\ Unlocked(c).rpc_result = c.rpc_result
        /\ Unlocked(c).deferred = c.deferred
    BY <2>1, <2>2 DEF Contexts
  <2> QED
    BY <2>3 DEF o
<1> QED
  BY <1>2, <1>3

\* A transaction that is taken is a number that nobody else has.
LEMMA UnusedTxn ==
  ASSUME WsTypeOK, NEW t \in Requesters, Call(t)
  PROVE  /\ txn'[t] \in Nat \ {0}
         /\ txn'[t] \notin Range(txn)
         /\ txn' = [txn EXCEPT ![t] = txn'[t]]
<1>1. (CHOOSE n \in Unused : TRUE) \in Unused
  BY DEF Call
<1>2. txn'[t] = CHOOSE n \in Unused : TRUE
  BY DEF Call, WsTypeOK
<1> QED
  <2>1. txn'[t] \in (1 .. MaxTxns) \ Range(txn)
    BY <1>1, <1>2 DEF Unused
  <2>2. txn' = [txn EXCEPT ![t] = txn'[t]]
    BY <1>2 DEF Call
  <2> QED
    BY <2>1, <2>2, WsAssumption

\* The server thread starts without a socket.
LEMMA WsInitInv == WsInit => WsInv
<1> SUFFICES ASSUME WsInit PROVE WsInv
  OBVIOUS
<1> USE WsAssumption
<1>1. WsTypeOK
  <2>1. sock \in Sockets /\ ctx \in Contexts
    BY RecordFields DEF WsInit
  <2>2. flushing \in Seq(Frames) /\ handled \in Seq(1 .. MaxEvents)
    BY EmptySeq DEF WsInit
  <2>3. answer \in [Requesters -> Frames \cup {NoFrame}]
    BY DEF WsInit
  <2>4. session \in BOOLEAN /\ found \subseteq Legs /\ crashed \in BOOLEAN /\ spc \in ServerPc
    BY DEF WsInit, ServerPc
  <2>5. /\ handle \in 0 .. MaxOpens /\ opens \in 0 .. MaxOpens
        /\ events \in 0 .. MaxEvents /\ nested \in SUBSET (1 .. MaxEvents)
        /\ rpc \in [Requesters -> {"idle", "lock", "wait"}]
        /\ rctx \in [Requesters -> 0 .. MaxOpens]
        /\ txn \in [Requesters -> Nat]
    BY DEF WsInit
  <2> QED
    BY <2>1, <2>2, <2>3, <2>4, <2>5 DEF WsTypeOK
<1>c. Unconnected
  BY DEF WsInit, Unconnected
<1> USE DEF WsInit, NewSocket, NoSocket, NewContext
<1>2. Connections
  BY DEF Connections, Requesters
<1>3. MutexHeld
  BY DEF MutexHeld, Pumping, Requesters
<1>4. SerialRequests /\ OwnReply /\ OvertakenOnlyNested
  BY DEF SerialRequests, OwnReply, OvertakenOnlyNested
<1>5. EventQueues /\ OvertakenQueued
  BY EmptyQueue DEF EventQueues, OvertakenQueued, Queued, Pumping, Flushing, Before, Range
<1> QED
  BY <1>1, <1>c, <1>2, <1>3, <1>4, <1>5 DEF WsInv

-----------------------------------------------------------------------------
(***************************************************************************)
(* What the steps do to the socket and to the ctx, field by field.          *)
(***************************************************************************)
\* The types of the fields, which the lemmas below cite.
LEMMA FieldTypes ==
  ASSUME WsTypeOK
  PROVE  /\ sock \in Sockets /\ ctx \in Contexts
         /\ sock.inbox \in Seq(Frames) /\ sock.asked \in SUBSET Nat
         /\ ctx.deferred \in Seq(Frames) /\ flushing \in Seq(Frames)
         /\ ctx.rpc_txn \in Nat /\ ctx.rpc_result \in Frames \cup {NoFrame}
         /\ ctx.depth \in 0 .. 2 /\ ctx.owner \in Requesters \cup {NoThread}
         /\ NoFrame \in Frames \cup {NoFrame} /\ <<>> \in Seq(Frames)
  BY EmptySeq DEF WsTypeOK, Sockets, Contexts

\* A thread that may lock io_mutex holds it at most once; the one that holds
\* it besides is the pump.
LEMMA LockDepth ==
  ASSUME WsInv, NEW t \in Requesters, rpc[t] # "wait", CanLock(t)
  PROVE  /\ ctx.depth = 0 \/ (ctx.depth = 1 /\ t = Server /\ Pumping)
         /\ ctx.depth = 0 <=> ctx.owner = NoThread
  BY FieldTypes, WsAssumption
     DEF WsInv, MutexHeld, ServerDepth, CanLock, Requesters

\* The request becomes the one in flight; nothing is read or deferred.
LEMMA RpcWriteFields ==
  ASSUME WsInv, NEW t \in Requesters, RpcWrite(t)
  PROVE  /\ sock' \in Sockets /\ sock'.inbox = sock.inbox
         /\ ctx' \in Contexts /\ ctx'.owner = t /\ ctx'.depth = ctx.depth + 1
         /\ ctx'.rpc_txn = txn[t] /\ ctx'.rpc_result = NoFrame
         /\ ctx'.deferred = ctx.deferred
<1>t. WsTypeOK /\ txn[t] \in Nat
  BY DEF WsInv, WsTypeOK
<1>1. ctx.depth # 2
  BY LockDepth DEF RpcWrite
<1>2. /\ Locked(ctx, t) \in Contexts /\ Locked(ctx, t).owner = t
      /\ Locked(ctx, t).depth = ctx.depth + 1
      /\ Locked(ctx, t).deferred = ctx.deferred
  BY <1>t, <1>1, FieldTypes, MutexFields
<1> DEFINE c == Locked(ctx, t)
<1>3. c \in Contexts
  BY <1>2
<1>4. ctx' = [c EXCEPT !.rpc_txn = txn[t], !.rpc_result = NoFrame]
  BY DEF RpcWrite
<1> HIDE DEF c
<1>5. ctx' = [[c EXCEPT !.rpc_txn = txn[t]] EXCEPT !.rpc_result = NoFrame]
  BY <1>3, <1>4 DEF Contexts
<1>6. /\ ctx' \in Contexts /\ ctx'.owner = c.owner /\ ctx'.depth = c.depth
      /\ ctx'.rpc_txn = txn[t] /\ ctx'.rpc_result = NoFrame
      /\ ctx'.deferred = c.deferred
  BY <1>t, <1>3, <1>5 DEF Contexts
<1>7. sock' \in Sockets /\ sock'.inbox = sock.inbox
  <2>1. PICK a \in SUBSET Nat : sock' = [sock EXCEPT !.asked = a]
    <3>1. sock.asked \cup {txn[t]} \in SUBSET Nat
      BY <1>t, FieldTypes
    <3> QED
      BY <1>t, <3>1, FieldTypes DEF RpcWrite
  <2> QED
    BY <1>t, <2>1, FieldTypes, RecordFields DEF Sockets
<1> QED
  BY <1>2, <1>6, <1>7 DEF c

\* A frame leaves the socket, as the reply or to the end of the deferred list.
LEMMA RpcReadFields ==
  ASSUME WsInv, NEW t \in Requesters, RpcRead(t)
  PROVE  /\ sock' \in Sockets /\ sock'.inbox = Tail(sock.inbox)
         /\ ctx' \in Contexts /\ ctx'.owner = ctx.owner /\ ctx'.depth = ctx.depth
         /\ ctx'.rpc_txn = ctx.rpc_txn
         /\ \/ /\ janus_ws_match_rpc_reply(Head(sock.inbox))
               /\ ctx'.rpc_result = Head(sock.inbox)
               /\ ctx'.deferred = ctx.deferred
            \/ /\ ctx'.rpc_result = ctx.rpc_result
               /\ ctx'.deferred = Append(ctx.deferred, Head(sock.inbox))
<1>t. WsTypeOK
  BY DEF WsInv
<1>1. Head(sock.inbox) \in Frames /\ Tail(sock.inbox) \in Seq(Frames)
  BY <1>t, FieldTypes, HeadTailProperties DEF RpcRead
<1>2. sock' \in Sockets /\ sock'.inbox = Tail(sock.inbox)
  BY <1>t, <1>1, FieldTypes DEF RpcRead, Sockets
<1>3. CASE janus_ws_match_rpc_reply(Head(sock.inbox))
  <2>1. ctx' = [ctx EXCEPT !.rpc_result = Head(sock.inbox)]
    BY <1>3 DEF RpcRead
  <2> QED
    BY <1>t, <1>1, <1>2, <1>3, <2>1, FieldTypes DEF Contexts
<1>4. CASE ~janus_ws_match_rpc_reply(Head(sock.inbox))
  <2> DEFINE q == Append(ctx.deferred, Head(sock.inbox))
  <2>1. ctx' = [ctx EXCEPT !.deferred = q]
    BY <1>4 DEF RpcRead
  <2>2. q \in Seq(Frames)
    BY <1>t, <1>1, FieldTypes, AppendProperties
  <2> HIDE DEF q
  <2>3. /\ ctx' \in Contexts /\ ctx'.owner = ctx.owner /\ ctx'.depth = ctx.depth
        /\ ctx'.rpc_txn = ctx.rpc_txn /\ ctx'.rpc_result = ctx.rpc_result
        /\ ctx'.deferred = q
    BY <1>t, <2>1, <2>2, FieldTypes DEF Contexts
  <2> QED
    BY <1>2, <2>3 DEF q
<1> QED
  BY <1>3, <1>4

\* A request that returns held io_mutex, and gives it back once.
LEMMA RpcReturnFields ==
  ASSUME WsInv, NEW t \in Requesters, RpcReturn(t)
  PROVE  /\ ctx.owner = t /\ ctx.depth \in 1 .. 2
         /\ ctx' \in Contexts
         /\ ctx'.owner = IF ctx.depth = 1 THEN NoThread ELSE t
         /\ ctx'.depth = ctx.depth - 1
         /\ ctx'.rpc_result = NoFrame /\ ctx'.deferred = ctx.deferred
<1>t. WsTypeOK
  BY DEF WsInv
<1>1. ctx.owner = t /\ ctx.depth \in 1 .. 2
  BY <1>t, FieldTypes, WsAssumption DEF WsInv, SerialRequests, RpcReturn, MutexHeld, Requesters
<1> DEFINE c == Unlocked(ctx)
<1>2. /\ c \in Contexts /\ c.owner = IF ctx.depth = 1 THEN NoThread ELSE t
      /\ c.depth = ctx.depth - 1 /\ c.deferred = ctx.deferred
  BY <1>t, <1>1, FieldTypes, MutexFields
<1>3. ctx' = [c EXCEPT !.rpc_txn = 0, !.rpc_result = NoFrame]
  BY DEF RpcReturn
<1> HIDE DEF c
<1>4. ctx' = [[c EXCEPT !.rpc_txn = 0] EXCEPT !.rpc_result = NoFrame]
  BY <1>2, <1>3 DEF Contexts
<1>5. /\ ctx' \in Contexts /\ ctx'.owner = c.owner /\ ctx'.depth = c.depth
      /\ ctx'.rpc_result = NoFrame /\ ctx'.deferred = c.deferred
  BY <1>2, <1>4 DEF Contexts
<1> QED
  BY <1>1, <1>2, <1>5

\* A slice of the pump starts with io_mutex held once and nothing deferred.
LEMMA PumpSliceFields ==
  ASSUME WsInv, PumpSlice
  PROVE  /\ ctx.owner = NoThread
         /\ ctx' \in Contexts /\ ctx'.owner = Server /\ ctx'.depth = 1
         /\ ctx'.rpc_txn = ctx.rpc_txn /\ ctx'.rpc_result = ctx.rpc_result
         /\ ctx'.deferred = <<>>
<1>t. WsTypeOK /\ Server \in Requesters
  BY DEF WsInv, Requesters
<1>1. ctx.depth = 0 /\ ctx.owner = NoThread
  BY <1>t, LockDepth DEF PumpSlice, At, Pumping
<1> DEFINE c == Locked(ctx, Server)
<1>2. /\ c \in Contexts /\ c.owner = Server /\ c.depth = 1
      /\ c.rpc_txn = ctx.rpc_txn /\ c.rpc_result = ctx.rpc_result
  BY <1>t, <1>1, FieldTypes, MutexFields
<1>3. ctx' = [c EXCEPT !.deferred = <<>>]
  BY DEF PumpSlice
<1> HIDE DEF c
<1> QED
  BY <1>t, <1>1, <1>2, <1>3, FieldTypes DEF Contexts

\* The three ends of a slice: io_mutex was held once, by the server thread
\* that waits for no reply, and is free.
LEMMA ReleaseFields ==
  ASSUME WsInv, PumpQuiet \/ PumpFailed \/ DrainDone
  PROVE  /\ ctx.owner = Server /\ rpc[Server] = "idle"
         /\ ctx' \in Contexts /\ ctx'.owner = NoThread /\ ctx'.depth = 0
         /\ ctx'.rpc_txn = ctx.rpc_txn /\ ctx'.rpc_result = ctx.rpc_result
         /\ ctx'.deferred = ctx.deferred
         /\ flushing = <<>> /\ spc' \in {"pump", "loop"}
<1>t. WsTypeOK
  BY DEF WsInv
<1>1. /\ rpc[Server] = "idle" /\ Pumping /\ flushing = <<>> /\ ctx' = Unlocked(ctx)
      /\ spc' \in {"pump", "loop"}
  BY DEF PumpQuiet, PumpFailed, DrainDone, Waiting, At, Pumping, Flushing, WsInv, EventQueues
<1>2. ctx.owner = Server /\ ctx.depth = 1
  BY <1>1 DEF WsInv, MutexHeld, ServerDepth
<1> QED
  BY <1>t, <1>1, <1>2, FieldTypes, MutexFields

\* The pump takes a frame from the socket.
LEMMA DrainFields ==
  ASSUME WsInv, Drain
  PROVE  /\ sock' \in Sockets /\ sock'.inbox = Tail(sock.inbox)
         /\ ctx' \in Contexts /\ ctx'.owner = ctx.owner /\ ctx'.depth = ctx.depth
         /\ ctx'.rpc_txn = ctx.rpc_txn /\ ctx'.deferred = ctx.deferred
         /\ flushing = <<>> /\ spc' \in {"drain", "drained"}
         /\ \/ /\ janus_ws_match_rpc_reply(Head(sock.inbox))
               /\ ctx'.rpc_result = Head(sock.inbox)
               /\ handled' = handled
            \/ /\ ctx'.rpc_result = ctx.rpc_result
               /\ IF Head(sock.inbox).type = "event"
                    THEN handled' = Append(handled, Head(sock.inbox).id)
                    ELSE handled' = handled
<1>t. WsTypeOK
  BY DEF WsInv
<1>1. Head(sock.inbox) \in Frames /\ Tail(sock.inbox) \in Seq(Frames)
  BY <1>t, FieldTypes, HeadTailProperties DEF Drain
<1>2. sock' \in Sockets /\ sock'.inbox = Tail(sock.inbox)
  BY <1>t, <1>1, FieldTypes DEF Drain, Sockets
<1>3. flushing = <<>>
  BY DEF Drain, At, Waiting, WsInv, EventQueues, Flushing
<1>4. CASE janus_ws_match_rpc_reply(Head(sock.inbox))
  <2>1. /\ ctx' = [ctx EXCEPT !.rpc_result = Head(sock.inbox)]
        /\ spc' = "drain" /\ handled' = handled
    BY <1>4 DEF Drain
  <2> QED
    BY <1>t, <1>1, <1>2, <1>3, <1>4, <2>1, FieldTypes DEF Contexts
<1>5. CASE ~janus_ws_match_rpc_reply(Head(sock.inbox))
  <2>1. ctx' = ctx /\ Dispatch(Head(sock.inbox), "drain", "drained")
    BY <1>5 DEF Drain
  <2> QED
    BY <1>t, <1>2, <1>3, <2>1, FieldTypes DEF Dispatch
<1> QED
  BY <1>4, <1>5

\* A socket that is opened or closed, and its ctx, are empty.
LEMMA FreshFields ==
  ASSUME ServerOpen \/ Close
  PROVE  /\ sock' \in Sockets /\ sock'.inbox = <<>>
         /\ ctx' \in Contexts /\ ctx'.owner = NoThread /\ ctx'.depth = 0
         /\ ctx'.rpc_txn = 0 /\ ctx'.rpc_result = NoFrame /\ ctx'.deferred = <<>>
<1>1. sock' \in Sockets /\ ctx' = NewContext
  BY RecordFields DEF ServerOpen, Close
<1>2. sock'.inbox = <<>>
  BY DEF ServerOpen, Close, NewSocket, NoSocket
<1> QED
  BY <1>1, <1>2, RecordFields DEF NewContext

\* What Janus sends goes to the end of the socket's queue.
LEMMA JanusReplyFields ==
  ASSUME WsTypeOK, NEW n \in Nat, NEW type \in {"success", "error"}, JanusReply(n, type)
  PROVE  /\ Frame(type, n, 0) \in Frames
         /\ sock' \in Sockets /\ sock'.inbox = Append(sock.inbox, Frame(type, n, 0))
<1> DEFINE q == Append(sock.inbox, Frame(type, n, 0))  a == sock.asked \ {n}
<1>1. Frame(type, n, 0) \in Frames
  BY DEF Frame, Frames
<1>2. q \in Seq(Frames) /\ a \in SUBSET Nat /\ sock \in Sockets
  BY <1>1, FieldTypes, AppendProperties
<1>3. sock' = [sock EXCEPT !.asked = a, !.inbox = q]
  BY DEF JanusReply
<1> HIDE DEF q, a
<1>4. sock' \in Sockets /\ sock'.inbox = q
  BY <1>2, <1>3 DEF Sockets
<1> QED
  BY <1>1, <1>4 DEF q

\* The same for an event, which gets the next number.
LEMMA JanusEventFields ==
  ASSUME WsTypeOK, NEW n \in Nat, JanusEvent(n)
  PROVE  /\ Frame("event", n, events + 1) \in Frames
         /\ sock' \in Sockets
         /\ sock'.inbox = Append(sock.inbox, Frame("event", n, events + 1))
<1> DEFINE q == Append(sock.inbox, Frame("event", n, events + 1))
<1>1. Frame("event", n, events + 1) \in Frames
  BY WsAssumption DEF Frame, Frames, WsTypeOK
<1>2. q \in Seq(Frames) /\ sock \in Sockets
  BY <1>1, FieldTypes, AppendProperties
<1>3. sock' = [sock EXCEPT !.inbox = q]
  BY DEF JanusEvent
<1> HIDE DEF q
<1>4. sock' \in Sockets /\ sock'.inbox = q
  BY <1>2, <1>3 DEF Sockets
<1> QED
  BY <1>1, <1>4 DEF q

\* A connection that breaks loses the requests, not what was received.
LEMMA SocketBreaksFields ==
  ASSUME WsTypeOK, SocketBreaks
  PROVE  sock' \in Sockets /\ sock'.inbox = sock.inbox
  BY FieldTypes DEF SocketBreaks, Sockets

-----------------------------------------------------------------------------
\* The number of an event at the head of a queue is that of an event that
\* Janus sent.
LEMMA HeadEvent ==
  ASSUME WsInv, NEW q \in {sock.inbox, ctx.deferred, flushing}, q # <<>>,
         Head(q).type = "event"
  PROVE  Head(q).id \in 1 .. MaxEvents /\ Head(q).id \in 1 .. events
<1>1. q \in Seq(Frames) /\ InOrder(q) /\ events \in 0 .. MaxEvents
  BY FieldTypes DEF WsInv, EventQueues, WsTypeOK
<1>2. Head(q).id \in EventsIn(q)
  BY <1>1, TailQueue DEF EventOf
<1>3. Head(q).id \in 1 .. events
  BY <1>2 DEF WsInv, EventQueues, Queued
<1> QED
  BY <1>1, <1>3, WsAssumption

\* Every step keeps the types: a lock is never deeper than two, and an event
\* that is dispatched is one that was sent.
LEMMA WsTypeStep == WsInv /\ [WsNext \/ WsEnded]_wsVars => WsTypeOK'
<1> SUFFICES ASSUME WsInv, [WsNext \/ WsEnded]_wsVars PROVE WsTypeOK'
  OBVIOUS
<1> USE WsAssumption
<1>t. WsTypeOK
  BY DEF WsInv
<1>q. ctx.rpc_result \in Frames \cup {NoFrame} /\ sock.asked \in SUBSET Nat /\ ctx.rpc_txn \in Nat
  BY <1>t, FieldTypes
<1>c. ASSUME NEW t \in Requesters, Call(t)
      PROVE  /\ txn' \in [Requesters -> Nat] /\ rctx' \in [Requesters -> 0 .. MaxOpens]
             /\ rpc' \in [Requesters -> {"idle", "lock", "wait"}]
             /\ answer' \in [Requesters -> Frames \cup {NoFrame}]
  BY <1>c, <1>t, UnusedTxn DEF Call, WsTypeOK
<1>r. ASSUME NEW t \in Requesters, NEW f \in Frames \cup {NoFrame}, ReturnWith(t, f)
      PROVE  /\ txn' \in [Requesters -> Nat] /\ rctx' \in [Requesters -> 0 .. MaxOpens]
             /\ rpc' \in [Requesters -> {"idle", "lock", "wait"}]
             /\ answer' \in [Requesters -> Frames \cup {NoFrame}]
  BY <1>r, <1>t DEF ReturnWith, WsTypeOK
<1>h. ASSUME NEW e \in 1 .. MaxEvents PROVE Append(handled, e) \in Seq(1 .. MaxEvents)
  BY <1>t, AppendHandled
<1>1. ASSUME NEW t \in Requesters, RpcStep(t) PROVE WsTypeOK'
  <2>1. CASE RpcNoSocket(t)
    BY <1>t, <1>r, <2>1 DEF RpcNoSocket, WsTypeOK
  <2>2. CASE RpcWrite(t)
    BY <1>t, <2>2, RpcWriteFields DEF RpcWrite, WsTypeOK
  <2>3. CASE RpcWriteFailed(t)
    BY <1>t, <1>r, <2>3 DEF RpcWriteFailed, WsTypeOK
  <2>4. CASE RpcRead(t)
    <3>1. nested' \in SUBSET (1 .. MaxEvents)
      <4>1. Head(sock.inbox).type = "event" => Head(sock.inbox).id \in 1 .. MaxEvents
        BY <1>t, <2>4, HeadEvent DEF RpcRead
      <4> QED
        BY <1>t, <2>4, <4>1 DEF RpcRead, WsTypeOK
    <3>2. sock' \in Sockets /\ ctx' \in Contexts
      BY <2>4, RpcReadFields
    <3> QED
      BY <1>t, <2>4, <3>1, <3>2 DEF RpcRead, WsTypeOK
  <2>5. CASE RpcReturn(t)
    BY <1>t, <1>r, <1>q, <2>5, RpcReturnFields DEF RpcReturn, WsTypeOK
  <2>6. CASE RpcFreed(t)
    BY <1>t, <2>6 DEF RpcFreed, WsTypeOK
  <2> QED
    BY <1>1, <2>1, <2>2, <2>3, <2>4, <2>5, <2>6 DEF RpcStep
<1>2. ASSUME NEW l \in Legs, LegFind(l) \/ LegRequest(l) \/ LegDone(l) PROVE WsTypeOK'
  <2>1. CASE LegRequest(l)
    BY <2>1, <1>t, <1>c DEF LegRequest, WsTypeOK, Requesters
  <2>2. CASE LegFind(l) \/ LegDone(l)
    BY <2>2, <1>t DEF LegFind, LegDone, WsTypeOK
  <2> QED
    BY <1>2, <2>1, <2>2
<1>3. ASSUME ServerStep PROVE WsTypeOK'
  <2>1. CASE ServerOpen
    BY <1>t, <2>1, FreshFields DEF ServerOpen, WsTypeOK, ServerPc
  <2>2. CASE ServerRegister \/ PumpKeepalive \/ HandlerRequest
    BY <1>t, <1>c, <2>2 DEF ServerRegister, PumpKeepalive, HandlerRequest,
         AfterHandler, WsTypeOK, Requesters, ServerPc
  <2>3. CASE ServerRegistered \/ InsertFailed \/ ClaimRefused \/ HandlerReturn
    BY <1>t, <2>3 DEF ServerRegistered, InsertFailed, ClaimRefused, HandlerReturn,
         AfterHandler, WsTypeOK, ServerPc
  <2>4. CASE RegisterFailed
    BY <1>t, <2>4, FreshFields DEF RegisterFailed, Close, WsTypeOK, ServerPc
  <2>5. CASE PumpSlice
    BY <1>t, <2>5, FieldTypes, PumpSliceFields DEF PumpSlice, WsTypeOK, ServerPc
  <2>6. CASE Flush
    <3>1. Tail(flushing) \in Seq(Frames)
      BY <1>t, <2>6, HeadTailProperties, FieldTypes DEF Flush
    <3>2. handled' \in Seq(1 .. MaxEvents)
      <4>1. Head(flushing).type = "event" => Head(flushing).id \in 1 .. MaxEvents
        BY <2>6, HeadEvent DEF Flush
      <4> QED
        BY <1>t, <1>h, <2>6, <4>1 DEF Flush, Dispatch, WsTypeOK
    <3>3. spc' \in ServerPc
      BY <2>6 DEF Flush, Dispatch, ServerPc
    <3> QED
      BY <1>t, <2>6, <3>1, <3>2, <3>3 DEF Flush, WsTypeOK
  <2>7. CASE PumpQuiet \/ PumpFailed \/ DrainDone
    BY <1>t, <2>7, ReleaseFields DEF PumpQuiet, PumpFailed, DrainDone, WsTypeOK, ServerPc
  <2>8. CASE Drain
    <3>1. handled' \in Seq(1 .. MaxEvents)
      <4>1. Head(sock.inbox).type = "event" => Head(sock.inbox).id \in 1 .. MaxEvents
        BY <2>8, HeadEvent DEF Drain
      <4>2. handled' = handled \/ (Head(sock.inbox).type = "event"
                                     /\ handled' = Append(handled, Head(sock.inbox).id))
        BY <2>8, DrainFields
      <4> QED
        BY <1>t, <1>h, <4>1, <4>2 DEF WsTypeOK
    <3>2. sock' \in Sockets /\ ctx' \in Contexts /\ spc' \in ServerPc
      BY <2>8, DrainFields DEF ServerPc
    <3> QED
      BY <1>t, <2>8, <3>1, <3>2 DEF Drain, WsTypeOK
  <2> QED
    BY <1>3, <2>1, <2>2, <2>3, <2>4, <2>5, <2>6, <2>7, <2>8 DEF ServerStep
<1>4. ASSUME ServerOpenFailed \/ WsEnded \/ UNCHANGED wsVars PROVE WsTypeOK'
  BY <1>t, <1>4 DEF ServerOpenFailed, WsEnded, WsTypeOK, wsVars
<1>5. ASSUME ServerStop PROVE WsTypeOK'
  <2>1. sock' \in Sockets /\ ctx' \in Contexts
    BY <1>5, FreshFields DEF ServerStop
  <2>2. session' \in BOOLEAN /\ spc' \in ServerPc
    BY <1>5 DEF ServerStop, ServerPc
  <2>3. handle' \in 0 .. MaxOpens
    BY <1>5 DEF ServerStop, Close
  <2> QED
    BY <1>t, <1>5, <2>1, <2>2, <2>3 DEF ServerStop, WsTypeOK
<1>6. ASSUME JanusStep PROVE WsTypeOK'
  <2>1. ASSUME NEW n \in Nat, NEW type \in {"success", "error"}, JanusReply(n, type)
        PROVE  WsTypeOK'
    BY <1>t, <2>1, JanusReplyFields DEF JanusReply, WsTypeOK
  <2>2. ASSUME NEW n \in Nat, JanusEvent(n) PROVE WsTypeOK'
    <3>1. sock' \in Sockets
      BY <1>t, <2>2, JanusEventFields
    <3>2. events' \in 0 .. MaxEvents
      BY <1>t, <2>2 DEF JanusEvent, WsTypeOK
    <3> QED
      BY <1>t, <2>2, <3>1, <3>2 DEF JanusEvent, WsTypeOK
  <2>3. CASE SocketBreaks
    BY <1>t, <2>3, SocketBreaksFields DEF SocketBreaks, WsTypeOK
  <2>4. txn[Server] \in Nat
    BY <1>t DEF WsTypeOK, Requesters
  <2> QED
    BY <1>6, <1>q, <2>1, <2>2, <2>3, <2>4 DEF JanusStep
<1> QED
  BY <1>1, <1>2, <1>3, <1>4, <1>5, <1>6 DEF WsNext

-----------------------------------------------------------------------------
(***************************************************************************)
(* The mutex and the requests.                                              *)
(***************************************************************************)
MutexInv == Connections /\ MutexHeld /\ SerialRequests /\ OwnReply

\* Whatever step is taken, whoever waits for a reply keeps io_mutex, and the
\* request it wrote stays the one in flight.
LEMMA WsMutexStep == WsInv /\ [WsNext \/ WsEnded]_wsVars => MutexInv'
<1> SUFFICES ASSUME WsInv, [WsNext \/ WsEnded]_wsVars PROVE MutexInv'
  OBVIOUS
<1>t. /\ WsTypeOK
      /\ handle \in 0 .. MaxOpens /\ opens \in 0 .. MaxOpens
      /\ rpc \in [Requesters -> {"idle", "lock", "wait"}]
      /\ rctx \in [Requesters -> 0 .. MaxOpens]
      /\ txn \in [Requesters -> Nat]
      /\ ctx.depth \in 0 .. 2 /\ ctx.owner \in Requesters \cup {NoThread}
      /\ Server \in Requesters
  BY FieldTypes DEF WsInv, WsTypeOK, Requesters
<1>m. Connections /\ MutexHeld /\ SerialRequests /\ OwnReply
  BY DEF WsInv
<1> USE WsAssumption
<1> USE DEF Requesters, MutexInv, Connections, MutexHeld, SerialRequests, OwnReply,
            ServerDepth, Pumping
<1>1. ASSUME NEW t \in Requesters, RpcStep(t) PROVE MutexInv'
  <2>1. CASE RpcNoSocket(t)
    BY <1>t, <1>m, <2>1 DEF RpcNoSocket, ReturnWith
  <2>2. CASE RpcWrite(t)
    <3>1. /\ ctx.depth = 0 \/ (ctx.depth = 1 /\ t = Server /\ Pumping)
          /\ ctx.depth = 0 <=> ctx.owner = NoThread
      BY <2>2, LockDepth DEF RpcWrite
    <3>2. /\ ctx'.owner = t /\ ctx'.depth = ctx.depth + 1
          /\ ctx'.rpc_txn = txn[t] /\ ctx'.rpc_result = NoFrame
      BY <2>2, RpcWriteFields
    <3> QED
      BY <1>t, <1>m, <2>2, <3>1, <3>2 DEF RpcWrite
  <2>3. CASE RpcWriteFailed(t)
    BY <1>t, <1>m, <2>3 DEF RpcWriteFailed, ReturnWith
  <2>4. CASE RpcRead(t)
    <3>1. /\ ctx'.owner = ctx.owner /\ ctx'.depth = ctx.depth
          /\ ctx'.rpc_txn = ctx.rpc_txn
          /\ ctx'.rpc_result = ctx.rpc_result \/ ctx'.rpc_result.txn = ctx.rpc_txn
      BY <2>4, RpcReadFields DEF janus_ws_match_rpc_reply
    <3> QED
      BY <1>t, <1>m, <2>4, <3>1 DEF RpcRead
  <2>5. CASE RpcReturn(t)
    <3>1. /\ ctx.owner = t /\ ctx.depth \in 1 .. 2
          /\ ctx'.owner = IF ctx.depth = 1 THEN NoThread ELSE t
          /\ ctx'.depth = ctx.depth - 1
          /\ ctx'.rpc_result = NoFrame
      BY <2>5, RpcReturnFields
    <3> QED
      BY <1>t, <1>m, <2>5, <3>1 DEF RpcReturn, ReturnWith
  <2>6. CASE RpcFreed(t)
    BY <1>t, <1>m, <2>6 DEF RpcFreed
  <2> QED
    BY <1>1, <2>1, <2>2, <2>3, <2>4, <2>5, <2>6 DEF RpcStep
<1>2. ASSUME NEW l \in Legs, LegFind(l) \/ LegRequest(l) \/ LegDone(l) PROVE MutexInv'
  <2>1. CASE LegRequest(l)
    <3>1. txn'[l] # 0 /\ txn' = [txn EXCEPT ![l] = txn'[l]]
      BY <2>1, <1>t, UnusedTxn DEF LegRequest
    <3> QED
      BY <2>1, <1>t, <1>m, <3>1 DEF LegRequest, Call
  <2>2. CASE LegFind(l) \/ LegDone(l)
    BY <2>2, <1>t, <1>m DEF LegFind, LegDone
  <2> QED
    BY <1>2, <2>1, <2>2
<1>3. ASSUME ServerStep PROVE MutexInv'
  <2>1. CASE ServerOpen
    <3>1. /\ ctx'.owner = NoThread /\ ctx'.depth = 0 /\ ctx'.rpc_result = NoFrame
      BY <2>1, FreshFields
    <3> QED
      BY <1>t, <1>m, <2>1, <3>1 DEF ServerOpen, At
  <2>2. CASE ServerRegister \/ PumpKeepalive \/ HandlerRequest
    <3>1. txn'[Server] # 0 /\ txn' = [txn EXCEPT ![Server] = txn'[Server]]
      BY <2>2, <1>t, UnusedTxn DEF ServerRegister, PumpKeepalive, HandlerRequest
    <3> QED
      BY <2>2, <1>t, <1>m, <3>1
         DEF ServerRegister, PumpKeepalive, HandlerRequest, AfterHandler, Call, At
  <2>3. CASE ServerRegistered \/ InsertFailed \/ ClaimRefused \/ HandlerReturn
    BY <1>t, <1>m, <2>3 DEF ServerRegistered, InsertFailed, ClaimRefused, HandlerReturn,
         AfterHandler, At
  <2>4. CASE RegisterFailed
    <3>1. /\ ctx'.owner = NoThread /\ ctx'.depth = 0 /\ ctx'.rpc_result = NoFrame
      BY <2>4, FreshFields DEF RegisterFailed
    <3> QED
      BY <1>t, <1>m, <2>4, <3>1 DEF RegisterFailed, Close, At
  <2>5. CASE PumpSlice
    <3>1. /\ ctx.owner = NoThread /\ ctx'.owner = Server /\ ctx'.depth = 1
          /\ ctx'.rpc_txn = ctx.rpc_txn /\ ctx'.rpc_result = ctx.rpc_result
      BY <2>5, PumpSliceFields
    <3> QED
      BY <1>t, <1>m, <2>5, <3>1 DEF PumpSlice, At
  <2>6. CASE Flush
    BY <1>t, <1>m, <2>6 DEF Flush, Dispatch, At
  <2>7. CASE PumpQuiet \/ PumpFailed \/ DrainDone
    <3>1. /\ ctx.owner = Server /\ rpc[Server] = "idle"
          /\ ctx'.owner = NoThread /\ ctx'.depth = 0
          /\ ctx'.rpc_txn = ctx.rpc_txn /\ ctx'.rpc_result = ctx.rpc_result
          /\ spc' \in {"pump", "loop"}
      BY <2>7, ReleaseFields
    <3>2. UNCHANGED <<handle, opens, rpc, rctx, txn>>
      BY <2>7 DEF PumpQuiet, PumpFailed, DrainDone
    <3> QED
      BY <1>t, <1>m, <3>1, <3>2
  <2>8. CASE Drain
    <3>1. /\ ctx'.owner = ctx.owner /\ ctx'.depth = ctx.depth
          /\ ctx'.rpc_txn = ctx.rpc_txn
          /\ ctx'.rpc_result = ctx.rpc_result \/ ctx'.rpc_result.txn = ctx.rpc_txn
          /\ spc' \in {"drain", "drained"}
      BY <2>8, DrainFields DEF janus_ws_match_rpc_reply
    <3> QED
      BY <1>t, <1>m, <2>8, <3>1 DEF Drain, At, Waiting
  <2> QED
    BY <1>3, <2>1, <2>2, <2>3, <2>4, <2>5, <2>6, <2>7, <2>8 DEF ServerStep
<1>4. ASSUME ServerOpenFailed \/ WsEnded \/ UNCHANGED wsVars PROVE MutexInv'
  BY <1>m, <1>4 DEF ServerOpenFailed, WsEnded, wsVars
<1>5. ASSUME ServerStop PROVE MutexInv'
  <2>1. /\ ctx'.owner = NoThread /\ ctx'.depth = 0 /\ ctx'.rpc_result = NoFrame
    BY <1>5, FreshFields DEF ServerStop
  <2> QED
    BY <1>t, <1>m, <1>5, <2>1 DEF ServerStop, Close, At
<1>6. ASSUME JanusStep PROVE MutexInv'
  <2>1. UNCHANGED <<handle, opens, ctx, spc, rpc, rctx, txn>>
    BY <1>6 DEF JanusStep, JanusReply, JanusEvent, SocketBreaks
  <2> QED
    BY <1>m, <2>1
<1> QED
  BY <1>1, <1>2, <1>3, <1>4, <1>5, <1>6 DEF WsNext

-----------------------------------------------------------------------------
(***************************************************************************)
(* The order of the events.                                                 *)
(***************************************************************************)
OrderInv == EventQueues /\ OvertakenQueued /\ OvertakenOnlyNested

\* api_dispatch_poll_event may be given an event that no later one overtook,
\* or that the request of a handler deferred.
LEMMA HandledInOrder ==
  ASSUME WsTypeOK, OvertakenOnlyNested, NEW e \in 1 .. MaxEvents,
         e \in nested \/ (\A h \in Range(handled) : h <= e),
         handled' = Append(handled, e), nested' = nested
  PROVE  OvertakenOnlyNested'
<1>1. /\ handled \in Seq(1 .. MaxEvents)
      /\ DOMAIN handled = 1 .. Len(handled) /\ Len(handled) \in Nat
      /\ \A i \in 1 .. Len(handled) : handled[i] \in 1 .. MaxEvents
  BY LenProperties DEF WsTypeOK
<1>2. /\ DOMAIN handled' = 1 .. Len(handled) + 1
      /\ \A i \in 1 .. Len(handled) : handled'[i] = handled[i]
      /\ handled'[Len(handled) + 1] = e
  <2>1. DOMAIN Append(handled, e) = 1 .. Len(handled) + 1
    BY <1>1, AppendProperties, LenProperties
  <2>2. /\ \A i \in 1 .. Len(handled) : Append(handled, e)[i] = handled[i]
        /\ Append(handled, e)[Len(handled) + 1] = e
    BY <1>1, AppendProperties
  <2> QED
    BY <2>1, <2>2
<1> SUFFICES ASSUME NEW i \in 1 .. Len(handled) + 1, NEW j \in 1 .. Len(handled) + 1,
                    i < j, handled'[i] > handled'[j]
             PROVE  handled'[j] \in nested
  BY <1>2 DEF OvertakenOnlyNested
<1>3. i \in 1 .. Len(handled) /\ handled'[i] = handled[i]
  BY <1>1, <1>2
<1>4. CASE j \in 1 .. Len(handled)
  BY <1>1, <1>2, <1>3, <1>4 DEF OvertakenOnlyNested
<1>5. CASE j = Len(handled) + 1
  <2>1. handled[i] \in Range(handled)
    BY <1>1, <1>3 DEF Range
  <2> QED
    BY <1>1, <1>2, <1>3, <1>5, <2>1, WsAssumption
<1> QED
  BY <1>1, <1>4, <1>5

\* Most steps touch no queue, and do not enter the pump.
LEMMA QueuesKept ==
  ASSUME OrderInv, sock'.inbox = sock.inbox, ctx'.deferred = ctx.deferred,
         UNCHANGED <<flushing, events, handled, nested>>,
         Pumping' => Pumping, Flushing \/ flushing = <<>> => Flushing' \/ flushing = <<>>
  PROVE  OrderInv'
<1>1. EventQueues'
  BY DEF OrderInv, EventQueues, Queued
<1>2. OvertakenQueued'
  BY DEF OrderInv, OvertakenQueued
<1>3. OvertakenOnlyNested'
  BY DEF OrderInv, OvertakenOnlyNested
<1> QED
  BY <1>1, <1>2, <1>3 DEF OrderInv

\* With a connection that is opened or given up all its events go.
LEMMA QueuesEmptied ==
  ASSUME OrderInv, sock'.inbox = <<>>, ctx'.deferred = <<>>,
         UNCHANGED <<flushing, events, handled, nested>>, ~Flushing, ~Pumping'
  PROVE  OrderInv'
<1>1. EventsIn(sock'.inbox) = {} /\ EventsIn(ctx'.deferred) = {}
      /\ flushing = <<>> /\ EventsIn(flushing) = {}
  BY EmptyQueue DEF OrderInv, EventQueues
<1>2. EventQueues'
  BY <1>1, EmptyQueue DEF OrderInv, EventQueues, Queued, Before
<1>3. OvertakenQueued'
  BY <1>1 DEF OrderInv, OvertakenQueued
<1>4. OvertakenOnlyNested'
  BY DEF OrderInv, OvertakenOnlyNested
<1> QED
  BY <1>2, <1>3, <1>4 DEF OrderInv

\* The parts of the invariant that the steps on the queues use.
LEMMA OrderFacts ==
  ASSUME WsInv
  PROVE  /\ OrderInv /\ WsTypeOK /\ events \in 0 .. MaxEvents
         /\ sock.inbox \in Seq(Frames) /\ InOrder(sock.inbox)
         /\ ctx.deferred \in Seq(Frames) /\ InOrder(ctx.deferred)
         /\ flushing \in Seq(Frames) /\ InOrder(flushing)
         /\ Queued \subseteq 1 .. events /\ Range(handled) \subseteq 1 .. events
         /\ handled \in Seq(1 .. MaxEvents)
  BY FieldTypes DEF WsInv, OrderInv, EventQueues, WsTypeOK

\* janus_ws_drain in a request: a frame goes from the socket to the end of the
\* deferred list.  If the request is a handler's, the event is marked; if not,
\* nothing that came later was dispatched.
LEMMA RpcReadOrder ==
  ASSUME WsInv, NEW t \in Requesters, RpcRead(t)
  PROVE  OrderInv' /\ Queued' = Queued
<1> DEFINE f == Head(sock.inbox)
<1>1. /\ EventsIn(sock.inbox) = EventOf(f) \cup EventsIn(sock'.inbox)
      /\ InOrder(sock'.inbox) /\ Before(EventOf(f), EventsIn(sock'.inbox))
      /\ f \in Frames
  BY OrderFacts, TailQueue, RpcReadFields DEF RpcRead
<1>2. UNCHANGED <<flushing, spc, events, handled>>
  BY DEF RpcRead
<1>3. EventOf(f) \subseteq EventsIn(sock.inbox)
  BY <1>1
<1>4. /\ InOrder(ctx'.deferred)
      /\ \/ EventOf(f) = {} /\ EventsIn(ctx'.deferred) = EventsIn(ctx.deferred)
         \/ EventsIn(ctx'.deferred) = EventsIn(ctx.deferred) \cup EventOf(f)
  <2>1. Before(EventsIn(ctx.deferred), EventOf(f))
    BY <1>3, OrderFacts DEF OrderInv, EventQueues, Before
  <2>2. CASE janus_ws_match_rpc_reply(f) /\ ctx'.deferred = ctx.deferred
    BY <2>2, OrderFacts DEF janus_ws_match_rpc_reply, EventOf
  <2>3. CASE ctx'.deferred = Append(ctx.deferred, f)
    BY <1>1, <2>1, <2>3, OrderFacts, AppendQueue
  <2> QED
    BY <2>2, <2>3, RpcReadFields
<1>5. /\ nested \subseteq nested'
      /\ Pumping => EventOf(f) \subseteq nested' \/ EventsIn(ctx'.deferred) = EventsIn(ctx.deferred)
  <2>1. nested \subseteq nested'
    BY DEF RpcRead
  <2>2. ASSUME Pumping, EventOf(f) # {} PROVE EventOf(f) \subseteq nested'
    <3>1. f.type = "event" /\ EventOf(f) = {f.id}
      BY <2>2 DEF EventOf
    <3>2. t = Server /\ spc \in {"flush", "drain"}
      BY <2>2 DEF WsInv, SerialRequests, MutexHeld, Connections, Pumping, RpcRead, Requesters
    <3>3. ~janus_ws_match_rpc_reply(f)
      BY <3>1 DEF janus_ws_match_rpc_reply
    <3> QED
      BY <3>1, <3>2, <3>3 DEF RpcRead
  <2> QED
    BY <1>4, <2>1, <2>2
<1> HIDE DEF f
<1>6. \A h \in Range(handled), e \in EventOf(f) : h <= e
  BY <1>3, OrderFacts DEF OrderInv, EventQueues, Before, Queued
<1>7. Queued' = Queued
  BY <1>1, <1>2, <1>4 DEF Queued
<1>8. EventQueues'
  <2>1. Before(EventsIn(flushing), EventsIn(ctx'.deferred))
    BY <1>3, <1>4, OrderFacts DEF OrderInv, EventQueues, Before
  <2>2. Before(EventsIn(ctx'.deferred), EventsIn(sock'.inbox))
    BY <1>1, <1>4, OrderFacts DEF OrderInv, EventQueues, Before
  <2>3. /\ Before(EventsIn(flushing), EventsIn(sock'.inbox))
        /\ Before(Range(handled), EventsIn(sock'.inbox))
    BY <1>1, OrderFacts DEF OrderInv, EventQueues, Before
  <2>4. /\ Queued' \subseteq 1 .. events' /\ Range(handled') \subseteq 1 .. events'
        /\ InOrder(flushing') /\ InOrder(sock'.inbox) /\ InOrder(ctx'.deferred)
        /\ ~Flushing' => flushing' = <<>>
    BY <1>1, <1>2, <1>4, <1>7, OrderFacts DEF OrderInv, EventQueues, Flushing
  <2> QED
    BY <1>2, <2>1, <2>2, <2>3, <2>4 DEF EventQueues
<1>9. OvertakenQueued'
  BY <1>2, <1>4, <1>5, <1>6, OrderFacts DEF OrderInv, OvertakenQueued, Pumping
<1>10. OvertakenOnlyNested'
  BY <1>2, <1>5, OrderFacts DEF OrderInv, OvertakenOnlyNested
<1> QED
  BY <1>7, <1>8, <1>9, <1>10 DEF OrderInv

\* janus_ws_flush_deferred takes over the deferred list.
LEMMA PumpSliceOrder ==
  ASSUME WsInv, PumpSlice
  PROVE  OrderInv' /\ Queued' = Queued
<1>1. /\ flushing' = ctx.deferred /\ ctx'.deferred = <<>>
      /\ EventsIn(ctx'.deferred) = {} /\ InOrder(ctx'.deferred)
  BY PumpSliceFields, EmptyQueue DEF PumpSlice
<1>2. flushing = <<>> /\ EventsIn(flushing) = {}
  BY OrderFacts, EmptyQueue DEF PumpSlice, At, OrderInv, EventQueues, Flushing
<1>3. UNCHANGED <<sock, events, handled, nested>> /\ spc' = "flush"
  BY DEF PumpSlice
<1>4. Queued' = Queued
  BY <1>1, <1>2, <1>3 DEF Queued
<1>5. EventQueues'
  BY <1>1, <1>2, <1>3, <1>4, OrderFacts DEF OrderInv, EventQueues, Before, Flushing
<1>6. OvertakenQueued'
  BY <1>1, <1>2, <1>3, OrderFacts DEF OrderInv, OvertakenQueued
<1>7. OvertakenOnlyNested'
  BY <1>3, OrderFacts DEF OrderInv, OvertakenOnlyNested
<1> QED
  BY <1>4, <1>5, <1>6, <1>7 DEF OrderInv

\* janus_ws_flush_deferred dispatches the head of its list.
LEMMA FlushOrder ==
  ASSUME WsInv, Flush
  PROVE  /\ OrderInv'
         /\ Queued' = Queued \ EventOf(Head(flushing))
         /\ EventOf(Head(flushing)) \subseteq Queued
<1> DEFINE f == Head(flushing)
<1>1. /\ EventsIn(flushing) = EventOf(f) \cup EventsIn(flushing')
      /\ InOrder(flushing') /\ Before(EventOf(f), EventsIn(flushing'))
  BY OrderFacts, TailQueue DEF Flush
<1>2. UNCHANGED <<sock, ctx, events, nested>> /\ spc = "flush" /\ spc' \in {"flush", "flushed"}
  BY DEF Flush, Dispatch, At
<1>3. \/ EventOf(f) = {} /\ handled' = handled
      \/ f.id \in 1 .. MaxEvents /\ EventOf(f) = {f.id} /\ handled' = Append(handled, f.id)
  <2>1. f.type = "event" => f.id \in 1 .. MaxEvents
    BY HeadEvent DEF Flush
  <2>2. IF f.type = "event" THEN handled' = Append(handled, f.id) ELSE handled' = handled
    BY DEF Flush, Dispatch
  <2> QED
    BY <2>1, <2>2 DEF EventOf
<1> HIDE DEF f
<1>4. Range(handled') = Range(handled) \cup EventOf(f)
  <2>1. CASE EventOf(f) = {} /\ handled' = handled
    BY <2>1
  <2>2. CASE f.id \in 1 .. MaxEvents /\ EventOf(f) = {f.id} /\ handled' = Append(handled, f.id)
    BY <2>2, AppendHandled, OrderFacts
  <2> QED
    BY <1>3, <2>1, <2>2
<1>5. EventOf(f) \subseteq Queued /\ Queued' = Queued \ EventOf(f)
  <2>1. EventOf(f) \subseteq Queued
    BY <1>1 DEF Queued
  <2>2. \A x \in EventOf(f) : /\ x \notin EventsIn(flushing')
                              /\ x \notin EventsIn(ctx.deferred)
                              /\ x \notin EventsIn(sock.inbox)
    BY <1>1, <2>1, OrderFacts DEF OrderInv, EventQueues, Before
  <2> QED
    BY <1>1, <1>2, <2>1, <2>2 DEF Queued
<1>6. EventQueues'
  <2>1. /\ Before(EventsIn(flushing'), EventsIn(ctx.deferred))
        /\ Before(EventsIn(flushing'), EventsIn(sock.inbox))
        /\ Before(Range(handled'), EventsIn(sock.inbox))
    BY <1>1, <1>4, OrderFacts DEF OrderInv, EventQueues, Before
  <2>2. Range(handled') \subseteq 1 .. events /\ Queued' \subseteq 1 .. events
    BY <1>4, <1>5, OrderFacts
  <2> QED
    BY <1>1, <1>2, <2>1, <2>2, OrderFacts DEF OrderInv, EventQueues, Flushing
<1>7. OvertakenQueued'
  <2>1. \A x \in EventOf(f), y \in EventsIn(flushing') \cup EventsIn(ctx.deferred) : x <= y
    BY <1>1, <1>5, OrderFacts DEF OrderInv, EventQueues, Before, Queued
  <2> QED
    BY <1>1, <1>2, <1>4, <2>1, OrderFacts DEF OrderInv, OvertakenQueued, Pumping
<1>8. OvertakenOnlyNested'
  <2>1. CASE handled' = handled
    BY <1>2, <2>1, OrderFacts DEF OrderInv, OvertakenOnlyNested
  <2>2. CASE f.id \in 1 .. MaxEvents /\ EventOf(f) = {f.id} /\ handled' = Append(handled, f.id)
    <3>1. f.id \in nested \/ (\A h \in Range(handled) : h <= f.id)
      BY <1>1, <2>2, OrderFacts DEF OrderInv, OvertakenQueued
    <3> QED
      BY <1>2, <2>2, <3>1, OrderFacts, HandledInOrder DEF OrderInv
  <2> QED
    BY <1>3, <2>1, <2>2
<1> QED
  BY <1>5, <1>6, <1>7, <1>8 DEF OrderInv, f

\* The pump dispatches what it reads: everything still deferred is overtaken,
\* and was deferred by the requests of handlers since the slice began.
LEMMA DrainOrder ==
  ASSUME WsInv, Drain
  PROVE  /\ OrderInv'
         /\ Queued' = Queued \ EventOf(Head(sock.inbox))
         /\ EventOf(Head(sock.inbox)) \subseteq Queued
<1> DEFINE f == Head(sock.inbox)
<1>1. /\ EventsIn(sock.inbox) = EventOf(f) \cup EventsIn(sock'.inbox)
      /\ InOrder(sock'.inbox) /\ Before(EventOf(f), EventsIn(sock'.inbox))
  BY OrderFacts, TailQueue, DrainFields DEF Drain
<1>2. /\ UNCHANGED <<flushing, events, nested>> /\ ctx'.deferred = ctx.deferred
      /\ flushing = <<>> /\ EventsIn(flushing) = {} /\ Pumping
      /\ spc' \in {"drain", "drained"}
  BY DrainFields, EmptyQueue DEF Drain, At, Waiting, Pumping
<1>3. \/ EventOf(f) = {} /\ handled' = handled
      \/ f.id \in 1 .. MaxEvents /\ EventOf(f) = {f.id} /\ handled' = Append(handled, f.id)
  <2>1. f.type = "event" => f.id \in 1 .. MaxEvents
    BY HeadEvent DEF Drain
  <2>2. IF f.type = "event" THEN handled' = Append(handled, f.id) ELSE handled' = handled
    BY DrainFields DEF Drain, janus_ws_match_rpc_reply
  <2> QED
    BY <2>1, <2>2 DEF EventOf
<1> HIDE DEF f
<1>4. Range(handled') = Range(handled) \cup EventOf(f)
  <2>1. CASE EventOf(f) = {} /\ handled' = handled
    BY <2>1
  <2>2. CASE f.id \in 1 .. MaxEvents /\ EventOf(f) = {f.id} /\ handled' = Append(handled, f.id)
    BY <2>2, AppendHandled, OrderFacts
  <2> QED
    BY <1>3, <2>1, <2>2
<1>5. EventOf(f) \subseteq Queued /\ Queued' = Queued \ EventOf(f)
  <2>1. EventOf(f) \subseteq Queued
    BY <1>1 DEF Queued
  <2>2. \A x \in EventOf(f) : /\ x \notin EventsIn(flushing)
                              /\ x \notin EventsIn(ctx.deferred)
                              /\ x \notin EventsIn(sock'.inbox)
    BY <1>1, <2>1, OrderFacts DEF OrderInv, EventQueues, Before
  <2> QED
    BY <1>1, <1>2, <2>1, <2>2 DEF Queued
<1>6. EventQueues'
  <2>1. /\ Before(EventsIn(ctx.deferred), EventsIn(sock'.inbox))
        /\ Before(Range(handled'), EventsIn(sock'.inbox))
    BY <1>1, <1>4, OrderFacts DEF OrderInv, EventQueues, Before
  <2>2. Range(handled') \subseteq 1 .. events /\ Queued' \subseteq 1 .. events
    BY <1>4, <1>5, OrderFacts
  <2>3. Before({}, EventsIn(ctx.deferred)) /\ Before({}, EventsIn(sock'.inbox))
    BY DEF Before
  <2> QED
    BY <1>1, <1>2, <2>1, <2>2, <2>3, OrderFacts DEF OrderInv, EventQueues
<1>7. OvertakenQueued'
  BY <1>2, OrderFacts DEF OrderInv, OvertakenQueued
<1>8. OvertakenOnlyNested'
  <2>1. CASE handled' = handled
    BY <1>2, <2>1, OrderFacts DEF OrderInv, OvertakenOnlyNested
  <2>2. CASE f.id \in 1 .. MaxEvents /\ EventOf(f) = {f.id} /\ handled' = Append(handled, f.id)
    <3>1. f.id \in nested \/ (\A h \in Range(handled) : h <= f.id)
      <4>1. f.id \in EventsIn(sock.inbox)
        BY <1>1, <2>2
      <4> QED
        BY <2>2, <4>1, OrderFacts, WsAssumption DEF OrderInv, EventQueues, Before
    <3> QED
      BY <1>2, <2>2, <3>1, OrderFacts, HandledInOrder DEF OrderInv
  <2> QED
    BY <1>3, <2>1, <2>2
<1> QED
  BY <1>5, <1>6, <1>7, <1>8 DEF OrderInv, f

\* A frame from Janus comes after all that were received before it.
LEMMA ArrivalOrder ==
  ASSUME WsInv, NEW f \in Frames, sock'.inbox = Append(sock.inbox, f),
         UNCHANGED <<ctx, flushing, spc, handled, nested>>,
         \/ f.type # "event" /\ events' = events
         \/ f.type = "event" /\ f.id = events + 1 /\ events' = events + 1
  PROVE  OrderInv' /\ Queued' = Queued \cup EventOf(f)
<1>1. EventOf(f) \subseteq {events + 1}
  BY DEF EventOf
<1>2. /\ events \in Nat /\ events' \in Nat /\ events <= events'
      /\ EventOf(f) \subseteq 1 .. events'
  BY OrderFacts, WsAssumption DEF EventOf
<1>3. \A x \in Queued \cup Range(handled), y \in EventOf(f) : x < y
  BY <1>1, <1>2, OrderFacts
<1>4. /\ EventsIn(sock'.inbox) = EventsIn(sock.inbox) \cup EventOf(f)
      /\ InOrder(sock'.inbox)
  <2>1. Before(EventsIn(sock.inbox), EventOf(f))
    BY <1>3 DEF Before, Queued
  <2> QED
    BY <2>1, OrderFacts, AppendQueue
<1>5. Queued' = Queued \cup EventOf(f)
  BY <1>4 DEF Queued
<1>6. EventQueues'
  <2>1. /\ Before(EventsIn(flushing), EventsIn(sock'.inbox))
        /\ Before(EventsIn(ctx.deferred), EventsIn(sock'.inbox))
        /\ Before(Range(handled), EventsIn(sock'.inbox))
    BY <1>3, <1>4, OrderFacts DEF OrderInv, EventQueues, Before, Queued
  <2>2. Queued' \subseteq 1 .. events' /\ Range(handled) \subseteq 1 .. events'
    BY <1>2, <1>5, OrderFacts
  <2> QED
    BY <1>4, <2>1, <2>2, OrderFacts DEF OrderInv, EventQueues, Flushing
<1>7. OvertakenQueued' /\ OvertakenOnlyNested'
  BY OrderFacts DEF OrderInv, OvertakenQueued, OvertakenOnlyNested, Pumping
<1> QED
  BY <1>5, <1>6, <1>7 DEF OrderInv

\* Every step keeps the order of the queues and of the dispatched events.
LEMMA WsOrderStep == WsInv /\ [WsNext \/ WsEnded]_wsVars => OrderInv'
<1> SUFFICES ASSUME WsInv, [WsNext \/ WsEnded]_wsVars PROVE OrderInv'
  OBVIOUS
<1>o. OrderInv /\ WsTypeOK /\ (~Flushing => flushing = <<>>)
  BY OrderFacts DEF OrderInv, EventQueues
<1>1. ASSUME NEW t \in Requesters, RpcStep(t) PROVE OrderInv'
  <2>1. CASE RpcNoSocket(t) \/ RpcWriteFailed(t) \/ RpcFreed(t)
    BY <1>o, <2>1, QueuesKept DEF RpcNoSocket, RpcWriteFailed, RpcFreed, Pumping, Flushing
  <2>2. CASE RpcWrite(t)
    BY <1>o, <2>2, QueuesKept, RpcWriteFields DEF RpcWrite, Pumping, Flushing
  <2>3. CASE RpcRead(t)
    BY <2>3, RpcReadOrder
  <2>4. CASE RpcReturn(t)
    BY <1>o, <2>4, QueuesKept, RpcReturnFields DEF RpcReturn, Pumping, Flushing
  <2> QED
    BY <1>1, <2>1, <2>2, <2>3, <2>4 DEF RpcStep
<1>2. ASSUME NEW l \in Legs, LegFind(l) \/ LegRequest(l) \/ LegDone(l) PROVE OrderInv'
  BY <1>o, <1>2, QueuesKept DEF LegFind, LegRequest, LegDone, Pumping, Flushing
<1>3. ASSUME ServerStep PROVE OrderInv'
  <2>1. CASE ServerOpen
    BY <1>o, <2>1, QueuesEmptied, FreshFields DEF ServerOpen, At, Flushing, Pumping
  <2>2. CASE ServerRegister \/ PumpKeepalive \/ HandlerRequest \/ ServerRegistered
               \/ InsertFailed \/ ClaimRefused \/ HandlerReturn
    <3>1. /\ UNCHANGED <<sock, ctx, flushing, events, handled, nested>>
          /\ (Pumping' => Pumping) /\ (Flushing => Flushing')
      BY <2>2 DEF ServerRegister, PumpKeepalive, HandlerRequest, ServerRegistered,
           InsertFailed, ClaimRefused, HandlerReturn, AfterHandler, At, Pumping, Flushing
    <3> QED
      BY <1>o, <3>1, QueuesKept
  <2>3. CASE RegisterFailed
    BY <1>o, <2>3, QueuesEmptied, FreshFields DEF RegisterFailed, At, Flushing, Pumping
  <2>4. CASE PumpSlice
    BY <2>4, PumpSliceOrder
  <2>5. CASE Flush
    BY <2>5, FlushOrder
  <2>6. CASE PumpQuiet \/ PumpFailed \/ DrainDone
    <3>1. UNCHANGED <<sock, flushing, events, handled, nested>>
      BY <2>6 DEF PumpQuiet, PumpFailed, DrainDone
    <3>2. ctx'.deferred = ctx.deferred /\ flushing = <<>> /\ ~Pumping'
      BY <2>6, ReleaseFields DEF Pumping
    <3> QED
      BY <1>o, <3>1, <3>2, QueuesKept
  <2>7. CASE Drain
    BY <2>7, DrainOrder
  <2> QED
    BY <1>3, <2>1, <2>2, <2>3, <2>4, <2>5, <2>6, <2>7 DEF ServerStep
<1>4. ASSUME ServerOpenFailed \/ WsEnded \/ UNCHANGED wsVars PROVE OrderInv'
  BY <1>o, <1>4, QueuesKept DEF ServerOpenFailed, WsEnded, wsVars, Pumping, Flushing
<1>5. ASSUME ServerStop PROVE OrderInv'
  BY <1>o, <1>5, QueuesEmptied, FreshFields DEF ServerStop, At, Flushing, Pumping
<1>6. ASSUME JanusStep PROVE OrderInv'
  <2>1. ASSUME NEW n \in Nat, NEW type \in {"success", "error"}, JanusReply(n, type)
        PROVE  OrderInv'
    <3>1. Frame(type, n, 0).type # "event"
      BY DEF Frame
    <3> QED
      BY <1>o, <2>1, <3>1, JanusReplyFields, ArrivalOrder DEF JanusReply
  <2>2. ASSUME NEW n \in Nat, JanusEvent(n) PROVE OrderInv'
    <3>1. Frame("event", n, events + 1).type = "event" /\ Frame("event", n, events + 1).id = events + 1
      BY DEF Frame
    <3> QED
      BY <1>o, <2>2, <3>1, JanusEventFields, ArrivalOrder DEF JanusEvent
  <2>3. CASE SocketBreaks
    BY <1>o, <2>3, QueuesKept, SocketBreaksFields DEF SocketBreaks, Pumping, Flushing
  <2>4. txn[Server] \in Nat /\ sock.asked \in SUBSET Nat /\ ctx.rpc_txn \in Nat
    BY <1>o, FieldTypes DEF WsTypeOK, Requesters
  <2> QED
    BY <1>6, <2>1, <2>2, <2>3, <2>4 DEF JanusStep
<1> QED
  BY <1>1, <1>2, <1>3, <1>4, <1>5, <1>6 DEF WsNext

-----------------------------------------------------------------------------
\* Only janus_ws_server_open and janus_ws_server_close change the handle; while
\* there is none, nobody touches the socket or the ctx.
LEMMA WsUnconnectedStep == WsInv /\ [WsNext \/ WsEnded]_wsVars => Unconnected'
<1> SUFFICES ASSUME WsInv, [WsNext \/ WsEnded]_wsVars, handle' = 0
             PROVE  spc' = "loop" /\ sock' = NoSocket /\ ctx' = NewContext
  BY DEF Unconnected
<1>t. /\ handle \in 0 .. MaxOpens /\ opens \in 0 .. MaxOpens /\ Server \in Requesters
      /\ Unconnected /\ Connections
  BY DEF WsInv, WsTypeOK, Requesters
<1>u. NoSocket.up = FALSE
  BY DEF NoSocket, NewSocket
<1>k. ASSUME UNCHANGED <<handle, spc, sock, ctx>>
      PROVE  spc' = "loop" /\ sock' = NoSocket /\ ctx' = NewContext
  BY <1>k, <1>t DEF Unconnected
<1>1. ASSUME NEW t \in Requesters, RpcStep(t)
      PROVE  spc' = "loop" /\ sock' = NoSocket /\ ctx' = NewContext
  <2>1. CASE RpcNoSocket(t) \/ RpcWriteFailed(t) \/ RpcFreed(t)
    BY <1>k, <2>1 DEF RpcNoSocket, RpcWriteFailed, RpcFreed
  <2>2. CASE RpcWrite(t)
    BY <2>2 DEF RpcWrite
  <2>3. CASE RpcRead(t) \/ RpcReturn(t)
    BY <1>t, <2>3 DEF RpcRead, RpcReturn, Connections
  <2> QED
    BY <1>1, <2>1, <2>2, <2>3 DEF RpcStep
<1>2. ASSUME NEW l \in Legs, LegFind(l) \/ LegRequest(l) \/ LegDone(l)
      PROVE  spc' = "loop" /\ sock' = NoSocket /\ ctx' = NewContext
  BY <1>k, <1>2 DEF LegFind, LegRequest, LegDone
<1>3. ASSUME ServerStep
      PROVE  spc' = "loop" /\ sock' = NoSocket /\ ctx' = NewContext
  <2>1. CASE ServerOpen
    BY <1>t, <2>1, WsAssumption DEF ServerOpen
  <2>2. CASE RegisterFailed
    BY <2>2 DEF RegisterFailed, Close
  <2>3. CASE ServerRegister \/ ServerRegistered \/ InsertFailed \/ ClaimRefused
    BY <1>t, <2>3 DEF ServerRegister, ServerRegistered, InsertFailed, ClaimRefused, At, Unconnected
  <2>4. CASE PumpKeepalive \/ PumpSlice \/ Flush \/ HandlerReturn \/ HandlerRequest
    BY <1>t, <2>4 DEF PumpKeepalive, PumpSlice, Flush, HandlerReturn, HandlerRequest, At, Unconnected
  <2>5. CASE PumpQuiet \/ PumpFailed \/ Drain \/ DrainDone
    BY <1>t, <2>5 DEF PumpQuiet, PumpFailed, Drain, DrainDone, Waiting, At, Unconnected
  <2> QED
    BY <1>3, <2>1, <2>2, <2>3, <2>4, <2>5 DEF ServerStep
<1>4. ASSUME ServerOpenFailed \/ WsEnded \/ UNCHANGED wsVars
      PROVE  spc' = "loop" /\ sock' = NoSocket /\ ctx' = NewContext
  BY <1>k, <1>4 DEF ServerOpenFailed, WsEnded, wsVars
<1>5. ASSUME ServerStop
      PROVE  spc' = "loop" /\ sock' = NoSocket /\ ctx' = NewContext
  BY <1>5 DEF ServerStop, Close
<1>6. ASSUME JanusStep
      PROVE  spc' = "loop" /\ sock' = NoSocket /\ ctx' = NewContext
  <2>1. sock.up /\ handle' = handle
    BY <1>6 DEF JanusStep, JanusReply, JanusEvent, SocketBreaks
  <2> QED
    BY <1>t, <1>u, <2>1 DEF Unconnected
<1> QED
  BY <1>1, <1>2, <1>3, <1>4, <1>5, <1>6 DEF WsNext

-----------------------------------------------------------------------------
(***************************************************************************)
(* The theorems.                                                            *)
(***************************************************************************)

\* WsInv holds in every state that the socket, its threads and Janus reach.
THEOREM WsInvariant == WsSpec => []WsInv
<1>1. WsInv /\ [WsNext \/ WsEnded]_wsVars => WsInv'
  BY WsTypeStep, WsMutexStep, WsUnconnectedStep, WsOrderStep DEF WsInv, MutexInv, OrderInv
<1> QED
  BY <1>1, WsInitInv, PTL DEF WsSpec

\* The variables of janus_ws.c have their types: in particular io_mutex is
\* never taken more than twice by the pump's thread.
THEOREM WsTypeCorrect == WsSpec => []WsTypeOK
<1>1. WsInv => WsTypeOK
  BY DEF WsInv
<1> QED
  BY <1>1, WsInvariant, PTL

\* However many legs send requests: whoever waits for a reply on the ctx holds
\* io_mutex and its transaction is the one in flight.
THEOREM WsSerialRequests == WsSpec => []SerialRequests
<1>1. WsInv => SerialRequests
  BY DEF WsInv
<1> QED
  BY <1>1, WsInvariant, PTL

\* Events are dispatched in the order of their arrival, except those that the
\* request of a handler deferred.
THEOREM WsEventOrder == WsSpec => []OvertakenOnlyNested
<1>1. WsInv => OvertakenOnlyNested
  BY DEF WsInv
<1> QED
  BY <1>1, WsInvariant, PTL

-----------------------------------------------------------------------------
(***************************************************************************)
(* The transport implements WsChannel: the events in the three queues are   *)
(* the pending ones, the dispatched ones the handled ones, and a thread     *)
(* waits for the transaction of its request.                                *)
(***************************************************************************)
Waits == [t \in Requesters |-> IF rpc[t] = "idle" THEN 0 ELSE txn[t]]
Replied == [t \in Requesters |-> answer[t].txn]

\* A new request is one that nobody waits for.
LEMMA CallAsks ==
  ASSUME WsInv, NEW t \in Requesters, rpc[t] = "idle", Call(t),
         Queued' = Queued, UNCHANGED <<handle, events, handled>>
  PROVE  Channel!Ask(t)
<1>t. WsTypeOK
  BY DEF WsInv
<1>1. /\ txn'[t] \in Nat \ {0} /\ txn'[t] \notin Range(txn)
      /\ txn' = [txn EXCEPT ![t] = txn'[t]]
  BY <1>t, UnusedTxn
<1>2. /\ rpc' = [rpc EXCEPT ![t] = "lock"] /\ answer' = [answer EXCEPT ![t] = NoFrame]
      /\ NoFrame.txn = 0
  BY DEF Call, NoFrame, Frame
<1>3. /\ rpc \in [Requesters -> {"idle", "lock", "wait"}]
      /\ answer \in [Requesters -> Frames \cup {NoFrame}] /\ txn \in [Requesters -> Nat]
  BY <1>t DEF WsTypeOK
<1>4. Waits[t] = 0
  BY DEF Waits
<1>5. Waits'[t] = txn'[t] /\ Waits' = [Waits EXCEPT ![t] = Waits'[t]]
  BY <1>1, <1>2, <1>3 DEF Waits
<1>6. txn'[t] \in Nat \ {Waits[u] : u \in Requesters}
  <2>1. \A u \in Requesters : txn[u] \in Range(txn)
    BY <1>3 DEF Range
  <2> QED
    BY <1>1, <2>1 DEF Waits
<1>7. Replied' = [Replied EXCEPT ![t] = 0]
  BY <1>2, <1>3 DEF Replied
<1> QED
  BY <1>4, <1>5, <1>6, <1>7 DEF Channel!Ask, Waits, Replied

\* A request that ends returns nothing or the reply to its own transaction.
LEMMA ReturnAnswers ==
  ASSUME WsInv, NEW t \in Requesters, rpc[t] # "idle",
         NEW f, f = NoFrame \/ f.txn = txn[t], ReturnWith(t, f),
         Queued' = Queued, UNCHANGED <<handle, events, handled>>
  PROVE  Channel!ChannelNext
<1>t. WsTypeOK
  BY DEF WsInv
<1>1. /\ rpc \in [Requesters -> {"idle", "lock", "wait"}]
      /\ answer \in [Requesters -> Frames \cup {NoFrame}] /\ txn \in [Requesters -> Nat]
  BY <1>t DEF WsTypeOK
<1>2. NoFrame.txn = 0
  BY DEF NoFrame, Frame
<1>3. Waits[t] # 0 /\ Waits[t] = txn[t] /\ f.txn \in {0, Waits[t]}
  BY <1>2 DEF WsInv, Connections, Waits
<1>4. Waits' = [Waits EXCEPT ![t] = 0]
  BY <1>1 DEF Waits, ReturnWith
<1>5. Replied' = [Replied EXCEPT ![t] = f.txn]
  BY <1>1 DEF Replied, ReturnWith
<1>6. Channel!Return(t, f.txn)
  BY <1>3, <1>4, <1>5 DEF Channel!Return, Waits, Replied
<1> QED
  BY <1>3, <1>6 DEF Channel!ChannelNext, Waits

\* Every step is a step of the channel, or one that it does not see.
LEMMA ChannelStep ==
  WsInv /\ [WsNext \/ WsEnded]_wsVars => [Channel!ChannelNext]_Channel!channelVars
<1> SUFFICES ASSUME WsInv, [WsNext \/ WsEnded]_wsVars
             PROVE  [Channel!ChannelNext]_Channel!channelVars
  OBVIOUS
<1> DEFINE Goal == [Channel!ChannelNext]_Channel!channelVars
<1>o. OrderInv /\ WsTypeOK /\ (~Flushing => flushing = <<>>)
  BY OrderFacts DEF OrderInv, EventQueues
<1>u. ASSUME Queued' = Queued, UNCHANGED <<handle, events, handled, rpc, txn, answer>>
      PROVE  Goal
  BY <1>u DEF Channel!channelVars
<1>k. ASSUME sock'.inbox = sock.inbox, ctx'.deferred = ctx.deferred, flushing' = flushing
      PROVE  Queued' = Queued
  BY <1>k DEF Queued
<1>e. ASSUME NEW e \in Queued, Queued' = Queued \ {e}, handled' = Append(handled, e),
             UNCHANGED <<handle, events, rpc, txn, answer>>
      PROVE  Goal
  <2>1. Channel!Handle(e)
    BY <1>e DEF Channel!Handle
  <2> QED
    BY <2>1 DEF Channel!ChannelNext
<1>c. Unconnected /\ (handle = 0 => Queued = {})
  <2>1. NoSocket.inbox = <<>> /\ NewContext.deferred = <<>>
    BY DEF NoSocket, NewSocket, NewContext
  <2> QED
    BY <1>o, <2>1, EmptyQueue DEF WsInv, Unconnected, Queued, Flushing
<1>z. ASSUME Queued' = {}, handle' = 0, UNCHANGED <<events, handled, rpc, txn, answer>>
      PROVE  Goal
  <2>1. CASE handle = 0
    BY <1>c, <1>z, <2>1 DEF Channel!channelVars
  <2>2. CASE handle # 0
    <3>1. Channel!Disconnect
      BY <1>z, <2>2 DEF Channel!Disconnect
    <3> QED
      BY <3>1 DEF Channel!ChannelNext
  <2> QED
    BY <2>1, <2>2
<1>1. ASSUME NEW t \in Requesters, RpcStep(t) PROVE Goal
  <2>1. CASE RpcNoSocket(t) \/ RpcWriteFailed(t)
    <3>1. /\ rpc[t] # "idle" /\ ReturnWith(t, NoFrame)
          /\ UNCHANGED <<handle, sock, ctx, flushing, events, handled>>
      BY <2>1 DEF RpcNoSocket, RpcWriteFailed
    <3> QED
      BY <1>k, <3>1, ReturnAnswers
  <2>2. CASE RpcWrite(t)
    <3>1. Waits' = Waits
      BY <1>o, <2>2 DEF RpcWrite, Waits, WsTypeOK
    <3>2. Queued' = Queued /\ UNCHANGED <<handle, events, handled, answer>>
      BY <1>k, <2>2, RpcWriteFields DEF RpcWrite
    <3> QED
      BY <3>1, <3>2 DEF Channel!channelVars, Waits
  <2>3. CASE RpcRead(t)
    BY <1>u, <2>3, RpcReadOrder DEF RpcRead
  <2>4. CASE RpcReturn(t)
    <3>1. ctx.rpc_result = NoFrame \/ ctx.rpc_result.txn = txn[t]
      BY <2>4 DEF RpcReturn, WsInv, OwnReply, SerialRequests
    <3>2. /\ rpc[t] # "idle" /\ ReturnWith(t, ctx.rpc_result)
          /\ UNCHANGED <<handle, events, handled>>
      BY <2>4 DEF RpcReturn
    <3>3. Queued' = Queued
      BY <1>k, <2>4, RpcReturnFields DEF RpcReturn
    <3> QED
      BY <3>1, <3>2, <3>3, ReturnAnswers
  <2>5. CASE RpcFreed(t)
    BY <1>k, <1>u, <2>5 DEF RpcFreed
  <2> QED
    BY <1>1, <2>1, <2>2, <2>3, <2>4, <2>5 DEF RpcStep
<1>a. ASSUME NEW t \in Requesters, rpc[t] = "idle", Call(t),
             UNCHANGED <<handle, sock, ctx, flushing, events, handled>>
      PROVE  Goal
  <2>1. Channel!Ask(t)
    BY <1>a, <1>k, CallAsks
  <2> QED
    BY <2>1 DEF Channel!ChannelNext
<1>2. ASSUME NEW l \in Legs, LegFind(l) \/ LegRequest(l) \/ LegDone(l) PROVE Goal
  <2>1. CASE LegRequest(l)
    BY <1>a, <2>1 DEF LegRequest, Requesters
  <2>2. CASE LegFind(l) \/ LegDone(l)
    BY <1>k, <1>u, <2>2 DEF LegFind, LegDone
  <2> QED
    BY <1>2, <2>1, <2>2
<1>3. ASSUME ServerStep PROVE Goal
  <2>1. CASE ServerOpen \/ RegisterFailed
    <3>1. /\ sock'.inbox = <<>> /\ ctx'.deferred = <<>> /\ flushing' = <<>>
      BY <1>o, <2>1, FreshFields DEF ServerOpen, RegisterFailed, At, Flushing
    <3>2. Queued' = {}
      BY <3>1, EmptyQueue DEF Queued
    <3>3. CASE RegisterFailed
      BY <1>z, <3>2, <3>3 DEF RegisterFailed, Close
    <3>4. CASE ServerOpen
      <4>1. handle = 0 /\ handle' # 0 /\ Queued = {}
        BY <1>c, <1>o, <3>4, WsAssumption DEF ServerOpen, WsTypeOK
      <4>2. Channel!Connect
        BY <3>2, <3>4, <4>1 DEF ServerOpen, Channel!Connect
      <4> QED
        BY <4>2 DEF Channel!ChannelNext
    <3> QED
      BY <2>1, <3>3, <3>4
  <2>2. CASE ServerRegister \/ PumpKeepalive \/ HandlerRequest
    BY <1>a, <2>2 DEF ServerRegister, PumpKeepalive, HandlerRequest, At, Requesters
  <2>3. CASE ServerRegistered \/ InsertFailed \/ ClaimRefused \/ HandlerReturn
    BY <1>k, <1>u, <2>3 DEF ServerRegistered, InsertFailed, ClaimRefused, HandlerReturn
  <2>4. CASE PumpSlice
    BY <1>u, <2>4, PumpSliceOrder DEF PumpSlice
  <2>5. CASE Flush
    <3>1. UNCHANGED <<handle, events, rpc, txn, answer>>
      BY <2>5 DEF Flush
    <3>2. CASE EventOf(Head(flushing)) = {}
      BY <1>u, <2>5, <3>1, <3>2, FlushOrder DEF Flush, Dispatch, EventOf
    <3>3. CASE EventOf(Head(flushing)) # {}
      BY <1>e, <2>5, <3>1, <3>3, FlushOrder DEF Flush, Dispatch, EventOf
    <3> QED
      BY <3>2, <3>3
  <2>6. CASE PumpQuiet \/ PumpFailed \/ DrainDone
    <3>1. ctx'.deferred = ctx.deferred
      BY <2>6, ReleaseFields
    <3> QED
      BY <1>k, <1>u, <2>6, <3>1 DEF PumpQuiet, PumpFailed, DrainDone
  <2>7. CASE Drain
    <3>1. UNCHANGED <<handle, events, rpc, txn, answer>>
      BY <2>7 DEF Drain
    <3>h. IF Head(sock.inbox).type = "event"
            THEN handled' = Append(handled, Head(sock.inbox).id) ELSE handled' = handled
      BY <2>7, DrainFields DEF janus_ws_match_rpc_reply
    <3>2. CASE Head(sock.inbox).type # "event"
      BY <1>u, <2>7, <3>1, <3>2, <3>h, DrainOrder DEF EventOf
    <3>3. CASE Head(sock.inbox).type = "event"
      BY <1>e, <2>7, <3>1, <3>3, <3>h, DrainOrder DEF EventOf
    <3> QED
      BY <3>2, <3>3
  <2> QED
    BY <1>3, <2>1, <2>2, <2>3, <2>4, <2>5, <2>6, <2>7 DEF ServerStep
<1>4. ASSUME ServerOpenFailed \/ WsEnded \/ UNCHANGED wsVars PROVE Goal
  BY <1>k, <1>u, <1>4 DEF ServerOpenFailed, WsEnded, wsVars
<1>5. ASSUME ServerStop PROVE Goal
  <2>1. /\ sock'.inbox = <<>> /\ ctx'.deferred = <<>> /\ flushing' = <<>>
    BY <1>o, <1>5, FreshFields DEF ServerStop, At, Flushing
  <2>2. Queued' = {}
    BY <2>1, EmptyQueue DEF Queued
  <2> QED
    BY <1>z, <1>5, <2>2 DEF ServerStop, Close
<1>6. ASSUME JanusStep PROVE Goal
  <2>1. ASSUME NEW n \in Nat, NEW type \in {"success", "error"}, JanusReply(n, type)
        PROVE  Goal
    <3>1. Frame(type, n, 0).type # "event" /\ EventOf(Frame(type, n, 0)) = {}
      BY DEF Frame, EventOf
    <3>2. Queued' = Queued
      BY <1>o, <2>1, <3>1, JanusReplyFields, ArrivalOrder DEF JanusReply
    <3> QED
      BY <1>u, <2>1, <3>2 DEF JanusReply
  <2>2. ASSUME NEW n \in Nat, JanusEvent(n) PROVE Goal
    <3> DEFINE f == Frame("event", n, events + 1)
    <3>1. f.type = "event" /\ f.id = events + 1 /\ EventOf(f) = {events + 1}
      BY DEF Frame, EventOf
    <3>2. Queued' = Queued \cup {events + 1}
      BY <1>o, <2>2, <3>1, JanusEventFields, ArrivalOrder DEF JanusEvent
    <3>3. events' = events + 1 /\ UNCHANGED <<handle, handled, rpc, txn, answer>>
      BY <2>2 DEF JanusEvent
    <3>c. handle # 0
      BY <1>c, <2>2 DEF JanusEvent, Unconnected, NoSocket, NewSocket
    <3>4. Channel!Arrive
      BY <3>2, <3>3, <3>c DEF Channel!Arrive
    <3> QED
      BY <3>4 DEF Channel!ChannelNext
  <2>3. CASE SocketBreaks
    BY <1>k, <1>u, <1>o, <2>3, SocketBreaksFields DEF SocketBreaks
  <2>4. txn[Server] \in Nat /\ sock.asked \in SUBSET Nat /\ ctx.rpc_txn \in Nat
    BY <1>o, FieldTypes DEF WsTypeOK, Requesters
  <2> QED
    BY <1>6, <2>1, <2>2, <2>3, <2>4 DEF JanusStep
<1> QED
  BY <1>1, <1>2, <1>3, <1>4, <1>5, <1>6 DEF WsNext

\* The transport keeps its promise to any number of threads: an event leaves the
\* queues by being dispatched, and that once, or with its connection, and a
\* request returns nothing or its own reply.
THEOREM WsImplementsChannel == WsSpec => ImplementsChannel
<1>1. WsInit => Channel!ChannelInit
  <2> SUFFICES ASSUME WsInit PROVE Channel!ChannelInit
    OBVIOUS
  <2>1. Queued = {}
    BY EmptyQueue DEF WsInit, Queued, NoSocket, NewSocket, NewContext
  <2> QED
    BY <2>1 DEF WsInit, Channel!ChannelInit, NoFrame, Frame
<1> QED
  BY <1>1, ChannelStep, WsInvariant, PTL DEF WsSpec, ImplementsChannel, Channel!ChannelSpec

\* The server thread itself never waits on a ctx that was freed: only the leg
\* threads can, which read the pointer without a lock (run ws_close shows it).
THEOREM ServerContextLive ==
  WsSpec => [](rpc[Server] # "idle" => rctx[Server] = handle)
<1>1. WsInv => (rpc[Server] # "idle" => rctx[Server] = handle)
  BY DEF WsInv, Connections
<1> QED
  BY <1>1, WsInvariant, PTL
===============================================================================
