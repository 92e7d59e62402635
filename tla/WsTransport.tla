----------------------------- MODULE WsTransport -----------------------------
(***************************************************************************)
(* The WebSocket of one server_t (janus_ws.c) and the threads that use it:  *)
(* the server thread, which opens and closes it, claims its session over it *)
(* and pumps events from it, and the threads of the call legs, which send   *)
(* requests over it.  A handler that the pump calls may send a request too  *)
(* (joined sends configure), in the same thread and under the same mutex.   *)
(*                                                                         *)
(* What Janus and the network do is at the end of the actions: replies come *)
(* late or never, events come at any time, a connection breaks at any time. *)
(* A step is a stretch of code up to the next frame read, handler called,   *)
(* or change of io_mutex.                                                   *)
(***************************************************************************)
EXTENDS Naturals, Sequences, Functions

CONSTANTS
  Server,       \* the server thread
  Legs,         \* threads of call legs
  NoThread,     \* io_mutex is free
  MaxOpens,     \* bound: connections opened
  MaxTxns,      \* bound: transactions of which a trace is left at one time
  MaxEvents     \* bound: events sent by Janus

Requesters == Legs \cup {Server}

ASSUME WsAssumption ==
  /\ Server \notin Legs
  /\ NoThread \notin Requesters
  /\ MaxOpens \in Nat /\ MaxTxns \in Nat /\ MaxEvents \in Nat

VARIABLES
  handle,    \* server_t.janus_ws_handle: the number of the connection, or 0
  opens,     \* connections opened so far
  sock,      \* the kws_t: is the peer there, frames to read, requests unanswered
  ctx,       \* janus_ws_ctx_t: io_mutex, rpc_txn, rpc_result, deferred
  flushing,  \* the list that janus_ws_flush_deferred works through
  spc,       \* where the server thread is
  session,   \* does the server thread remember a session to claim?
  found,     \* legs whose handler looked the server up while it was registered
  rpc,       \* where each thread is in janus_ws_rpc_json
  rctx,      \* the ctx pointer each thread read there
  txn,       \* the transaction of each thread's last request
  answer,    \* what each thread's last request returned
  events,    \* events sent so far; they are numbered
  handled,   \* history: events in the order in which they were dispatched
  nested,    \* history: events deferred by the request of a handler
  crashed    \* a freed ctx was used

wsVars == <<handle, opens, sock, ctx, flushing, spc, session, found, rpc, rctx,
            txn, answer, events, handled, nested, crashed>>

\* A frame that was parsed: its "janus" type and its transaction, and for an
\* event its number.  A success stands for an ack too, and for an error where the
\* two make no difference here.
Frame(type, n, e) == [type |-> type, txn |-> n, id |-> e]
Frames == [type : {"success", "error", "event"}, txn : Nat, id : Nat]
NoFrame == Frame("none", 0, 0)   \* a NULL pointer

\* The kws_t and the janus_ws_ctx_t.
Sockets == [up : BOOLEAN, inbox : Seq(Frames), asked : SUBSET Nat]
Contexts == [owner : Requesters \cup {NoThread}, depth : 0 .. 2, rpc_txn : Nat,
             rpc_result : Frames \cup {NoFrame}, deferred : Seq(Frames)]

NewSocket == [up |-> TRUE, inbox |-> <<>>, asked |-> {}]
NoSocket == [NewSocket EXCEPT !.up = FALSE]
NewContext == [owner |-> NoThread, depth |-> 0, rpc_txn |-> 0,
               rpc_result |-> NoFrame, deferred |-> <<>>]

\* Registered: the session is in globals.serverIdLookup.
Registered == spc \in {"pump", "slice", "flush", "flushed", "drain", "drained"}
ServerPc == {"loop", "register", "registered", "pump", "slice", "flush",
             "flushed", "drain", "drained"}

\* The type of every variable.
WsTypeOK ==
  /\ handle \in 0 .. MaxOpens
  /\ opens \in 0 .. MaxOpens
  /\ sock \in Sockets
  /\ ctx \in Contexts
  /\ flushing \in Seq(Frames)
  /\ spc \in ServerPc
  /\ session \in BOOLEAN
  /\ found \subseteq Legs
  /\ rpc \in [Requesters -> {"idle", "lock", "wait"}]
  /\ rctx \in [Requesters -> 0 .. MaxOpens]
  /\ txn \in [Requesters -> Nat]
  /\ answer \in [Requesters -> Frames \cup {NoFrame}]
  /\ events \in 0 .. MaxEvents
  /\ handled \in Seq(1 .. MaxEvents)
  /\ nested \in SUBSET (1 .. MaxEvents)
  /\ crashed \in BOOLEAN

WsInit ==
  /\ handle = 0
  /\ opens = 0
  /\ sock = NoSocket
  /\ ctx = NewContext
  /\ flushing = <<>>
  /\ spc = "loop"
  /\ session = FALSE
  /\ found = {}
  /\ rpc = [t \in Requesters |-> "idle"]
  /\ rctx = [t \in Requesters |-> 0]
  /\ txn = [t \in Requesters |-> 0]
  /\ answer = [t \in Requesters |-> NoFrame]
  /\ events = 0
  /\ handled = <<>>
  /\ nested = {}
  /\ crashed = FALSE

-----------------------------------------------------------------------------
(***************************************************************************)
(* io_mutex is a nested mutex.                                              *)
(***************************************************************************)
CanLock(t) == ctx.owner \in {NoThread, t}
Locked(c, t) == [c EXCEPT !.owner = t, !.depth = @ + 1]
Unlocked(c) == [c EXCEPT !.owner = IF c.depth = 1 THEN NoThread ELSE @,
                         !.depth = @ - 1]

janus_ws_match_rpc_reply(f) ==
  /\ ctx.rpc_txn # 0
  /\ f.txn = ctx.rpc_txn
  /\ f.type \in {"success", "error"}

(***************************************************************************)
(* janus_ws_rpc_json.                                                       *)
(***************************************************************************)

\* A transaction is a random string that no other request has.  A number is
\* taken again when nobody can tell: no thread waits for it, and no reply
\* that is on its way, or request that Janus may still answer, bears it.
Txns(q) == {f.txn : f \in {g \in Range(q) : g.type # "event"}}
Unused == (1 .. MaxTxns) \ (sock.asked \cup Txns(sock.inbox)
            \cup Txns(ctx.deferred) \cup Txns(flushing) \cup Range(txn))

\* Bound: one transaction is kept for the server thread to register with.
Spare == \E m, n \in Unused : m # n

\* The entry: a new transaction, and the ctx pointer read without a lock.
Call(t) ==
  /\ Unused # {}
  /\ txn' = [txn EXCEPT ![t] = CHOOSE n \in Unused : TRUE]
  /\ rctx' = [rctx EXCEPT ![t] = handle]
  /\ rpc' = [rpc EXCEPT ![t] = "lock"]
  /\ answer' = [answer EXCEPT ![t] = NoFrame]

\* The return; the locals of the call are gone.
ReturnWith(t, f) ==
  /\ answer' = [answer EXCEPT ![t] = f]
  /\ rpc' = [rpc EXCEPT ![t] = "idle"]
  /\ rctx' = [rctx EXCEPT ![t] = 0]
  /\ txn' = [txn EXCEPT ![t] = 0]

\* A handler of a leg (on_init, on_routing, on_hangup) looks the server up in
\* serverIdLookup; without a session there it sends nothing.
LegFind(l) ==
  /\ Registered
  /\ l \notin found
  /\ found' = found \cup {l}
  /\ UNCHANGED <<handle, opens, sock, ctx, flushing, spc, session, rpc, rctx,
                 txn, answer, events, handled, nested, crashed>>

\* The handler ends, after as many requests as it needs.
LegDone(l) ==
  /\ l \in found
  /\ rpc[l] = "idle"
  /\ found' = found \ {l}
  /\ UNCHANGED <<handle, opens, sock, ctx, flushing, spc, session, rpc, rctx,
                 txn, answer, events, handled, nested, crashed>>

\* The leg sends attach, create, join, leave or detach.  The session may have
\* been lost, and the socket closed, since the handler found the server.
LegRequest(l) ==
  /\ l \in found
  /\ rpc[l] = "idle"
  /\ Spare
  /\ Call(l)
  /\ UNCHANGED <<handle, opens, sock, ctx, flushing, spc, session, found,
                 events, handled, nested, crashed>>

\* There is no ctx: NULL.
RpcNoSocket(t) ==
  /\ rpc[t] = "lock"
  /\ rctx[t] = 0
  /\ ReturnWith(t, NoFrame)
  /\ UNCHANGED <<handle, opens, sock, ctx, flushing, spc, session, found,
                 events, handled, nested, crashed>>

\* Mutant: the request does not wait for io_mutex.
RpcWrite_NoLock(t) ==
  /\ rpc[t] = "lock"
  /\ rctx[t] # 0 /\ rctx[t] = handle
  /\ ctx' = [ctx EXCEPT !.owner = t, !.depth = 1,
                        !.rpc_txn = txn[t], !.rpc_result = NoFrame]
  /\ sock' = [sock EXCEPT !.asked = IF sock.up THEN @ \cup {txn[t]} ELSE @]
  /\ rpc' = [rpc EXCEPT ![t] = "wait"]
  /\ UNCHANGED <<handle, opens, flushing, spc, session, found, rctx, txn,
                 answer, events, handled, nested, crashed>>

\* Lock io_mutex and write the request; it is now the one in flight.
RpcWrite(t) ==
  /\ rpc[t] = "lock"
  /\ rctx[t] # 0 /\ rctx[t] = handle
  /\ CanLock(t)
  /\ ctx' = [Locked(ctx, t) EXCEPT !.rpc_txn = txn[t], !.rpc_result = NoFrame]
  /\ sock' = [sock EXCEPT !.asked = IF sock.up THEN @ \cup {txn[t]} ELSE @]
  /\ rpc' = [rpc EXCEPT ![t] = "wait"]
  /\ UNCHANGED <<handle, opens, flushing, spc, session, found, rctx, txn,
                 answer, events, handled, nested, crashed>>

\* Mutant: io_mutex is not released on the error path.
RpcWriteFailed_KeepsLock(t) ==
  /\ rpc[t] = "lock"
  /\ rctx[t] # 0 /\ rctx[t] = handle
  /\ CanLock(t)
  /\ ~sock.up
  /\ ctx' = Locked(ctx, t)
  /\ ReturnWith(t, NoFrame)
  /\ UNCHANGED <<handle, opens, sock, flushing, spc, session, found, events,
                 handled, nested, crashed>>

\* kws_write_frame fails: the mutex is released again, and NULL.
RpcWriteFailed(t) ==
  /\ rpc[t] = "lock"
  /\ rctx[t] # 0 /\ rctx[t] = handle
  /\ CanLock(t)
  /\ ~sock.up
  /\ ReturnWith(t, NoFrame)
  /\ UNCHANGED <<handle, opens, sock, ctx, flushing, spc, session, found,
                 events, handled, nested, crashed>>

\* Mutant: a request drops the frames that are not its reply.
RpcRead_Drops(t) ==
  LET f == Head(sock.inbox) IN
  /\ rpc[t] = "wait"
  /\ rctx[t] = handle
  /\ sock.inbox # <<>>
  /\ sock' = [sock EXCEPT !.inbox = Tail(@)]
  /\ ctx' = IF janus_ws_match_rpc_reply(f) THEN [ctx EXCEPT !.rpc_result = f] ELSE ctx
  /\ UNCHANGED <<handle, opens, flushing, spc, session, found, rpc, rctx, txn,
                 answer, events, handled, nested, crashed>>

\* janus_ws_drain without a dispatch table reads a frame: the reply is kept,
\* anything else goes to the end of the deferred list.
RpcRead(t) ==
  LET f == Head(sock.inbox) IN
  /\ rpc[t] = "wait"
  /\ rctx[t] = handle
  /\ sock.inbox # <<>>
  /\ sock' = [sock EXCEPT !.inbox = Tail(@)]
  /\ IF janus_ws_match_rpc_reply(f)
       THEN /\ ctx' = [ctx EXCEPT !.rpc_result = f]
            /\ UNCHANGED nested
       ELSE /\ ctx' = [ctx EXCEPT !.deferred = Append(@, f)]
            /\ nested' = IF f.type = "event" /\ t = Server
                              /\ spc \in {"flush", "drain"}
                           THEN nested \cup {f.id} ELSE nested
  /\ UNCHANGED <<handle, opens, flushing, spc, session, found, rpc, rctx, txn,
                 answer, events, handled, crashed>>

\* The loop ends once the socket has nothing more to read, or on an error:
\* with the reply, or with NULL at the deadline.
RpcReturn(t) ==
  /\ rpc[t] = "wait"
  /\ rctx[t] = handle
  /\ sock.inbox = <<>> \/ ~sock.up
  /\ ReturnWith(t, ctx.rpc_result)
  /\ ctx' = [Unlocked(ctx) EXCEPT !.rpc_txn = 0, !.rpc_result = NoFrame]
  /\ UNCHANGED <<handle, opens, sock, flushing, spc, session, found, events,
                 handled, nested, crashed>>

\* The ctx was freed between the entry and here: undefined behaviour, which
\* ends the model.
RpcFreed(t) ==
  /\ rpc[t] # "idle"
  /\ rctx[t] # 0 /\ rctx[t] # handle
  /\ crashed' = TRUE
  /\ UNCHANGED <<handle, opens, sock, ctx, flushing, spc, session, found, rpc,
                 rctx, txn, answer, events, handled, nested>>

-----------------------------------------------------------------------------
(***************************************************************************)
(* The server thread: open, claim or create, close.                         *)
(***************************************************************************)
At(pc) == spc = pc /\ rpc[Server] = "idle"

\* janus_ws_server_open.
ServerOpen ==
  /\ At("loop")
  /\ handle = 0
  /\ opens < MaxOpens
  /\ opens' = opens + 1
  /\ handle' = opens + 1
  /\ sock' = NewSocket
  /\ ctx' = NewContext
  /\ spc' = "register"
  /\ UNCHANGED <<flushing, session, found, rpc, rctx, txn, answer, events,
                 handled, nested, crashed>>

\* The connection cannot be made; everything is released and the loop goes on.
ServerOpenFailed ==
  /\ At("loop")
  /\ handle = 0
  /\ UNCHANGED wsVars

\* apiClaimServerId if the thread remembers a session, apiGetServerId if not;
\* over the socket just opened, or over the one that is still there.
ServerRegister ==
  /\ At("register") \/ (At("loop") /\ handle # 0)
  /\ Call(Server)
  /\ spc' = "registered"
  /\ UNCHANGED <<handle, opens, sock, ctx, flushing, session, found, events,
                 handled, nested, crashed>>

ServerRegistered ==
  /\ At("registered")
  /\ answer[Server].type = "success"
  /\ session' = TRUE
  /\ spc' = "pump"
  /\ UNCHANGED <<handle, opens, sock, ctx, flushing, found, rpc, rctx, txn,
                 answer, events, handled, nested, crashed>>

\* The session is there but hashInsert fails: the id is forgotten, the socket
\* stays.
InsertFailed ==
  /\ At("registered")
  /\ answer[Server].type = "success"
  /\ session' = FALSE
  /\ spc' = "loop"
  /\ UNCHANGED <<handle, opens, sock, ctx, flushing, found, rpc, rctx, txn,
                 answer, events, handled, nested, crashed>>

\* Janus refuses the claim: the socket stays, a session is created next.
ClaimRefused ==
  /\ At("registered")
  /\ session
  /\ answer[Server].type = "error"
  /\ session' = FALSE
  /\ spc' = "loop"
  /\ UNCHANGED <<handle, opens, sock, ctx, flushing, found, rpc, rctx, txn,
                 answer, events, handled, nested, crashed>>

\* janus_ws_server_close: io_mutex is not taken; what was deferred is deleted.
Close ==
  /\ handle' = 0
  /\ sock' = NoSocket
  /\ ctx' = NewContext

\* A claim that gets no reply, or a create that gets none or an error.
RegisterFailed ==
  /\ At("registered")
  /\ \/ answer[Server] = NoFrame
     \/ ~session /\ answer[Server].type = "error"
  /\ Close
  /\ spc' = "loop"
  /\ UNCHANGED <<opens, flushing, session, found, rpc, rctx, txn, answer,
                 events, handled, nested, crashed>>

\* SFLAG_TERMINATING is seen at the head of one of the loops, and nowhere else:
\* thread_done closes the socket.  The next thread starts without a session.
ServerStop ==
  /\ At("loop") \/ At("pump")
  /\ Close
  /\ session' = FALSE
  /\ spc' = "loop"
  /\ UNCHANGED <<opens, flushing, found, rpc, rctx, txn, answer, events,
                 handled, nested, crashed>>

(***************************************************************************)
(* janus_ws_pump_once.                                                      *)
(***************************************************************************)

\* Nothing was heard for 25 s: a keepalive first, whose reply is ignored.
PumpKeepalive ==
  /\ At("pump")
  /\ Spare
  /\ Call(Server)
  /\ spc' = "slice"
  /\ UNCHANGED <<handle, opens, sock, ctx, flushing, session, found, events,
                 handled, nested, crashed>>

\* Mutant: a slice starts to read before it has flushed what was deferred.
PumpSlice_ReadsFirst ==
  /\ At("pump") \/ At("slice")
  /\ CanLock(Server)
  /\ IF sock.inbox = <<>>
       THEN /\ ctx' = [Locked(ctx, Server) EXCEPT !.deferred = <<>>]
            /\ flushing' = ctx.deferred
            /\ spc' = "flush"
       ELSE /\ ctx' = Locked(ctx, Server)
            /\ spc' = "flush"
            /\ UNCHANGED flushing
  /\ UNCHANGED <<handle, opens, sock, session, found, rpc, rctx, txn, answer,
                 events, handled, nested, crashed>>

\* Mutant: only what the pump itself reads is dispatched.
PumpSlice_NoFlush ==
  /\ At("pump") \/ At("slice")
  /\ CanLock(Server)
  /\ ctx' = Locked(ctx, Server)
  /\ spc' = "flush"
  /\ UNCHANGED <<handle, opens, sock, flushing, session, found, rpc, rctx,
                 txn, answer, events, handled, nested, crashed>>

\* A slice: lock io_mutex, and take over the deferred list.
PumpSlice ==
  /\ At("pump") \/ At("slice")
  /\ CanLock(Server)
  /\ ctx' = [Locked(ctx, Server) EXCEPT !.deferred = <<>>]
  /\ flushing' = ctx.deferred
  /\ spc' = "flush"
  /\ UNCHANGED <<handle, opens, sock, session, found, rpc, rctx, txn, answer,
                 events, handled, nested, crashed>>

\* api_dispatch_poll_event: the handler of an event runs, at handlerPc; a
\* reply that came too late is none of its types and only logged.
Dispatch(f, pc, handlerPc) ==
  IF f.type = "event"
    THEN handled' = Append(handled, f.id) /\ spc' = handlerPc
    ELSE spc' = pc /\ UNCHANGED handled

\* janus_ws_flush_deferred dispatches the next frame of the list.
Flush ==
  /\ At("flush")
  /\ flushing # <<>>
  /\ flushing' = Tail(flushing)
  /\ Dispatch(Head(flushing), "flush", "flushed")
  /\ UNCHANGED <<handle, opens, sock, ctx, session, found, rpc, rctx, txn,
                 answer, events, nested, crashed>>

\* The list is done, and kws_wait_sock waits for the rest of the slice.
Waiting == At("flush") /\ flushing = <<>>

AfterHandler == IF spc = "flushed" THEN "flush" ELSE "drain"

HandlerReturn ==
  /\ At("flushed") \/ At("drained")
  /\ spc' = AfterHandler
  /\ UNCHANGED <<handle, opens, sock, ctx, flushing, session, found, rpc,
                 rctx, txn, answer, events, handled, nested, crashed>>

\* The handler sends a request (joined: configure), and io_mutex is held.
HandlerRequest ==
  /\ At("flushed") \/ At("drained")
  /\ Spare
  /\ Call(Server)
  /\ spc' = AfterHandler
  /\ UNCHANGED <<handle, opens, sock, ctx, flushing, session, found, events,
                 handled, nested, crashed>>

\* Mutant: io_mutex is held across the slices.
PumpQuiet_KeepsMutex ==
  /\ Waiting
  /\ sock.inbox = <<>> /\ sock.up
  /\ spc' = "flush"
  /\ ctx' = [ctx EXCEPT !.deferred = <<>>]
  /\ flushing' = ctx.deferred
  /\ UNCHANGED <<handle, opens, sock, session, found, rpc, rctx, txn, answer,
                 events, handled, nested, crashed>>

\* Nothing came during the slice: release io_mutex.  Another slice follows or,
\* at the deadline, the return and the next call of the pump.
PumpQuiet ==
  /\ Waiting
  /\ sock.inbox = <<>> /\ sock.up
  /\ ctx' = Unlocked(ctx)
  /\ spc' = "pump"
  /\ UNCHANGED <<handle, opens, sock, flushing, session, found, rpc, rctx,
                 txn, answer, events, handled, nested, crashed>>

\* The poll or a read fails: the pump fails and the session is claimed next.
PumpFailed ==
  /\ At("drain") \/ (Waiting /\ sock.inbox = <<>>)
  /\ ~sock.up
  /\ ctx' = Unlocked(ctx)
  /\ spc' = "loop"
  /\ UNCHANGED <<handle, opens, sock, flushing, session, found, rpc, rctx,
                 txn, answer, events, handled, nested, crashed>>

\* janus_ws_drain with a dispatch table reads a frame.
Drain ==
  LET f == Head(sock.inbox) IN
  /\ At("drain") \/ Waiting
  /\ sock.inbox # <<>>
  /\ sock' = [sock EXCEPT !.inbox = Tail(@)]
  /\ IF janus_ws_match_rpc_reply(f)
       THEN /\ ctx' = [ctx EXCEPT !.rpc_result = f]
            /\ spc' = "drain"
            /\ UNCHANGED handled
       ELSE /\ Dispatch(f, "drain", "drained")
            /\ UNCHANGED ctx
  /\ UNCHANGED <<handle, opens, flushing, session, found, rpc, rctx, txn,
                 answer, events, nested, crashed>>

DrainDone ==
  /\ At("drain")
  /\ sock.inbox = <<>>
  /\ ctx' = Unlocked(ctx)
  /\ spc' = "pump"
  /\ UNCHANGED <<handle, opens, sock, flushing, session, found, rpc, rctx,
                 txn, answer, events, handled, nested, crashed>>

-----------------------------------------------------------------------------
(***************************************************************************)
(* Janus and the network.                                                   *)
(***************************************************************************)
JanusReply(n, type) ==
  /\ sock.up
  /\ n \in sock.asked
  /\ sock' = [sock EXCEPT !.asked = @ \ {n},
                          !.inbox = Append(@, Frame(type, n, 0))]
  /\ UNCHANGED <<handle, opens, ctx, flushing, spc, session, found, rpc, rctx,
                 txn, answer, events, handled, nested, crashed>>

\* An event; one that a request caused bears the request's transaction.
JanusEvent(n) ==
  /\ sock.up
  /\ events < MaxEvents
  /\ events' = events + 1
  /\ sock' = [sock EXCEPT !.inbox = Append(@, Frame("event", n, events + 1))]
  /\ UNCHANGED <<handle, opens, ctx, flushing, spc, session, found, rpc, rctx,
                 txn, answer, handled, nested, crashed>>

\* The peer is gone; what it sent before can still be read.
SocketBreaks ==
  /\ sock.up
  /\ sock' = [sock EXCEPT !.up = FALSE, !.asked = {}]
  /\ UNCHANGED <<handle, opens, ctx, flushing, spc, session, found, rpc, rctx,
                 txn, answer, events, handled, nested, crashed>>

-----------------------------------------------------------------------------
RpcStep(t) ==
  \/ RpcNoSocket(t)
  \/ RpcWrite(t)
  \/ RpcWriteFailed(t)
  \/ RpcRead(t)
  \/ RpcReturn(t)
  \/ RpcFreed(t)

ServerStep ==
  \/ ServerOpen
  \/ ServerRegister
  \/ ServerRegistered
  \/ InsertFailed
  \/ ClaimRefused
  \/ RegisterFailed
  \/ PumpKeepalive
  \/ PumpSlice
  \/ Flush
  \/ HandlerReturn
  \/ HandlerRequest
  \/ PumpQuiet
  \/ PumpFailed
  \/ Drain
  \/ DrainDone

JanusStep ==
  \/ \E n \in sock.asked : JanusReply(n, "success")
  \/ spc = "registered" /\ JanusReply(txn[Server], "error")
  \/ \E n \in {0, ctx.rpc_txn} : JanusEvent(n)
  \/ SocketBreaks

WsNext ==
  /\ ~crashed
  /\ \/ \E t \in Requesters : RpcStep(t)
     \/ \E l \in Legs : LegFind(l) \/ LegRequest(l) \/ LegDone(l)
     \/ ServerStep
     \/ ServerOpenFailed
     \/ ServerStop
     \/ JanusStep

\* Nothing is said of a program that has used a freed ctx.
WsEnded == crashed /\ UNCHANGED wsVars

WsSpec == WsInit /\ [][WsNext \/ WsEnded]_wsVars

(***************************************************************************)
(* Fairness.  The steps of a thread happen: waiting on the socket is bounded *)
(* by the slices and the deadlines.  A thread that waits for io_mutex gets   *)
(* it if it is released again and again (the pump yields for that purpose). *)
(* A hash insertion fails for want of memory, and not for ever.             *)
(***************************************************************************)
WsFairness ==
  /\ WF_wsVars(~crashed /\ ServerStep)
  /\ SF_wsVars(~crashed /\ PumpSlice)
  /\ SF_wsVars(~crashed /\ ServerRegistered)
  /\ \A t \in Requesters :
       /\ WF_wsVars(~crashed /\ RpcStep(t))
       /\ SF_wsVars(~crashed /\ RpcWrite(t))

FairWsSpec == WsSpec /\ WsFairness

-----------------------------------------------------------------------------
(***************************************************************************)
(* Properties.                                                              *)
(***************************************************************************)

\* The events among the frames of a queue.
EventsIn(q) == {f.id : f \in {g \in Range(q) : g.type = "event"}}
Queued == EventsIn(sock.inbox) \cup EventsIn(ctx.deferred) \cup EventsIn(flushing)

\* The channel's handled is the history of that name.
Channel == INSTANCE WsChannel WITH
  connected <- handle # 0,
  pending <- Queued,
  seen <- events,
  waits <- [t \in Requesters |-> IF rpc[t] = "idle" THEN 0 ELSE txn[t]],
  replied <- [t \in Requesters |-> answer[t].txn]

\* The transport keeps its promise: although any thread may read any frame,
\* an event leaves the queues only by being dispatched, and that once, or with
\* its connection ("never silently dropped", the head of janus_ws.c), and a
\* request never returns the late reply of another one
\* (janus_ws_match_rpc_reply, janus_ws_defer_event).
ImplementsChannel == Channel!ChannelSpec

\* The ctx tracks one request only (rpc_txn, rpc_result), so whoever waits for
\* a reply on it must be the holder of io_mutex, and its own transaction the
\* one in flight, also when a handler of the pump sends a request of its own.
SerialRequests ==
  \A t \in Requesters : rpc[t] = "wait" /\ rctx[t] = handle =>
    ctx.owner = t /\ ctx.rpc_txn = txn[t]

\* Events are dispatched in the order in which they arrived, except that one
\* which the request of a handler deferred may be overtaken: the pump flushes
\* what other requests deferred before it reads on.
OvertakenOnlyNested ==
  \A i, j \in DOMAIN handled :
    i < j /\ handled[i] > handled[j] => handled[j] \in nested

\* A request returns: the pump releases io_mutex between its slices, and the
\* wait for a reply has a deadline.
RequestReturns ==
  \A t \in Requesters : rpc[t] # "idle" ~> (rpc[t] = "idle" \/ crashed)

\* An event that was received is dispatched, or its connection given up: no
\* event stays in the deferred list for want of another event.
EventsHandled ==
  \A e \in 1 .. MaxEvents :
    e \in Queued ~> (e \in Range(handled) \/ handle = 0 \/ crashed)

\* The head of janus_ws.c says that all socket I/O is serialized under
\* io_mutex: nobody uses a ctx that janus_ws_server_close has freed.
NoFreedContext ==
  \A t \in Requesters : rpc[t] # "idle" /\ rctx[t] # 0 => rctx[t] = handle
===============================================================================
