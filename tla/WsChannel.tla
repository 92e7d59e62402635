------------------------------ MODULE WsChannel ------------------------------
(***************************************************************************)
(* What the WebSocket transport promises to the rest of the module: Janus   *)
(* events are handed to the handlers once each, or are lost all together    *)
(* when the connection is given up; and a request returns nothing or the    *)
(* reply to that very request.                                              *)
(***************************************************************************)
EXTENDS Naturals, Sequences

CONSTANT Requesters   \* the threads that send requests

VARIABLES
  connected, \* is there a connection?
  pending,   \* events that arrived and were not handled yet
  seen,      \* events that arrived since the beginning
  handled,   \* the events handled, in that order
  waits,     \* the request each thread waits for, 0 if it does not wait
  replied    \* the request whose reply each thread got, 0 for none

channelVars == <<connected, pending, seen, handled, waits, replied>>

ChannelInit ==
  /\ connected = FALSE
  /\ pending = {}
  /\ seen = 0
  /\ handled = <<>>
  /\ waits = [t \in Requesters |-> 0]
  /\ replied = [t \in Requesters |-> 0]

Connect ==
  /\ ~connected
  /\ connected' = TRUE
  /\ UNCHANGED <<pending, seen, handled, waits, replied>>

\* The next event arrives.
Arrive ==
  /\ connected
  /\ seen' = seen + 1
  /\ pending' = pending \cup {seen'}
  /\ UNCHANGED <<connected, handled, waits, replied>>

\* An event is handled; it never comes back.
Handle(e) ==
  /\ e \in pending
  /\ pending' = pending \ {e}
  /\ handled' = Append(handled, e)
  /\ UNCHANGED <<connected, seen, waits, replied>>

\* The connection is given up, with the events that still wait on it.
Disconnect ==
  /\ connected
  /\ connected' = FALSE
  /\ pending' = {}
  /\ UNCHANGED <<seen, handled, waits, replied>>

\* A thread sends a request nobody else waits for.
Ask(t) ==
  /\ waits[t] = 0
  /\ waits'[t] \in Nat \ {waits[u] : u \in Requesters}
  /\ waits' = [waits EXCEPT ![t] = waits'[t]]
  /\ replied' = [replied EXCEPT ![t] = 0]
  /\ UNCHANGED <<connected, pending, seen, handled>>

\* The request returns, with its own reply or with none.
Return(t, n) ==
  /\ waits[t] # 0
  /\ n \in {0, waits[t]}
  /\ waits' = [waits EXCEPT ![t] = 0]
  /\ replied' = [replied EXCEPT ![t] = n]
  /\ UNCHANGED <<connected, pending, seen, handled>>

ChannelNext ==
  \/ Connect
  \/ Arrive
  \/ \E e \in pending : Handle(e)
  \/ Disconnect
  \/ \E t \in Requesters : Ask(t)
  \/ \E t \in Requesters : \E n \in {0, waits[t]} : Return(t, n)

ChannelSpec == ChannelInit /\ [][ChannelNext]_channelVars
===============================================================================
