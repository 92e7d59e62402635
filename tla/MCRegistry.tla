----------------------------- MODULE MCRegistry -----------------------------
(***************************************************************************)
(* Registry for TLC.  Nothing tells servers, or addresses, apart.           *)
(*                                                                         *)
(* RegView leaves out what no action can read and no property can mention   *)
(* any more: address, age and history of a server_t that is neither listed  *)
(* nor dialled, all of one that nobody refers to (Apply writes every field  *)
(* of it before it is used again), and the addresses that a refresh has no  *)
(* room for.                                                                *)
(***************************************************************************)
EXTENDS Registry, TLC

RegSymmetry == Permutations(Servers) \cup Permutations(Ips)

Findable(s) == \/ \E p \in Pods : lookup[p] = s
               \/ \E d \in Dialers : dial[d].server = s

Ending(s) == \/ srv[s].threads > 0
             \/ \E w \in Workers : stopping[w] = s \/ s \in evicting[w]

ServerView(s) ==
  IF Findable(s) THEN <<srv[s], trusted[s]>>
  ELSE IF Ending(s) THEN <<srv[s].name, srv[s].calls, srv[s].flags,
                           srv[s].threads, srv[s].leaving>>
  ELSE <<>>

TodoView(w) == IF Cardinality(Seen(w)) < MaxEndpoints THEN todo[w] ELSE {}

RegView ==
  <<world, confirmed, lookup, [s \in Servers |-> ServerView(s)], wpc,
    [w \in Refreshers |-> TodoView(w)], found, evicting, stopping, dial>>
=============================================================================
