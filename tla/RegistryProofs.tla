---------------------------- MODULE RegistryProofs ----------------------------
(***************************************************************************)
(* Proofs about Registry, for any number of pods, addresses, server_t       *)
(* objects, diallers and consoles, and any time to live.                    *)
(*                                                                         *)
(* OneThreadPerServer is not inductive: that serversUpdateRegistryServer    *)
(* may start a thread when SFLAG_ENABLED is not set rests on RunningEnabled, *)
(* and that needs Named, because serversDynamicRemoveFromLookup clears the  *)
(* flag of one server and removes whatever is listed under its name.        *)
(* DialedPodAlive and MovedReverified rest on AgeKnown and on DialSound: the *)
(* server_t that a dialler has found stays the one of its pod, evicted or   *)
(* not, and while it waits to store last_verified the answer gets older.    *)
(* UnloadStopsThreads has an invariant of its own, UnloadInv, at the end.    *)
(***************************************************************************)
EXTENDS Registry, TLAPS

\* A server_t is listed under its own name.
Named == \A p \in Pods : lookup[p] # NoServer => srv[lookup[p]].name = p

\* A listed server_t that has a thread is enabled.
RunningEnabled ==
  \A p \in Pods : lookup[p] # NoServer /\ srv[lookup[p]].threads > 0
                    => "ENABLED" \in srv[lookup[p]].flags

\* What was verified within the time to live is a pod that answered since then,
\* or at most MaxDelay before, and a server that has not moved since.
AgeKnown ==
  \A s \in Servers : srv[s].age < Ttl =>
    /\ srv[s].name \in Pods
    /\ confirmed[srv[s].name] <= srv[s].age + MaxDelay
    /\ trusted[s] = srv[s].pod_ip

\* What a dialler knows of its pod and server.
DialSound ==
  \A d \in Dialers :
    /\ wpc[d] = "idle" => dial[d].server = NoServer
    /\ wpc[d] # "idle" => dial[d].pod \in Pods
    /\ wpc[d] \in {"verify", "identify", "store", "dialled", "call"}
         => dial[d].server \in Servers
    /\ dial[d].server \in Servers => srv[dial[d].server].name = dial[d].pod
    /\ wpc[d] = "store" => confirmed[dial[d].pod] <= dial[d].delay

RegInv ==
  /\ RegTypeOK
  /\ OneThreadPerServer
  /\ Named
  /\ RunningEnabled
  /\ AgeKnown
  /\ DialSound

-----------------------------------------------------------------------------
\* A server_t.
ServerRec ==
  [name : Pods \cup {NoPod}, pod_ip : Ips \cup {NoIp}, age : 0 .. Ttl,
   calls : 0 .. MaxCalls, flags : SUBSET Flags, threads : Nat, leaving : BOOLEAN]

\* serversUpdateRegistryServer keeps the type of a server_t.
LEMMA UpdateType ==
  ASSUME NEW r \in ServerRec, NEW i \in Ips
  PROVE  serversUpdateRegistryServer(r, i) \in ServerRec
<1>1. (r.flags \cup {"ENABLED"}) \in SUBSET Flags
  BY DEF ServerRec, Flags
<1>2. (IF i = r.pod_ip THEN r.age ELSE Ttl) \in 0 .. Ttl
  BY RegistryAssumption DEF ServerRec
<1>3. (IF "ENABLED" \in r.flags THEN r.threads ELSE r.threads + 1) \in Nat
  BY DEF ServerRec
<1> QED
  BY <1>1, <1>2, <1>3 DEF ServerRec, serversUpdateRegistryServer

\* The fields of a new server_t, and of one that is updated.
LEMMA CreatedFields ==
  ASSUME NEW p, NEW i, NEW r, r = serversCreateRegistryServer(p, i)
  PROVE  r.name = p /\ r.threads = 1 /\ "ENABLED" \in r.flags /\ r.age = Ttl
BY DEF serversCreateRegistryServer

LEMMA UpdatedFields ==
  ASSUME NEW q \in ServerRec, NEW i, NEW r, r = serversUpdateRegistryServer(q, i)
  PROVE  /\ r.threads = IF "ENABLED" \in q.flags THEN q.threads ELSE q.threads + 1
         /\ "ENABLED" \in r.flags
         /\ r.name = q.name
         /\ r.age = IF i = q.pod_ip THEN q.age ELSE Ttl
         /\ r.pod_ip = i
BY DEF serversUpdateRegistryServer, ServerRec

\* Of what Apply does to one server_t.
Created(s, r, w) ==
  \E p \in Pods : /\ s \in Free
                 /\ lookup'[p] = s
                 /\ found[w][p] \in Ips
                 /\ r = serversCreateRegistryServer(p, found[w][p])
Updated(s, r, w) ==
  \E p \in Pods : /\ lookup[p] = s
                 /\ found[w][p] \in Ips
                 /\ r = serversUpdateRegistryServer(srv[s], found[w][p])

\* Apply creates the servers of unknown pods, updates those of known ones and
\* leaves the others, and what it lists is what it created or was listed.
LEMMA ApplyEffect ==
  ASSUME RegTypeOK, NEW w \in Refreshers, Apply(w)
  PROVE  /\ srv' \in [Servers -> ServerRec]
         /\ lookup' \in [Pods -> Servers \cup {NoServer}]
         /\ \A s \in Servers : \/ Created(s, srv'[s], w)
                               \/ Updated(s, srv'[s], w)
                               \/ srv'[s] = srv[s]
         /\ \A p \in Pods : \/ lookup'[p] = lookup[p]
                            \/ /\ lookup'[p] \in Free
                               /\ srv'[lookup'[p]] =
                                    serversCreateRegistryServer(p, found[w][p])
         /\ \A p \in Pods : lookup[p] # NoServer \/ found[w][p] = NoIp
                              => lookup'[p] = lookup[p]
<1> USE RegistryAssumption
<1>0. srv \in [Servers -> ServerRec]
  BY DEF RegTypeOK, ServerRec
<1> DEFINE seen == Seen(w)
           new == {p \in seen : lookup[p] = NoServer}
<1>1. PICK alloc \in [new -> Free] :
       /\ IsInjective(alloc)
       /\ lookup' = [p \in Pods |-> IF p \in new THEN alloc[p] ELSE lookup[p]]
       /\ srv' = [s \in Servers |->
            IF \E p \in new : alloc[p] = s
              THEN LET p == CHOOSE q \in new : alloc[q] = s
                   IN  serversCreateRegistryServer(p, found[w][p])
            ELSE IF \E p \in seen : lookup[p] = s
              THEN LET p == CHOOSE q \in seen : lookup[q] = s
                   IN  serversUpdateRegistryServer(srv[s], found[w][p])
            ELSE srv[s]]
  BY DEF Apply
<1>2. /\ seen \subseteq Pods
      /\ \A p \in seen : found[w][p] \in Ips
  BY DEF Seen, RegTypeOK
<1>3. Free \subseteq Servers
  BY DEF Free
<1> HIDE DEF seen
<1>4. lookup' \in [Pods -> Servers \cup {NoServer}]
  BY <1>1, <1>2, <1>3 DEF RegTypeOK
<1>5. ASSUME NEW s \in Servers
      PROVE  \/ Created(s, srv'[s], w)
             \/ Updated(s, srv'[s], w)
             \/ srv'[s] = srv[s]
  <2>1. CASE \E p \in new : alloc[p] = s
    <3> DEFINE p == CHOOSE q \in new : alloc[q] = s
    <3>1. p \in new /\ alloc[p] = s
      BY <2>1
    <3>2. srv'[s] = serversCreateRegistryServer(p, found[w][p])
      BY <1>1, <2>1
    <3> HIDE DEF p
    <3>3. s \in Free /\ lookup'[p] = s
      BY <3>1, <1>1, <1>2
    <3> QED
      BY <3>1, <3>2, <3>3, <1>2 DEF Created
  <2>2. CASE ~(\E p \in new : alloc[p] = s) /\ \E p \in seen : lookup[p] = s
    <3> DEFINE p == CHOOSE q \in seen : lookup[q] = s
    <3>1. p \in seen /\ lookup[p] = s
      BY <2>2
    <3>2. srv'[s] = serversUpdateRegistryServer(srv[s], found[w][p])
      BY <1>1, <2>2
    <3> HIDE DEF p
    <3> QED
      BY <3>1, <3>2, <1>2 DEF Updated
  <2>3. CASE ~(\E p \in new : alloc[p] = s) /\ ~\E p \in seen : lookup[p] = s
    BY <1>1, <2>3
  <2> QED
    BY <2>1, <2>2, <2>3
<1>6. ASSUME NEW s \in Servers
      PROVE  srv'[s] \in ServerRec
  <2>1. CASE Created(s, srv'[s], w)
    BY <2>1 DEF Created, serversCreateRegistryServer, Flags, ServerRec
  <2>2. CASE Updated(s, srv'[s], w)
    BY <2>2, UpdateType, <1>0 DEF Updated
  <2>3. CASE srv'[s] = srv[s]
    BY <2>3, <1>0
  <2> QED
    BY <1>5, <2>1, <2>2, <2>3
<1>7. srv' \in [Servers -> ServerRec]
  <2>1. \E f : srv' = [s \in Servers |-> f[s]]
    <3> DEFINE g == [s \in Servers |->
            IF \E p \in new : alloc[p] = s
              THEN LET p == CHOOSE q \in new : alloc[q] = s
                   IN  serversCreateRegistryServer(p, found[w][p])
            ELSE IF \E p \in seen : lookup[p] = s
              THEN LET p == CHOOSE q \in seen : lookup[q] = s
                   IN  serversUpdateRegistryServer(srv[s], found[w][p])
            ELSE srv[s]]
    <3>1. srv' = g
      BY <1>1
    <3>2. g = [s \in Servers |-> g[s]]
      OBVIOUS
    <3> HIDE DEF g
    <3> QED
      BY <3>1, <3>2
  <2> QED
    BY <2>1, <1>6
<1>8. ASSUME NEW p \in Pods, lookup'[p] # lookup[p]
      PROVE  /\ lookup'[p] \in Free
             /\ srv'[lookup'[p]] = serversCreateRegistryServer(p, found[w][p])
  <2>1. p \in new /\ lookup'[p] = alloc[p]
    BY <1>1, <1>8
  <2>2. alloc[p] \in Free
    BY <2>1
  <2>3. DOMAIN alloc = new
    OBVIOUS
  <2>4. \A q \in new : alloc[q] = alloc[p] => q = p
    BY <1>1, <2>1, <2>3 DEF IsInjective
  <2>5. (CHOOSE q \in new : alloc[q] = alloc[p]) = p
    BY <2>1, <2>4
  <2>6. srv'[alloc[p]] = LET q == CHOOSE q \in new : alloc[q] = alloc[p]
                         IN  serversCreateRegistryServer(q, found[w][q])
    BY <1>1, <1>3, <2>1, <2>2
  <2> QED
    BY <2>1, <2>2, <2>5, <2>6
<1>9. ASSUME NEW p \in Pods, lookup[p] # NoServer \/ found[w][p] = NoIp
      PROVE  lookup'[p] = lookup[p]
  <2>1. p \notin new
    BY <1>9 DEF seen, Seen
  <2> QED
    BY <2>1, <1>1
<1> QED
  BY <1>4, <1>5, <1>7, <1>8, <1>9

-----------------------------------------------------------------------------
\* When nothing is known every conjunct holds.
LEMMA RegInitInv == RegInit => RegInv
<1> SUFFICES ASSUME RegInit PROVE RegInv
  OBVIOUS
<1> USE RegistryAssumption DEF RegInit
<1>1. RegTypeOK
  <2>1. MaxAge \in 0 .. MaxAge
    BY DEF MaxAge
  <2> QED
    BY <2>1 DEF RegTypeOK, NoDial, NothingFound, Flags, WorkerPc
<1>2. OneThreadPerServer /\ Named /\ RunningEnabled /\ AgeKnown
  BY DEF OneThreadPerServer, Named, RunningEnabled, AgeKnown
<1>3. DialSound
  BY DEF DialSound, NoDial, Refreshers, Workers
<1> QED
  BY <1>1, <1>2, <1>3 DEF RegInv

\* The actions keep the type; what a dialler has found is a pod and a server.
LEMMA RegTypeNext ==
  ASSUME RegInv, RegNext
  PROVE  RegTypeOK'
<1> USE RegistryAssumption DEF RegInv, Goto
<1>t. srv \in [Servers -> ServerRec]
  BY DEF RegTypeOK, ServerRec
<1> DEFINE DialRec == [pod : Pods \cup {NoPod}, server : Servers \cup {NoServer},
                       ip : Ips \cup {NoIp}, stage : 0 .. 2, delay : 0 .. MaxDelay]
<1>d. dial \in [Dialers -> DialRec]
  BY DEF RegTypeOK
<1>z. 0 \in 0 .. Ttl /\ 0 \in 0 .. MaxAge /\ 0 \in 0 .. MaxDelay
  BY DEF MaxAge
<1>u. ASSUME NEW s \in Servers \cup {NoServer}, NEW r, r \in ServerRec \/ s = NoServer,
             srv' = [srv EXCEPT ![s] = r]
      PROVE  srv' \in [Servers -> ServerRec]
  BY <1>u, <1>t
<1>w. /\ Refreshers \subseteq Workers /\ Dialers \subseteq Refreshers
      /\ Unloader \in Workers /\ RegistryThread \in Refreshers
      /\ Consoles \subseteq Workers
  BY DEF Refreshers, Workers
<1>r. \A w \in Workers : /\ RefreshReturn(w) \in {"idle", "find"}
                         /\ StopReturn(w) \in {"evict", "unload", "idle"}
  BY DEF RefreshReturn, StopReturn
<1>s. ASSUME NEW w \in Workers, NEW s \in Servers, NEW mark \in SUBSET {"EVICTED"},
             Stop(w, s, mark)
      PROVE  /\ srv' \in [Servers -> ServerRec]
             /\ stopping' \in [Workers -> Servers \cup {NoServer}]
             /\ wpc' \in [Workers -> WorkerPc]
  <2>1. srv[s].flags \cup mark \in SUBSET Flags
    BY <1>t DEF ServerRec, Flags
  <2>2. (srv[s].flags \cup mark) \cup {"TERMINATING"} \in SUBSET Flags
    BY <2>1 DEF Flags
  <2>3. srv' \in [Servers -> ServerRec]
    BY <1>s, <1>t, <2>1, <2>2 DEF Stop, ServerRec
  <2>4. stopping' \in [Workers -> Servers \cup {NoServer}]
    BY <1>s DEF Stop, RegTypeOK
  <2>5. wpc' \in [Workers -> WorkerPc]
    BY <1>s, <1>r DEF Stop, RegTypeOK, WorkerPc
  <2> QED
    BY <2>3, <2>4, <2>5
<1>m. ASSUME NEW s \in Servers, NEW r \in ServerRec, RemoveFromLookup(s, r)
      PROVE  /\ srv' \in [Servers -> ServerRec]
             /\ lookup' \in [Pods -> Servers \cup {NoServer}]
  <2>1. [r EXCEPT !.flags = @ \ {"ENABLED"}] \in ServerRec
    BY DEF ServerRec
  <2>2. srv' \in [Servers -> ServerRec]
    BY <1>m, <1>t, <2>1 DEF RemoveFromLookup
  <2>3. lookup' \in [Pods -> Servers \cup {NoServer}]
    BY <1>m DEF RemoveFromLookup, RegTypeOK
  <2> QED
    BY <2>2, <2>3
<1>e. ASSUME NEW d \in Dialers, DialEnds(d)
      PROVE  dial' \in [Dialers -> DialRec] /\ wpc' \in [Workers -> WorkerPc]
  BY <1>e, <1>d, <1>w DEF DialEnds, NoDial, RegTypeOK, WorkerPc
<1>1. CASE RegistryWakes \/ RegistryEnds
  BY <1>1, <1>w DEF RegistryWakes, RegistryEnds, RegTypeOK, WorkerPc
<1>2. ASSUME NEW w \in Refreshers, ResolveFailed(w) \/ EvictDone(w)
      PROVE  RegTypeOK'
  BY <1>2, <1>w, <1>r DEF ResolveFailed, EvictDone, RegTypeOK, WorkerPc
<1>3. ASSUME NEW w \in Refreshers, NEW ips \in SUBSET Ips, Resolve(w, ips)
      PROVE  RegTypeOK'
  BY <1>3, <1>w DEF Resolve, RegTypeOK, WorkerPc, NothingFound
<1>4. ASSUME NEW w \in Refreshers, NEW i \in Ips, Probe(w, i)
      PROVE  RegTypeOK'
  <2> DEFINE p == serversProbeJanusPodAtIp(i)
             to == IF found[w][p] = NoIp THEN i ELSE found[w][p]
  <2>1. CASE p \in Pods
    <3>1. to \in Ips \cup {NoIp}
      BY <2>1 DEF RegTypeOK
    <3>2. confirmed' = [confirmed EXCEPT ![p] = 0] /\ found' = [found EXCEPT ![w][p] = to]
      BY <1>4, <2>1 DEF Probe
    <3> HIDE DEF p, to
    <3>3. [found[w] EXCEPT ![p] = to] \in [Pods -> Ips \cup {NoIp}]
      BY <3>1, <2>1 DEF RegTypeOK
    <3>4. found' = [found EXCEPT ![w] = [found[w] EXCEPT ![p] = to]]
      BY <3>2
    <3>5. found' \in [Refreshers -> [Pods -> Ips \cup {NoIp}]]
      BY <3>3, <3>4 DEF RegTypeOK
    <3>6. confirmed' \in [Pods -> 0 .. MaxAge]
      BY <3>2, <1>z DEF RegTypeOK
    <3> QED
      BY <1>4, <3>5, <3>6 DEF Probe, RegTypeOK
  <2>2. CASE p \notin Pods
    BY <1>4, <2>2 DEF Probe, RegTypeOK
  <2> QED
    BY <2>1, <2>2
<1>5. ASSUME NEW w \in Refreshers, Apply(w)
      PROVE  RegTypeOK'
  <2>1. srv' \in [Servers -> ServerRec] /\ lookup' \in [Pods -> Servers \cup {NoServer}]
    BY <1>5, ApplyEffect
  <2>2. found' \in [Refreshers -> [Pods -> Ips \cup {NoIp}]]
    BY <1>5 DEF Apply, RegTypeOK, NothingFound
  <2>3. evicting' \in [Workers -> SUBSET Servers]
    BY <1>5, <1>w DEF Apply, Fitting, RegTypeOK
  <2>4. wpc' \in [Workers -> WorkerPc] /\ todo' \in [Refreshers -> SUBSET Ips]
    BY <1>5, <1>w DEF Apply, RegTypeOK, WorkerPc
  <2>5. trusted' \in [Servers -> Ips \cup {NoIp}]
    BY <1>5 DEF Apply, StillTrusted, RegTypeOK
  <2> QED
    BY <1>5, <2>1, <2>2, <2>3, <2>4, <2>5 DEF Apply, RegTypeOK, ServerRec
<1>6. ASSUME NEW w \in Refreshers, NEW s \in Servers, EvictNext(w, s)
      PROVE  RegTypeOK'
  BY <1>6, <1>s, <1>w DEF EvictNext, RegTypeOK, ServerRec
<1>7. ASSUME NEW w \in Workers, RemoveEvicted(w)
      PROVE  RegTypeOK'
  <2>1. CASE stopping[w] \in Servers
    <3>1. srv[stopping[w]] \in ServerRec
      BY <2>1, <1>t
    <3>2. srv' \in [Servers -> ServerRec] /\ lookup' \in [Pods -> Servers \cup {NoServer}]
      BY <1>7, <2>1, <3>1, <1>m DEF RemoveEvicted
    <3> QED
      BY <1>7, <3>2, <1>r DEF RemoveEvicted, RegTypeOK, ServerRec, WorkerPc
  <2>2. CASE stopping[w] = NoServer
    <3>1. srv' = srv /\ lookup' \in [Pods -> Servers \cup {NoServer}]
      BY <1>7, <2>2, <1>t DEF RemoveEvicted, RemoveFromLookup, RegTypeOK
    <3> QED
      BY <1>7, <3>1, <1>r DEF RemoveEvicted, RegTypeOK, WorkerPc
  <2> QED
    BY <2>1, <2>2 DEF RegTypeOK
<1>8. ASSUME NEW w \in Workers, JoinDone(w)
      PROVE  RegTypeOK'
  <2>1. srv' \in [Servers -> ServerRec]
    <3> DEFINE s == stopping[w]
               r == [srv[s] EXCEPT !.flags = @ \ {"TERMINATING", "ENABLED"}]
    <3>1. s \in Servers \cup {NoServer} /\ srv' = [srv EXCEPT ![s] = r]
      BY <1>8 DEF JoinDone, RegTypeOK
    <3>2. s \in Servers => r \in ServerRec
      BY <1>t DEF ServerRec
    <3> HIDE DEF s, r
    <3> QED
      BY <3>1, <3>2, <1>u
  <2> QED
    BY <1>8, <2>1, <1>r DEF JoinDone, RegTypeOK, ServerRec, WorkerPc
<1>9. ASSUME NEW s \in Servers, ThreadGivesUp(s) \/ NewSession(s)
      PROVE  RegTypeOK'
  <2>1. srv' \in [Servers -> ServerRec]
    <3>1. srv[s] \in ServerRec /\ srv[s].flags \cup {"EVICTED"} \in SUBSET Flags
      BY <1>t DEF ServerRec, Flags
    <3>2. /\ [srv[s] EXCEPT !.leaving = TRUE, !.flags = @ \cup {"EVICTED"}] \in ServerRec
          /\ [srv[s] EXCEPT !.calls = 0] \in ServerRec
      <4>1. [srv[s] EXCEPT !.calls = 0] \in ServerRec
        BY <3>1 DEF ServerRec
      <4>2. [srv[s] EXCEPT !.flags = @ \cup {"EVICTED"}] \in ServerRec
        BY <3>1 DEF ServerRec
      <4>3. \A r \in ServerRec : [r EXCEPT !.leaving = TRUE] \in ServerRec
        BY DEF ServerRec
      <4>4. [srv[s] EXCEPT !.leaving = TRUE, !.flags = @ \cup {"EVICTED"}]
              = [[srv[s] EXCEPT !.flags = @ \cup {"EVICTED"}] EXCEPT !.leaving = TRUE]
        BY <3>1 DEF ServerRec
      <4> QED
        BY <4>1, <4>2, <4>3, <4>4
    <3>3. \/ srv' = [srv EXCEPT ![s] = [srv[s] EXCEPT !.leaving = TRUE,
                                                     !.flags = @ \cup {"EVICTED"}]]
          \/ srv' = [srv EXCEPT ![s] = [srv[s] EXCEPT !.calls = 0]]
      BY <1>9, <1>t DEF ThreadGivesUp, NewSession
    <3> QED
      BY <3>2, <3>3, <1>u
  <2> QED
    BY <1>9, <2>1 DEF ThreadGivesUp, NewSession, RegTypeOK, ServerRec
<1>10. ASSUME NEW s \in Servers, ThreadDone(s)
       PROVE  RegTypeOK'
  <2> DEFINE r == [srv[s] EXCEPT !.threads = @ - 1, !.leaving = FALSE]
  <2>1. r \in ServerRec
    <3>1. srv[s].threads - 1 \in Nat
      BY <1>10, <1>t DEF ThreadDone, ServerRec
    <3> QED
      BY <3>1, <1>t DEF ServerRec
  <2>2. RemoveFromLookup(s, r) \/ (srv' = [srv EXCEPT ![s] = r] /\ UNCHANGED lookup)
    BY <1>10 DEF ThreadDone
  <2> HIDE DEF r
  <2>3. srv' \in [Servers -> ServerRec] /\ lookup' \in [Pods -> Servers \cup {NoServer}]
    BY <2>1, <2>2, <1>m, <1>t DEF RegTypeOK
  <2> QED
    BY <1>10, <2>3 DEF ThreadDone, RegTypeOK, ServerRec
<1>11. ASSUME NEW c \in Consoles, NEW s \in Servers, ConsoleDisable(c, s)
       PROVE  RegTypeOK'
  BY <1>11, <1>s, <1>w DEF ConsoleDisable, RegTypeOK, ServerRec
<1>12. CASE Unload \/ RegistryJoined \/ UnloadDone
  <2>1. CASE Unload \/ UnloadDone
    BY <2>1, <1>w DEF Unload, UnloadDone, RegTypeOK, WorkerPc
  <2>2. CASE RegistryJoined
    <3>1. Range(lookup) \ {NoServer} \in SUBSET Servers
      BY DEF Range, RegTypeOK
    <3> QED
      BY <2>2, <3>1, <1>w DEF RegistryJoined, RegTypeOK, WorkerPc
  <2> QED
    BY <1>12, <2>1, <2>2
<1>13. ASSUME NEW s \in Servers, UnloadNext(s)
       PROVE  RegTypeOK'
  BY <1>13, <1>s, <1>w DEF UnloadNext, RegTypeOK, ServerRec
<1>14. ASSUME NEW d \in Dialers, Dial(d)
       PROVE  RegTypeOK'
  <2>f. /\ wpc[d] # "idle" => dial[d].pod \in Pods
        /\ wpc[d] \in {"verify", "identify", "store", "dialled", "call"}
             => dial[d].server \in Servers
    BY DEF DialSound
  <2>1. ASSUME NEW p \in Pods, DialStart(d, p)
        PROVE  RegTypeOK'
    BY <2>1, <1>w, <1>d DEF DialStart, RegTypeOK, WorkerPc
  <2>2. CASE Find(d) \/ FindFailed(d)
    <3>1. lookup[dial[d].pod] \in Servers \cup {NoServer}
      BY <2>2, <2>f DEF Find, FindFailed, RegTypeOK
    <3>w. wpc' \in [Workers -> WorkerPc]
      BY <2>2, <1>w, <1>e DEF Find, FindFailed, RegTypeOK, WorkerPc
    <3>d. /\ [dial[d] EXCEPT !.server = lookup[dial[d].pod]] \in DialRec
          /\ [dial[d] EXCEPT !.stage = 1] \in DialRec
      BY <3>1, <1>d
    <3>2. dial' \in [Dialers -> DialRec]
      BY <2>2, <3>d, <1>d, <1>e DEF Find, FindFailed
    <3> QED
      BY <2>2, <3>w, <3>2 DEF Find, FindFailed, RegTypeOK
  <2>3. CASE Verify(d)
    <3>1. srv[dial[d].server].pod_ip \in Ips \cup {NoIp}
      BY <2>3, <2>f, <1>t DEF Verify, ServerRec
    <3>w. wpc' \in [Workers -> WorkerPc]
      <4>1. PICK pc \in {"dialled", "identify"} : wpc' = [wpc EXCEPT ![d] = pc]
        BY <2>3 DEF Verify
      <4> QED
        BY <4>1, <1>w DEF RegTypeOK, WorkerPc
    <3>d. /\ [dial[d] EXCEPT !.stage = 0] \in DialRec
          /\ [dial[d] EXCEPT !.ip = srv[dial[d].server].pod_ip] \in DialRec
      BY <3>1, <1>d
    <3>2. dial' \in [Dialers -> DialRec]
      BY <2>3, <3>d, <1>d DEF Verify
    <3> QED
      BY <2>3, <3>w, <3>2 DEF Verify, RegTypeOK
  <2>4. CASE VerifyMatch(d)
    <3>1. confirmed' \in [Pods -> 0 .. MaxAge]
      BY <2>4, <1>z DEF VerifyMatch, RegTypeOK
    <3>w. wpc' \in [Workers -> WorkerPc]
      BY <2>4, <1>w DEF VerifyMatch, RegTypeOK, WorkerPc
    <3>d. [dial[d] EXCEPT !.stage = 0] \in DialRec
      BY <1>d
    <3>2. dial' \in [Dialers -> DialRec]
      BY <2>4, <3>d, <1>d DEF VerifyMatch
    <3> QED
      BY <2>4, <3>1, <3>w, <3>2 DEF VerifyMatch, RegTypeOK
  <2>5. CASE VerifyStore(d)
    <3>1. srv' \in [Servers -> ServerRec]
      BY <2>5, <2>f, <1>t, <1>z DEF VerifyStore, ServerRec
    <3>2. wpc' \in [Workers -> WorkerPc]
      BY <2>5, <1>w DEF VerifyStore, RegTypeOK, WorkerPc
    <3>3. trusted' \in [Servers -> Ips \cup {NoIp}]
      <4>1. srv[dial[d].server].pod_ip \in Ips \cup {NoIp}
        BY <2>5, <2>f, <1>t DEF VerifyStore, ServerRec
      <4> QED
        BY <2>5, <4>1 DEF VerifyStore, RegTypeOK
    <3>d. [dial[d] EXCEPT !.ip = NoIp, !.delay = 0] \in DialRec
      <4>1. \A r \in DialRec : /\ [r EXCEPT !.ip = NoIp] \in DialRec
                               /\ [r EXCEPT !.delay = 0] \in DialRec
        BY <1>z
      <4>2. [dial[d] EXCEPT !.ip = NoIp, !.delay = 0]
              = [[dial[d] EXCEPT !.ip = NoIp] EXCEPT !.delay = 0]
        BY <1>d
      <4> QED
        BY <4>1, <4>2, <1>d
    <3>4. dial' \in [Dialers -> DialRec]
      BY <2>5, <3>d, <1>d DEF VerifyStore
    <3> QED
      <4>1. UNCHANGED <<world, confirmed, lookup, todo, found, evicting, stopping>>
        BY <2>5 DEF VerifyStore
      <4> QED
        BY <4>1, <3>1, <3>2, <3>3, <3>4 DEF RegTypeOK, ServerRec
  <2>6. CASE VerifyFailed(d)
    <3>w. wpc' \in [Workers -> WorkerPc]
      <4>1. wpc' = [wpc EXCEPT ![d] = "resolve"] \/ DialEnds(d)
        BY <2>6 DEF VerifyFailed
      <4> QED
        BY <4>1, <1>w, <1>e DEF RegTypeOK, WorkerPc
    <3>d. [dial[d] EXCEPT !.stage = 2, !.server = NoServer, !.ip = NoIp] \in DialRec
      <4>1. \A r \in DialRec : /\ [r EXCEPT !.ip = NoIp] \in DialRec
                               /\ [r EXCEPT !.server = NoServer] \in DialRec
                               /\ [r EXCEPT !.stage = 2] \in DialRec
        OBVIOUS
      <4>2. [dial[d] EXCEPT !.stage = 2, !.server = NoServer, !.ip = NoIp] =
              [[[dial[d] EXCEPT !.stage = 2] EXCEPT !.server = NoServer] EXCEPT !.ip = NoIp]
        BY <1>d
      <4> QED
        BY <4>1, <4>2, <1>d
    <3>2. dial' \in [Dialers -> DialRec]
      BY <2>6, <3>d, <1>d, <1>e DEF VerifyFailed
    <3> QED
      BY <2>6, <3>w, <3>2 DEF VerifyFailed, RegTypeOK
  <2>7. CASE Connected(d)
    <3>1. srv' \in [Servers -> ServerRec]
      BY <2>7, <2>f, <1>t DEF Connected, ServerRec
    <3>2. wpc' \in [Workers -> WorkerPc]
      BY <2>7, <1>w DEF Connected, RegTypeOK, WorkerPc
    <3> QED
      BY <2>7, <3>1, <3>2 DEF Connected, RegTypeOK, ServerRec
  <2>8. CASE HangUp(d)
    <3>1. srv' \in [Servers -> ServerRec]
      BY <2>8, <2>f, <1>t DEF HangUp, ServerRec
    <3>2. dial' \in [Dialers -> DialRec] /\ wpc' \in [Workers -> WorkerPc]
      BY <2>8, <1>e DEF HangUp
    <3> QED
      BY <2>8, <3>1, <3>2 DEF HangUp, RegTypeOK, ServerRec
  <2>9. CASE NotConnected(d) \/ HangUpUnserved(d)
    <3>2. dial' \in [Dialers -> DialRec] /\ wpc' \in [Workers -> WorkerPc]
      BY <2>9, <1>e DEF NotConnected, HangUpUnserved
    <3> QED
      BY <2>9, <3>2 DEF NotConnected, HangUpUnserved, RegTypeOK
  <2> QED
    BY <1>14, <2>1, <2>2, <2>3, <2>4, <2>5, <2>6, <2>7, <2>8, <2>9 DEF Dial
<1>15. ASSUME NEW i \in Ips, NEW p \in Pods, PodStarts(i, p)
       PROVE  RegTypeOK'
  BY <1>15 DEF PodStarts, RegTypeOK
<1>16. ASSUME NEW i \in Ips, PodStops(i)
       PROVE  RegTypeOK'
  BY <1>16 DEF PodStops, RegTypeOK
<1>17. CASE Tick
  <2>1. /\ \A age \in 0 .. Ttl : Older(age, Ttl) \in 0 .. Ttl
        /\ \A age \in 0 .. MaxAge : Older(age, MaxAge) \in 0 .. MaxAge
    BY DEF Older, MaxAge
  <2>2. confirmed' \in [Pods -> 0 .. MaxAge]
    BY <1>17, <2>1 DEF Tick, RegTypeOK
  <2>3. srv' \in [Servers -> ServerRec]
    BY <1>17, <2>1, <1>t DEF Tick, ServerRec
  <2>4. trusted' \in [Servers -> Ips \cup {NoIp}]
    BY <1>17 DEF Tick, StillTrusted, RegTypeOK
  <2>5. dial' \in [Dialers -> DialRec]
    <3>1. ASSUME NEW d \in Dialers, dial[d].delay < MaxDelay
          PROVE  [dial[d] EXCEPT !.delay = @ + 1] \in DialRec
      <4>1. dial[d].delay + 1 \in 0 .. MaxDelay
        BY <3>1, <1>d
      <4> QED
        BY <4>1, <1>d
    <3> QED
      BY <1>17, <3>1, <1>d DEF Tick
  <2> QED
    BY <1>17, <2>2, <2>3, <2>4, <2>5 DEF Tick, RegTypeOK, ServerRec
<1> QED
  BY <1>1, <1>2, <1>3, <1>4, <1>5, <1>6, <1>7, <1>8, <1>9, <1>10, <1>11, <1>12,
     <1>13, <1>14, <1>15, <1>16, <1>17 DEF RegNext, Refresh

-----------------------------------------------------------------------------
(***************************************************************************)
(* Two lemmas cover most steps: one for what happens to the servers, one    *)
(* for the diallers.                                                        *)
(***************************************************************************)
ServersSound == OneThreadPerServer /\ Named /\ RunningEnabled /\ AgeKnown

\* A step that starts no thread, lists no server, disables only servers that
\* have no thread or are not listed after it, and makes nobody younger.
LEMMA ServersKept ==
  ASSUME RegInv, RegTypeOK',
         \A p \in Pods : lookup'[p] \in {lookup[p], NoServer},
         \A p \in Pods : confirmed'[p] <= confirmed[p],
         \A s \in Servers :
           /\ srv'[s].name = srv[s].name
           /\ srv'[s].age = srv[s].age
           /\ srv'[s].pod_ip = srv[s].pod_ip
           /\ trusted'[s] = trusted[s]
           /\ srv'[s].threads <= srv[s].threads
           /\ \/ "ENABLED" \in srv[s].flags => "ENABLED" \in srv'[s].flags
              \/ srv'[s].threads = 0
              \/ \A p \in Pods : lookup'[p] # s
  PROVE  ServersSound'
<1> USE RegistryAssumption DEF RegInv
<1>t. srv \in [Servers -> ServerRec] /\ srv' \in [Servers -> ServerRec]
  BY DEF RegTypeOK, ServerRec
<1>n. \A s \in Servers : srv[s].threads \in Nat /\ srv'[s].threads \in Nat
                         /\ srv[s].age \in Int
  BY <1>t DEF ServerRec
<1>l. \A p \in Pods : /\ lookup'[p] \in Servers \cup {NoServer}
                      /\ confirmed[p] \in Int /\ confirmed'[p] \in Int
  BY DEF RegTypeOK
<1>1. OneThreadPerServer'
  BY <1>n DEF OneThreadPerServer
<1>2. Named'
  BY <1>l DEF Named
<1>3. RunningEnabled'
  BY <1>l, <1>n DEF RunningEnabled
<1>4. AgeKnown'
  BY <1>l, <1>n DEF AgeKnown
<1> QED
  BY <1>1, <1>2, <1>3, <1>4 DEF ServersSound

\* A step that changes no local of a dialler, and moves one at most within a
\* refresh or out of it.
LEMMA DialersKept ==
  ASSUME RegInv, dial' = dial,
         \A d \in Dialers :
           /\ dial[d].server \in Servers
                => srv'[dial[d].server].name = srv[dial[d].server].name
           /\ \/ wpc'[d] = wpc[d]
              \/ /\ wpc[d] # "idle"
                 /\ wpc'[d] \in {"resolve", "probe", "evict", "find", "join", "remove"}
           /\ wpc[d] = "store" =>
                confirmed'[dial[d].pod] \in {confirmed[dial[d].pod], 0}
  PROVE  DialSound'
<1>1. \A d \in Dialers : 0 <= dial[d].delay
  BY RegistryAssumption DEF RegInv, RegTypeOK
<1> QED
  BY <1>1 DEF RegInv, DialSound

\* A step that changes neither the servers nor what a dialler knows.
LEMMA RefreshMoves ==
  ASSUME RegInv, RegTypeOK', UNCHANGED <<confirmed, trusted, lookup, srv, dial>>,
         \A d \in Dialers :
           \/ wpc'[d] = wpc[d]
           \/ /\ wpc[d] # "idle"
              /\ wpc'[d] \in {"resolve", "probe", "evict", "find", "join", "remove"}
  PROVE  ServersSound' /\ DialSound'
<1>n. \A s \in Servers : srv[s].threads \in Nat
  BY DEF RegInv, RegTypeOK
<1>c. \A p \in Pods : confirmed[p] \in Int
  BY RegistryAssumption DEF RegInv, RegTypeOK
<1>1. ServersSound'
  BY ServersKept, <1>n, <1>c
<1>2. DialSound'
  BY DialersKept
<1> QED
  BY <1>1, <1>2

\* Every step keeps the invariant.
LEMMA RegInvNext == RegInv /\ [RegNext]_regVars => RegInv'
<1> SUFFICES ASSUME RegInv, [RegNext]_regVars PROVE RegInv'
  OBVIOUS
<1> USE RegistryAssumption DEF Goto
<1>0. CASE UNCHANGED regVars
  BY <1>0 DEF RegInv, regVars, RegTypeOK, OneThreadPerServer, Named, RunningEnabled,
              AgeKnown, DialSound
<1> SUFFICES ASSUME RegNext PROVE RegInv'
  BY <1>0
<1>y. RegTypeOK'
  BY RegTypeNext
<1> SUFFICES ServersSound' /\ DialSound'
  BY <1>y DEF RegInv, ServersSound
<1>t. srv \in [Servers -> ServerRec] /\ srv' \in [Servers -> ServerRec]
  BY <1>y DEF RegInv, RegTypeOK, ServerRec
<1>n. /\ \A s \in Servers : srv[s].threads \in Nat /\ srv[s].age \in Nat
      /\ \A p \in Pods : confirmed[p] \in Nat
  BY <1>t DEF ServerRec, RegInv, RegTypeOK
<1>w. /\ Refreshers \subseteq Workers /\ Dialers \subseteq Refreshers
      /\ Unloader \in Workers \ Dialers /\ RegistryThread \in Workers \ Dialers
      /\ Consoles \subseteq Workers \ Dialers
      /\ wpc \in [Workers -> WorkerPc]
  BY DEF Refreshers, Workers, RegInv, RegTypeOK
<1>d. \A d \in Dialers : 0 <= dial[d].delay /\ 0 <= dial'[d].delay
  BY <1>y DEF RegInv, RegTypeOK
<1>r. \A d \in Dialers : RefreshReturn(d) = "find" /\ StopReturn(d) = "evict"
  BY DEF RefreshReturn, StopReturn, Refreshers
<1>g. ASSUME NEW w \in Workers, NEW pc, wpc' = [wpc EXCEPT ![w] = pc],
             w \in Dialers => /\ wpc[w] # "idle"
                              /\ pc \in {"resolve", "probe", "evict", "find", "join", "remove"}
      PROVE  \A d \in Dialers :
               \/ wpc'[d] = wpc[d]
               \/ /\ wpc[d] # "idle"
                  /\ wpc'[d] \in {"resolve", "probe", "evict", "find", "join", "remove"}
  BY <1>g, <1>w
<1>1. CASE RegistryWakes \/ RegistryEnds \/ Unload \/ RegistryJoined
  <2>1. UNCHANGED <<confirmed, trusted, lookup, srv, dial>>
    BY <1>1 DEF RegistryWakes, RegistryEnds, Unload, RegistryJoined
  <2>2. \A d \in Dialers : wpc'[d] = wpc[d]
    BY <1>1, <1>w DEF RegistryWakes, RegistryEnds, Unload, RegistryJoined
  <2> QED
    BY <2>1, <2>2, <1>y, RefreshMoves
<1>2. ASSUME NEW w \in Refreshers, NEW ips,
             ResolveFailed(w) \/ Resolve(w, ips) \/ EvictDone(w)
      PROVE  ServersSound' /\ DialSound'
  <2>1. UNCHANGED <<confirmed, trusted, lookup, srv, dial>>
    BY <1>2 DEF ResolveFailed, Resolve, EvictDone
  <2>2. PICK pc \in {RefreshReturn(w), "probe"} :
          wpc' = [wpc EXCEPT ![w] = pc] /\ wpc[w] # "idle"
    BY <1>2 DEF ResolveFailed, Resolve, EvictDone
  <2>3. w \in Dialers => pc \in {"find", "probe"}
    BY <1>r
  <2> QED
    BY <2>1, <2>2, <2>3, <1>g, <1>w, <1>y, RefreshMoves
<1>3. ASSUME NEW w \in Refreshers, NEW i \in Ips, Probe(w, i)
      PROVE  ServersSound' /\ DialSound'
  <2>1. UNCHANGED <<trusted, lookup, srv, wpc, dial>>
    BY <1>3 DEF Probe
  <2>2. \A p \in Pods : confirmed'[p] \in {confirmed[p], 0}
    BY <1>3, <1>n DEF Probe, RegInv, RegTypeOK
  <2>3. ServersSound'
    BY <2>1, <2>2, <1>n, <1>y, ServersKept
  <2>4. DialSound'
    <3>1. ASSUME NEW d \in Dialers, wpc[d] = "store"
          PROVE  confirmed'[dial[d].pod] \in {confirmed[dial[d].pod], 0}
      BY <3>1, <2>2 DEF RegInv, DialSound
    <3> QED
      BY <2>1, <3>1, DialersKept
  <2> QED
    BY <2>3, <2>4
<1>4. ASSUME NEW w \in Refreshers, Apply(w)
      PROVE  ServersSound' /\ DialSound'
  <2>1. /\ \A s \in Servers : \/ Created(s, srv'[s], w)
                              \/ Updated(s, srv'[s], w)
                              \/ srv'[s] = srv[s]
        /\ \A p \in Pods : \/ lookup'[p] = lookup[p]
                            \/ /\ lookup'[p] \in Free
                               /\ srv'[lookup'[p]] =
                                    serversCreateRegistryServer(p, found[w][p])
    BY <1>4, ApplyEffect DEF RegInv
  <2>2. /\ UNCHANGED <<confirmed, dial>>
        /\ \A s \in Servers : srv'[s].age < Ttl => trusted'[s] = trusted[s]
    BY <1>4 DEF Apply, StillTrusted
  <2>3. \A s \in Servers : s \in Free =>
          /\ srv[s].threads = 0
          /\ \A p \in Pods : lookup[p] # s
          /\ \A d \in Dialers : dial[d].server # s
    BY DEF Free, Range, RegInv, RegTypeOK
  <2>4. \A s \in Servers :
          /\ Created(s, srv'[s], w) =>
               /\ srv'[s].threads = 1 /\ "ENABLED" \in srv'[s].flags
               /\ srv'[s].age = Ttl /\ s \in Free
          /\ Updated(s, srv'[s], w) =>
               /\ srv'[s].threads = IF "ENABLED" \in srv[s].flags
                                      THEN srv[s].threads ELSE srv[s].threads + 1
               /\ "ENABLED" \in srv'[s].flags
               /\ srv'[s].name = srv[s].name
               /\ srv'[s].age = Ttl \/ (srv'[s].age = srv[s].age
                                         /\ srv'[s].pod_ip = srv[s].pod_ip)
               /\ \E p \in Pods : lookup[p] = s
    <3> SUFFICES ASSUME NEW s \in Servers
                 PROVE  /\ Created(s, srv'[s], w) =>
                            /\ srv'[s].threads = 1 /\ "ENABLED" \in srv'[s].flags
                            /\ srv'[s].age = Ttl /\ s \in Free
                        /\ Updated(s, srv'[s], w) =>
                            /\ srv'[s].threads = IF "ENABLED" \in srv[s].flags
                                                   THEN srv[s].threads
                                                   ELSE srv[s].threads + 1
                            /\ "ENABLED" \in srv'[s].flags
                            /\ srv'[s].name = srv[s].name
                            /\ srv'[s].age = Ttl \/ (srv'[s].age = srv[s].age
                                         /\ srv'[s].pod_ip = srv[s].pod_ip)
                            /\ \E p \in Pods : lookup[p] = s
      OBVIOUS
    <3>1. CASE Created(s, srv'[s], w)
      <4>1. PICK p \in Pods :
              s \in Free /\ srv'[s] = serversCreateRegistryServer(p, found[w][p])
        BY <3>1 DEF Created
      <4>2. /\ srv'[s].threads = 1 /\ "ENABLED" \in srv'[s].flags
            /\ srv'[s].age = Ttl
        BY <4>1, CreatedFields
      <4>3. ~Updated(s, srv'[s], w)
        BY <4>1, <2>3 DEF Updated
      <4> QED
        BY <4>1, <4>2, <4>3
    <3>2. CASE Updated(s, srv'[s], w)
      <4>1. PICK p \in Pods :
              lookup[p] = s /\ srv'[s] = serversUpdateRegistryServer(srv[s], found[w][p])
        BY <3>2 DEF Updated
      <4>2. /\ srv'[s].threads = IF "ENABLED" \in srv[s].flags
                                   THEN srv[s].threads ELSE srv[s].threads + 1
            /\ "ENABLED" \in srv'[s].flags
            /\ srv'[s].name = srv[s].name
            /\ srv'[s].age = Ttl \/ (srv'[s].age = srv[s].age
                                      /\ srv'[s].pod_ip = srv[s].pod_ip)
        BY <4>1, <1>t, UpdatedFields
      <4>3. ~Created(s, srv'[s], w)
        BY <4>1, <2>3 DEF Created
      <4> QED
        BY <4>1, <4>2, <4>3
    <3> QED
      BY <3>1, <3>2
  <2>5. \A p \in Pods : lookup'[p] # lookup[p] => srv'[lookup'[p]].name = p
    BY <2>1, CreatedFields
  <2>l. \A p \in Pods : /\ lookup[p] \in Servers \cup {NoServer}
                        /\ lookup'[p] \in Servers \cup {NoServer}
    BY <1>y DEF RegInv, RegTypeOK
  <2>6. OneThreadPerServer'
    <3> SUFFICES ASSUME NEW s \in Servers PROVE srv'[s].threads <= 1
      BY DEF OneThreadPerServer
    <3>1. srv[s].threads <= 1
      BY DEF RegInv, OneThreadPerServer
    <3>2. CASE Created(s, srv'[s], w)
      BY <3>2, <2>4
    <3>3. CASE Updated(s, srv'[s], w)
      <4>1. PICK p \in Pods : lookup[p] = s
        BY <3>3, <2>4
      <4>2. srv[s].threads > 0 => "ENABLED" \in srv[s].flags
        BY <4>1 DEF RegInv, RunningEnabled
      <4> QED
        BY <3>1, <3>3, <4>2, <2>4, <1>n
    <3> QED
      BY <3>1, <3>2, <3>3, <2>1
  <2>7. Named'
    <3> SUFFICES ASSUME NEW p \in Pods, lookup'[p] # NoServer
                 PROVE  srv'[lookup'[p]].name = p
      BY DEF Named
    <3>1. CASE lookup'[p] = lookup[p]
      <4>1. lookup[p] \in Servers /\ srv[lookup[p]].name = p
        BY <3>1, <2>l DEF RegInv, Named
      <4>2. lookup[p] \notin Free
        BY <4>1, <2>3
      <4> QED
        BY <3>1, <4>1, <4>2, <2>1, <2>4
    <3> QED
      BY <3>1, <2>5
  <2>8. RunningEnabled'
    <3> SUFFICES ASSUME NEW p \in Pods, lookup'[p] # NoServer,
                        srv'[lookup'[p]].threads > 0
                 PROVE  "ENABLED" \in srv'[lookup'[p]].flags
      BY DEF RunningEnabled
    <3>1. lookup'[p] \in Servers
      BY <2>l
    <3>2. CASE srv'[lookup'[p]] = srv[lookup'[p]] /\ lookup'[p] = lookup[p]
      BY <3>2 DEF RegInv, RunningEnabled
    <3>3. CASE lookup'[p] # lookup[p]
      BY <3>3, <2>1, CreatedFields
    <3> QED
      BY <3>1, <3>2, <3>3, <2>1, <2>4
  <2>9. AgeKnown'
    <3> SUFFICES ASSUME NEW s \in Servers, srv'[s].age < Ttl
                 PROVE  /\ srv'[s].name \in Pods
                        /\ confirmed'[srv'[s].name] <= srv'[s].age + MaxDelay
                        /\ trusted'[s] = srv'[s].pod_ip
      BY DEF AgeKnown
    <3>1. /\ srv'[s].name = srv[s].name /\ srv'[s].age = srv[s].age
          /\ srv'[s].pod_ip = srv[s].pod_ip
      BY <2>1, <2>4
    <3> QED
      BY <3>1, <2>2 DEF RegInv, AgeKnown
  <2>10. DialSound'
    <3>1. ASSUME NEW d \in Dialers, dial[d].server \in Servers
          PROVE  srv'[dial[d].server].name = srv[dial[d].server].name
      <4>1. dial[d].server \notin Free
        BY <3>1, <2>3
      <4> QED
        BY <3>1, <4>1, <2>1, <2>4
    <3>2. \A d \in Dialers : \/ wpc'[d] = wpc[d]
                             \/ wpc[d] # "idle" /\ wpc'[d] = "evict"
      BY <1>4, <1>w DEF Apply
    <3> QED
      BY <3>1, <3>2, <2>2, DialersKept
  <2> QED
    BY <2>6, <2>7, <2>8, <2>9, <2>10 DEF ServersSound
<1>s. ASSUME NEW w \in Workers, NEW s \in Servers, NEW mark, Stop(w, s, mark),
             UNCHANGED <<confirmed, trusted, lookup, dial>>,
             w \in Dialers => wpc[w] # "idle"
      PROVE  ServersSound' /\ DialSound'
  <2>1. \A u \in Servers : /\ srv'[u].name = srv[u].name
                           /\ srv'[u].age = srv[u].age /\ srv'[u].pod_ip = srv[u].pod_ip
                           /\ srv'[u].threads = srv[u].threads
                           /\ srv[u].flags \subseteq srv'[u].flags
    BY <1>s, <1>t DEF Stop, ServerRec
  <2>2. PICK pc \in {"join", "remove", StopReturn(w)} : wpc' = [wpc EXCEPT ![w] = pc]
    BY <1>s DEF Stop
  <2>3. w \in Dialers => pc \in {"join", "remove", "evict"}
    BY <1>r
  <2>4. ServersSound'
    BY <2>1, <1>s, <1>n, <1>y, ServersKept
  <2>5. DialSound'
    <3>1. \A d \in Dialers :
               \/ wpc'[d] = wpc[d]
               \/ /\ wpc[d] # "idle"
                  /\ wpc'[d] \in {"resolve", "probe", "evict", "find", "join", "remove"}
      BY <2>2, <2>3, <1>s, <1>g
    <3> QED
      BY <2>1, <3>1, <1>s, DialersKept
  <2> QED
    BY <2>4, <2>5
<1>5. ASSUME NEW w \in Refreshers, NEW s \in Servers, EvictNext(w, s)
      PROVE  ServersSound' /\ DialSound'
  BY <1>5, <1>s, <1>w DEF EvictNext
<1>6. ASSUME NEW c \in Consoles, NEW s \in Servers, ConsoleDisable(c, s)
      PROVE  ServersSound' /\ DialSound'
  BY <1>6, <1>s, <1>w DEF ConsoleDisable
<1>7. ASSUME NEW s \in Servers, UnloadNext(s)
      PROVE  ServersSound' /\ DialSound'
  BY <1>7, <1>s, <1>w DEF UnloadNext
<1>m. ASSUME NEW s, NEW r, RemoveFromLookup(s, r), UNCHANGED <<confirmed, trusted, dial>>,
             s \in Servers => /\ r.name = srv[s].name /\ r.age = srv[s].age
                              /\ r.pod_ip = srv[s].pod_ip
                              /\ r.threads <= srv[s].threads /\ r.flags = srv[s].flags
                              /\ r \in ServerRec,
             \A d \in Dialers :
               \/ wpc'[d] = wpc[d]
               \/ /\ wpc[d] # "idle"
                  /\ wpc'[d] \in {"resolve", "probe", "evict", "find", "join", "remove"}
      PROVE  ServersSound' /\ DialSound'
  <2>1. \A u \in Servers : /\ srv'[u].name = srv[u].name
                           /\ srv'[u].age = srv[u].age /\ srv'[u].pod_ip = srv[u].pod_ip
                           /\ srv'[u].threads <= srv[u].threads
                           /\ u # s => srv'[u] = srv[u]
    BY <1>m, <1>t, <1>n DEF RemoveFromLookup, ServerRec
  <2>2. \A p \in Pods : lookup'[p] \in {lookup[p], NoServer}
    BY <1>m DEF RemoveFromLookup, RegInv, RegTypeOK
  <2>3. ASSUME s \in Servers, "ENABLED" \in srv[s].flags, "ENABLED" \notin srv'[s].flags,
               NEW p \in Pods
        PROVE  lookup'[p] # s
    <3>1. lookup' = [lookup EXCEPT ![r.name] = NoServer]
      BY <1>m, <2>3, <1>t DEF RemoveFromLookup
    <3>2. lookup[p] = s => p = r.name
      BY <1>m, <2>3 DEF RegInv, Named
    <3> QED
      BY <3>1, <3>2, <2>3 DEF RegInv, RegTypeOK
  <2>4. ServersSound'
    BY <2>1, <2>2, <2>3, <1>m, <1>n, <1>y, ServersKept
  <2>5. DialSound'
    BY <2>1, <1>m, DialersKept
  <2> QED
    BY <2>4, <2>5
<1>8. ASSUME NEW w \in Workers, RemoveEvicted(w)
      PROVE  ServersSound' /\ DialSound'
  <2>1. \A d \in Dialers :
           \/ wpc'[d] = wpc[d]
           \/ /\ wpc[d] # "idle"
              /\ wpc'[d] \in {"resolve", "probe", "evict", "find", "join", "remove"}
    BY <1>8, <1>w, <1>r DEF RemoveEvicted
  <2>2. /\ RemoveFromLookup(stopping[w], srv[stopping[w]])
        /\ UNCHANGED <<confirmed, trusted, dial>>
    BY <1>8 DEF RemoveEvicted
  <2>3. stopping[w] \in Servers => srv[stopping[w]] \in ServerRec
                                   /\ srv[stopping[w]].threads <= srv[stopping[w]].threads
    BY <1>t, <1>n
  <2> QED
    BY <2>1, <2>2, <2>3, <1>m
<1>9. ASSUME NEW s \in Servers, ThreadDone(s)
      PROVE  ServersSound' /\ DialSound'
  <2> DEFINE r == [srv[s] EXCEPT !.threads = @ - 1, !.leaving = FALSE]
  <2>1. /\ r.name = srv[s].name /\ r.age = srv[s].age /\ r.flags = srv[s].flags
        /\ r.pod_ip = srv[s].pod_ip
        /\ r.threads = srv[s].threads - 1
    BY <1>t DEF ServerRec
  <2>2. r.threads <= srv[s].threads /\ r.threads \in Nat
    BY <2>1, <1>9, <1>n DEF ThreadDone
  <2>3. r \in ServerRec
    <3>1. [srv[s] EXCEPT !.threads = @ - 1] \in ServerRec
      BY <2>1, <2>2, <1>t DEF ServerRec
    <3>2. \A q \in ServerRec : [q EXCEPT !.leaving = FALSE] \in ServerRec
      BY DEF ServerRec
    <3>3. r = [[srv[s] EXCEPT !.threads = @ - 1] EXCEPT !.leaving = FALSE]
      BY <1>t DEF ServerRec
    <3> QED
      BY <3>1, <3>2, <3>3
  <2>4. UNCHANGED <<confirmed, trusted, dial, wpc>>
    BY <1>9 DEF ThreadDone
  <2>5. RemoveFromLookup(s, r) \/ (srv' = [srv EXCEPT ![s] = r] /\ UNCHANGED lookup)
    BY <1>9 DEF ThreadDone
  <2> HIDE DEF r
  <2>6. CASE RemoveFromLookup(s, r)
    BY <2>1, <2>2, <2>3, <2>4, <2>6, <1>m
  <2>7. CASE srv' = [srv EXCEPT ![s] = r] /\ UNCHANGED lookup
    <3>1. \A u \in Servers : /\ srv'[u].name = srv[u].name
                             /\ srv'[u].age = srv[u].age /\ srv'[u].pod_ip = srv[u].pod_ip
                             /\ srv'[u].threads <= srv[u].threads
                             /\ srv'[u].flags = srv[u].flags
      BY <2>1, <2>2, <2>7, <1>t, <1>n
    <3>2. ServersSound'
      BY <3>1, <2>4, <2>7, <1>n, <1>y, ServersKept
    <3>3. DialSound'
      BY <3>1, <2>4, DialersKept
    <3> QED
      BY <3>2, <3>3
  <2> QED
    BY <2>5, <2>6, <2>7
<1>10. ASSUME NEW w \in Workers, JoinDone(w)
       PROVE  ServersSound' /\ DialSound'
  <2>1. \A d \in Dialers :
           \/ wpc'[d] = wpc[d]
           \/ /\ wpc[d] # "idle"
              /\ wpc'[d] \in {"resolve", "probe", "evict", "find", "join", "remove"}
    BY <1>10, <1>w, <1>r DEF JoinDone
  <2>2. \A u \in Servers : /\ srv'[u].name = srv[u].name
                           /\ srv'[u].age = srv[u].age /\ srv'[u].pod_ip = srv[u].pod_ip
                           /\ srv'[u].threads = srv[u].threads
                           /\ srv'[u].flags = srv[u].flags \/ srv'[u].threads = 0
    BY <1>10, <1>t DEF JoinDone, ServerRec
  <2>3. UNCHANGED <<confirmed, trusted, lookup, dial>>
    BY <1>10 DEF JoinDone
  <2>4. ServersSound'
    BY <2>2, <2>3, <1>n, <1>y, ServersKept
  <2>5. DialSound'
    BY <2>1, <2>2, <2>3, DialersKept
  <2> QED
    BY <2>4, <2>5
<1>11. ASSUME NEW s \in Servers, ThreadGivesUp(s) \/ NewSession(s)
       PROVE  ServersSound' /\ DialSound'
  <2>1. \A u \in Servers : /\ srv'[u].name = srv[u].name
                           /\ srv'[u].age = srv[u].age /\ srv'[u].pod_ip = srv[u].pod_ip
                           /\ srv'[u].threads = srv[u].threads
                           /\ srv[u].flags \subseteq srv'[u].flags
    BY <1>11, <1>t DEF ThreadGivesUp, NewSession, ServerRec
  <2>2. UNCHANGED <<confirmed, trusted, lookup, dial, wpc>>
    BY <1>11 DEF ThreadGivesUp, NewSession
  <2>3. ServersSound'
    BY <2>1, <2>2, <1>n, <1>y, ServersKept
  <2>4. DialSound'
    BY <2>1, <2>2, DialersKept
  <2> QED
    BY <2>3, <2>4
<1>12. CASE UnloadDone
  <2>1. UNCHANGED <<confirmed, trusted, srv, dial>> /\ \A p \in Pods : lookup'[p] = NoServer
    BY <1>12 DEF UnloadDone
  <2>2. \A d \in Dialers : wpc'[d] = wpc[d]
    BY <1>12, <1>w DEF UnloadDone
  <2>3. ServersSound'
    BY <2>1, <1>n, <1>y, ServersKept
  <2>4. DialSound'
    BY <2>1, <2>2, DialersKept
  <2> QED
    BY <2>3, <2>4
<1>o. ASSUME NEW d \in Dialers, \A e \in Dialers \ {d} : wpc'[e] = wpc[e] /\ dial'[e] = dial[e],
             \A s \in Servers : srv'[s].name = srv[s].name,
             \A p \in Pods : confirmed'[p] \in {confirmed[p], 0},
             /\ wpc'[d] = "idle" => dial'[d].server = NoServer
             /\ wpc'[d] # "idle" => dial'[d].pod \in Pods
             /\ wpc'[d] \in {"verify", "identify", "store", "dialled", "call"}
                  => dial'[d].server \in Servers
             /\ dial'[d].server \in Servers => srv[dial'[d].server].name = dial'[d].pod
             /\ wpc'[d] = "store" => confirmed'[dial'[d].pod] = 0
      PROVE  DialSound'
  BY <1>o, <1>y, <1>d DEF RegInv, DialSound
<1>13. ASSUME NEW d \in Dialers, Dial(d)
       PROVE  ServersSound' /\ DialSound'
  <2> DEFINE DialRec == [pod : Pods \cup {NoPod}, server : Servers \cup {NoServer},
                         ip : Ips \cup {NoIp}, stage : 0 .. 2, delay : 0 .. MaxDelay]
  <2>d. dial \in [Dialers -> DialRec]
    BY DEF RegInv, RegTypeOK
  <2>f. /\ wpc[d] # "idle" => dial[d].pod \in Pods
        /\ wpc[d] \in {"verify", "identify", "store", "dialled", "call"}
             => dial[d].server \in Servers
        /\ dial[d].server \in Servers => srv[dial[d].server].name = dial[d].pod
        /\ wpc[d] = "store" => confirmed[dial[d].pod] <= dial[d].delay
    BY DEF RegInv, DialSound
  <2>e. DialEnds(d) => /\ \A e \in Dialers \ {d} : wpc'[e] = wpc[e] /\ dial'[e] = dial[e]
                       /\ wpc'[d] = "idle" /\ dial'[d].server = NoServer
    BY <1>w, <2>d DEF DialEnds, NoDial
  <2>u. UNCHANGED <<confirmed, trusted, lookup, srv>> => ServersSound'
    BY <1>n, <1>y, ServersKept
  <2>1. ASSUME NEW p \in Pods, DialStart(d, p)
        PROVE  ServersSound' /\ DialSound'
    <3>1. UNCHANGED <<confirmed, trusted, lookup, srv>>
      BY <2>1 DEF DialStart
    <3>2. /\ \A e \in Dialers \ {d} : wpc'[e] = wpc[e] /\ dial'[e] = dial[e]
          /\ wpc'[d] = "find" /\ dial'[d].pod = p /\ dial'[d].server = dial[d].server
      BY <2>1, <1>w, <2>d DEF DialStart
    <3>3. dial[d].server = NoServer
      BY <2>1 DEF DialStart, RegInv, DialSound
    <3>4. DialSound'
      BY <3>1, <3>2, <3>3, <1>o
    <3> QED
      BY <3>1, <3>4, <2>u
  <2>2. CASE Find(d) \/ FindFailed(d) \/ Verify(d) \/ VerifyFailed(d)
               \/ NotConnected(d) \/ HangUpUnserved(d)
    <3>1. UNCHANGED <<confirmed, trusted, lookup, srv>>
      BY <2>2 DEF Find, FindFailed, Verify, VerifyFailed, NotConnected, HangUpUnserved
    <3>2. CASE Find(d)
      <4>1. /\ \A e \in Dialers \ {d} : wpc'[e] = wpc[e] /\ dial'[e] = dial[e]
            /\ wpc'[d] = "verify" /\ dial'[d].pod = dial[d].pod
            /\ dial'[d].server = lookup[dial[d].pod]
            /\ lookup[dial[d].pod] # NoServer
        BY <3>2, <1>w, <2>d DEF Find
      <4>2. dial[d].pod \in Pods
        BY <3>2, <2>f DEF Find
      <4>3. lookup[dial[d].pod] \in Servers /\ srv[lookup[dial[d].pod]].name = dial[d].pod
        BY <4>1, <4>2 DEF RegInv, RegTypeOK, Named
      <4>4. DialSound'
        BY <3>1, <4>1, <4>2, <4>3, <1>o
      <4> QED
        BY <3>1, <4>4, <2>u
    <3>3. CASE DialEnds(d)
      <4>1. DialSound'
        BY <3>1, <3>3, <2>e, <1>o
      <4> QED
        BY <3>1, <4>1, <2>u
    <3>4. CASE Verify(d) \/ ((FindFailed(d) \/ VerifyFailed(d)) /\ ~DialEnds(d))
      <4>1. /\ \A e \in Dialers \ {d} : wpc'[e] = wpc[e] /\ dial'[e] = dial[e]
            /\ wpc'[d] \in {"resolve", "dialled", "identify"}
            /\ dial'[d].pod = dial[d].pod
            /\ dial'[d].server = dial[d].server \/ dial'[d].server = NoServer
            /\ wpc[d] # "idle"
            /\ wpc'[d] # "resolve" =>
                 wpc[d] = "verify" /\ dial'[d].server = dial[d].server
        <5>1. CASE Verify(d)
          BY <5>1, <1>w, <2>d DEF Verify
        <5>2. CASE FindFailed(d) /\ ~DialEnds(d)
          BY <5>2, <1>w, <2>d DEF FindFailed
        <5>3. CASE VerifyFailed(d) /\ ~DialEnds(d)
          BY <5>3, <1>w, <2>d DEF VerifyFailed
        <5> QED
          BY <3>4, <5>1, <5>2, <5>3
      <4>2. DialSound'
        BY <3>1, <4>1, <2>f, <1>o
      <4> QED
        BY <3>1, <4>2, <2>u
    <3> QED
      BY <2>2, <3>2, <3>3, <3>4 DEF NotConnected, HangUpUnserved
  <2>3. CASE VerifyMatch(d)
    <3>1. UNCHANGED <<trusted, lookup, srv>>
      BY <2>3 DEF VerifyMatch
    <3>2. dial[d].pod \in Pods
      BY <2>3, <2>f DEF VerifyMatch
    <3>3. /\ \A e \in Dialers \ {d} : wpc'[e] = wpc[e] /\ dial'[e] = dial[e]
          /\ wpc'[d] = "store" /\ wpc[d] = "identify"
          /\ dial'[d].pod = dial[d].pod /\ dial'[d].server = dial[d].server
      BY <2>3, <1>w, <2>d DEF VerifyMatch
    <3>4. confirmed'[dial[d].pod] = 0 /\ \A p \in Pods : confirmed'[p] \in {confirmed[p], 0}
      BY <2>3, <3>2 DEF VerifyMatch, RegInv, RegTypeOK
    <3>5. ServersSound'
      BY <3>1, <3>4, <1>n, <1>y, ServersKept
    <3>6. DialSound'
      BY <3>1, <3>2, <3>3, <3>4, <2>f, <1>o
    <3> QED
      BY <3>5, <3>6
  <2>4. CASE VerifyStore(d)
    <3>1. UNCHANGED <<confirmed, lookup>>
      BY <2>4 DEF VerifyStore
    <3>2. /\ dial[d].server \in Servers /\ dial[d].pod \in Pods
          /\ srv[dial[d].server].name = dial[d].pod
          /\ confirmed[dial[d].pod] <= dial[d].delay
      BY <2>4, <2>f DEF VerifyStore
    <3>3. \A s \in Servers : /\ srv'[s].name = srv[s].name
                             /\ srv'[s].threads = srv[s].threads
                             /\ srv'[s].flags = srv[s].flags
                             /\ srv'[s].pod_ip = srv[s].pod_ip
                             /\ srv'[s].age = IF s = dial[d].server THEN 0 ELSE srv[s].age
      BY <2>4, <1>t DEF VerifyStore, ServerRec
    <3>4. /\ \A e \in Dialers \ {d} : wpc'[e] = wpc[e] /\ dial'[e] = dial[e]
          /\ wpc'[d] = "dialled"
          /\ dial'[d].pod = dial[d].pod /\ dial'[d].server = dial[d].server
      BY <2>4, <1>w, <2>d DEF VerifyStore
    <3>l. \A p \in Pods : lookup[p] \in Servers \cup {NoServer}
      BY DEF RegInv, RegTypeOK
    <3>5. (OneThreadPerServer /\ Named /\ RunningEnabled)'
      BY <3>1, <3>3, <3>l DEF RegInv, OneThreadPerServer, Named, RunningEnabled
    <3>6. AgeKnown'
      <4>1. \A s \in Servers : trusted'[s] = IF s = dial[d].server THEN srv[s].pod_ip
                                                                   ELSE trusted[s]
        BY <2>4 DEF VerifyStore, RegInv, RegTypeOK
      <4>2. dial[d].delay \in Int /\ dial[d].delay <= MaxDelay
        BY <2>d
      <4>3. confirmed[dial[d].pod] <= 0 + MaxDelay
        BY <3>2, <4>2, <1>n
      <4> QED
        BY <3>1, <3>2, <3>3, <4>1, <4>3 DEF RegInv, AgeKnown
    <3>7. DialSound'
      BY <3>1, <3>2, <3>3, <3>4, <1>o
    <3> QED
      BY <3>5, <3>6, <3>7 DEF ServersSound
  <2>5. CASE Connected(d) \/ HangUp(d)
    <3>1. UNCHANGED <<confirmed, trusted, lookup>>
      BY <2>5 DEF Connected, HangUp
    <3>2. \A s \in Servers : /\ srv'[s].name = srv[s].name
                             /\ srv'[s].threads = srv[s].threads
                             /\ srv'[s].flags = srv[s].flags
                             /\ srv'[s].age = srv[s].age /\ srv'[s].pod_ip = srv[s].pod_ip
      BY <2>5, <1>t DEF Connected, HangUp, ServerRec
    <3>3. ServersSound'
      BY <3>1, <3>2, <1>n, <1>y, ServersKept
    <3>4. CASE Connected(d)
      <4>1. /\ \A e \in Dialers \ {d} : wpc'[e] = wpc[e]
            /\ wpc'[d] = "call" /\ wpc[d] = "dialled" /\ dial' = dial
        BY <3>4, <1>w DEF Connected
      <4> QED
        BY <4>1, <3>1, <3>2, <3>3, <2>f, <1>o
    <3>5. CASE HangUp(d)
      <4>1. DialEnds(d)
        BY <3>5 DEF HangUp
      <4>2. DialSound'
        BY <4>1, <3>1, <3>2, <2>e, <1>o
      <4> QED
        BY <4>2, <3>3
    <3> QED
      BY <2>5, <3>4, <3>5
  <2> QED
    BY <1>13, <2>1, <2>2, <2>3, <2>4, <2>5 DEF Dial
<1>14. ASSUME NEW i \in Ips, (\E p \in Pods : PodStarts(i, p)) \/ PodStops(i)
       PROVE  ServersSound' /\ DialSound'
  <2>1. UNCHANGED <<confirmed, trusted, lookup, srv, wpc, dial>>
    BY <1>14 DEF PodStarts, PodStops
  <2> QED
    BY <2>1, <1>y, RefreshMoves
<1>15. CASE Tick
  <2>1. UNCHANGED <<lookup, wpc>>
    BY <1>15 DEF Tick
  <2>2. \A s \in Servers : /\ srv'[s].name = srv[s].name
                           /\ srv'[s].threads = srv[s].threads
                           /\ srv'[s].flags = srv[s].flags
                           /\ srv'[s].pod_ip = srv[s].pod_ip
                           /\ srv'[s].age = Older(srv[s].age, Ttl)
                           /\ srv'[s].age < Ttl => trusted'[s] = trusted[s]
    BY <1>15, <1>t DEF Tick, StillTrusted, ServerRec
  <2>3. \A p \in Pods : confirmed'[p] \in Int /\ confirmed'[p] <= confirmed[p] + 1
    <3>1. \A p \in Pods : confirmed'[p] = Older(confirmed[p], MaxAge)
      BY <1>15 DEF Tick
    <3>2. \A p \in Pods : confirmed[p] \in 0 .. MaxAge /\ MaxAge \in Nat
      BY DEF RegInv, RegTypeOK, MaxAge
    <3> QED
      BY <3>1, <3>2 DEF Older
  <2>l. \A p \in Pods : lookup[p] \in Servers \cup {NoServer}
    BY DEF RegInv, RegTypeOK
  <2>4. (OneThreadPerServer /\ Named /\ RunningEnabled)'
    BY <2>1, <2>2, <2>l DEF RegInv, OneThreadPerServer, Named, RunningEnabled
  <2>5. AgeKnown'
    <3> SUFFICES ASSUME NEW s \in Servers, srv'[s].age < Ttl
                 PROVE  /\ srv'[s].name \in Pods
                        /\ confirmed'[srv'[s].name] <= srv'[s].age + MaxDelay
                        /\ trusted'[s] = srv'[s].pod_ip
      BY DEF AgeKnown
    <3>1. srv[s].age < Ttl /\ srv'[s].age = srv[s].age + 1
      BY <2>2, <1>n DEF Older
    <3>2. /\ srv[s].name \in Pods /\ trusted[s] = srv[s].pod_ip
          /\ confirmed[srv[s].name] <= srv[s].age + MaxDelay
      BY <3>1 DEF RegInv, AgeKnown
    <3>3. confirmed'[srv[s].name] <= (srv[s].age + 1) + MaxDelay
      BY <3>2, <2>3, <1>n
    <3> QED
      BY <3>1, <3>2, <3>3, <2>2
  <2>6. DialSound'
    <3>1. ASSUME NEW d \in Dialers
          PROVE  /\ dial'[d].pod = dial[d].pod /\ dial'[d].server = dial[d].server
                 /\ wpc[d] = "store" => dial'[d].delay = dial[d].delay + 1
      BY <1>15 DEF Tick, RegInv, RegTypeOK
    <3>2. ASSUME NEW d \in Dialers, wpc[d] = "store"
          PROVE  confirmed'[dial[d].pod] <= dial[d].delay + 1
      <4>1. dial[d].pod \in Pods /\ confirmed[dial[d].pod] <= dial[d].delay
        BY <3>2 DEF RegInv, DialSound
      <4>2. dial[d].delay \in Int
        BY DEF RegInv, RegTypeOK
      <4> QED
        BY <4>1, <4>2, <2>3, <1>n
    <3> QED
      BY <3>1, <3>2, <2>1, <2>2 DEF RegInv, DialSound
  <2> QED
    BY <2>4, <2>5, <2>6 DEF ServersSound
<1> QED
  BY <1>1, <1>2, <1>3, <1>4, <1>5, <1>6, <1>7, <1>8, <1>9, <1>10, <1>11, <1>12,
     <1>13, <1>14, <1>15 DEF RegNext, Refresh

-----------------------------------------------------------------------------
LEMMA RegSpecInv == RegSpec => []RegInv
BY RegInitInv, RegInvNext, PTL DEF RegSpec

\* Every table, server_t and local of the registry keeps its type; callsInProgress
\* in particular never goes below 0 (channel_on_hangup).
THEOREM RegTypeCorrect == RegSpec => []RegTypeOK
<1>1. RegInv => RegTypeOK
  BY DEF RegInv
<1> QED
  BY RegSpecInv, <1>1, PTL

\* However many threads refresh the registry, dial, disable or unload at the same
\* time, startServerThread never gives a server_t a second thread.
THEOREM RegOneThread == RegSpec => []OneThreadPerServer
<1>1. RegInv => OneThreadPerServer
  BY DEF RegInv
<1> QED
  BY RegSpecInv, <1>1, PTL

\* A dialler goes on to dial when its server's last_verified is fresh, or after
\* it has stored it.
LEMMA DialsBy ==
  ASSUME RegInv, RegNext, NEW d \in Dialers, Dials(d)
  PROVE  (Verify(d) /\ Fresh(srv[dial[d].server])) \/ VerifyStore(d)
<1> USE RegistryAssumption DEF Goto, Dials
<1>w. /\ wpc \in [Workers -> WorkerPc] /\ d \in Workers
      /\ Unloader # d /\ RegistryThread # d /\ d \notin Consoles
  BY DEF RegInv, RegTypeOK, Refreshers, Workers
<1>r. \A w \in Workers : /\ RefreshReturn(w) # "dialled" /\ StopReturn(w) # "dialled"
  BY DEF RefreshReturn, StopReturn
<1>1. CASE Verify(d)
  BY <1>1, <1>w DEF Verify
<1>2. CASE ~(Verify(d) \/ VerifyStore(d))
  <2>1. ASSUME NEW e \in Dialers, Dial(e) PROVE FALSE
    <3>1. CASE e = d
      BY <3>1, <2>1, <1>2, <1>w DEF Dial, DialStart, Find, FindFailed, VerifyMatch,
           VerifyFailed, Connected, NotConnected, HangUp, HangUpUnserved, DialEnds
    <3>2. CASE e # d
      BY <3>2, <2>1, <1>w DEF Dial, DialStart, Find, FindFailed, Verify, VerifyMatch,
           VerifyStore, VerifyFailed, Connected, NotConnected, HangUp,
           HangUpUnserved, DialEnds
    <3> QED
      BY <3>1, <3>2
  <2>s. ASSUME NEW w \in Workers, NEW s, NEW mark, Stop(w, s, mark) PROVE FALSE
    BY <2>s, <1>w, <1>r DEF Stop
  <2>2. ASSUME NEW w \in Refreshers, Refresh(w) PROVE FALSE
    BY <2>2, <2>s, <1>w, <1>r DEF Refresh, ResolveFailed, Resolve, Probe, Apply,
         EvictNext, EvictDone, Workers
  <2>3. ASSUME NEW w \in Workers, RemoveEvicted(w) \/ JoinDone(w) PROVE FALSE
    BY <2>3, <1>w, <1>r DEF RemoveEvicted, JoinDone
  <2>4. CASE RegistryWakes \/ RegistryEnds \/ Unload \/ RegistryJoined \/ UnloadDone
    BY <2>4, <1>w DEF RegistryWakes, RegistryEnds, Unload, RegistryJoined, UnloadDone
  <2>5. ASSUME NEW c \in Consoles, NEW s \in Servers, ConsoleDisable(c, s)
        PROVE  FALSE
    BY <2>5, <2>s DEF ConsoleDisable, Workers
  <2>6. ASSUME NEW s \in Servers, UnloadNext(s) PROVE FALSE
    BY <2>6, <2>s DEF UnloadNext, Workers
  <2>7. ASSUME UNCHANGED wpc PROVE FALSE
    BY <2>7
  <2> QED
    BY <2>1, <2>2, <2>3, <2>4, <2>5, <2>6, <2>7
       DEF RegNext, ThreadGivesUp, ThreadDone, NewSession, PodStarts, PodStops, Tick
<1> QED
  BY <1>1, <1>2

\* What a dialler that is about to dial knows.
LEMMA DialerKnows ==
  ASSUME RegInv, NEW d \in Dialers, wpc[d] \in {"verify", "store"}
  PROVE  /\ dial[d].server \in Servers /\ dial[d].pod \in Pods
         /\ srv[dial[d].server].name = dial[d].pod
         /\ wpc[d] = "store" => confirmed[dial[d].pod] <= dial[d].delay
         /\ confirmed[dial[d].pod] \in Int /\ dial[d].delay \in 0 .. MaxDelay
         /\ srv[dial[d].server].age \in Int
<1>1. /\ dial[d].server \in Servers /\ dial[d].pod \in Pods
      /\ srv[dial[d].server].name = dial[d].pod
      /\ wpc[d] = "store" => confirmed[dial[d].pod] <= dial[d].delay
  BY DEF RegInv, DialSound
<1> QED
  BY <1>1, RegistryAssumption DEF RegInv, RegTypeOK

\* resolveServerForDial lets a dial go on only for a pod that answered a probe
\* less than SERVER_VERIFY_TTL_US ago, plus the time that the dialler which got
\* the answer needed to store last_verified, however long that may be.
THEOREM RegDialedPodAlive == RegSpec => DialedPodAlive
<1> DEFINE Alive == \A d \in Dialers : Dials(d) => confirmed'[dial[d].pod] < MaxAge
<1>1. RegInv /\ [RegNext]_regVars => [Alive]_regVars
  <2> SUFFICES ASSUME RegInv, RegNext, NEW d \in Dialers, Dials(d)
               PROVE  confirmed'[dial[d].pod] < MaxAge
    OBVIOUS
  <2> USE RegistryAssumption DEF MaxAge
  <2>1. CASE Verify(d) /\ Fresh(srv[dial[d].server])
    <3>1. wpc[d] = "verify" /\ confirmed' = confirmed
      BY <2>1 DEF Verify
    <3>2. confirmed[dial[d].pod] <= srv[dial[d].server].age + MaxDelay
      BY <2>1, <3>1, DialerKnows DEF RegInv, AgeKnown, Fresh
    <3> QED
      BY <2>1, <3>1, <3>2, DialerKnows DEF Fresh
  <2>2. CASE VerifyStore(d)
    <3>1. wpc[d] = "store" /\ confirmed' = confirmed
      BY <2>2 DEF VerifyStore
    <3> QED
      BY <3>1, DialerKnows
  <2> QED
    BY <2>1, <2>2, DialsBy
<1> QED
  BY RegSpecInv, <1>1, PTL DEF RegSpec, DialedPodAlive

\* resolveServerForDial never dials a server that a refresh has moved since its
\* last_verified was stored, whichever thread refreshed and whichever stored.
THEOREM RegMovedReverified == RegSpec => MovedReverified
<1> DEFINE Unmoved == \A d \in Dialers : LET s == dial[d].server IN
                        Dials(d) => srv'[s].pod_ip = trusted'[s]
<1>1. RegInv /\ [RegNext]_regVars => [Unmoved]_regVars
  <2> SUFFICES ASSUME RegInv, RegNext, NEW d \in Dialers, Dials(d)
               PROVE  srv'[dial[d].server].pod_ip = trusted'[dial[d].server]
    OBVIOUS
  <2>1. CASE Verify(d) /\ Fresh(srv[dial[d].server])
    <3>1. wpc[d] = "verify" /\ srv' = srv /\ trusted' = trusted
      BY <2>1 DEF Verify
    <3> QED
      BY <2>1, <3>1, DialerKnows DEF RegInv, AgeKnown, Fresh
  <2>2. CASE VerifyStore(d)
    <3>1. wpc[d] = "store"
      BY <2>2 DEF VerifyStore
    <3>2. dial[d].server \in Servers
      BY <3>1, DialerKnows
    <3>3. trusted'[dial[d].server] = srv[dial[d].server].pod_ip
      BY <2>2, <3>2 DEF VerifyStore, RegInv, RegTypeOK
    <3>4. srv'[dial[d].server].pod_ip = srv[dial[d].server].pod_ip
      BY <2>2, <3>2 DEF VerifyStore, RegInv, RegTypeOK
    <3> QED
      BY <3>3, <3>4
  <2> QED
    BY <2>1, <2>2, DialsBy
<1> QED
  BY RegSpecInv, <1>1, PTL DEF RegSpec, MovedReverified

-----------------------------------------------------------------------------
(***************************************************************************)
(* The unload.  It stops the servers that are listed when the registry      *)
(* thread has ended, so the argument is about threads nobody lists.  There  *)
(* are none as long as one thread at a time refreshes and stops servers:    *)
(* with a second one, serversDynamicRemoveFromLookup may take the server    *)
(* off the table that was created in place of the one it is called for.     *)
(***************************************************************************)
OnlyRegistryThread == Dialers = {} /\ Consoles = {}

Running(s) == srv[s].threads > 0

\* A server_t with a thread is listed under its name.
RunningListed ==
  \A s \in Servers : Running(s) => srv[s].name \in Pods /\ lookup[srv[s].name] = s

\* Where the two threads can be: the unload waits for the registry thread
\* before it stops anything.
Phases ==
  /\ wpc[RegistryThread] \in {"idle", "resolve", "probe", "evict", "remove",
                              "join", "ended"}
  /\ wpc[Unloader] \in {"idle", "joinRegistry", "unload", "remove", "join", "down"}
  /\ wpc[Unloader] \notin {"idle", "joinRegistry"} => wpc[RegistryThread] = "ended"

\* No other server_t is listed under the name.
Unreplaced(s) == srv[s].name \in Pods /\ lookup[srv[s].name] \in {NoServer, s}

\* A server that is still to be stopped has not been replaced, and one that is
\* only removed from the table has no thread.
ToStop ==
  \A w \in Workers :
    /\ wpc[w] \in {"evict", "unload", "remove", "join"} =>
         \A s \in evicting[w] : Unreplaced(s)
    /\ wpc[w] = "remove" => /\ stopping[w] \in Servers
                            /\ Unreplaced(stopping[w])
                            /\ ~Running(stopping[w])
    /\ wpc[w] = "join" => stopping[w] \in Servers

\* SFLAG_TERMINATING is set while somebody joins the thread.
TerminatingJoined ==
  \A s \in Servers : "TERMINATING" \in srv[s].flags =>
    \E w \in Workers : wpc[w] = "join" /\ stopping[w] = s

\* The threads that run are those the unload has yet to stop.
LeftToStop ==
  /\ wpc[Unloader] \in {"unload", "remove", "join"} =>
       \A s \in Servers : Running(s) =>
         \/ s \in evicting[Unloader]
         \/ wpc[Unloader] = "join" /\ stopping[Unloader] = s
  /\ wpc[Unloader] = "down" => \A s \in Servers : ~Running(s)

UnloadInv ==
  /\ RunningListed
  /\ Phases
  /\ ToStop
  /\ TerminatingJoined
  /\ LeftToStop

\* An assignment to one element changes no other one.
LEMMA OthersKept ==
  ASSUME NEW A, NEW B, NEW f \in [A -> B], NEW a, NEW b, NEW g,
         g = [f EXCEPT ![a] = b], NEW x \in A
  PROVE  g[x] = f[x] \/ (x = a /\ g[x] = b)
OBVIOUS

\* A step that starts and stops no thread on somebody's behalf: no server is
\* created or told to terminate, those that keep running stay listed, and
\* workers at most leave what they did other than a join.
LEMMA UnloadKept ==
  ASSUME RegInv, RegTypeOK', UnloadInv, Phases',
         \A s \in Servers :
           /\ srv'[s].name = srv[s].name
           /\ Running(s)' => Running(s) /\ lookup'[srv[s].name] = lookup[srv[s].name]
           /\ "TERMINATING" \in srv'[s].flags => "TERMINATING" \in srv[s].flags,
         \A p \in Pods : lookup'[p] \in {lookup[p], NoServer},
         UNCHANGED <<evicting, stopping>>,
         \A w \in Workers :
           \/ wpc'[w] = wpc[w]
           \/ /\ wpc[w] # "join"
              /\ wpc'[w] \in {"idle", "resolve", "probe", "ended", "joinRegistry"}
  PROVE  UnloadInv'
<1>w. Unloader \in Workers
  BY DEF Workers
<1>t. /\ \A w \in Workers : evicting[w] \subseteq Servers
      /\ \A w \in Workers : stopping[w] \in Servers \cup {NoServer}
  BY DEF RegInv, RegTypeOK
<1>1. RunningListed'
  BY DEF UnloadInv, RunningListed, Running
<1>2. ASSUME NEW s \in Servers, Unreplaced(s) PROVE Unreplaced(s)'
  BY <1>2 DEF Unreplaced
<1>3. ToStop'
  BY <1>2, <1>t DEF UnloadInv, ToStop
<1>4. TerminatingJoined'
  BY DEF UnloadInv, TerminatingJoined
<1>5. LeftToStop'
  BY <1>w DEF UnloadInv, LeftToStop
<1> QED
  BY <1>1, <1>3, <1>4, <1>5 DEF UnloadInv

LEMMA UnloadInitInv == OnlyRegistryThread /\ RegInit => UnloadInv
<1> SUFFICES ASSUME OnlyRegistryThread, RegInit PROVE UnloadInv
  OBVIOUS
<1> USE RegistryAssumption DEF RegInit
<1>1. /\ \A s \in Servers : ~Running(s) /\ srv[s].flags = {}
      /\ wpc[RegistryThread] = "resolve" /\ wpc[Unloader] = "idle"
      /\ \A w \in Workers : wpc[w] \in {"resolve", "idle"}
  BY DEF Running, Workers, Refreshers
<1>2. RunningListed /\ TerminatingJoined
  BY <1>1 DEF RunningListed, TerminatingJoined
<1>3. Phases /\ ToStop /\ LeftToStop
  BY <1>1 DEF Phases, ToStop, LeftToStop
<1> QED
  BY <1>2, <1>3 DEF UnloadInv

-----------------------------------------------------------------------------
\* stopServerThread, called by one of the two threads for a server on its list.
LEMMA UnloadStop ==
  ASSUME OnlyRegistryThread, RegInv, RegTypeOK', UnloadInv, NEW w \in Workers,
         NEW s \in evicting[w], NEW mark \in SUBSET {"EVICTED"}, Stop(w, s, mark),
         wpc[w] = StopReturn(w), wpc[w] \in {"evict", "unload"},
         evicting' = [evicting EXCEPT ![w] = @ \ {s}], lookup' = lookup
  PROVE  UnloadInv'
<1> USE RegistryAssumption DEF Goto
<1>w. /\ Workers = {RegistryThread, Unloader} /\ RegistryThread # Unloader
      /\ StopReturn(RegistryThread) = "evict" /\ StopReturn(Unloader) = "unload"
  BY DEF Workers, Refreshers, OnlyRegistryThread, StopReturn
<1>t. /\ s \in Servers
      /\ \A v \in Workers : evicting[v] \subseteq Servers
      /\ stopping \in [Workers -> Servers \cup {NoServer}]
      /\ wpc \in [Workers -> WorkerPc] /\ evicting \in [Workers -> SUBSET Servers]
      /\ lookup \in [Pods -> Servers \cup {NoServer}]
      /\ srv \in [Servers -> ServerRec]
  BY DEF RegInv, RegTypeOK, ServerRec
<1>1. PICK pc \in {"join", "remove", StopReturn(w)} :
         /\ pc = "join" <=> CanStop(s)
         /\ wpc' = [wpc EXCEPT ![w] = pc]
         /\ stopping' = [stopping EXCEPT ![w] = IF pc = StopReturn(w) THEN NoServer ELSE s]
         /\ srv' = [srv EXCEPT ![s].flags =
                      IF pc = "join" THEN (srv[s].flags \cup mark) \cup {"TERMINATING"}
                                     ELSE srv[s].flags \cup mark]
  BY <1>w DEF Stop
<1>2. /\ \A u \in Servers : /\ srv'[u].name = srv[u].name
                            /\ srv'[u].threads = srv[u].threads
      /\ \A u \in Servers \ {s} : srv'[u].flags = srv[u].flags
      /\ srv'[s].flags \subseteq srv[s].flags \cup {"EVICTED", "TERMINATING"}
      /\ pc # "join" => srv'[s].flags \subseteq srv[s].flags \cup {"EVICTED"}
  BY <1>1, <1>t DEF ServerRec
<1>3. \A v \in Workers : v # w => wpc'[v] = wpc[v] /\ stopping'[v] = stopping[v]
                                  /\ evicting'[v] = evicting[v]
  BY <1>1, <1>t
<1>4. wpc'[w] = pc /\ evicting'[w] = evicting[w] \ {s}
      /\ stopping'[w] = IF pc = StopReturn(w) THEN NoServer ELSE s
  BY <1>1, <1>t
<1>5. \A u \in Servers : /\ Unreplaced(u)' <=> Unreplaced(u)
                         /\ Running(u)' <=> Running(u)
  BY <1>2 DEF Unreplaced, Running
<1>6. Unreplaced(s)
  BY <1>w DEF UnloadInv, ToStop
<1>7. \A v \in Workers : v # w => wpc[v] # "join"
  <2>1. CASE w = RegistryThread
    BY <2>1, <1>w DEF UnloadInv, Phases
  <2>2. CASE w = Unloader
    BY <2>2, <1>w DEF UnloadInv, Phases
  <2> QED
    BY <2>1, <2>2, <1>w
<1>8. Running(s) => pc = "join"
  <2> SUFFICES ASSUME Running(s) PROVE CanStop(s)
    BY <1>1
  <2>1. srv[s].name \in Pods /\ lookup[srv[s].name] = s
    BY <1>t DEF UnloadInv, RunningListed
  <2>2. "ENABLED" \in srv[s].flags
    BY <2>1, <1>t DEF RegInv, RunningEnabled, Running
  <2>3. "TERMINATING" \notin srv[s].flags
    BY <1>7, <1>t DEF UnloadInv, TerminatingJoined
  <2> QED
    BY <2>2, <2>3 DEF CanStop
<1>9. RunningListed'
  BY <1>2, <1>5 DEF UnloadInv, RunningListed
<1>10. Phases'
  <2>1. CASE w = RegistryThread
    BY <2>1, <1>1, <1>3, <1>4, <1>w DEF UnloadInv, Phases
  <2>2. CASE w = Unloader
    BY <2>2, <1>1, <1>3, <1>4, <1>w DEF UnloadInv, Phases
  <2> QED
    BY <2>1, <2>2, <1>w
<1>11. ToStop'
  <2> SUFFICES ASSUME NEW v \in Workers
               PROVE  /\ wpc'[v] \in {"evict", "unload", "remove", "join"} =>
                           \A u \in evicting'[v] : Unreplaced(u)'
                      /\ wpc'[v] = "remove" => /\ stopping'[v] \in Servers
                                               /\ Unreplaced(stopping[v])'
                                               /\ ~Running(stopping[v])'
                      /\ wpc'[v] = "join" => stopping'[v] \in Servers
    BY DEF ToStop
  <2>1. CASE v # w
    BY <2>1, <1>3, <1>5, <1>t DEF UnloadInv, ToStop, Unreplaced, Running
  <2>2. CASE v = w
    <3>1. \A u \in evicting'[w] : Unreplaced(u)'
      BY <1>4, <1>5, <1>t DEF UnloadInv, ToStop
    <3>2. pc \in {"join", "remove"} => stopping'[w] = s
      BY <1>4, <1>w
    <3>3. pc = "remove" => Unreplaced(s)' /\ ~Running(s)'
      BY <1>5, <1>6, <1>8, <1>t
    <3> QED
      BY <2>2, <3>1, <3>2, <3>3, <1>4, <1>t DEF Unreplaced, Running
  <2> QED
    BY <2>1, <2>2
<1>12. TerminatingJoined'
  <2> SUFFICES ASSUME NEW u \in Servers, "TERMINATING" \in srv'[u].flags
               PROVE  \E v \in Workers : wpc'[v] = "join" /\ stopping'[v] = u
    BY DEF TerminatingJoined
  <2>1. "TERMINATING" \notin srv[u].flags
    BY <1>7 DEF UnloadInv, TerminatingJoined
  <2>2. u = s /\ pc = "join"
    BY <2>1, <1>2
  <2> QED
    BY <2>2, <1>4, <1>w
<1>13. LeftToStop'
  <2>1. CASE w = RegistryThread
    BY <2>1, <1>3, <1>w DEF UnloadInv, Phases, LeftToStop
  <2>2. CASE w = Unloader
    <3>1. wpc[Unloader] = "unload" /\ pc # "down"
      BY <2>2, <1>w, <1>1
    <3>2. \A u \in Servers : Running(u)' => u \in evicting[Unloader]
      BY <3>1, <1>5 DEF UnloadInv, LeftToStop
    <3>3. \A u \in Servers : Running(u)' => u \in evicting'[Unloader] \/ u = s
      BY <3>2, <2>2, <1>4
    <3>4. Running(s)' => wpc'[Unloader] = "join" /\ stopping'[Unloader] = s
      BY <1>5, <1>8, <1>4, <1>t, <1>w, <2>2
    <3> QED
      BY <3>1, <3>3, <3>4, <2>2, <1>4 DEF LeftToStop
  <2> QED
    BY <2>1, <2>2, <1>w
<1> QED
  BY <1>9, <1>10, <1>11, <1>12, <1>13 DEF UnloadInv

\* A refresh is applied: what it creates is listed, and what it wants evicted
\* was found listed.
LEMMA UnloadApply ==
  ASSUME OnlyRegistryThread, RegInv, RegInv', UnloadInv, Apply(RegistryThread)
  PROVE  UnloadInv'
<1> USE RegistryAssumption DEF Goto
<1>w. /\ Workers = {RegistryThread, Unloader} /\ RegistryThread # Unloader
      /\ RegistryThread \in Refreshers
  BY DEF Workers, Refreshers, OnlyRegistryThread
<1>t. /\ wpc \in [Workers -> WorkerPc] /\ evicting \in [Workers -> SUBSET Servers]
      /\ lookup \in [Pods -> Servers \cup {NoServer}]
      /\ \A s \in Servers : srv[s] \in ServerRec
  BY DEF RegInv, RegTypeOK, ServerRec
<1>1. /\ \A s \in Servers : \/ Created(s, srv'[s], RegistryThread)
                            \/ Updated(s, srv'[s], RegistryThread)
                            \/ srv'[s] = srv[s]
      /\ \A p \in Pods : lookup[p] # NoServer \/ found[RegistryThread][p] = NoIp
                           => lookup'[p] = lookup[p]
  BY ApplyEffect, <1>w DEF RegInv
<1>2. /\ wpc[RegistryThread] = "probe" /\ wpc'[RegistryThread] = "evict"
      /\ wpc'[Unloader] = wpc[Unloader] /\ stopping' = stopping
  BY <1>w, <1>t DEF Apply
<1>3. wpc[Unloader] \in {"idle", "joinRegistry"}
  BY <1>2 DEF UnloadInv, Phases
<1>4. \A s \in Servers : "TERMINATING" \notin srv[s].flags
  BY <1>2, <1>3, <1>w DEF UnloadInv, TerminatingJoined
<1>5. ASSUME NEW s \in Servers
      PROVE  "TERMINATING" \notin srv'[s].flags
  <2>1. CASE Created(s, srv'[s], RegistryThread)
    BY <2>1 DEF Created, serversCreateRegistryServer
  <2>2. CASE Updated(s, srv'[s], RegistryThread)
    BY <2>2, <1>4, <1>t DEF Updated, serversUpdateRegistryServer, ServerRec
  <2>3. CASE srv'[s] = srv[s]
    BY <2>3, <1>4
  <2> QED
    BY <1>1, <2>1, <2>2, <2>3
<1>6. RunningListed'
  <2> SUFFICES ASSUME NEW s \in Servers, Running(s)'
               PROVE  \E p \in Pods : lookup'[p] = s
    BY RegistryAssumption DEF RunningListed, RegInv, Named
  <2>1. CASE Created(s, srv'[s], RegistryThread)
    BY <2>1 DEF Created
  <2>2. CASE Updated(s, srv'[s], RegistryThread)
    BY <2>2, <1>1 DEF Updated
  <2>3. CASE srv'[s] = srv[s]
    <3>1. srv[s].name \in Pods /\ lookup[srv[s].name] = s
      BY <2>3 DEF UnloadInv, RunningListed, Running
    <3> QED
      BY <3>1, <1>1
  <2> QED
    BY <1>1, <2>1, <2>2, <2>3
<1>7. ASSUME NEW s \in evicting'[RegistryThread]
      PROVE  Unreplaced(s)'
  <2>1. PICK p \in Pods \ Seen(RegistryThread) : lookup[p] = s /\ s \in Servers
    BY <1>w, <1>t DEF Apply, Fitting
  <2>2. lookup'[p] = s
    BY <2>1, <1>1 DEF Seen
  <2>3. srv'[s].name = p
    BY <2>1, <2>2 DEF RegInv, Named
  <2> QED
    BY <2>1, <2>2, <2>3 DEF Unreplaced
<1>8. ToStop'
  BY <1>2, <1>3, <1>7, <1>w DEF ToStop
<1>9. Phases' /\ LeftToStop'
  BY <1>2, <1>3 DEF UnloadInv, Phases, LeftToStop
<1>10. TerminatingJoined'
  BY <1>5 DEF TerminatingJoined
<1> QED
  BY <1>6, <1>8, <1>9, <1>10 DEF UnloadInv

\* Every step of the registry thread, the unload and the server threads.
LEMMA UnloadInvNext ==
  OnlyRegistryThread /\ RegInv /\ RegInv' /\ UnloadInv /\ [RegNext]_regVars
    => UnloadInv'
<1> SUFFICES ASSUME OnlyRegistryThread, RegInv, RegInv', UnloadInv, [RegNext]_regVars
             PROVE  UnloadInv'
  OBVIOUS
<1> USE RegistryAssumption DEF Goto
<1>w. /\ Workers = {RegistryThread, Unloader} /\ RegistryThread # Unloader
      /\ Refreshers = {RegistryThread} /\ Dialers = {} /\ Consoles = {}
      /\ StopReturn(RegistryThread) = "evict" /\ StopReturn(Unloader) = "unload"
      /\ RefreshReturn(RegistryThread) = "idle"
  BY DEF Workers, Refreshers, OnlyRegistryThread, StopReturn, RefreshReturn
<1>y. RegTypeOK /\ RegTypeOK'
  BY DEF RegInv
<1>t. /\ \A v \in Workers : evicting[v] \subseteq Servers
      /\ stopping \in [Workers -> Servers \cup {NoServer}]
      /\ wpc \in [Workers -> WorkerPc] /\ evicting \in [Workers -> SUBSET Servers]
      /\ lookup \in [Pods -> Servers \cup {NoServer}]
      /\ srv \in [Servers -> ServerRec]
  BY DEF RegInv, RegTypeOK, ServerRec
<1>h. ASSUME NEW s \in Servers PROVE srv[s].threads \in Nat /\ srv[s].threads <= 1
  BY <1>t DEF RegInv, ServerRec, OneThreadPerServer
<1>q. ASSUME UNCHANGED <<lookup, srv, evicting, stopping>>, Phases',
             \A w \in Workers :
               \/ wpc'[w] = wpc[w]
               \/ /\ wpc[w] # "join"
                  /\ wpc'[w] \in {"idle", "resolve", "probe", "ended", "joinRegistry"}
      PROVE  UnloadInv'
  BY <1>q, <1>y, UnloadKept DEF Running
<1>1. CASE RegistryWakes \/ RegistryEnds
  <2>1. UNCHANGED <<lookup, srv, evicting, stopping>>
    BY <1>1 DEF RegistryWakes, RegistryEnds
  <2>2. /\ wpc[RegistryThread] = "idle" /\ wpc'[RegistryThread] \in {"resolve", "ended"}
        /\ wpc'[Unloader] = wpc[Unloader]
    BY <1>1, <1>w, <1>t DEF RegistryWakes, RegistryEnds
  <2>3. Phases'
    BY <2>2 DEF UnloadInv, Phases
  <2> QED
    BY <2>1, <2>2, <2>3, <1>w, <1>q
<1>2. ASSUME NEW w \in Refreshers,
             \/ ResolveFailed(w) \/ EvictDone(w)
             \/ \E ips \in SUBSET Ips : Resolve(w, ips)
             \/ \E i \in Ips : Probe(w, i)
      PROVE  UnloadInv'
  <2>1. UNCHANGED <<lookup, srv, evicting, stopping>>
    BY <1>2 DEF ResolveFailed, EvictDone, Resolve, Probe
  <2>2. /\ wpc[RegistryThread] \in {"resolve", "probe", "evict"}
        /\ wpc'[RegistryThread] \in {"idle", "probe"}
        /\ wpc'[Unloader] = wpc[Unloader]
    BY <1>2, <1>w, <1>t DEF ResolveFailed, EvictDone, Resolve, Probe
  <2>3. Phases'
    BY <2>2 DEF UnloadInv, Phases
  <2> QED
    BY <2>1, <2>2, <2>3, <1>w, <1>q
<1>3. ASSUME NEW w \in Refreshers, Apply(w)
      PROVE  UnloadInv'
  BY <1>3, <1>w, UnloadApply
<1>4. ASSUME NEW w \in Refreshers, NEW s \in Servers, EvictNext(w, s)
      PROVE  UnloadInv'
  <2>1. /\ w \in Workers /\ s \in evicting[w] /\ wpc[w] = "evict"
        /\ Stop(w, s, {"EVICTED"}) /\ lookup' = lookup
        /\ evicting' = [evicting EXCEPT ![w] = @ \ {s}]
    BY <1>4, <1>w DEF EvictNext
  <2>2. {"EVICTED"} \in SUBSET {"EVICTED"} /\ wpc[w] = StopReturn(w)
    BY <2>1, <1>w
  <2> QED
    BY <2>1, <2>2, <1>y, UnloadStop
<1>5. ASSUME NEW s \in Servers, UnloadNext(s)
      PROVE  UnloadInv'
  <2>1. /\ Unloader \in Workers /\ s \in evicting[Unloader] /\ wpc[Unloader] = "unload"
        /\ Stop(Unloader, s, {}) /\ lookup' = lookup
        /\ evicting' = [evicting EXCEPT ![Unloader] = @ \ {s}]
    BY <1>5, <1>w DEF UnloadNext
  <2>2. {} \in SUBSET {"EVICTED"} /\ wpc[Unloader] = StopReturn(Unloader)
    BY <2>1, <1>w
  <2> QED
    BY <2>1, <2>2, <1>y, UnloadStop
<1>6. ASSUME NEW w \in Workers, RemoveEvicted(w)
      PROVE  UnloadInv'
  <2> DEFINE s == stopping[w]
  <2>1. /\ wpc[w] = "remove" /\ s \in Servers /\ Unreplaced(s) /\ ~Running(s)
    BY <1>6 DEF RemoveEvicted, UnloadInv, ToStop
  <2>2. /\ wpc' = [wpc EXCEPT ![w] = StopReturn(w)] /\ evicting' = evicting
        /\ stopping' = [stopping EXCEPT ![w] = NoServer]
    BY <1>6 DEF RemoveEvicted
  <2>3. /\ \A u \in Servers : /\ srv'[u].name = srv[u].name
                              /\ srv'[u].threads = srv[u].threads
                              /\ "TERMINATING" \in srv'[u].flags =>
                                   "TERMINATING" \in srv[u].flags
        /\ \A p \in Pods : lookup'[p] = lookup[p]
                             \/ (p = srv[s].name /\ lookup'[p] = NoServer)
    <3> DEFINE off == [srv[s] EXCEPT !.flags = @ \ {"ENABLED"}]
    <3>1. off.name = srv[s].name /\ off.threads = srv[s].threads
          /\ off.flags \subseteq srv[s].flags
      BY <2>1, <1>t DEF ServerRec
    <3>2. /\ srv' = [srv EXCEPT ![s] = off] \/ srv' = [srv EXCEPT ![s] = srv[s]]
          /\ lookup' = lookup \/ lookup' = [lookup EXCEPT ![srv[s].name] = NoServer]
      BY <1>6 DEF RemoveEvicted, RemoveFromLookup
    <3> HIDE DEF s, off
    <3>3. ASSUME NEW u \in Servers
          PROVE  srv'[u] = srv[u] \/ (u = s /\ srv'[u] = off)
      <4>1. CASE srv' = [srv EXCEPT ![s] = off]
        BY <4>1, <1>t, OthersKept
      <4>2. CASE srv' = [srv EXCEPT ![s] = srv[s]]
        BY <4>2, <1>t, OthersKept
      <4> QED
        BY <3>2, <4>1, <4>2
    <3>4. ASSUME NEW p \in Pods
          PROVE  lookup'[p] = lookup[p] \/ (p = srv[s].name /\ lookup'[p] = NoServer)
      <4>1. CASE lookup' = lookup
        BY <4>1
      <4>2. CASE lookup' = [lookup EXCEPT ![srv[s].name] = NoServer]
        BY <4>2, <1>t, OthersKept
      <4> QED
        BY <3>2, <4>1, <4>2
    <3> QED
      BY <3>1, <3>3, <3>4
  <2> HIDE DEF s
  <2>4. RunningListed'
    BY <2>1, <2>3 DEF UnloadInv, RunningListed, Running, Unreplaced
  <2>5. \A v \in Workers :
          \/ v # w /\ wpc'[v] = wpc[v] /\ stopping'[v] = stopping[v]
          \/ v = w /\ wpc'[v] = StopReturn(w) /\ wpc'[v] \in {"evict", "unload"}
    BY <2>2, <1>w, <1>t
  <2>6. \A u \in Servers : /\ Unreplaced(u) => Unreplaced(u)'
                           /\ Running(u)' <=> Running(u)
    BY <2>3 DEF Unreplaced, Running
  <2>7. ToStop'
    BY <2>1, <2>2, <2>5, <2>6, <1>t DEF UnloadInv, ToStop
  <2>8. Phases'
    BY <2>1, <2>5, <1>w DEF UnloadInv, Phases
  <2>9. TerminatingJoined'
    BY <2>1, <2>3, <2>5 DEF UnloadInv, TerminatingJoined
  <2>10. LeftToStop'
    BY <2>1, <2>2, <2>5, <2>6, <1>w DEF UnloadInv, LeftToStop
  <2> QED
    BY <2>4, <2>7, <2>8, <2>9, <2>10 DEF UnloadInv
<1>7. ASSUME NEW w \in Workers, JoinDone(w)
      PROVE  UnloadInv'
  <2> DEFINE s == stopping[w]
  <2>1. /\ wpc[w] = "join" /\ s \in Servers /\ ~Running(s)
    BY <1>7 DEF JoinDone, UnloadInv, ToStop, Running
  <2>2. /\ wpc' = [wpc EXCEPT ![w] = StopReturn(w)] /\ UNCHANGED <<evicting, lookup>>
        /\ stopping' = [stopping EXCEPT ![w] = NoServer]
    BY <1>7 DEF JoinDone
  <2>3. /\ \A u \in Servers : /\ srv'[u].name = srv[u].name
                              /\ srv'[u].threads = srv[u].threads
                              /\ "TERMINATING" \in srv'[u].flags =>
                                   u # s /\ "TERMINATING" \in srv[u].flags
    BY <1>7, <2>1, <1>t DEF JoinDone, ServerRec
  <2>4. \A v \in Workers :
          \/ v # w /\ wpc'[v] = wpc[v] /\ stopping'[v] = stopping[v]
          \/ v = w /\ wpc'[v] = StopReturn(w) /\ wpc'[v] \in {"evict", "unload"}
    BY <2>2, <1>w, <1>t
  <2>5. \A u \in Servers : /\ Unreplaced(u) => Unreplaced(u)'
                           /\ Running(u)' <=> Running(u)
    BY <2>2, <2>3 DEF Unreplaced, Running
  <2>6. TerminatingJoined'
    BY <2>1, <2>3, <2>4 DEF UnloadInv, TerminatingJoined
  <2> HIDE DEF s
  <2>7. RunningListed'
    BY <2>2, <2>3, <2>5 DEF UnloadInv, RunningListed
  <2>8. ToStop'
    BY <2>1, <2>2, <2>4, <2>5, <1>t DEF UnloadInv, ToStop
  <2>9. Phases'
    BY <2>1, <2>4, <1>w DEF UnloadInv, Phases
  <2>10. LeftToStop'
    BY <2>1, <2>2, <2>4, <2>5, <1>w DEF UnloadInv, LeftToStop, s
  <2> QED
    BY <2>6, <2>7, <2>8, <2>9, <2>10 DEF UnloadInv
<1>8. ASSUME NEW s \in Servers, ThreadGivesUp(s) \/ NewSession(s)
      PROVE  UnloadInv'
  <2>1. UNCHANGED <<lookup, wpc, evicting, stopping>>
    BY <1>8 DEF ThreadGivesUp, NewSession
  <2>2. \A u \in Servers : /\ srv'[u].name = srv[u].name
                           /\ srv'[u].threads = srv[u].threads
                           /\ "TERMINATING" \in srv'[u].flags =>
                                "TERMINATING" \in srv[u].flags
    BY <1>8, <1>t DEF ThreadGivesUp, NewSession, ServerRec
  <2>3. Phases'
    BY <2>1 DEF UnloadInv, Phases
  <2> QED
    BY <2>1, <2>2, <2>3, <1>y, UnloadKept DEF Running
<1>9. ASSUME NEW s \in Servers, ThreadDone(s)
      PROVE  UnloadInv'
  <2> DEFINE r == [srv[s] EXCEPT !.threads = @ - 1, !.leaving = FALSE]
  <2>1. /\ UNCHANGED <<wpc, evicting, stopping>> /\ Running(s)
        /\ \/ RemoveFromLookup(s, r)
           \/ srv' = [srv EXCEPT ![s] = r] /\ UNCHANGED lookup
    BY <1>9 DEF ThreadDone, Running
  <2>2. srv[s].name \in Pods /\ lookup[srv[s].name] = s
    BY <2>1 DEF UnloadInv, RunningListed
  <2>3. r.name = srv[s].name /\ r.threads = 0 /\ r.flags = srv[s].flags
    BY <2>1, <1>t, <1>h DEF ServerRec, Running
  <2>4. [r EXCEPT !.flags = @ \ {"ENABLED"}].name = srv[s].name
        /\ [r EXCEPT !.flags = @ \ {"ENABLED"}].threads = 0
        /\ [r EXCEPT !.flags = @ \ {"ENABLED"}].flags \subseteq srv[s].flags
    BY <2>1, <1>t, <1>h DEF ServerRec, Running
  <2> HIDE DEF r
  <2>5. /\ \A u \in Servers \ {s} : srv'[u] = srv[u]
        /\ srv'[s].name = srv[s].name /\ srv'[s].threads = 0
        /\ srv'[s].flags \subseteq srv[s].flags
        /\ \A p \in Pods : lookup'[p] = lookup[p]
                             \/ (p = srv[s].name /\ lookup'[p] = NoServer)
    <3> DEFINE off == [r EXCEPT !.flags = @ \ {"ENABLED"}]
    <3>1. /\ srv' = [srv EXCEPT ![s] = off] \/ srv' = [srv EXCEPT ![s] = r]
          /\ lookup' = lookup \/ lookup' = [lookup EXCEPT ![srv[s].name] = NoServer]
      BY <2>1, <2>3 DEF RemoveFromLookup
    <3>2. off.name = srv[s].name /\ off.threads = 0 /\ off.flags \subseteq srv[s].flags
      BY <2>4
    <3> HIDE DEF off
    <3>3. /\ \A u \in Servers \ {s} : srv'[u] = srv[u]
          /\ srv'[s] \in {off, r}
      BY <3>1, <1>t
    <3>4. ASSUME NEW p \in Pods
          PROVE  lookup'[p] = lookup[p] \/ (p = srv[s].name /\ lookup'[p] = NoServer)
      <4>1. CASE lookup' = lookup
        BY <4>1
      <4>2. CASE lookup' = [lookup EXCEPT ![srv[s].name] = NoServer]
        BY <4>2, <1>t, OthersKept
      <4> QED
        BY <3>1, <4>1, <4>2
    <3> QED
      BY <2>3, <3>2, <3>3, <3>4
  <2>6. Phases'
    BY <2>1 DEF UnloadInv, Phases
  <2>7. ASSUME NEW u \in Servers
        PROVE  /\ srv'[u].name = srv[u].name
               /\ Running(u)' => Running(u) /\ lookup'[srv[u].name] = lookup[srv[u].name]
               /\ "TERMINATING" \in srv'[u].flags => "TERMINATING" \in srv[u].flags
    <3>1. CASE u = s
      BY <3>1, <2>5 DEF Running
    <3>2. CASE u # s
      <4>1. Running(u) => srv[u].name \in Pods /\ srv[u].name # srv[s].name
        BY <3>2, <2>2 DEF UnloadInv, RunningListed
      <4> QED
        BY <3>2, <4>1, <2>5 DEF Running
    <3> QED
      BY <3>1, <3>2
  <2> QED
    BY <2>1, <2>5, <2>6, <2>7, <1>y, UnloadKept
<1>10. CASE Unload
  <2>1. UNCHANGED <<lookup, srv, evicting, stopping>>
    BY <1>10 DEF Unload
  <2>2. /\ wpc[Unloader] = "idle" /\ wpc'[Unloader] = "joinRegistry"
        /\ wpc'[RegistryThread] = wpc[RegistryThread]
    BY <1>10, <1>w, <1>t DEF Unload
  <2>3. Phases'
    BY <2>2 DEF UnloadInv, Phases
  <2> QED
    BY <2>1, <2>2, <2>3, <1>w, <1>q
<1>11. CASE RegistryJoined
  <2>1. /\ UNCHANGED <<lookup, srv, stopping>>
        /\ wpc[Unloader] = "joinRegistry" /\ wpc'[Unloader] = "unload"
        /\ wpc[RegistryThread] = "ended" /\ wpc'[RegistryThread] = "ended"
        /\ evicting'[RegistryThread] = evicting[RegistryThread]
        /\ evicting'[Unloader] = Range(lookup) \ {NoServer}
    BY <1>11, <1>w, <1>t DEF RegistryJoined
  <2>2. \A s \in evicting'[Unloader] : \E p \in Pods : lookup[p] = s /\ s # NoServer
    BY <2>1, <1>t DEF Range
  <2>3. \A s \in evicting'[Unloader] : Unreplaced(s)'
    BY <2>1, <2>2 DEF RegInv, Named, Unreplaced
  <2>4. \A s \in Servers : Running(s)' => s \in evicting'[Unloader]
    BY <2>1, <1>t DEF UnloadInv, RunningListed, Running, Range
  <2>5. ToStop'
    BY <2>1, <2>3, <1>w DEF ToStop
  <2>6. TerminatingJoined'
    BY <2>1, <1>w DEF UnloadInv, TerminatingJoined
  <2>7. RunningListed' /\ Phases' /\ LeftToStop'
    BY <2>1, <2>4 DEF UnloadInv, RunningListed, Phases, LeftToStop, Running
  <2> QED
    BY <2>5, <2>6, <2>7 DEF UnloadInv
<1>12. CASE UnloadDone
  <2>1. /\ UNCHANGED <<srv, evicting, stopping>>
        /\ wpc[Unloader] = "unload" /\ wpc'[Unloader] = "down"
        /\ wpc'[RegistryThread] = wpc[RegistryThread]
        /\ evicting[Unloader] = {}
    BY <1>12, <1>w, <1>t DEF UnloadDone
  <2>2. wpc[RegistryThread] = "ended"
    BY <2>1 DEF UnloadInv, Phases
  <2>3. \A s \in Servers : ~Running(s)'
    BY <2>1 DEF UnloadInv, LeftToStop, Running
  <2>4. RunningListed' /\ Phases' /\ LeftToStop'
    BY <2>1, <2>2, <2>3 DEF RunningListed, Phases, LeftToStop
  <2>5. ToStop'
    BY <2>1, <2>2, <1>w DEF ToStop
  <2>6. TerminatingJoined'
    BY <2>1, <2>2, <1>w DEF UnloadInv, TerminatingJoined
  <2> QED
    BY <2>4, <2>5, <2>6 DEF UnloadInv
<1>13. CASE \/ \E i \in Ips, p \in Pods : PodStarts(i, p)
            \/ \E i \in Ips : PodStops(i)
            \/ UNCHANGED regVars
  <2>1. UNCHANGED <<lookup, srv, wpc, evicting, stopping>>
    BY <1>13 DEF PodStarts, PodStops, regVars
  <2>2. Phases'
    BY <2>1 DEF UnloadInv, Phases
  <2> QED
    BY <2>1, <2>2, <1>q
<1>14. CASE Tick
  <2>1. UNCHANGED <<lookup, wpc, evicting, stopping>>
    BY <1>14 DEF Tick
  <2>2. \A u \in Servers : /\ srv'[u].name = srv[u].name
                           /\ srv'[u].threads = srv[u].threads
                           /\ srv'[u].flags = srv[u].flags
    BY <1>14, <1>t DEF Tick, ServerRec
  <2>3. Phases'
    BY <2>1 DEF UnloadInv, Phases
  <2> QED
    BY <2>1, <2>2, <2>3, <1>y, UnloadKept DEF Running
<1> QED
  BY <1>1, <1>2, <1>3, <1>4, <1>5, <1>6, <1>7, <1>8, <1>9, <1>10, <1>11, <1>12,
     <1>13, <1>14, <1>w DEF RegNext, Refresh

\* When mod_janus_shutdown has returned no server thread runs, for any number of
\* pods, addresses and server_t objects, if only the registry thread refreshes
\* and no console disables servers: the unload waits for the refresh under way,
\* and what runs is listed by then, also a server that is giving up.
THEOREM RegUnloadStopsThreads ==
  OnlyRegistryThread => (RegSpec => []UnloadStopsThreads)
<1> SUFFICES ASSUME OnlyRegistryThread PROVE RegSpec => []UnloadStopsThreads
  OBVIOUS
<1>1. RegInit => UnloadInv
  BY UnloadInitInv
<1>2. RegInv /\ RegInv' /\ UnloadInv /\ [RegNext]_regVars => UnloadInv'
  BY UnloadInvNext
<1>3. RegInv /\ UnloadInv => UnloadStopsThreads
  <2>1. RegInv => \A s \in Servers : srv[s].threads \in Nat
    BY DEF RegInv, RegTypeOK
  <2> QED
    BY <2>1 DEF UnloadInv, LeftToStop, UnloadStopsThreads, Running
<1> QED
  BY <1>1, <1>2, <1>3, RegSpecInv, PTL DEF RegSpec
===============================================================================
