------------------------------- MODULE Registry -------------------------------
(***************************************************************************)
(* The registry of Janus pods behind a headless Kubernetes service          *)
(* (servers.c) and the dialling that depends on it (resolveServerForDial).  *)
(*                                                                         *)
(* serversRegistryRefresh runs in the registry thread and in every thread   *)
(* that dials an unknown or suspect pod, at the same time: it asks the DNS, *)
(* probes one address after the other, and only then takes globals.mutex to *)
(* apply what it found; it evicts after it has released the mutex again.    *)
(* A server thread is reduced to what matters here: it runs, and ends when  *)
(* it is told to or gives up (ServerThread has the rest).                   *)
(*                                                                         *)
(* Time is kept as ages that saturate where nothing tells them apart any    *)
(* more, so it needs no bound.                                              *)
(***************************************************************************)
EXTENDS Naturals, FiniteSets, Functions

CONSTANTS
  Pods,            \* names of pods
  Ips,             \* addresses of pods
  Servers,         \* server_t objects
  RegistryThread,  \* servers_registry_run
  Dialers,         \* threads in channel_outgoing_channel, then in their call
  Consoles,        \* console sessions that disable servers
  Unloader,        \* the thread that calls mod_janus_shutdown
  NoPod,           \* nobody, or somebody else, answers at an address
  NoIp,            \* no address
  NoServer,        \* no server_t
  Ttl,             \* SERVER_VERIFY_TTL_US
  MaxDelay,        \* bound: time from the answer to a probe to last_verified
  MaxEndpoints,    \* REGISTRY_MAX_ENDPOINTS
  MaxCalls         \* bound: callsInProgress of a server

Refreshers == Dialers \cup {RegistryThread}
Workers == Refreshers \cup Consoles \cup {Unloader}

ASSUME RegistryAssumption ==
  /\ RegistryThread \notin Dialers \cup Consoles
  /\ Dialers \cap Consoles = {}
  /\ Unloader \notin Refreshers \cup Consoles
  /\ NoPod \notin Pods /\ NoIp \notin Ips /\ NoServer \notin Servers
  /\ Ttl \in Nat \ {0} /\ MaxDelay \in Nat /\ MaxCalls \in Nat
  /\ MaxEndpoints \in Nat \ {0} /\ IsFiniteSet(Pods)

VARIABLES
  world,     \* which pod answers at each address (outside the program)
  confirmed, \* history: age of the last probe that a pod itself answered
  trusted,   \* history: address of a server when its last_verified was stored,
             \* as long as that counts
  lookup,    \* globals.pServerNameLookup
  srv,       \* the fields of each server_t
  wpc,       \* where each worker is
  todo,      \* addresses that a refresh still has to probe
  found,     \* endpoints: the address at which a refresh found each pod
  evicting,  \* evict_list of a refresh; servers that the unload has to stop
  stopping,  \* the server whose thread a worker is stopping
  dial       \* locals of a dialler: the pod, its server_t, the copied address
             \* and how long ago it was found right

regVars == <<world, confirmed, trusted, lookup, srv, wpc, todo, found, evicting,
             stopping, dial>>

Flags == {"ENABLED", "TERMINATING", "EVICTED"}

WorkerPc == {"idle", "resolve", "probe", "evict", "remove", "join", "find",
             "verify", "identify", "store", "dialled", "call",
             "ended", "joinRegistry", "unload", "down"}

NoDial == [pod |-> NoPod, server |-> NoServer, ip |-> NoIp, stage |-> 0,
           delay |-> 0]
MaxAge == Ttl + MaxDelay
NothingFound == [p \in Pods |-> NoIp]

\* The type of every variable.
RegTypeOK ==
  /\ world \in [Ips -> Pods \cup {NoPod}]
  /\ confirmed \in [Pods -> 0 .. MaxAge]
  /\ trusted \in [Servers -> Ips \cup {NoIp}]
  /\ lookup \in [Pods -> Servers \cup {NoServer}]
  /\ srv \in [Servers -> [name : Pods \cup {NoPod}, pod_ip : Ips \cup {NoIp},
                          age : 0 .. Ttl, calls : 0 .. MaxCalls,
                          flags : SUBSET Flags, threads : Nat, leaving : BOOLEAN]]
  /\ wpc \in [Workers -> WorkerPc]
  /\ todo \in [Refreshers -> SUBSET Ips]
  /\ found \in [Refreshers -> [Pods -> Ips \cup {NoIp}]]
  /\ evicting \in [Workers -> SUBSET Servers]
  /\ stopping \in [Workers -> Servers \cup {NoServer}]
  /\ dial \in [Dialers -> [pod : Pods \cup {NoPod},
                           server : Servers \cup {NoServer},
                           ip : Ips \cup {NoIp}, stage : 0 .. 2,
                           delay : 0 .. MaxDelay]]

\* mod_janus_load: no pod is known, and the registry thread starts with a
\* refresh.
RegInit ==
  /\ world = [i \in Ips |-> NoPod]
  /\ confirmed = [p \in Pods |-> MaxAge]
  /\ trusted = [s \in Servers |-> NoIp]
  /\ lookup = [p \in Pods |-> NoServer]
  /\ srv = [s \in Servers |-> [name |-> NoPod, pod_ip |-> NoIp, age |-> Ttl,
                               calls |-> 0, flags |-> {}, threads |-> 0,
                               leaving |-> FALSE]]
  /\ wpc = [w \in Workers |-> IF w = RegistryThread THEN "resolve" ELSE "idle"]
  /\ todo = [w \in Refreshers |-> {}]
  /\ found = [w \in Refreshers |-> NothingFound]
  /\ evicting = [w \in Workers |-> {}]
  /\ stopping = [w \in Workers |-> NoServer]
  /\ dial = [d \in Dialers |-> NoDial]

Goto(w, pc) == wpc' = [wpc EXCEPT ![w] = pc]

-----------------------------------------------------------------------------
(***************************************************************************)
(* serversRegistryRefresh.                                                  *)
(***************************************************************************)

Unloading == wpc[Unloader] # "idle"   \* globals.registry_terminating

\* Mutant: the flag is not looked at after the yield.
RegistryWakes_Always ==
  /\ wpc[RegistryThread] = "idle"
  /\ Goto(RegistryThread, "resolve")
  /\ UNCHANGED <<world, confirmed, trusted, lookup, srv, todo, found, evicting,
                 stopping, dial>>

\* servers_registry_run: the yield is over.
RegistryWakes ==
  /\ wpc[RegistryThread] = "idle"
  /\ ~Unloading
  /\ Goto(RegistryThread, "resolve")
  /\ UNCHANGED <<world, confirmed, trusted, lookup, srv, todo, found, evicting,
                 stopping, dial>>

RegistryEnds ==
  /\ wpc[RegistryThread] = "idle"
  /\ Unloading
  /\ Goto(RegistryThread, "ended")
  /\ UNCHANGED <<world, confirmed, trusted, lookup, srv, todo, found, evicting,
                 stopping, dial>>

\* Where a refresh returns to: the yield, or the second serversFind.
RefreshReturn(w) == IF w = RegistryThread THEN "idle" ELSE "find"

\* getaddrinfo fails: the refresh returns.
ResolveFailed(w) ==
  /\ wpc[w] = "resolve"
  /\ Goto(w, RefreshReturn(w))
  /\ UNCHANGED <<world, confirmed, trusted, lookup, srv, todo, found, evicting,
                 stopping, dial>>

\* getaddrinfo returns addresses.  One that is missing, in DNS or because its
\* probe gets no answer in time, is not in ips.
Resolve(w, ips) ==
  /\ wpc[w] = "resolve"
  /\ todo' = [todo EXCEPT ![w] = ips]
  /\ found' = [found EXCEPT ![w] = NothingFound]
  /\ Goto(w, "probe")
  /\ UNCHANGED <<world, confirmed, trusted, lookup, srv, evicting, stopping,
                 dial>>

\* What the pod at an address calls itself in its answer to /info.
serversProbeJanusPodAtIp(i) == world[i]

Seen(w) == {p \in Pods : found[w][p] # NoIp}

\* The next address is probed, if there is room for another endpoint.  A name
\* that was found at another address already is skipped.
Probe(w, i) ==
  LET p == serversProbeJanusPodAtIp(i) IN
  /\ wpc[w] = "probe"
  /\ i \in todo[w]
  /\ Cardinality(Seen(w)) < MaxEndpoints
  /\ todo' = [todo EXCEPT ![w] = @ \ {i}]
  /\ IF p \in Pods
       THEN /\ confirmed' = [confirmed EXCEPT ![p] = 0]
            /\ found' = [found EXCEPT ![w][p] = IF @ = NoIp THEN i ELSE @]
       ELSE UNCHANGED <<confirmed, found>>
  /\ UNCHANGED <<world, trusted, lookup, srv, wpc, evicting, stopping, dial>>

\* As much of a set as evict_list has room for.
Fitting(set) ==
  {l \in SUBSET set : /\ Cardinality(l) <= MaxEndpoints
                      /\ l = set \/ Cardinality(l) = MaxEndpoints}

\* A server_t that nobody refers to any more stands for a new one.
Free == {s \in Servers :
           /\ s \notin Range(lookup)
           /\ srv[s].threads = 0
           /\ \A w \in Workers : s \notin evicting[w] /\ stopping[w] # s
           /\ \A d \in Dialers : dial[d].server # s}

\* Mutant: the thread is started without force, which a server that is
\* enabled already refuses.
serversCreateRegistryServer_NotForced(p, i) ==
  [name |-> p, pod_ip |-> i, age |-> Ttl, calls |-> 0, flags |-> {"ENABLED"},
   threads |-> 0, leaving |-> FALSE]

\* serversCreateRegistryServer: enabled, and its thread started with force.
serversCreateRegistryServer(p, i) ==
  [name |-> p, pod_ip |-> i, age |-> Ttl, calls |-> 0, flags |-> {"ENABLED"},
   threads |-> 1, leaving |-> FALSE]

\* Mutant: the thread is started whether or not it runs.
serversUpdateRegistryServer_AlwaysStarts(r, i) ==
  [r EXCEPT !.pod_ip = i,
            !.age = IF i = r.pod_ip THEN @ ELSE Ttl,
            !.flags = @ \cup {"ENABLED"},
            !.threads = @ + 1]

\* Mutant: a new address is as good as the one that was verified.
serversUpdateRegistryServer_StaysVerified(r, i) ==
  [r EXCEPT !.pod_ip = i,
            !.flags = @ \cup {"ENABLED"},
            !.threads = IF "ENABLED" \in r.flags THEN @ ELSE @ + 1]

\* serversUpdateRegistryServer: a new address makes last_verified void.  A
\* server that is not enabled has its thread started with force.
serversUpdateRegistryServer(r, i) ==
  [r EXCEPT !.pod_ip = i,
            !.age = IF i = r.pod_ip THEN @ ELSE Ttl,
            !.flags = @ \cup {"ENABLED"},
            !.threads = IF "ENABLED" \in r.flags THEN @ ELSE @ + 1]

\* The history forgets the address of a last_verified that is void or too old.
StillTrusted ==
  [s \in Servers |-> IF srv'[s].age < Ttl THEN trusted[s] ELSE NoIp]

\* What was found is applied under globals.mutex: unknown pods get a server_t,
\* known ones are updated, and servers of pods that were not seen go on the
\* evict list unless they have calls.
Apply(w) ==
  LET seen == Seen(w)
      new == {p \in seen : lookup[p] = NoServer}
      gone == {s \in Servers : \E p \in Pods \ seen :
                                 lookup[p] = s /\ srv[s].calls = 0}
  IN
  /\ wpc[w] = "probe"
  /\ todo[w] = {} \/ Cardinality(seen) >= MaxEndpoints
  /\ \E alloc \in [new -> Free] :
       /\ IsInjective(alloc)
       /\ lookup' = [p \in Pods |-> IF p \in new THEN alloc[p] ELSE lookup[p]]
       /\ srv' = [s \in Servers |->
            IF \E p \in new : alloc[p] = s
              THEN LET p == CHOOSE q \in new : alloc[q] = s
                   IN  serversCreateRegistryServer(p, found[w][p])
            ELSE IF \E p \in seen : lookup[p] = s
              THEN LET p == CHOOSE q \in seen : lookup[q] = s
                   IN  serversUpdateRegistryServer(srv[s], found[w][p])
            ELSE srv[s]]
  /\ trusted' = StillTrusted
  /\ found' = [found EXCEPT ![w] = NothingFound]
  /\ \E l \in Fitting(gone) : evicting' = [evicting EXCEPT ![w] = l]
  /\ todo' = [todo EXCEPT ![w] = {}]
  /\ Goto(w, "evict")
  /\ UNCHANGED <<world, confirmed, stopping, dial>>

-----------------------------------------------------------------------------
(***************************************************************************)
(* The end of a server.                                                     *)
(***************************************************************************)

\* serversDynamicRemoveFromLookup, under globals.mutex: whatever server_t is
\* listed under the name is removed.  r is srv[s], with other changes made.
RemoveFromLookup(s, r) ==
  IF lookup[r.name] # NoServer
    THEN /\ lookup' = [lookup EXCEPT ![r.name] = NoServer]
         /\ srv' = [srv EXCEPT ![s] = [r EXCEPT !.flags = @ \ {"ENABLED"}]]
    ELSE /\ srv' = [srv EXCEPT ![s] = r]
         /\ UNCHANGED lookup

\* The test of stopServerThread.
CanStop(s) ==
  /\ "ENABLED" \in srv[s].flags
  /\ "TERMINATING" \notin srv[s].flags

\* Where stopServerThread returns to.
StopReturn(w) == IF w \in Refreshers THEN "evict"
                 ELSE IF w = Unloader THEN "unload"
                 ELSE "idle"

\* stopServerThread up to the join, or up to the removal of a server that was
\* marked as evicted and whose thread is not running or is being stopped.
Stop(w, s, mark) ==
  LET flags == srv[s].flags \cup mark
      pc == IF CanStop(s) THEN "join"
            ELSE IF "EVICTED" \in flags THEN "remove"
            ELSE StopReturn(w)
  IN
  /\ srv' = [srv EXCEPT ![s].flags =
               IF pc = "join" THEN flags \cup {"TERMINATING"} ELSE flags]
  /\ stopping' = [stopping EXCEPT ![w] = IF pc = StopReturn(w) THEN NoServer ELSE s]
  /\ Goto(w, pc)

\* Mutant: a server that goes is not marked.
EvictNext_NotMarked(w, s) ==
  /\ wpc[w] = "evict"
  /\ s \in evicting[w]
  /\ evicting' = [evicting EXCEPT ![w] = @ \ {s}]
  /\ Stop(w, s, {})
  /\ UNCHANGED <<world, confirmed, trusted, lookup, todo, found, dial>>

\* The next server of the evict list is marked and stopServerThread called.
EvictNext(w, s) ==
  /\ wpc[w] = "evict"
  /\ s \in evicting[w]
  /\ evicting' = [evicting EXCEPT ![w] = @ \ {s}]
  /\ Stop(w, s, {"EVICTED"})
  /\ UNCHANGED <<world, confirmed, trusted, lookup, todo, found, dial>>

EvictDone(w) ==
  /\ wpc[w] = "evict"
  /\ evicting[w] = {}
  /\ Goto(w, RefreshReturn(w))
  /\ UNCHANGED <<world, confirmed, trusted, lookup, srv, todo, found, evicting,
                 stopping, dial>>

RemoveEvicted(w) ==
  /\ wpc[w] = "remove"
  /\ RemoveFromLookup(stopping[w], srv[stopping[w]])
  /\ stopping' = [stopping EXCEPT ![w] = NoServer]
  /\ Goto(w, StopReturn(w))
  /\ UNCHANGED <<world, confirmed, trusted, todo, found, evicting, dial>>

\* switch_thread_join returns.
JoinDone(w) ==
  LET s == stopping[w] IN
  /\ wpc[w] = "join"
  /\ srv[s].threads = 0
  /\ srv' = [srv EXCEPT ![s].flags = @ \ {"TERMINATING", "ENABLED"}]
  /\ stopping' = [stopping EXCEPT ![w] = NoServer]
  /\ Goto(w, StopReturn(w))
  /\ UNCHANGED <<world, confirmed, trusted, lookup, todo, found, evicting,
                 dial>>

\* The server thread cannot create a session and there are no calls
\* (serversDynamicEvictable).
ThreadGivesUp(s) ==
  /\ srv[s].threads > 0
  /\ ~srv[s].leaving
  /\ srv[s].calls = 0
  /\ srv' = [srv EXCEPT ![s].leaving = TRUE, ![s].flags = @ \cup {"EVICTED"}]
  /\ UNCHANGED <<world, confirmed, trusted, lookup, wpc, todo, found, evicting,
                 stopping, dial>>

\* thread_done, for a thread that gave up or was told to terminate.
ThreadDone(s) ==
  LET r == [srv[s] EXCEPT !.threads = @ - 1, !.leaving = FALSE] IN
  /\ srv[s].threads > 0
  /\ srv[s].leaving \/ "TERMINATING" \in srv[s].flags
  /\ IF "EVICTED" \in r.flags
       THEN RemoveFromLookup(s, r)
       ELSE srv' = [srv EXCEPT ![s] = r] /\ UNCHANGED lookup
  /\ UNCHANGED <<world, confirmed, trusted, wpc, todo, found, evicting,
                 stopping, dial>>

\* The server thread replaces a session that it could not claim.
NewSession(s) ==
  /\ srv[s].threads > 0
  /\ ~srv[s].leaving
  /\ srv' = [srv EXCEPT ![s].calls = 0]
  /\ UNCHANGED <<world, confirmed, trusted, lookup, wpc, todo, found, evicting,
                 stopping, dial>>

\* `janus server <pod> disable', of a server that is listed.
ConsoleDisable(c, s) ==
  /\ wpc[c] = "idle"
  /\ ~Unloading
  /\ s \in Range(lookup)
  /\ CanStop(s)
  /\ Stop(c, s, {})
  /\ UNCHANGED <<world, confirmed, trusted, lookup, todo, found, evicting,
                 dial>>

-----------------------------------------------------------------------------
(***************************************************************************)
(* mod_janus_shutdown, which the core calls when nobody is in the module.   *)
(***************************************************************************)

\* serversStopRegistry, up to the join.
Unload ==
  /\ wpc[Unloader] = "idle"
  /\ \A w \in Dialers \cup Consoles : wpc[w] = "idle"
  /\ Goto(Unloader, "joinRegistry")
  /\ UNCHANGED <<world, confirmed, trusted, lookup, srv, todo, found, evicting,
                 stopping, dial>>

\* Mutant: the registry thread is told to end and not waited for.
RegistryJoined_NotWaited ==
  /\ wpc[Unloader] = "joinRegistry"
  /\ evicting' = [evicting EXCEPT ![Unloader] = Range(lookup) \ {NoServer}]
  /\ Goto(Unloader, "unload")
  /\ UNCHANGED <<world, confirmed, trusted, lookup, srv, todo, found, stopping,
                 dial>>

RegistryJoined ==
  /\ wpc[Unloader] = "joinRegistry"
  /\ wpc[RegistryThread] = "ended"
  /\ evicting' = [evicting EXCEPT ![Unloader] = Range(lookup) \ {NoServer}]
  /\ Goto(Unloader, "unload")
  /\ UNCHANGED <<world, confirmed, trusted, lookup, srv, todo, found, stopping,
                 dial>>

\* One server after the other is stopped.
UnloadNext(s) ==
  /\ wpc[Unloader] = "unload"
  /\ s \in evicting[Unloader]
  /\ evicting' = [evicting EXCEPT ![Unloader] = @ \ {s}]
  /\ Stop(Unloader, s, {})
  /\ UNCHANGED <<world, confirmed, trusted, lookup, todo, found, dial>>

\* serversDestroy.
UnloadDone ==
  /\ wpc[Unloader] = "unload"
  /\ evicting[Unloader] = {}
  /\ lookup' = [p \in Pods |-> NoServer]
  /\ Goto(Unloader, "down")
  /\ UNCHANGED <<world, confirmed, trusted, srv, todo, found, evicting,
                 stopping, dial>>

-----------------------------------------------------------------------------
(***************************************************************************)
(* channel_outgoing_channel: resolveServerForDial, and the call.            *)
(***************************************************************************)

DialStart(d, p) ==
  /\ wpc[d] = "idle"
  /\ ~Unloading
  /\ dial' = [dial EXCEPT ![d].pod = p]
  /\ Goto(d, "find")
  /\ UNCHANGED <<world, confirmed, trusted, lookup, srv, todo, found, evicting,
                 stopping>>

\* The dial or its call is over.
DialEnds(d) ==
  /\ dial' = [dial EXCEPT ![d] = NoDial]
  /\ Goto(d, "idle")

\* serversFind.
Find(d) ==
  LET s == lookup[dial[d].pod] IN
  /\ wpc[d] = "find"
  /\ s # NoServer
  /\ dial' = [dial EXCEPT ![d].server = s]
  /\ Goto(d, "verify")
  /\ UNCHANGED <<world, confirmed, trusted, lookup, srv, todo, found, evicting,
                 stopping>>

\* An unknown pod: refresh and look again, once.
FindFailed(d) ==
  /\ wpc[d] = "find"
  /\ lookup[dial[d].pod] = NoServer
  /\ IF dial[d].stage = 0
       THEN dial' = [dial EXCEPT ![d].stage = 1] /\ Goto(d, "resolve")
       ELSE DialEnds(d)
  /\ UNCHANGED <<world, confirmed, trusted, lookup, srv, todo, found, evicting,
                 stopping>>

\* The address was verified less than SERVER_VERIFY_TTL_US ago.
Fresh(r) == r.age < Ttl

\* serversVerifyDynamicIdentity: last_verified and the address are copied.
Verify(d) ==
  LET r == srv[dial[d].server] IN
  /\ wpc[d] = "verify"
  /\ IF Fresh(r)
       THEN Goto(d, "dialled") /\ dial' = [dial EXCEPT ![d].stage = 0]
       ELSE Goto(d, "identify") /\ dial' = [dial EXCEPT ![d].ip = r.pod_ip]
  /\ UNCHANGED <<world, confirmed, trusted, lookup, srv, todo, found, evicting,
                 stopping>>

\* Mutant: the name in the answer is not compared.
VerifyMatch_AnyName(d) ==
  /\ wpc[d] = "identify"
  /\ IF serversProbeJanusPodAtIp(dial[d].ip) = dial[d].pod
       THEN confirmed' = [confirmed EXCEPT ![dial[d].pod] = 0]
       ELSE UNCHANGED confirmed
  /\ dial' = [dial EXCEPT ![d].stage = 0]
  /\ Goto(d, "store")
  /\ UNCHANGED <<world, trusted, lookup, srv, todo, found, evicting, stopping>>

\* The probe of the copied address finds the pod.  The dialler still has to take
\* the server's mutex.
VerifyMatch(d) ==
  /\ wpc[d] = "identify"
  /\ serversProbeJanusPodAtIp(dial[d].ip) = dial[d].pod
  /\ confirmed' = [confirmed EXCEPT ![dial[d].pod] = 0]
  /\ dial' = [dial EXCEPT ![d].stage = 0]
  /\ Goto(d, "store")
  /\ UNCHANGED <<world, trusted, lookup, srv, todo, found, evicting, stopping>>

\* last_verified is stored, whatever the time and the address are by now.
VerifyStore(d) ==
  LET s == dial[d].server IN
  /\ wpc[d] = "store"
  /\ srv' = [srv EXCEPT ![s].age = 0]
  /\ trusted' = [trusted EXCEPT ![s] = srv[s].pod_ip]
  /\ dial' = [dial EXCEPT ![d].ip = NoIp, ![d].delay = 0]
  /\ Goto(d, "dialled")
  /\ UNCHANGED <<world, confirmed, lookup, todo, found, evicting, stopping>>

\* The probe finds nobody or another pod: refresh and resolve again, once.
VerifyFailed(d) ==
  /\ wpc[d] = "identify"
  /\ IF dial[d].stage < 2
       THEN /\ dial' = [dial EXCEPT ![d].stage = 2, ![d].server = NoServer,
                                       ![d].ip = NoIp]
            /\ Goto(d, "resolve")
       ELSE DialEnds(d)
  /\ UNCHANGED <<world, confirmed, trusted, lookup, srv, todo, found, evicting,
                 stopping>>

\* waitServerActive finds a session, and channel_on_init counts the call.
Connected(d) ==
  LET s == dial[d].server IN
  /\ wpc[d] = "dialled"
  /\ srv[s].threads > 0
  /\ srv[s].calls < MaxCalls
  /\ srv' = [srv EXCEPT ![s].calls = @ + 1]
  /\ Goto(d, "call")
  /\ UNCHANGED <<world, confirmed, trusted, lookup, todo, found, evicting,
                 stopping, dial>>

\* waitServerActive finds none in time, or the leg fails before it is counted.
NotConnected(d) ==
  /\ wpc[d] = "dialled"
  /\ DialEnds(d)
  /\ UNCHANGED <<world, confirmed, trusted, lookup, srv, todo, found, evicting,
                 stopping>>

\* Mutant: the counter is decremented without a look at it.
HangUp_Unguarded(d) ==
  LET s == dial[d].server IN
  /\ wpc[d] = "call"
  /\ srv[s].threads > 0
  /\ srv' = [srv EXCEPT ![s].calls = @ - 1]
  /\ DialEnds(d)
  /\ UNCHANGED <<world, confirmed, trusted, lookup, todo, found, evicting,
                 stopping>>

\* channel_on_hangup finds the server by its session.
HangUp(d) ==
  LET s == dial[d].server IN
  /\ wpc[d] = "call"
  /\ srv[s].threads > 0
  /\ srv' = [srv EXCEPT ![s].calls = IF @ > 0 THEN @ - 1 ELSE @]
  /\ DialEnds(d)
  /\ UNCHANGED <<world, confirmed, trusted, lookup, todo, found, evicting,
                 stopping>>

\* The session is not registered: the call stays counted.
HangUpUnserved(d) ==
  /\ wpc[d] = "call"
  /\ DialEnds(d)
  /\ UNCHANGED <<world, confirmed, trusted, lookup, srv, todo, found, evicting,
                 stopping>>

-----------------------------------------------------------------------------
(***************************************************************************)
(* Outside the program: pods come, go and reuse addresses, and time passes. *)
(***************************************************************************)
PodStarts(i, p) ==
  /\ world[i] = NoPod
  /\ p \notin Range(world)
  /\ world' = [world EXCEPT ![i] = p]
  /\ UNCHANGED <<confirmed, trusted, lookup, srv, wpc, todo, found, evicting,
                 stopping, dial>>

PodStops(i) ==
  /\ world[i] # NoPod
  /\ world' = [world EXCEPT ![i] = NoPod]
  /\ UNCHANGED <<confirmed, trusted, lookup, srv, wpc, todo, found, evicting,
                 stopping, dial>>

Older(age, limit) == IF age < limit THEN age + 1 ELSE limit

\* Time passes, also while a dialler waits to store last_verified, for which it
\* needs at most MaxDelay.
Tick ==
  LET waiting == {d \in Dialers : wpc[d] = "store"} IN
  /\ \A d \in waiting : dial[d].delay < MaxDelay
  /\ confirmed' = [p \in Pods |-> Older(confirmed[p], MaxAge)]
  /\ srv' = [s \in Servers |-> [srv[s] EXCEPT !.age = Older(@, Ttl)]]
  /\ dial' = [d \in Dialers |-> IF d \in waiting
                                  THEN [dial[d] EXCEPT !.delay = @ + 1]
                                  ELSE dial[d]]
  /\ trusted' = StillTrusted
  /\ UNCHANGED <<world, lookup, wpc, todo, found, evicting, stopping>>

-----------------------------------------------------------------------------
Refresh(w) ==
  \/ ResolveFailed(w)
  \/ \E ips \in SUBSET Ips : Resolve(w, ips)
  \/ \E i \in Ips : Probe(w, i)
  \/ Apply(w)
  \/ \E s \in Servers : EvictNext(w, s)
  \/ EvictDone(w)

Dial(d) ==
  \/ \E p \in Pods : DialStart(d, p)
  \/ Find(d) \/ FindFailed(d)
  \/ Verify(d) \/ VerifyMatch(d) \/ VerifyStore(d) \/ VerifyFailed(d)
  \/ Connected(d) \/ NotConnected(d)
  \/ HangUp(d) \/ HangUpUnserved(d)

RegNext ==
  \/ RegistryWakes \/ RegistryEnds
  \/ \E w \in Refreshers : Refresh(w)
  \/ \E w \in Workers : RemoveEvicted(w) \/ JoinDone(w)
  \/ \E s \in Servers : ThreadGivesUp(s) \/ ThreadDone(s) \/ NewSession(s)
  \/ \E c \in Consoles, s \in Servers : ConsoleDisable(c, s)
  \/ Unload \/ RegistryJoined \/ UnloadDone
  \/ \E s \in Servers : UnloadNext(s)
  \/ \E d \in Dialers : Dial(d)
  \/ \E i \in Ips, p \in Pods : PodStarts(i, p)
  \/ \E i \in Ips : PodStops(i)
  \/ Tick

RegSpec == RegInit /\ [][RegNext]_regVars

\* Every thread gets to run, a yield ends, a join returns, and the DNS names
\* every address with a pod again and again.
FairRegSpec ==
  /\ RegSpec
  /\ WF_regVars(RegistryWakes) /\ WF_regVars(RegistryEnds)
  /\ WF_regVars(RegistryJoined) /\ WF_regVars(UnloadDone)
  /\ WF_regVars(\E s \in Servers : UnloadNext(s))
  /\ \A w \in Refreshers :
       /\ WF_regVars(Refresh(w))
       /\ SF_regVars(\E ips \in SUBSET Ips :
                       /\ \A i \in Ips : world[i] # NoPod => i \in ips
                       /\ Resolve(w, ips))
  /\ \A w \in Workers : WF_regVars(RemoveEvicted(w) \/ JoinDone(w))
  /\ \A s \in Servers : WF_regVars(ThreadDone(s))

-----------------------------------------------------------------------------
(***************************************************************************)
(* Properties.                                                              *)
(***************************************************************************)

\* A server_t never has two threads, although refreshes of several threads,
\* a console and a thread that gives up start and stop it at the same time:
\* a second one would share senderIdLookup and nobody could join the first.
OneThreadPerServer == \A s \in Servers : srv[s].threads <= 1

\* d goes on to dial: serversVerifyDynamicIdentity has returned SWITCH_TRUE.
Dials(d) == wpc[d] # "dialled" /\ wpc'[d] = "dialled"

\* resolveServerForDial goes on to dial a pod only if the pod itself answered
\* less than SERVER_VERIFY_TTL_US ago, give or take the time it took to store
\* last_verified after that answer, whatever refreshes have moved, evicted or
\* created in the meantime.
DialedPodAlive ==
  [][\A d \in Dialers : Dials(d) => confirmed'[dial[d].pod] < MaxAge]_regVars

\* A server is dialled at the address that it had when last_verified was stored:
\* one that a refresh has moved since, in whatever thread, is verified again
\* (servers.c: `IP changed; re-verify on next dial').
MovedReverified ==
  [][\A d \in Dialers : LET s == dial[d].server IN
       Dials(d) => srv'[s].pod_ip = trusted'[s]]_regVars

\* What mod_janus.c says of resolveServerForDial, `Verify a cached pod->IP
\* mapping before dialing': the address that a dialler goes on to dial is the
\* one it has just found the pod at, if it had to verify one.
VerifiedAddressDialled ==
  [][\A d \in Dialers :
       (Dials(d) /\ dial[d].ip # NoIp) =>
          srv'[dial[d].server].pod_ip = dial[d].ip]_regVars

Served(p) ==
  /\ lookup[p] # NoServer
  /\ srv[lookup[p]].threads > 0
  /\ "TERMINATING" \notin srv[lookup[p]].flags

\* A pod that stays where it is gets, again and again, a server that is listed
\* and whose thread runs, although refreshes miss it, evict it, and its thread
\* gives up.  (There are no more pods than serversRegistryRefresh has room for.)
PodServed ==
  \A p \in Pods, i \in Ips :
    <>[](world[i] = p /\ ~Unloading) => []<>Served(p)

\* A pod that is gone for good and has no calls disappears from the table of
\* servers: a refresh that still has an old answer for it brings it back at most
\* until the next one.
GoneEvicted ==
  \A p \in Pods :
    <>[](p \notin Range(world) /\ \A s \in Servers : srv[s].calls = 0)
      => <>[](lookup[p] = NoServer)

\* When mod_janus_shutdown returns no server thread runs, if only the registry
\* thread refreshes: a refresh that is under way has been waited for, and every
\* server it left in the table was stopped, also one that is giving up.
UnloadStopsThreads ==
  wpc[Unloader] = "down" => \A s \in Servers : srv[s].threads = 0

\* mod_janus_shutdown returns: the refresh it may find under way ends, and so
\* does every thread it stops.
UnloadCompletes == (wpc[Unloader] = "joinRegistry") ~> (wpc[Unloader] = "down")
===============================================================================
