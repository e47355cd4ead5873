--------------------------- MODULE VirtualChannels ---------------------------
(***************************************************************************)
(* One virtual channel, /auto/<slug>: the viewers that watch it, its       *)
(* candidates, and what an administrator does to both while they play      *)
(* (proxy.cpp).                                                            *)
(*                                                                         *)
(* A viewer is an HTTP handler thread: it chooses a candidate, joins a     *)
(* broadcast, waits for its first chunk, plays, and fails over to the next *)
(* candidate whenever its broadcast gives nothing. An administrator, in a  *)
(* thread of its own, pins a candidate or disables one: both take copies   *)
(* of the client lists, wait up to 3 s for the new broadcast, and then     *)
(* move the clients of the copy, while their handlers go on.               *)
(*                                                                         *)
(* The finer steps inside add_client, remove_client and stop are those of  *)
(* Broadcast; here each is one step. Time passes between any two steps, so *)
(* a time-out or a grace period may have ended whenever it has begun. The  *)
(* ranking of the candidates depends on their measured health: any order   *)
(* is possible.                                                            *)
(***************************************************************************)
EXTENDS Integers, FiniteSetsExt

CONSTANTS
  Viewers,         \* handler threads that serve a player
  AutoViewers,     \* those on /auto/<slug>; the others ask for a content id
  Admins,          \* handler threads that serve the administrator
  Cids,            \* the candidates of the channel
  Wanted,          \* those the other viewers ask for
  Infohashes,      \* what the engine knows them by
  Infohash,        \* the infohashes get_content_info or its fallback may give
  NumSessions,     \* Broadcasts of one infohash in memory (model bound)
  MaxConnections,  \* config: clients at a time, 0 for no limit
  MaxChannels,     \* config: broadcasts at a time, 0 for no limit
  MaxOrders,       \* orders of the administrator (model bound)
  None

ASSUME VirtualAssumption ==
  /\ AutoViewers \subseteq Viewers
  /\ Viewers \cap Admins = {}
  /\ Wanted \subseteq Cids
  /\ IsFiniteSet(Cids) /\ Cids # {} /\ None \notin Cids \cup Infohashes
  /\ Infohash \in [Cids -> SUBSET Infohashes \ {{}}]
  /\ {NumSessions, MaxConnections, MaxChannels, MaxOrders} \subseteq Nat

\* The manager's map is keyed by infohash, but a failover and a migration put
\* the content id itself there.
Keys == Cids \cup Infohashes
Sessions == Keys \X (1..NumSessions)
NoSession == <<>>

\* A StreamClient: the first wait replaces it at each failover.
Clients == Viewers \X (1..Cardinality(Cids))

VARIABLES
  active,    \* virtual_active_cid_[slug], None when absent
  pinned,    \* virtual_pinned_cid_[slug]
  disabled,  \* disabled_cids_
  bmap,      \* the manager's map of broadcasts
  bc,        \* every Broadcast
  sc,        \* every StreamClient
  viewer,    \* the locals of handle_core_stream
  admin,     \* the locals of pin_candidate and migrate_subscribers
  orders,    \* how many orders there were
  lost       \* history: an administrator and a handler lost a client (Holding)

virtual == <<active, pinned, disabled>>
vars == <<virtual, bmap, bc, sc, viewer, admin, orders, lost>>

ViewerPC == {"idle", "join", "await", "play", "failed", "rejoin", "ended"}
AdminPC == {"idle", "collect", "target", "detach", "attach", "stop"}

SessionRecord ==
  [subscribers_ : Nat, clients_ : SUBSET Clients, running_ : BOOLEAN]
ClientRecord ==
  [current_broadcast : Sessions \cup {NoSession}, closed : BOOLEAN]
ViewerRecord ==
  [pc : ViewerPC, n : 1..Cardinality(Cids),
   key : Keys \cup {None}, broadcast : Sessions \cup {NoSession},
   attempted : SUBSET Keys, playing : BOOLEAN,
   under : Cids \cup {None}]
AdminRecord ==
  [pc : AdminPC, what : {"pin", "disable"}, cid : Cids \cup {None},
   copies : SUBSET Clients, all_b : SUBSET Sessions, client : Clients \cup {None},
   target : Sessions \cup {NoSession}, stops : SUBSET Keys]

TypeOK ==
  /\ active \in Keys \cup {None} /\ pinned \in Cids \cup {None}
  /\ disabled \subseteq Cids
  /\ bmap \in [Keys -> Sessions \cup {NoSession}]
  /\ bc \in [Sessions -> SessionRecord]
  /\ sc \in [Clients -> ClientRecord]
  /\ viewer \in [Viewers -> ViewerRecord]
  /\ admin \in [Admins -> AdminRecord]
  /\ orders \in 0..MaxOrders
  /\ lost \in BOOLEAN

NoViewer == [pc |-> "idle", n |-> 1, key |-> None,
             broadcast |-> NoSession, attempted |-> {}, playing |-> FALSE,
             under |-> None]
NoClient == [current_broadcast |-> NoSession, closed |-> TRUE]
NoOrder == [pc |-> "idle", what |-> "pin", cid |-> None, copies |-> {},
            all_b |-> {}, client |-> None, target |-> NoSession, stops |-> {}]

\* A Broadcast before its start and after its stop; start_once runs it, and
\* data may come from then on.
Stopped == [subscribers_ |-> 0, clients_ |-> {}, running_ |-> FALSE]
Fresh == [Stopped EXCEPT !.running_ = TRUE]

Init ==
  /\ active = None /\ pinned = None /\ disabled = {}
  /\ bmap = [k \in Keys |-> NoSession]
  /\ bc = [s \in Sessions |-> Stopped]
  /\ sc = [c \in Clients |-> NoClient]
  /\ viewer = [v \in Viewers |-> NoViewer]
  /\ admin = [a \in Admins |-> NoOrder]
  /\ orders = 0
  /\ lost = FALSE

-----------------------------------------------------------------------------
(***************************************************************************)
(* The broadcasts: broadcast.cpp, one step for each call.                  *)
(***************************************************************************)
Listed == {bmap[k] : k \in Keys} \ {NoSession}

\* Who holds a shared_ptr: the map, a handler, an administrator's copies.
Referenced(s) ==
  \/ s \in Listed
  \/ \E v \in Viewers : viewer[v].broadcast = s
  \/ \E a \in Admins : s \in admin[a].all_b \cup {admin[a].target}

\* clients_ holds weak_ptrs: a client counts while its handler or an
\* administrator's copy keeps it.
Client(v) == <<v, viewer[v].n>>
Alive(c) ==
  \/ viewer[c[1]].pc \notin {"idle", "ended"} /\ Client(c[1]) = c
  \/ \E a \in Admins : c \in admin[a].copies
Present(s) == {c \in bc[s].clients_ : Alive(c)}
Empty(s) == bc[s].subscribers_ <= 0 /\ Present(s) = {}
Live(k) ==
  /\ bmap[k] # NoSession
  /\ ~Empty(bmap[k]) \/ bc[bmap[k]].running_

\* current_broadcast.lock()
Lock(c) ==
  LET s == sc[c].current_broadcast
  IN  IF s # NoSession /\ Referenced(s) THEN s ELSE NoSession

\* get_or_create and start_once: the broadcast of k, a new one when the map
\* has none. The constructor may also throw (see Refused).
Free(k) == {i \in 1..NumSessions : ~Referenced(<<k, i>>)}
Got(k) == IF bmap[k] # NoSession THEN bmap[k] ELSE <<k, CHOOSE i \in Free(k) : TRUE>>
CanGet(k) == bmap[k] # NoSession \/ Free(k) # {}
MapWith(k) == [bmap EXCEPT ![k] = Got(k)]
With(k) == IF bmap[k] # NoSession THEN bc ELSE [bc EXCEPT ![Got(k)] = Fresh]
\* Memory that is used again no longer answers to the weak_ptrs of its past.
ClientsWith(k) ==
  IF bmap[k] # NoSession THEN sc
  ELSE [c \in Clients |->
         [sc[c] EXCEPT !.current_broadcast = IF @ = Got(k) THEN NoSession ELSE @]]

\* add_client and attach_migrated_client.
Counted(b, c) == [b EXCEPT !.subscribers_ = @ + 1, !.clients_ = @ \cup {c}]

\* Mutant: the count may go below zero.
DiscountedUnclamped(b, c) ==
  [b EXCEPT !.clients_ = @ \ {c}, !.subscribers_ = @ - 1]

\* remove_client and detach_client_for_migration, whether the client is on
\* the list or not.
Discounted(b, c) ==
  [b EXCEPT !.clients_ = @ \ {c},
            !.subscribers_ = IF @ <= 1 THEN 0 ELSE @ - 1]

\* A stop of the broadcasts in S: out of the map, their streams ended and
\* the queues on their lists closed.
Stop(S) ==
  /\ bmap' = [k \in Keys |-> IF bmap[k] \in S THEN NoSession ELSE bmap[k]]
  /\ bc' = [s \in Sessions |-> IF s \in S THEN Stopped ELSE bc[s]]
  /\ sc' = [c \in Clients |->
             [sc[c] EXCEPT !.closed = @ \/ \E s \in S : c \in bc[s].clients_]]

ForceStop(k) == Stop({s \in {bmap[k]} \ {NoSession} : Empty(s)})

-----------------------------------------------------------------------------
(***************************************************************************)
(* What the slug plays: virtual_active_cid_ and virtual_pinned_cid_.       *)
(***************************************************************************)
\* get_virtual_active_cid, which find_candidates_for_channel calls for every
\* candidate, corrects the map as it looks.
Refreshed ==
  CASE pinned # None /\ Live(pinned) -> pinned
    [] pinned = None /\ active # None /\ ~Live(active) -> None
    [] OTHER -> active

\* A request for status or for the list of candidates does nothing else.
Status ==
  /\ active # Refreshed
  /\ active' = Refreshed
  /\ UNCHANGED <<pinned, disabled, bmap, bc, sc, viewer, admin, orders, lost>>

-----------------------------------------------------------------------------
(***************************************************************************)
(* A viewer's request, up to its first broadcast.                          *)
(***************************************************************************)
At(v, from) == viewer[v].pc = from
Ends(v) == viewer' = [viewer EXCEPT ![v] = [NoViewer EXCEPT !.pc = "ended"]]
Elsewhere == <<bmap, bc, sc, admin, orders, lost>>

\* cs is what the playlists hold at the moment of the quality asked for. A
\* live candidate is kept unless disabled; resolve_best_candidate answers
\* even when every candidate is.
Eligible(cs) ==
  CASE Refreshed \in cs \ disabled -> {Refreshed}
    [] Refreshed \notin cs \ disabled /\ cs \ disabled # {} -> cs \ disabled
    [] cs \subseteq disabled /\ Cids \subseteq disabled -> Cids
    [] OTHER -> Cids \ disabled

ClientCount == MapThenSumSet(LAMBDA s : Cardinality(Present(s)), Listed)

\* The limits of connections (403) and of channels (503) against what
\* get_content_info makes of the content id.
Full(k) ==
  \/ MaxConnections > 0 /\ ClientCount >= MaxConnections
  \/ MaxChannels > 0 /\ Cardinality(Listed) >= MaxChannels /\ bmap[k] = NoSession
Admit(v, c) ==
  \E k \in Infohash[c] :
    IF Full(k) THEN Ends(v)
    ELSE viewer' = [viewer EXCEPT ![v].pc = "join", ![v].key = k,
                      ![v].attempted = {c},
                      ![v].under = IF v \in AutoViewers THEN pinned ELSE None]

\* A request for a content id.
RequestCid(v, c) ==
  /\ At(v, "idle") /\ v \notin AutoViewers
  /\ Admit(v, c)
  /\ UNCHANGED <<virtual, Elsewhere>>

\* A request for the channel: the pinned candidate, or one by the ranking,
\* becomes the active one. With redirect=true that is all (307); and when no
\* playlist has the channel there is none (404).
RequestAuto(v) ==
  /\ At(v, "idle") /\ v \in AutoViewers
  /\ \/ \E c \in IF pinned # None THEN {pinned}
                 ELSE UNION {Eligible(cs) : cs \in SUBSET Cids \ {{}}} :
          active' = c /\ (Admit(v, c) \/ Ends(v))
     \/ pinned = None /\ active' = Refreshed /\ Ends(v)
  /\ UNCHANGED <<pinned, disabled, Elsewhere>>

\* get_or_create, add_client (a new client object) and start_once; the slug's
\* active entry becomes the infohash.
Join(v) ==
  LET k == viewer[v].key
      s == Got(k)
  IN  /\ At(v, "join")
      /\ CanGet(k)
      /\ bmap' = MapWith(k)
      /\ bc' = [With(k) EXCEPT ![s] = Counted(@, Client(v))]
      /\ sc' = [ClientsWith(k) EXCEPT ![Client(v)] =
                 [current_broadcast |-> s, closed |-> FALSE]]
      /\ viewer' = [viewer EXCEPT ![v].pc = "await", ![v].broadcast = s]
      /\ active' = IF v \in AutoViewers THEN k ELSE active
      /\ UNCHANGED <<pinned, disabled, admin, orders, lost>>

\* The engine refuses the new connection: get_or_create throws, 500.
Refused(v) ==
  /\ viewer[v].pc \in {"join", "rejoin"}
  /\ bmap[viewer[v].key] = NoSession
  /\ Ends(v)
  /\ UNCHANGED <<virtual, Elsewhere>>

-----------------------------------------------------------------------------
(***************************************************************************)
(* Playing and failing over.                                               *)
(***************************************************************************)
\* remove_client(client) on broadcast s: the queue is closed, too. A handler
\* that ends has no further use for its client.
RemoveFrom(s, c) ==
  /\ bc' = [bc EXCEPT ![s] = Discounted(@, c)]
  /\ sc' = [sc EXCEPT ![c].closed = TRUE]

\* Mutant: a playing handler, too, only knows the broadcast it joined.
CurrentIsJoined(v) == viewer[v].broadcast

\* The broadcast a handler takes its client from: the first wait knows only
\* the one it joined, a playing handler asks its client.
Current(v) ==
  IF viewer[v].playing /\ Lock(Client(v)) # NoSession THEN Lock(Client(v))
  ELSE viewer[v].broadcast

\* An administrator moved the client, and its handler does not notice.
Forgotten(v) ==
  ~viewer[v].playing /\ sc[Client(v)].current_broadcast # viewer[v].broadcast

FirstChunk(v) ==
  /\ At(v, "await")
  /\ \E s \in Sessions : Client(v) \in bc[s].clients_ /\ bc[s].running_
  /\ ~sc[Client(v)].closed
  /\ viewer' = [viewer EXCEPT ![v].pc = "play", ![v].playing = TRUE]
  /\ UNCHANGED <<virtual, Elsewhere>>

\* HEAD is answered after the first chunk, and only the client is removed.
Head(v) ==
  /\ At(v, "await")
  /\ \E s \in Sessions : Client(v) \in bc[s].clients_ /\ bc[s].running_
  /\ ~sc[Client(v)].closed
  /\ bc' = [bc EXCEPT ![viewer[v].broadcast] = Discounted(@, Client(v))]
  /\ sc' = [sc EXCEPT ![Client(v)] = NoClient]
  /\ lost' = (lost \/ Forgotten(v))
  /\ Ends(v)
  /\ UNCHANGED <<virtual, bmap, admin, orders>>

\* The end of a request that plays or never played: the client is removed
\* (after an exhausted failover for the second time), its broadcast ended if
\* its start-up window and grace period are over (remove_if_empty) or it is
\* forced, and the slug's active entry cleared if nobody uses it.
Leave(v, forced) ==
  LET s == Current(v)
      k == s[1]
      left == [bc EXCEPT ![s] = Discounted(@, Client(v))]
      unused == /\ bmap[k] # NoSession
                /\ left[bmap[k]].subscribers_ = 0
                /\ \A c \in left[bmap[k]].clients_ : ~Alive(c)
  IN  /\ \E stops \in SUBSET {t \in {bmap[k]} : unused} :
           /\ forced /\ unused => stops # {}
           /\ bc' = [t \in Sessions |-> IF t \in stops THEN Stopped ELSE left[t]]
           /\ bmap' = [bmap EXCEPT ![k] = IF stops # {} THEN NoSession ELSE @]
      /\ sc' = [sc EXCEPT ![Client(v)] = NoClient]
      /\ active' = IF v \in AutoViewers /\ active = k /\ (bmap[k] = NoSession \/ unused)
                   THEN None ELSE active
      /\ lost' = (lost \/ Forgotten(v))
      /\ Ends(v)
      /\ UNCHANGED <<pinned, disabled, admin, orders>>

\* The player closes its connection, or sending to it fails.
Hangup(v) == viewer[v].pc \in {"await", "play"} /\ Leave(v, FALSE)

\* Mutant: only a closed queue ends the first wait.
DryWhenClosed(v) == viewer[v].pc \in {"await", "play"} /\ sc[Client(v)].closed

\* A broadcast gives nothing: its queue is closed or, on a virtual route and
\* before the first chunk, the time (6 s, or 15 s with data) is over.
Dry(v) ==
  \/ At(v, "await") /\ (sc[Client(v)].closed \/ v \in AutoViewers)
  \/ At(v, "play") /\ sc[Client(v)].closed

\* There is no failover for a content id, nor for a pinned candidate.
GivesUp(v) == Dry(v) /\ (v \notin AutoViewers \/ pinned # None) /\ Leave(v, FALSE)

\* Mutant: the pin is not looked at.
FailsAnyway(v) ==
  /\ Dry(v) /\ v \in AutoViewers
  /\ RemoveFrom(Current(v), Client(v))
  /\ lost' = (lost \/ Forgotten(v))
  /\ viewer' = [viewer EXCEPT ![v].pc = "failed", ![v].broadcast = Current(v)]
  /\ UNCHANGED <<virtual, bmap, admin, orders>>

Fails(v) ==
  /\ Dry(v) /\ v \in AutoViewers /\ pinned = None
  /\ RemoveFrom(Current(v), Client(v))
  /\ lost' = (lost \/ Forgotten(v))
  /\ viewer' = [viewer EXCEPT ![v].pc = "failed", ![v].broadcast = Current(v)]
  /\ UNCHANGED <<virtual, bmap, admin, orders>>

\* The broadcast that failed is stopped unless others use it, and the best
\* candidate follows that is neither disabled nor tried.
NextCandidate(v, c) ==
  /\ At(v, "failed")
  /\ c \notin viewer[v].attempted \cup disabled
  /\ IF Empty(viewer[v].broadcast) THEN ForceStop(viewer[v].broadcast[1])
     ELSE UNCHANGED <<bmap, bc, sc>>
  /\ active' = c
  /\ viewer' = [viewer EXCEPT ![v].pc = "rejoin", ![v].key = c,
                  ![v].attempted = @ \cup {c}]
  /\ UNCHANGED <<pinned, disabled, admin, orders, lost>>

Exhausted(v) ==
  /\ At(v, "failed")
  /\ Cids \subseteq viewer[v].attempted \cup disabled
  /\ Leave(v, Empty(viewer[v].broadcast))

\* get_or_create, and the client joins: a new one while it waits for its
\* first chunk, the same one with a new queue when it plays.
Rejoin(v) ==
  LET k == viewer[v].key
      s == Got(k)
      n == IF viewer[v].playing THEN viewer[v].n ELSE viewer[v].n + 1
  IN  /\ At(v, "rejoin")
      /\ CanGet(k)
      /\ bmap' = MapWith(k)
      /\ bc' = [With(k) EXCEPT ![s] = Counted(@, <<v, n>>)]
      /\ sc' = [ClientsWith(k) EXCEPT ![Client(v)] = NoClient, ![<<v, n>>] =
                 [current_broadcast |-> s, closed |-> FALSE]]
      /\ viewer' = [viewer EXCEPT ![v].n = n, ![v].broadcast = s,
                      ![v].pc = IF viewer[v].playing THEN "play" ELSE "await"]
      /\ UNCHANGED <<virtual, admin, orders, lost>>

-----------------------------------------------------------------------------
(***************************************************************************)
(* The streams and the reaper.                                             *)
(***************************************************************************)
\* stream_loop ends: the queues are closed, the broadcast stays in the map.
StreamEnds(s) ==
  /\ Referenced(s) /\ bc[s].running_
  /\ bc' = [bc EXCEPT ![s].running_ = FALSE]
  /\ sc' = [c \in Clients |-> [sc[c] EXCEPT !.closed = @ \/ c \in bc[s].clients_]]
  /\ UNCHANGED <<virtual, bmap, viewer, admin, orders, lost>>

\* The reaper finds that nobody has used a broadcast for the grace period.
Reap(s) ==
  /\ s \in Listed /\ Empty(s) /\ Stop({s})
  /\ UNCHANGED <<virtual, viewer, admin, orders, lost>>

-----------------------------------------------------------------------------
(***************************************************************************)
(* The administrator: pin_candidate, migrate_subscribers.                  *)
(***************************************************************************)
Does(a, r) == admin' = [admin EXCEPT ![a] = r]
Counts == orders < MaxOrders /\ orders' = orders + 1

\* Requests that read the pin before it changed no longer go by it.
Unbound == viewer' = [v \in Viewers |->
                       [viewer[v] EXCEPT !.under = IF @ = pinned' THEN @ ELSE None]]

Pin(a, c) ==
  /\ admin[a].pc = "idle" /\ Counts
  /\ pinned' = c /\ active' = c
  /\ Does(a, [NoOrder EXCEPT !.pc = "collect", !.cid = c, !.stops = {active} \ {None, c}])
  /\ Unbound
  /\ UNCHANGED <<disabled, bmap, bc, sc, lost>>

Unpin(a) ==
  /\ admin[a].pc = "idle"
  /\ pinned # None /\ pinned' = None
  /\ Unbound
  /\ UNCHANGED <<orders, active, disabled, bmap, bc, sc, admin, lost>>

\* toggle_disabled_candidate: what is disabled is also left at once.
Toggle(a, c) ==
  /\ admin[a].pc = "idle"
  /\ \/ /\ Counts
        /\ disabled' = disabled \cup {c}
        /\ Does(a, [NoOrder EXCEPT !.pc = "collect", !.what = "disable", !.cid = c])
     \/ c \in disabled /\ disabled' = disabled \ {c} /\ UNCHANGED <<admin, orders>>
  /\ UNCHANGED <<active, pinned, bmap, bc, sc, viewer, lost>>

\* The copies: of the broadcasts, and of their clients.
Collect(a) ==
  LET o == admin[a]
      from == IF o.what = "pin" THEN Listed \ {bmap[o.cid]}
              ELSE {bmap[o.cid]} \ {NoSession}
      copies == UNION {Present(s) : s \in from}
      users == {s \in from : Present(s) # {}}
  IN  /\ o.pc = "collect"
      /\ Does(a, [o EXCEPT !.pc = IF copies = {} THEN "stop" ELSE "target",
                           !.all_b = from, !.copies = copies,
                           !.stops = IF o.what = "pin" THEN @ \cup {s[1] : s \in users}
                                     ELSE {k \in {o.cid} : copies # {}}])
      /\ UNCHANGED <<virtual, bmap, bc, sc, viewer, orders, lost>>

\* Where the clients go: to the pinned candidate, or to any that is enabled.
Target(a) ==
  LET o == admin[a]
      goals == IF o.what = "pin" THEN {o.cid} ELSE Cids \ (disabled \cup {o.cid})
  IN  /\ o.pc = "target"
      /\ active' = IF o.what = "pin" THEN active ELSE Refreshed
      /\ \/ /\ goals = {}
            /\ Does(a, [o EXCEPT !.pc = "stop", !.copies = {}])
            /\ UNCHANGED <<bmap, bc, sc>>
         \/ \E k \in goals :
              /\ CanGet(k)
              /\ bmap' = MapWith(k) /\ bc' = With(k) /\ sc' = ClientsWith(k)
              /\ Does(a, [o EXCEPT !.pc = "detach", !.target = Got(k)])
         \/ /\ \E k \in goals : bmap[k] = NoSession    \* get_or_create throws
            /\ Does(a, NoOrder)
            /\ UNCHANGED <<bmap, bc, sc>>
      /\ UNCHANGED <<pinned, disabled, viewer, orders, lost>>

\* Up to 3 s later, for each client of the copy.
Detach(a) ==
  LET o == admin[a]
  IN  /\ o.pc = "detach"
      /\ \E c \in o.copies :
           /\ bc' = [s \in Sessions |->
                      IF s \in o.all_b THEN Discounted(bc[s], c) ELSE bc[s]]
           /\ Does(a, [o EXCEPT !.pc = "attach", !.client = c])
      /\ UNCHANGED <<virtual, bmap, sc, viewer, orders, lost>>

\* The client's handler is between joining and leaving with it, and nobody
\* else has put it on a list meanwhile.
Holding(c) ==
  /\ viewer[c[1]].pc \in {"await", "play"} /\ Client(c[1]) = c
  /\ \A s \in Sessions : Referenced(s) => c \notin bc[s].clients_

Attach(a) ==
  LET o == admin[a]
      c == o.client
      left == o.copies \ {c}
  IN  /\ o.pc = "attach"
      /\ bc' = [bc EXCEPT ![o.target] = Counted(@, c)]
      /\ sc' = [sc EXCEPT ![c].current_broadcast = o.target]
      /\ lost' = (lost \/ ~Holding(c))
      /\ viewer' = [viewer EXCEPT ![c[1]].under =
                     IF o.what = "pin" /\ o.cid = @ THEN @ ELSE None]
      /\ Does(a, [o EXCEPT !.copies = left, !.client = None,
                    !.target = IF left = {} THEN NoSession ELSE @,
                    !.pc = CASE left = {} -> "stop"
                             [] left # {} /\ o.what = "pin" -> "detach"
                             [] OTHER -> "target"])
      /\ UNCHANGED <<virtual, bmap, orders>>

\* force_stop_broadcast of each key that was left.
AdminStop(a) ==
  LET o == admin[a]
  IN  /\ o.pc = "stop"
      /\ \/ \E k \in o.stops :
              /\ IF o.what = "pin" \/ \A s \in o.all_b : Present(s) = {}
                 THEN ForceStop(k) ELSE UNCHANGED <<bmap, bc, sc>>
              /\ Does(a, [o EXCEPT !.stops = @ \ {k}])
         \/ o.stops = {} /\ Does(a, NoOrder) /\ UNCHANGED <<bmap, bc, sc>>
      /\ UNCHANGED <<virtual, viewer, orders, lost>>

-----------------------------------------------------------------------------
ViewerWork(v) ==
  \/ Join(v) \/ Refused(v) \/ GivesUp(v) \/ Fails(v) \/ Exhausted(v)
  \/ Rejoin(v)
  \/ \E c \in Cids : NextCandidate(v, c)

AdminWork(a) ==
  Collect(a) \/ Target(a) \/ Detach(a) \/ Attach(a) \/ AdminStop(a)

Next ==
  \/ \E v \in Viewers :
       \/ RequestAuto(v) \/ Hangup(v) \/ FirstChunk(v) \/ Head(v)
       \/ ViewerWork(v)
       \/ \E c \in Wanted : RequestCid(v, c)
  \/ \E a \in Admins :
       Unpin(a) \/ AdminWork(a) \/ \E c \in Cids : Pin(a, c) \/ Toggle(a, c)
  \/ \E s \in Sessions : StreamEnds(s) \/ Reap(s)
  \/ Status

\* Handler threads go on with what they do; data may never come, and players,
\* the reaper and the administrator may stop at any point.
Spec == Init /\ [][Next]_vars /\ \A v \in AutoViewers : WF_vars(ViewerWork(v))

-----------------------------------------------------------------------------
\* Unless an administrator's move crossed what the client's handler did (a
\* client attached after its handler had let go of it, or moved during the
\* first wait, after which remove_client is called on the broadcast it was
\* moved from), no broadcast counts more subscribers than it serves: failing
\* over, migrating and ending give every count back, and the broadcast can be
\* stopped. Where they cross, the count stays for ever.
CountsAreReturned ==
  ~lost =>
    \A s \in Listed : bc[s].subscribers_ <= Cardinality(Present(s))

\* A request that found a pin is served by the pinned candidate, under its
\* infohash or its content id, for as long as the pin stays and no order
\* moves it elsewhere: neither a failover nor another viewer's takes it away.
PinnedRequestStays ==
  \A v \in Viewers :
    LET s == sc[Client(v)].current_broadcast
        p == viewer[v].under
    IN  viewer[v].pc \in {"await", "play"} /\ p # None
          => s = NoSession \/ s[1] \in Infohash[p] \cup {p}

\* A request for the channel is answered in the end, with a stream or with
\* an error, whatever its broadcasts and the administrator do and whether or
\* not data ever comes: the failover from candidate to candidate ends.
RequestsAreAnswered ==
  \A v \in AutoViewers : At(v, "join") ~> viewer[v].pc \in {"play", "ended"}
=============================================================================
