------------------------------ MODULE Broadcast ------------------------------
(***************************************************************************)
(* The broadcasts of one BroadcastManager: the stream sessions the proxy   *)
(* shares between the clients of a channel, the reference count that keeps *)
(* a session alive, and everything that may end it (broadcast.cpp).        *)
(*                                                                         *)
(* A session is one Broadcast object: it owns a control connection to the  *)
(* engine, a stream thread, and weak references to its clients. HTTP       *)
(* handler threads look a session up in the manager's map, join it, leave  *)
(* it or fail over to another one; the reaper thread evicts idle sessions; *)
(* Proxy::stop empties the map. A session is destroyed when its last       *)
(* shared_ptr goes away.                                                   *)
(*                                                                         *)
(* One action is one critical section or one access to an atomic: the      *)
(* counter subscribers_, the list clients_ and the two timestamps are      *)
(* updated by separate steps in the code, and so they are here. The reads  *)
(* of one guard (counter, list, timestamps) are taken together.            *)
(*                                                                         *)
(* Time is relative: a timestamp of the code is the number of ticks since  *)
(* it was stored, saturating at the largest value the code distinguishes.  *)
(*                                                                         *)
(* An administrator who pins or migrates puts clients on a session that    *)
(* their handlers hold no shared_ptr of (attach_migrated_client and        *)
(* detach_client_for_migration). That is left to VirtualChannels: here the *)
(* only callers of add_client and remove_client are the handlers.          *)
(***************************************************************************)
EXTENDS Integers, FiniteSets

CONSTANTS
  Handlers,      \* HTTP handler threads, each serving one client
  AutoHandlers,  \* those on a virtual /auto route, which may fail over
  Closers,       \* threads that may run BroadcastManager::stop_all
  Reaper,        \* the reaper thread
  Sessions,      \* Broadcast objects (memory the allocator may reuse)
  Infohashes,    \* keys of the manager's map
  Linger,        \* ticks of max(3, linger_timeout)
  Startup,       \* ticks of the protected start-up window (25 s)
  NoSession, NoHash, NoThread

ASSUME ConstantsAssumption ==
  /\ IsFiniteSet(Handlers) /\ AutoHandlers \subseteq Handlers
  /\ Reaper \notin Handlers /\ Reaper \notin Closers
  /\ Handlers \cap Closers = {}
  /\ Linger \in Nat \ {0} /\ Startup \in Nat \ {0}
  /\ NoSession \notin Sessions /\ NoHash \notin Infohashes
  /\ NoThread \notin Handlers \cup Closers \cup {Reaper}

Sweepers == Closers \cup {Reaper}      \* threads that stop a list of sessions
Threads  == Handlers \cup Sweepers
Unset    == -1                         \* a timestamp that holds 0

VARIABLES
  broadcasts_,  \* the manager's map
  mutex_,       \* who holds the manager's mutex across steps
  bc,           \* the fields of every Broadcast object
  client,       \* the locals of every handler, and its client's queue
  job,          \* the session a thread works on, and how it stops it
  doomed,       \* the sweepers' lists of sessions to stop
  scan,         \* the keys the reaper has still to visit
  verdict,      \* what it decided about the session it looks at
  pc

manager == <<broadcasts_, mutex_>>
sweep   == <<doomed, scan, verdict>>
vars    == <<manager, bc, client, job, sweep, pc>>

HandlerPC == {"idle", "lookup", "construct", "count", "unzero", "enlist",
              "start", "attached", "erase", "discount", "clamp", "stamp",
              "removed", "next"}
StopPC    == {"guard", "clear", "win", "close", "send", "join"}
SweepPC   == {"sleep", "scan", "act", "stops", "done"}
StreamPC  == {"none", "spawned", "starting", "streaming", "ended",
              "stopping", "closing", "done"}

\* infohash_ is NoHash in memory that holds no Broadcast; ace is the control
\* connection: authenticated, START issued, or SHUTDOWN sent.
SessionRecord ==
  [infohash_ : Infohashes \cup {NoHash},
   subscribers_ : Int,
   clients_ : SUBSET Handlers,
   zero_subscribers_time_ : Unset..Linger,
   start_time_ : Unset..Startup,
   running_ : BOOLEAN, started_ : BOOLEAN, stopped_ : BOOLEAN,
   ace : {"ready", "started", "shut"},
   stream : StreamPC]

\* held is the handler's shared_ptr; why says what makes it remove its client;
\* late is history: when it was listed, a stop had already been decided.
ClientRecord ==
  [held : Sessions \cup {NoSession},
   infohash : Infohashes \cup {NoHash},
   attempted : SUBSET Infohashes,
   why : {"leave", "failover"},
   queue_closed : BOOLEAN,
   late : BOOLEAN]

\* The counter is below zero only for a client that is halfway through remove_client.
TypeOK ==
  /\ broadcasts_ \in [Infohashes -> Sessions \cup {NoSession}]
  /\ mutex_ \in Threads \cup {NoThread}
  /\ bc \in [Sessions -> SessionRecord]
  /\ client \in [Handlers -> ClientRecord]
  /\ job \in [Threads -> [target : Sessions \cup {NoSession}, force : BOOLEAN]]
  /\ doomed \in [Sweepers -> SUBSET Sessions]
  /\ scan \in SUBSET Infohashes
  /\ verdict \in {"none", "reset", "mark", "evict"}
  /\ pc \in [Threads -> HandlerPC \cup StopPC \cup SweepPC]
  /\ \A h \in Handlers : pc[h] \in HandlerPC \cup StopPC
  /\ \A t \in Sweepers : pc[t] \in SweepPC \cup StopPC
  /\ \A b \in Sessions :
       bc[b].subscribers_ < 0 => \E h \in Handlers : client[h].held = b /\ pc[h] = "clamp"

Unborn ==
  [infohash_ |-> NoHash, subscribers_ |-> 0, clients_ |-> {},
   zero_subscribers_time_ |-> Unset, start_time_ |-> Unset,
   running_ |-> FALSE, started_ |-> FALSE, stopped_ |-> FALSE,
   ace |-> "ready", stream |-> "none"]

NoClient ==
  [held |-> NoSession, infohash |-> NoHash, attempted |-> {}, why |-> "leave",
   queue_closed |-> FALSE, late |-> FALSE]

NoJob == [target |-> NoSession, force |-> FALSE]

Init ==
  /\ broadcasts_ = [i \in Infohashes |-> NoSession]
  /\ mutex_ = NoThread
  /\ bc = [b \in Sessions |-> Unborn]
  /\ client = [h \in Handlers |-> NoClient]
  /\ job = [t \in Threads |-> NoJob]
  /\ doomed = [t \in Sweepers |-> {}]
  /\ scan = {}
  /\ verdict = "none"
  /\ pc = [t \in Threads |-> IF t \in Handlers THEN "idle" ELSE "sleep"]

Go(t, from, to) == pc[t] = from /\ pc' = [pc EXCEPT ![t] = to]

-----------------------------------------------------------------------------
(***************************************************************************)
(* What the guards of the code read.                                       *)
(***************************************************************************)
Listed(b)    == \E i \in Infohashes : broadcasts_[i] = b
Unused(b)    == bc[b].subscribers_ <= 0 /\ bc[b].clients_ = {}
InStartup(b) == bc[b].start_time_ \in 0..(Startup - 1)
InGrace(b)   == bc[b].zero_subscribers_time_ \in 0..(Linger - 1)
Lingered(b)  == bc[b].zero_subscribers_time_ >= Linger

\* A shared_ptr to b exists somewhere.
Referenced(b) ==
  \/ Listed(b)
  \/ \E h \in Handlers : client[h].held = b
  \/ \E t \in Threads : job[t].target = b
  \/ \E t \in Sweepers : b \in doomed[t]

\* Somebody has passed the guard of a stop of b and has not finished it.
StopDecided(b) ==
  \/ bc[b].stream = "stopping"
  \/ \E t \in Threads :
       job[t].target = b /\ pc[t] \in {"clear", "win", "close", "send", "join"}

\* Closes the queues of the clients on b's list.
CloseQueues(b) ==
  client' = [h \in Handlers |->
    [client[h] EXCEPT !.queue_closed = @ \/ h \in bc[b].clients_]]

-----------------------------------------------------------------------------
(***************************************************************************)
(* A handler enters: get_or_create, add_client, start_once.                *)
(***************************************************************************)
Request(h, i) ==
  /\ Go(h, "idle", "lookup")
  /\ client' = [client EXCEPT ![h].infohash = i, ![h].attempted = {i}]
  /\ UNCHANGED <<manager, bc, job, sweep>>

\* get_or_create finds the infohash in the map.
GetExisting(h) ==
  /\ Go(h, "lookup", "count")
  /\ mutex_ = NoThread
  /\ broadcasts_[client[h].infohash] # NoSession
  /\ client' = [client EXCEPT ![h].held = broadcasts_[client[h].infohash]]
  /\ UNCHANGED <<manager, bc, job, sweep>>

\* get_or_create does not find it, and connects and authenticates a new
\* Broadcast while it holds the manager's mutex.
BeginConstruct(h) ==
  /\ Go(h, "lookup", "construct")
  /\ mutex_ = NoThread
  /\ broadcasts_[client[h].infohash] = NoSession
  /\ mutex_' = h
  /\ UNCHANGED <<broadcasts_, bc, client, job, sweep>>

Construct(h, b) ==
  /\ Go(h, "construct", "count")
  /\ bc[b].infohash_ = NoHash
  /\ bc' = [bc EXCEPT ![b].infohash_ = client[h].infohash]
  /\ broadcasts_' = [broadcasts_ EXCEPT ![client[h].infohash] = b]
  /\ client' = [client EXCEPT ![h].held = b]
  /\ mutex_' = NoThread
  /\ UNCHANGED <<job, sweep>>

\* The engine refuses: the constructor throws and the handler answers 500.
ConstructFails(h) ==
  /\ Go(h, "construct", "idle")
  /\ client' = [client EXCEPT ![h] = NoClient]
  /\ mutex_' = NoThread
  /\ UNCHANGED <<broadcasts_, bc, job, sweep>>

\* add_client: the counter, the timestamp and the list, one after the other.
CountIn(h) ==
  /\ Go(h, "count", "unzero")
  /\ bc' = [bc EXCEPT ![client[h].held].subscribers_ = @ + 1]
  /\ client' = [client EXCEPT ![h].queue_closed = FALSE]
  /\ UNCHANGED <<manager, job, sweep>>

ClearZeroTime(h) ==
  /\ Go(h, "unzero", "enlist")
  /\ bc' = [bc EXCEPT ![client[h].held].zero_subscribers_time_ = Unset]
  /\ UNCHANGED <<manager, client, job, sweep>>

Enlist(h) ==
  LET b == client[h].held IN
  /\ Go(h, "enlist", "start")
  /\ bc' = [bc EXCEPT ![b].clients_ = @ \cup {h}]
  /\ client' = [client EXCEPT ![h].late = StopDecided(b) \/ bc[b].stopped_]
  /\ UNCHANGED <<manager, job, sweep>>

StartOnce(h) ==
  LET b == client[h].held IN
  /\ Go(h, "start", "attached")
  /\ bc' = IF bc[b].started_ THEN bc
           ELSE [bc EXCEPT ![b].started_ = TRUE, ![b].start_time_ = 0,
                           ![b].running_ = TRUE, ![b].stream = "spawned"]
  /\ UNCHANGED <<manager, client, job, sweep>>

-----------------------------------------------------------------------------
(***************************************************************************)
(* A handler leaves its broadcast: remove_client, and what follows it.     *)
(***************************************************************************)
BeginRemove(h, why) ==
  /\ Go(h, "attached", "erase")
  /\ client' = [client EXCEPT ![h].why = why]
  /\ UNCHANGED <<manager, bc, job, sweep>>

\* The player disconnects.
Disconnect(h) == BeginRemove(h, "leave")

\* On a direct route the handler leaves when it finds its queue closed.
QueueClosed(h) ==
  /\ client[h].queue_closed /\ h \notin AutoHandlers
  /\ BeginRemove(h, "leave")

\* Mutant: the failed candidate keeps its client.
CandidateFailsStays(h) ==
  /\ h \in AutoHandlers
  /\ Go(h, "attached", "next")
  /\ UNCHANGED <<manager, bc, client, job, sweep>>

\* On a virtual route a closed queue, or no data in time, is a failed candidate.
CandidateFails(h) == h \in AutoHandlers /\ BeginRemove(h, "failover")

Erase(h) ==
  /\ Go(h, "erase", "discount")
  /\ client' = [client EXCEPT ![h].queue_closed = TRUE]
  /\ bc' = [bc EXCEPT ![client[h].held].clients_ = @ \ {h}]
  /\ UNCHANGED <<manager, job, sweep>>

\* Mutant: the last client does not count itself out.
CountOutForgets(h) ==
  /\ Go(h, "discount", "removed")
  /\ UNCHANGED <<manager, bc, client, job, sweep>>

\* Mutant: the counter is not set back to zero.
CountOutUnclamped(h) ==
  LET remaining == bc[client[h].held].subscribers_ - 1 IN
  /\ Go(h, "discount", IF remaining <= 0 THEN "stamp" ELSE "removed")
  /\ bc' = [bc EXCEPT ![client[h].held].subscribers_ = remaining]
  /\ UNCHANGED <<manager, client, job, sweep>>

CountOut(h) ==
  LET remaining == bc[client[h].held].subscribers_ - 1 IN
  /\ Go(h, "discount", IF remaining <= 0 THEN "clamp" ELSE "removed")
  /\ bc' = [bc EXCEPT ![client[h].held].subscribers_ = remaining]
  /\ UNCHANGED <<manager, client, job, sweep>>

ClampToZero(h) ==
  /\ Go(h, "clamp", "stamp")
  /\ bc' = [bc EXCEPT ![client[h].held].subscribers_ = 0]
  /\ UNCHANGED <<manager, client, job, sweep>>

StampZeroTime(h) ==
  /\ Go(h, "stamp", "removed")
  /\ bc' = [bc EXCEPT ![client[h].held].zero_subscribers_time_ = 0]
  /\ UNCHANGED <<manager, client, job, sweep>>

\* The handler returns and its shared_ptrs go.
Release(h) ==
  /\ pc' = [pc EXCEPT ![h] = "idle"]
  /\ client' = [client EXCEPT ![h] = NoClient]

\* b is taken out of the map and t goes on to stop it.
TakeOut(t, b, force) ==
  /\ broadcasts_' = [broadcasts_ EXCEPT ![bc[b].infohash_] = NoSession]
  /\ job' = [job EXCEPT ![t] = [target |-> b, force |-> force]]
  /\ pc' = [pc EXCEPT ![t] = "guard"]

\* remove_if_empty(infohash), after the client was removed.
RemoveIfEmpty(h) ==
  LET b == broadcasts_[client[h].infohash] IN
  /\ pc[h] = "removed" /\ client[h].why = "leave"
  /\ mutex_ = NoThread
  /\ IF b # NoSession /\ Unused(b) /\ ~InStartup(b) /\ Lingered(b)
     THEN TakeOut(h, b, FALSE) /\ UNCHANGED client
     ELSE Release(h) /\ UNCHANGED <<broadcasts_, job>>
  /\ UNCHANGED <<mutex_, bc, sweep>>

\* force_stop_broadcast(infohash) of the failed candidate, if nobody uses it.
ForceStop(h) ==
  LET b == broadcasts_[client[h].infohash] IN
  /\ pc[h] = "removed" /\ client[h].why = "failover"
  /\ mutex_ = NoThread
  /\ IF Unused(client[h].held) /\ b # NoSession /\ Unused(b)
     THEN TakeOut(h, b, TRUE)
     ELSE pc' = [pc EXCEPT ![h] = "next"] /\ UNCHANGED <<broadcasts_, job>>
  /\ UNCHANGED <<mutex_, bc, client, sweep>>

NextCandidate(h, i) ==
  /\ i \notin client[h].attempted
  /\ Go(h, "next", "lookup")
  /\ client' = [client EXCEPT ![h].infohash = i, ![h].attempted = @ \cup {i}]
  /\ UNCHANGED <<manager, bc, job, sweep>>

\* No candidate left: the handler leaves, and removes its client once more.
Exhausted(h) ==
  /\ client[h].attempted = Infohashes
  /\ Go(h, "next", "erase")
  /\ client' = [client EXCEPT ![h].why = "leave"]
  /\ UNCHANGED <<manager, bc, job, sweep>>

-----------------------------------------------------------------------------
(***************************************************************************)
(* Broadcast::stop(force), run by any thread t that has a target.          *)
(***************************************************************************)
Return(t) ==
  /\ job' = [job EXCEPT ![t] = NoJob]
  /\ IF t \in Handlers
     THEN /\ UNCHANGED doomed
          /\ IF client[t].why = "failover"
             THEN pc' = [pc EXCEPT ![t] = "next"] /\ UNCHANGED client
             ELSE Release(t)
     ELSE /\ pc' = [pc EXCEPT ![t] = "stops"]
          /\ doomed' = [doomed EXCEPT ![t] = @ \ {job[t].target}]
          /\ UNCHANGED client
  /\ UNCHANGED <<scan, verdict>>

\* Mutant: the counter alone is believed, as before v09.11.04.
MayStopByCount(b, force, protected) ==
  /\ bc[b].subscribers_ <= 0
  /\ force \/ (~(InStartup(b) /\ protected) /\ ~InGrace(b))

\* The start-up window holds a stop back unless the status the engine reports
\* is none of the protected ones, e.g. an error.
MayStop(b, force, protected) ==
  /\ Unused(b)
  /\ force \/ (~(InStartup(b) /\ protected) /\ ~InGrace(b))

StopGuard(t) ==
  /\ pc[t] = "guard"
  /\ \E protected \in BOOLEAN :
       IF MayStop(job[t].target, job[t].force, protected)
       THEN /\ pc' = [pc EXCEPT ![t] = IF job[t].force THEN "clear" ELSE "win"]
            /\ UNCHANGED <<client, job, sweep>>
       ELSE Return(t)
  /\ UNCHANGED <<manager, bc>>

StopClearsCount(t) ==
  /\ Go(t, "clear", "win")
  /\ bc' = [bc EXCEPT ![job[t].target].subscribers_ = 0]
  /\ UNCHANGED <<manager, client, job, sweep>>

StopWins(t) ==
  LET b == job[t].target IN
  /\ pc[t] = "win"
  /\ IF bc[b].stopped_
     THEN Return(t) /\ UNCHANGED bc
     ELSE /\ pc' = [pc EXCEPT ![t] = "close"]
          /\ bc' = [bc EXCEPT ![b].stopped_ = TRUE, ![b].running_ = FALSE]
          /\ UNCHANGED <<client, job, sweep>>
  /\ UNCHANGED manager

StopCloses(t) ==
  /\ Go(t, "close", "send")
  /\ CloseQueues(job[t].target)
  /\ UNCHANGED <<manager, bc, job, sweep>>

\* STOP (if START was issued) and SHUTDOWN.
StopSends(t) ==
  /\ Go(t, "send", "join")
  /\ bc' = [bc EXCEPT ![job[t].target].ace = "shut"]
  /\ UNCHANGED <<manager, client, job, sweep>>

StopJoins(t) ==
  /\ pc[t] = "join"
  /\ bc[job[t].target].stream \in {"none", "done"}
  /\ Return(t)
  /\ UNCHANGED <<manager, bc>>

-----------------------------------------------------------------------------
(***************************************************************************)
(* The reaper: one pass over the map under the manager's mutex, then the   *)
(* stops. Its reads of a session and what it does about it are two steps.  *)
(***************************************************************************)
ReapBegin ==
  /\ mutex_ = NoThread
  /\ Go(Reaper, "sleep", "scan")
  /\ mutex_' = Reaper
  /\ scan' = {i \in Infohashes : broadcasts_[i] # NoSession}
  /\ UNCHANGED <<broadcasts_, bc, client, job, doomed, verdict>>

\* Mutant: the first sighting of an idle session does not start its grace.
JudgeNeverMarks(b) ==
  CASE ~Unused(b)                                -> "reset"
    [] Unused(b) /\ ~InStartup(b) /\ Lingered(b) -> "evict"
    [] OTHER                                     -> "none"

Judge(b) ==
  CASE ~Unused(b)                                   -> "reset"
    [] Unused(b) /\ InStartup(b)                    -> "none"
    [] Unused(b) /\ ~InStartup(b) /\ bc[b].zero_subscribers_time_ = Unset -> "mark"
    [] Unused(b) /\ ~InStartup(b) /\ Lingered(b)    -> "evict"
    [] OTHER                                        -> "none"

ReapLook(i) ==
  LET b == broadcasts_[i] IN
  /\ i \in scan
  /\ scan' = scan \ {i}
  /\ verdict' = Judge(b)
  /\ IF Judge(b) = "none"
     THEN pc[Reaper] = "scan" /\ UNCHANGED <<pc, job>>
     ELSE Go(Reaper, "scan", "act") /\ job' = [job EXCEPT ![Reaper].target = b]
  /\ UNCHANGED <<manager, bc, client, doomed>>

ReapAct ==
  LET b == job[Reaper].target IN
  /\ Go(Reaper, "act", "scan")
  /\ bc' = CASE verdict = "reset" -> [bc EXCEPT ![b].zero_subscribers_time_ = Unset]
             [] verdict = "mark" /\ bc[b].subscribers_ <= 0
                                 /\ bc[b].zero_subscribers_time_ = Unset
                                 -> [bc EXCEPT ![b].zero_subscribers_time_ = 0]
             [] OTHER            -> bc
  /\ IF verdict = "evict"
     THEN /\ broadcasts_' = [broadcasts_ EXCEPT ![bc[b].infohash_] = NoSession]
          /\ doomed' = [doomed EXCEPT ![Reaper] = @ \cup {b}]
     ELSE UNCHANGED <<broadcasts_, doomed>>
  /\ job' = [job EXCEPT ![Reaper] = NoJob]
  /\ verdict' = "none"
  /\ UNCHANGED <<mutex_, client, scan>>

ReapUnlock ==
  /\ scan = {}
  /\ Go(Reaper, "scan", "stops")
  /\ mutex_' = NoThread
  /\ UNCHANGED <<broadcasts_, bc, client, job, sweep>>

\* Mutant: stop_all copies the map.
StopAllCopies(t) ==
  /\ mutex_ = NoThread
  /\ Go(t, "sleep", "stops")
  /\ doomed' = [doomed EXCEPT ![t] = {b \in Sessions : Listed(b)}]
  /\ UNCHANGED <<manager, bc, client, job, scan, verdict>>

\* stop_all swaps the map with an empty one and stops what it held.
StopAll(t) ==
  /\ mutex_ = NoThread
  /\ Go(t, "sleep", "stops")
  /\ doomed' = [doomed EXCEPT ![t] = {b \in Sessions : Listed(b)}]
  /\ broadcasts_' = [i \in Infohashes |-> NoSession]
  /\ UNCHANGED <<mutex_, bc, client, job, scan, verdict>>

SweepStop(t, b) ==
  /\ b \in doomed[t]
  /\ Go(t, "stops", "guard")
  /\ job' = [job EXCEPT ![t].target = b]
  /\ UNCHANGED <<manager, bc, client, sweep>>

SweepDone(t) ==
  /\ doomed[t] = {}
  /\ Go(t, "stops", IF t = Reaper THEN "sleep" ELSE "done")
  /\ UNCHANGED <<manager, bc, client, job, sweep>>

-----------------------------------------------------------------------------
(***************************************************************************)
(* stream_loop.                                                            *)
(***************************************************************************)
\* The window is counted again from here; START goes out on the connection.
StreamStart(b) ==
  /\ bc[b].stream = "spawned"
  /\ bc' = IF bc[b].ace = "ready"
           THEN [bc EXCEPT ![b].start_time_ = 0, ![b].stream = "starting",
                           ![b].ace = "started"]
           ELSE [bc EXCEPT ![b].start_time_ = 0, ![b].stream = "ended",
                           ![b].running_ = FALSE]
  /\ UNCHANGED <<manager, client, job, sweep, pc>>

StreamUrl(b) ==
  /\ bc[b].stream = "starting" /\ bc[b].ace = "started"
  /\ bc' = [bc EXCEPT ![b].stream = "streaming"]
  /\ UNCHANGED <<manager, client, job, sweep, pc>>

\* An error, a timeout, the end of the HTTP stream, or running_ seen false.
StreamEnd(b) ==
  /\ bc[b].stream \in {"starting", "streaming"}
  /\ bc' = [bc EXCEPT ![b].stream = "ended", ![b].running_ = FALSE]
  /\ UNCHANGED <<manager, client, job, sweep, pc>>

StreamDecide(b) ==
  /\ bc[b].stream = "ended"
  /\ bc' = [bc EXCEPT ![b].stream =
              IF ~InStartup(b) /\ ~InGrace(b) /\ Unused(b) THEN "stopping" ELSE "closing"]
  /\ UNCHANGED <<manager, client, job, sweep, pc>>

StreamStops(b) ==
  /\ bc[b].stream = "stopping"
  /\ bc' = [bc EXCEPT ![b].stream = "closing", ![b].ace = "shut"]
  /\ UNCHANGED <<manager, client, job, sweep, pc>>

StreamCloses(b) ==
  /\ bc[b].stream = "closing"
  /\ bc' = [bc EXCEPT ![b].stream = "done"]
  /\ CloseQueues(b)
  /\ UNCHANGED <<manager, job, sweep, pc>>

-----------------------------------------------------------------------------
(***************************************************************************)
(* ~Broadcast, once the last shared_ptr is gone: it ends the session       *)
(* without any guard and joins the stream thread; the memory is then free. *)
(***************************************************************************)
Expired(b) == bc[b].infohash_ # NoHash /\ ~Referenced(b)

Destroyed(b) == ~bc[b].running_ /\ bc[b].stopped_ /\ bc[b].ace = "shut"

Destroy(b) ==
  /\ Expired(b) /\ ~Destroyed(b)
  /\ bc' = [bc EXCEPT ![b].running_ = FALSE, ![b].stopped_ = TRUE, ![b].ace = "shut"]
  /\ CloseQueues(b)
  /\ UNCHANGED <<manager, job, sweep, pc>>

Free(b) ==
  /\ Expired(b) /\ Destroyed(b)
  /\ bc[b].stream \in {"none", "done"}
  /\ bc' = [bc EXCEPT ![b] = Unborn]
  /\ UNCHANGED <<manager, client, job, sweep, pc>>

\* A second passes.
Later(stamp, limit) == IF stamp \in 0..(limit - 1) THEN stamp + 1 ELSE stamp

Tick ==
  /\ bc' = [b \in Sessions |->
       [bc[b] EXCEPT !.zero_subscribers_time_ = Later(@, Linger),
                     !.start_time_ = Later(@, Startup)]]
  /\ bc' # bc
  /\ UNCHANGED <<manager, client, job, sweep, pc>>

-----------------------------------------------------------------------------
Join(h) ==
  \/ GetExisting(h) \/ BeginConstruct(h)
  \/ (\E b \in Sessions : Construct(h, b)) \/ ConstructFails(h)
  \/ CountIn(h) \/ ClearZeroTime(h) \/ Enlist(h) \/ StartOnce(h)

Leave(h) ==
  \/ QueueClosed(h)
  \/ Erase(h) \/ CountOut(h) \/ ClampToZero(h) \/ StampZeroTime(h)
  \/ RemoveIfEmpty(h) \/ ForceStop(h)
  \/ (\E i \in Infohashes : NextCandidate(h, i)) \/ Exhausted(h)

\* What the outside world decides: requests, disconnections, slow candidates.
Environment(h) ==
  \/ \E i \in Infohashes : Request(h, i)
  \/ Disconnect(h)
  \/ CandidateFails(h)

Stop(t) ==
  \/ StopGuard(t) \/ StopClearsCount(t) \/ StopWins(t)
  \/ StopCloses(t) \/ StopSends(t) \/ StopJoins(t)

Sweep(t) == (\E b \in Sessions : SweepStop(t, b)) \/ SweepDone(t)

Reap == (\E i \in Infohashes : ReapLook(i)) \/ ReapAct \/ ReapUnlock

StreamThread(b) ==
  \/ StreamStart(b) \/ StreamUrl(b) \/ StreamEnd(b)
  \/ StreamDecide(b) \/ StreamStops(b) \/ StreamCloses(b)

Next ==
  \/ \E h \in Handlers : Environment(h) \/ Join(h) \/ Leave(h)
  \/ \E t \in Threads : Stop(t)
  \/ \E t \in Sweepers : Sweep(t)
  \/ \E t \in Closers : StopAll(t)
  \/ ReapBegin \/ Reap
  \/ \E b \in Sessions : StreamThread(b) \/ Destroy(b) \/ Free(b)
  \/ Tick

Spec == Init /\ [][Next]_vars

(***************************************************************************)
(* Threads are scheduled and engine replies are bounded by timeouts. A     *)
(* stream thread aborts its transfer when it sees running_ false, or when  *)
(* the engine, told to shut down, sends no more (curl's low-speed limit).  *)
(* The manager mutex is not fair by itself: the reaper, which competes for *)
(* it with every request, is assumed to get it eventually. Nothing is      *)
(* assumed of players and requests, nor of streams that keep flowing.      *)
(***************************************************************************)
\* stream_loop goes on by itself, except that a stream may flow for ever.
StreamMustGo(b) ==
  \/ StreamStart(b) \/ StreamDecide(b) \/ StreamStops(b) \/ StreamCloses(b)
  \/ /\ bc[b].stream = "starting" \/ ~bc[b].running_ \/ bc[b].ace = "shut"
     /\ StreamEnd(b)

Fairness ==
  /\ \A h \in Handlers : WF_vars(Join(h) \/ Leave(h) \/ Stop(h))
  /\ \A t \in Closers : WF_vars(Sweep(t) \/ Stop(t))
  /\ SF_vars(ReapBegin \/ Reap \/ Sweep(Reaper) \/ Stop(Reaper))
  /\ \A b \in Sessions : WF_vars(StreamMustGo(b)) /\ WF_vars(Destroy(b) \/ Free(b))
  /\ WF_vars(Tick)

FairSpec == Spec /\ Fairness

-----------------------------------------------------------------------------
(***************************************************************************)
(* Safety. What follows is about clients that come and go by add_client    *)
(* and remove_client; a migration may attach one to a session that has     *)
(* been stopped, or is about to be destroyed (see VirtualChannels).        *)
(***************************************************************************)
\* get_or_create never hands out a session that stop() has ended: whoever
\* ends a session has taken it out of the map before (reaper, remove_if_empty,
\* force_stop_broadcast, stop_all).
StoppedIsUnlisted == \A b \in Sessions : bc[b].stopped_ => ~Listed(b)

\* No stop, graceful, forced, or by the stream thread itself, cuts off a client
\* that was on the list when the stop passed its guard: the clients of a stopped
\* session are those that joined between its guard and its STOP.
StopSparesSettled ==
  \A b \in Sessions :
    bc[b].stopped_ \/ StopDecided(b) => \A h \in bc[b].clients_ : client[h].late

\* The handlers that have counted themselves in and not out.
Counted(b) ==
  {h \in Handlers : client[h].held = b /\
     pc[h] \in {"unzero", "enlist", "start", "attached", "erase", "discount"}}

\* However the separate updates of remove_client, add_client and a forced stop
\* interleave, and although an exhausted failover removes its client twice, the
\* counter never exceeds the handlers it counts: a session cannot be kept from
\* the reaper by a reference nobody holds. (That is so of add_client and
\* remove_client; a migration may count a client that has left meanwhile, which
\* VirtualChannels shows.)
NoOvercount == \A b \in Sessions : bc[b].subscribers_ <= Cardinality(Counted(b))

(***************************************************************************)
(* Liveness.                                                               *)
(***************************************************************************)
\* An engine session that no handler uses is ended: by the reaper, by its
\* stream thread, or by the destructor when a stop was put off.
AbandonedIsReleased ==
  \A b \in Sessions :
    bc[b].ace = "started" ~> bc[b].ace # "started" \/ \E h \in Handlers : client[h].held = b
=============================================================================
