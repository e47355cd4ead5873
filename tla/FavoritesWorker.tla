---------------------------- MODULE FavoritesWorker ----------------------------
(***************************************************************************)
(* FavoritesHealthWorker (favorites_worker.cpp) on top of the favourites of *)
(* Settings: a thread that has the streams of every favourite verified once *)
(* in an interval, and out of turn those of the channels that have just     *)
(* been added, or that a viewer asks for.  It waits while anybody watches.  *)
(* What verify_sync does is the module ChannelVerifier; here it returns.    *)
(***************************************************************************)
EXTENDS Settings

CONSTANTS Ordered,    \* channels that channel_order.json names besides
          MaxVisits   \* bound: how often viewers come

ASSUME WorkerAssumption ==
  /\ Ordered \subseteq Slugs /\ IsFiniteSet(Slugs) /\ Nobody \notin Slugs
  /\ MaxVisits \in Nat

VARIABLES worker,    \* where the thread is
          running,   \* running_
          slug,      \* the channel of the call to probe_channel, or none
          pass,      \* the favourites the present pass has not reached
          turn,      \* the favourite of the pass whose turn it is, or none
          resume,    \* where probe_channel returns to
          queue,     \* priority_queue_
          pending,   \* pending_slugs_
          watching, visits,
          owed       \* the channels asked for and not probed since

worker_vars == <<worker, running, slug, pass, turn, resume, queue, pending, watching, visits, owed>>
vars == <<settings, worker_vars>>

WorkerPlaces == {"off", "warming", "waiting", "serving", "passing", "urgent", "probing", "ended"}

WorkerInit ==
  /\ worker = "off" /\ running = FALSE
  /\ slug = Nobody /\ pass = {} /\ turn = Nobody /\ resume = "serving"
  /\ queue = <<>> /\ pending = {}
  /\ watching = FALSE /\ visits = 0
  /\ owed = {}

\* start, called by Proxy::start, which serves requests only after that.
\* Bound: it starts with the favourites of a fresh installation.
WorkerStarts ==
  /\ process = "up" /\ store = "favourites" /\ worker = "off"
  /\ requests = 0 /\ mem = Defaults
  /\ worker' = "warming" /\ running' = TRUE
  /\ UNCHANGED <<settings, slug, pass, turn, resume, queue, pending, watching, visits, owed>>

\* stop: no more than the flag and a notification; the worker ends by itself.
WorkerStops ==
  /\ running /\ running' = FALSE
  /\ UNCHANGED <<settings, worker, slug, pass, turn, resume, queue, pending, watching, visits, owed>>

\* The queue takes a channel once, until the worker takes it out.
Unqueued(s) == {x \in s : x \notin pending}

NotifyFavoritesChanged(added) ==
  \E order \in [1 .. Cardinality(Unqueued(added)) -> Unqueued(added)] :
    /\ \A x \in Unqueued(added) : \E i \in DOMAIN order : order[i] = x
    /\ queue' = queue \o order
    /\ pending' = pending \cup added
    /\ owed' = owed \cup added

\* A change of the favourites ends by telling the worker.
FavoritesChanged(t) ==
  /\ Notifies(t)
  /\ NotifyFavoritesChanged(copy[t])
  /\ UNCHANGED <<worker, running, slug, pass, turn, resume, watching, visits>>

\* A viewer, or a page, asks for a channel nothing is known of.
RequestChannelProbe(s) ==
  /\ worker # "off" /\ requests < MaxRequests
  /\ requests' = requests + 1
  /\ queue' = IF s \in pending THEN queue ELSE <<s>> \o queue
  /\ pending' = pending \cup {s}
  /\ owed' = owed \cup {s}
  /\ UNCHANGED <<store, root, file, process, mem, lock, at, todo, copy, dump, left, crashes, kept, saved,
                 worker, running, slug, pass, turn, resume, watching, visits>>

ViewersComeAndGo ==
  /\ running
  /\ \/ ~watching /\ visits < MaxVisits /\ visits' = visits + 1
     \/ watching /\ UNCHANGED visits
  /\ watching' = ~watching
  /\ UNCHANGED <<settings, worker, running, slug, pass, turn, resume, queue, pending, owed>>
-------------------------------------------------------------------------------
(* The thread.  A wait ends by its time-out, if by nothing else.            *)

Rest == UNCHANGED <<settings, running, watching, visits>>

\* get_favorites_list: the favourites and what channel_order.json adds.
Favorites == (mem \cap Slugs) \cup Ordered

\* Two seconds, and as long as anybody watches; then the first pass.
Warm ==
  /\ worker = "warming" /\ lock = Nobody
  /\ IF running THEN /\ ~watching
                     /\ worker' = "passing" /\ pass' = Favorites
                ELSE worker' = "ended" /\ UNCHANGED pass
  /\ Rest /\ UNCHANGED <<slug, turn, resume, queue, pending, owed>>

\* The pass takes the next favourite, or is over.
NextFavorite ==
  /\ worker = "passing"
  /\ IF running /\ pass # {}
     THEN \E s \in pass : turn' = s /\ pass' = pass \ {s} /\ worker' = "urgent"
     ELSE worker' = "waiting" /\ pass' = {} /\ UNCHANGED turn
  /\ Rest /\ UNCHANGED <<slug, resume, queue, pending, owed>>

\* Mutant: the channel stays among the pending ones.
TakeOutOnly == /\ slug' = Head(queue) /\ queue' = Tail(queue)
               /\ pending' = pending
               /\ worker' = "probing" /\ resume' = worker

\* The call of probe_channel for the channel in front of the queue.
TakeOut == /\ slug' = Head(queue) /\ queue' = Tail(queue)
           /\ pending' = pending \ {Head(queue)}
           /\ worker' = "probing" /\ resume' = worker

\* Mutant: the channel that was asked for takes the turn of the favourite.
UrgentInstead ==
  /\ worker = "urgent"
  /\ \/ /\ ~running
        /\ worker' = "passing" /\ turn' = Nobody
        /\ UNCHANGED <<slug, resume, queue, pending>>
     \/ /\ running /\ ~watching /\ queue # <<>>
        /\ TakeOut /\ turn' = Nobody
     \/ /\ running /\ ~watching /\ queue = <<>>
        /\ slug' = turn /\ turn' = Nobody /\ worker' = "probing" /\ resume' = "passing"
        /\ UNCHANGED <<queue, pending>>
  /\ Rest /\ UNCHANGED <<pass, owed>>

\* Before the turn of the favourite come the channels that were asked for;
\* while anybody watches it waits.
Urgent ==
  /\ worker = "urgent"
  /\ \/ /\ ~running
        /\ worker' = "passing" /\ turn' = Nobody
        /\ UNCHANGED <<slug, resume, queue, pending>>
     \/ /\ running /\ ~watching /\ queue # <<>>
        /\ TakeOut /\ UNCHANGED turn
     \/ /\ running /\ ~watching /\ queue = <<>>
        /\ slug' = turn /\ turn' = Nobody /\ worker' = "probing" /\ resume' = "passing"
        /\ UNCHANGED <<queue, pending>>
  /\ Rest /\ UNCHANGED <<pass, owed>>

\* The end of the interval, or a channel that is asked for.
WakesUp ==
  /\ worker = "waiting"
  /\ worker' = IF running THEN "serving" ELSE "ended"
  /\ Rest /\ UNCHANGED <<slug, pass, turn, resume, queue, pending, owed>>

\* The channels that were asked for; then, when it is time, a pass.
Serves ==
  /\ worker = "serving"
  /\ \/ running /\ queue # <<>> /\ TakeOut /\ UNCHANGED pass
     \/ /\ ~running \/ queue = <<>>
        /\ \/ worker' = "waiting" /\ UNCHANGED pass
           \/ running /\ lock = Nobody /\ worker' = "passing" /\ pass' = Favorites
        /\ UNCHANGED <<slug, resume, queue, pending>>
  /\ Rest /\ UNCHANGED <<turn, owed>>

\* probe_channel waits for the viewers to leave, finds the candidates and has
\* the best of them verified, if there are any.
ProbeChannel ==
  /\ worker = "probing" /\ (running => ~watching)
  /\ worker' = resume
  /\ owed' = IF running THEN owed \ {slug} ELSE owed
  /\ slug' = Nobody
  /\ Rest /\ UNCHANGED <<pass, turn, resume, queue, pending>>

WorkerGoesOn == Warm \/ NextFavorite \/ Urgent \/ WakesUp \/ Serves \/ ProbeChannel

StoreGoesOn(t) == (RequestGoesOn(t) /\ UNCHANGED worker_vars) \/ FavoritesChanged(t)

\* Bound: with the worker there, there is one request about the store (before,
\* after or between those for a channel) and the process is not killed.  The worker writes nothing: what happens on
\* disk is covered by the behaviours in which it is not started, and a kill
\* leaves nothing of it.
Alone == worker # "off" => ~saved /\ \A t \in Threads : at[t] = "idle"

FNext ==
  \/ ProcessStarts /\ UNCHANGED worker_vars
  \/ worker = "off" /\ Crash /\ UNCHANGED worker_vars
  \/ \E t \in Threads : (Alone /\ Ask(t) /\ UNCHANGED worker_vars) \/ StoreGoesOn(t)
  \/ \E s \in Slugs : RequestChannelProbe(s)
  \/ ViewersComeAndGo \/ WorkerStarts \/ WorkerStops \/ WorkerGoesOn

FInit == Init /\ WorkerInit

FSpec == FInit /\ [][FNext]_vars

\* Threads are scheduled and waits time out.
FairSpec == /\ FSpec
            /\ WF_vars(WorkerGoesOn)
            /\ WF_vars(\E t \in Threads : StoreGoesOn(t))
-------------------------------------------------------------------------------
\* A call of probe_channel has a channel, and a favourite its turn.
WorkerTypeOK ==
  /\ TypeOK
  /\ worker \in WorkerPlaces /\ running \in BOOLEAN
  /\ slug \in Slugs \cup {Nobody} /\ turn \in Slugs \cup {Nobody}
  /\ (worker = "probing" => slug # Nobody) /\ (worker = "urgent" => turn # Nobody)
  /\ resume \in WorkerPlaces
  /\ pass \subseteq Slugs /\ pending \subseteq Slugs /\ owed \subseteq Slugs
  /\ queue \in Seq(Slugs)
  /\ watching \in BOOLEAN /\ visits \in 0 .. MaxVisits

\* A channel that was added to the favourites, or asked for, is probed after
\* that, however often it is asked for and whatever the worker was doing,
\* unless the worker is stopped or somebody watches for ever.
AskedForIsProbed == <>[](owed = {} \/ ~running \/ watching)
===============================================================================
