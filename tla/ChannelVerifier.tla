---------------------------- MODULE ChannelVerifier ----------------------------
(***************************************************************************)
(* The verifier of channels (channel_verifier.cpp): callers ask, and wait  *)
(* or not, whether a content can be played; a pool of workers asks the     *)
(* engine, at most as many at a time as a semaphore lets through, and      *)
(* writes the answer into a table that everybody reads.                    *)
(*                                                                         *)
(* A call is one invocation of verify_sync (forced, its caller waits) or   *)
(* of enqueue (background, its caller goes on), and also the task it puts  *)
(* on the queue. One action is one critical section, one answer of the     *)
(* engine, or one read of what the rest of the proxy does.                 *)
(***************************************************************************)
EXTENDS Naturals, Sequences, FiniteSets

CONSTANTS
  Calls,           \* the calls that will be made
  Contents,        \* the content_ids
  Workers,         \* workers_: max_workers_ + 1 of them
  Slots,           \* kDefaultMaxWorkers, the capacity of semaphore_
  Engines,         \* the hosts set_engine may select
  Modern, Loopback,\* the two hosts that stand in for each other
  NoCall, NoEngine, NoContent

ASSUME VerifierAssumption ==
  /\ IsFiniteSet(Workers) /\ Workers # {}
  /\ Slots \in Nat \ {0}
  /\ Modern \in Engines /\ Loopback \in Engines
  /\ NoCall \notin Calls /\ NoEngine \notin Engines /\ NoContent \notin Contents

VARIABLES
  state_,      \* per content: nothing yet, PENDING, or KNOWN (a result or an error)
  aged,        \* the PENDING contents marked 12 s ago or more
  task_queue_, stop_,
  semaphore_,  \* slots left
  ace_host_,
  call,        \* where each call is, what it asks for and whether it is forced
  called,      \* the tasks whose callback has run
  worker,      \* where each worker is, its task, and its engine session
  streaming    \* client_count() > 0: what streaming_predicate_ answers

table == <<state_, aged>>
queue == <<task_queue_, stop_>>
engine == <<semaphore_, ace_host_>>
vars  == <<table, queue, engine, call, called, worker, streaming>>

CallSteps   == {"unmade", "decide", "await", "write", "push", "notify", "wait", "done"}
WorkerSteps == {"look", "asleep", "paused", "taken", "return", "bypass", "acquire",
                "connect", "fallback", "opened", "observe", "release", "publish", "callback", "gone"}

TypeOK ==
  /\ state_ \in [Contents -> {"UNKNOWN", "PENDING", "KNOWN"}]
  /\ aged \subseteq Contents
  /\ task_queue_ \in Seq(Calls)
  /\ stop_ \in BOOLEAN
  /\ semaphore_ \in 0 .. Slots
  /\ ace_host_ \in Engines
  /\ call \in [Calls -> [pc : CallSteps, content : Contents \cup {NoContent}, force : BOOLEAN]]
  /\ called \subseteq Calls
  /\ worker \in [Workers -> [pc : WorkerSteps, task : Calls \cup {NoCall},
                             session : Engines \cup {NoEngine}, command : Engines \cup {NoEngine}]]
  /\ streaming \in BOOLEAN

Init ==
  /\ state_ = [c \in Contents |-> "UNKNOWN"] /\ aged = {}
  /\ task_queue_ = <<>> /\ stop_ = FALSE
  /\ semaphore_ = Slots
  /\ ace_host_ \in Engines
  /\ call = [k \in Calls |-> [pc |-> "unmade", content |-> NoContent, force |-> FALSE]]
  /\ called = {}
  /\ worker = [w \in Workers |-> [pc |-> "look", task |-> NoCall,
                                  session |-> NoEngine, command |-> NoEngine]]
  /\ streaming = FALSE

-----------------------------------------------------------------------------
(***************************************************************************)
(* The table of results.                                                   *)
(***************************************************************************)
Know(c) == state_' = [state_ EXCEPT ![c] = "KNOWN"] /\ aged' = aged \ {c}

MarkPending(c) == state_' = [state_ EXCEPT ![c] = "PENDING"] /\ aged' = aged \ {c}

\* A verification of c is under way, and was asked for less than 12 s ago.
UnderWay(c) == state_[c] = "PENDING" /\ c \notin aged

\* 12 s pass.
Age(c) ==
  /\ state_[c] = "PENDING" /\ aged' = aged \cup {c}
  /\ UNCHANGED <<state_, queue, engine, call, called, worker, streaming>>

\* update_state: a handler reports on a channel that is being watched.
UpdateState(c) ==
  /\ ~stop_ /\ streaming /\ Know(c)
  /\ UNCHANGED <<queue, engine, call, called, worker, streaming>>

\* clear_state, and clear_all_state.
ClearState(S) ==
  /\ ~stop_
  /\ state_' = [c \in Contents |-> IF c \in S THEN "UNKNOWN" ELSE state_[c]]
  /\ aged' = aged \ S
  /\ UNCHANGED <<queue, engine, call, called, worker, streaming>>

-----------------------------------------------------------------------------
(***************************************************************************)
(* verify_sync (forced) and enqueue (background).                          *)
(***************************************************************************)
Goes(k, pc) == call' = [call EXCEPT ![k].pc = pc]

Starts(k, c, force, pc) ==
  /\ ~stop_ /\ call[k].pc = "unmade"
  /\ call' = [call EXCEPT ![k] = [pc |-> pc, content |-> c, force |-> force]]

\* active_checker_ knows of a player of c: its report is the answer.
AskActive(k, c, force) ==
  /\ streaming
  /\ Starts(k, c, force, "done") /\ Know(c)
  /\ UNCHANGED <<queue, engine, called, worker, streaming>>

\* verify_sync finds a result that is recent enough.
AskCached(k, c) ==
  /\ state_[c] = "KNOWN"
  /\ Starts(k, c, TRUE, "done")
  /\ UNCHANGED <<table, queue, engine, called, worker, streaming>>

Ask(k, c, force) ==
  /\ Starts(k, c, force, "decide")
  /\ UNCHANGED <<table, queue, engine, called, worker, streaming>>

\* A verification is under way: a caller who waits waits for it, one who does
\* not is done.
Join(k) ==
  /\ call[k].pc = "decide" /\ UnderWay(call[k].content)
  /\ Goes(k, IF call[k].force THEN "await" ELSE "done")
  /\ UNCHANGED <<table, queue, engine, called, worker, streaming>>

Mark(k) ==
  /\ call[k].pc = "decide" /\ ~UnderWay(call[k].content)
  /\ MarkPending(call[k].content) /\ Goes(k, "push")
  /\ UNCHANGED <<queue, engine, called, worker, streaming>>

\* sync_cv_ is notified without sync_mutex_, so that a waiter may miss it and
\* see the result only when its time is up; either way it returns.
AwaitEnds(k) ==
  /\ call[k].pc = "await" /\ state_[call[k].content] = "KNOWN"
  /\ Goes(k, "done")
  /\ UNCHANGED <<table, queue, engine, called, worker, streaming>>

\* Mutant: wait instead of wait_until.
AwaitForEver(k) ==
  /\ call[k].pc = "await" /\ FALSE
  /\ UNCHANGED vars

AwaitTimesOut(k) ==
  /\ call[k].pc = "await" /\ state_[call[k].content] # "KNOWN"
  /\ Goes(k, "write")
  /\ UNCHANGED <<table, queue, engine, called, worker, streaming>>

\* The lock that was given up to wait is not taken again.
MarkUnlocked(k) ==
  /\ call[k].pc = "write"
  /\ MarkPending(call[k].content) /\ Goes(k, "push")
  /\ UNCHANGED <<queue, engine, called, worker, streaming>>

Push(k) ==
  /\ call[k].pc = "push" /\ Goes(k, "notify")
  /\ task_queue_' = Append(task_queue_, k)
  /\ UNCHANGED <<table, stop_, engine, called, worker, streaming>>

\* queue_cv_.notify_one: a worker that pauses waits on the same condition, and
\* may take the notification without heeding it.
NotifyOne ==
  \/ \E w \in Workers : worker[w].pc = "asleep" /\ worker' = [worker EXCEPT ![w].pc = "look"]
  \/ /\ (\A w \in Workers : worker[w].pc # "asleep") \/ (\E w \in Workers : worker[w].pc = "paused")
     /\ UNCHANGED worker

Notify(k) ==
  /\ call[k].pc = "notify" /\ NotifyOne
  /\ Goes(k, IF call[k].force THEN "wait" ELSE "done")
  /\ UNCHANGED <<table, queue, engine, called, streaming>>

Answered(k) ==
  /\ call[k].pc = "wait" /\ k \in called
  /\ Goes(k, "done")
  /\ UNCHANGED <<table, queue, engine, called, worker, streaming>>

\* The caller gives up, and leaves an error in the table.
TimesOut(k) ==
  /\ call[k].pc = "wait" /\ k \notin called
  /\ Know(call[k].content) /\ Goes(k, "done")
  /\ UNCHANGED <<queue, engine, called, worker, streaming>>

-----------------------------------------------------------------------------
(***************************************************************************)
(* worker_loop: taking a task.                                             *)
(***************************************************************************)
Moves(w, pc) == worker' = [worker EXCEPT ![w].pc = pc]

Content(w) == call[worker[w].task].content

\* The front of the queue is a background task, and somebody is watching.
HeldBack == streaming /\ ~call[Head(task_queue_)].force

Sleep(w) ==
  /\ worker[w].pc = "look" /\ ~stop_ /\ task_queue_ = <<>>
  /\ Moves(w, "asleep")
  /\ UNCHANGED <<table, queue, engine, call, called, streaming>>

\* wait_for 500 ms; what ends it sooner makes no difference.
Pause(w) ==
  /\ worker[w].pc = "look" /\ ~stop_ /\ task_queue_ # <<>> /\ HeldBack
  /\ Moves(w, "paused")
  /\ UNCHANGED <<table, queue, engine, call, called, streaming>>

PauseEnds(w) ==
  /\ worker[w].pc = "paused" /\ Moves(w, "look")
  /\ UNCHANGED <<table, queue, engine, call, called, streaming>>

\* Mutant: a worker leaves without looking at the queue.
LeaveAtOnce(w) ==
  /\ worker[w].pc = "look" /\ stop_
  /\ Moves(w, "gone")
  /\ UNCHANGED <<table, queue, engine, call, called, streaming>>

Leave(w) ==
  /\ worker[w].pc = "look" /\ stop_ /\ task_queue_ = <<>>
  /\ Moves(w, "gone")
  /\ UNCHANGED <<table, queue, engine, call, called, streaming>>

Take(w) ==
  /\ worker[w].pc = "look" /\ task_queue_ # <<>> /\ (stop_ \/ ~HeldBack)
  /\ worker' = [worker EXCEPT ![w].pc = "taken", ![w].task = Head(task_queue_)]
  /\ task_queue_' = Tail(task_queue_)
  /\ UNCHANGED <<table, stop_, engine, call, called, streaming>>

\* The worker looks once more whether somebody is watching.
LookAgain(w) ==
  /\ worker[w].pc = "taken"
  /\ Moves(w, IF streaming /\ ~call[worker[w].task].force THEN "return" ELSE "bypass")
  /\ UNCHANGED <<table, queue, engine, call, called, streaming>>

\* Mutant: the worker waits for a notification, and nobody sends one.
PutBackSleeps(w) ==
  /\ worker[w].pc = "return"
  /\ worker' = [worker EXCEPT ![w].pc = "asleep", ![w].task = NoCall]
  /\ task_queue_' = Append(task_queue_, worker[w].task)
  /\ UNCHANGED <<table, stop_, engine, call, called, streaming>>

\* Mutant: the task is copied to the queue, and carried out all the same.
PutBackCopies(w) ==
  /\ worker[w].pc = "return"
  /\ Moves(w, "bypass")
  /\ task_queue_' = Append(task_queue_, worker[w].task)
  /\ UNCHANGED <<table, stop_, engine, call, called, streaming>>

PutBack(w) ==
  /\ worker[w].pc = "return"
  /\ worker' = [worker EXCEPT ![w].pc = "paused", ![w].task = NoCall]
  /\ task_queue_' = Append(task_queue_, worker[w].task)
  /\ UNCHANGED <<table, stop_, engine, call, called, streaming>>

-----------------------------------------------------------------------------
(***************************************************************************)
(* worker_loop: carrying it out.                                           *)
(***************************************************************************)
\* Mutant: the report is passed to the callback, and not written into the table.
BypassSilently(w) ==
  /\ worker[w].pc = "bypass" /\ streaming
  /\ Moves(w, "callback")
  /\ UNCHANGED <<table, queue, engine, call, called, streaming>>

\* Somebody watches this content: no need of the engine.
Bypass(w) ==
  /\ worker[w].pc = "bypass" /\ streaming
  /\ Moves(w, "publish")
  /\ UNCHANGED <<table, queue, engine, call, called, streaming>>

NeedsEngine(w) ==
  /\ worker[w].pc = "bypass" /\ Moves(w, "acquire")
  /\ UNCHANGED <<table, queue, engine, call, called, streaming>>

Acquire(w) ==
  /\ worker[w].pc = "acquire" /\ semaphore_ > 0
  /\ semaphore_' = semaphore_ - 1
  /\ worker' = [worker EXCEPT ![w].pc = "connect", ![w].session = ace_host_]
  /\ UNCHANGED <<table, queue, ace_host_, call, called, streaming>>

\* Mutant: a worker without a slot gives one back.
AcquireTimesOutReleases(w) ==
  /\ worker[w].pc = "acquire" /\ semaphore_ = 0
  /\ Moves(w, "release")
  /\ UNCHANGED <<table, queue, engine, call, called, streaming>>

\* Eight seconds without a slot: the result is an error.
AcquireTimesOut(w) ==
  /\ worker[w].pc = "acquire" /\ semaphore_ = 0
  /\ Moves(w, "publish")
  /\ UNCHANGED <<table, queue, engine, call, called, streaming>>

\* phase_handshake: the engine asked opens a session, and answers 200.
Opens(w) ==
  /\ worker[w].pc = "connect" /\ Moves(w, "opened")
  /\ UNCHANGED <<table, queue, engine, call, called, streaming>>

StandIn(e) == IF e = Modern THEN Loopback ELSE Modern

\* It does not answer, and another host may stand in for the one selected by now.
TriesFallback(w) ==
  /\ worker[w].pc = "connect"
  /\ ace_host_ \in {Modern, Loopback} /\ StandIn(ace_host_) # ace_host_
  /\ worker' = [worker EXCEPT ![w].pc = "fallback", ![w].session = StandIn(ace_host_)]
  /\ UNCHANGED <<table, queue, engine, call, called, streaming>>

\* The one that stands in opens a session, and becomes everybody's engine.
FallsBack(w) ==
  /\ worker[w].pc = "fallback"
  /\ ace_host_' = worker[w].session
  /\ Moves(w, "opened")
  /\ UNCHANGED <<table, queue, semaphore_, call, called, streaming>>

\* Nobody answers, or the answer is an error.
HandshakeFails(w) ==
  /\ worker[w].pc \in {"connect", "fallback"}
  /\ worker' = [worker EXCEPT ![w].pc = "release", ![w].session = NoEngine]
  /\ UNCHANGED <<table, queue, engine, call, called, streaming>>

\* Mutant: the exception goes past the release of the slot.
HandshakeThrowsPastRelease(w) ==
  /\ worker[w].pc = "opened"
  /\ worker' = [worker EXCEPT ![w].pc = "publish", ![w].session = NoEngine]
  /\ UNCHANGED <<table, queue, engine, call, called, streaming>>

\* The answer lacks a usable stat_url or command_url.
HandshakeThrows(w) ==
  /\ worker[w].pc = "opened" /\ Moves(w, "release")
  /\ UNCHANGED <<table, queue, engine, call, called, streaming>>

\* command_url is rewritten to the engine of the moment.
HandshakeReturns(w) ==
  /\ worker[w].pc = "opened"
  /\ worker' = [worker EXCEPT ![w].pc = "observe", ![w].command = ace_host_]
  /\ UNCHANGED <<table, queue, engine, call, called, streaming>>

\* phase_observe, then stop_session to the host of command_url.
StopSession(w) ==
  /\ worker[w].pc = "observe" /\ Moves(w, "release")
  /\ UNCHANGED <<table, queue, engine, call, called, streaming>>

Release(w) ==
  /\ worker[w].pc = "release"
  /\ semaphore_' = semaphore_ + 1
  /\ worker' = [worker EXCEPT ![w].pc = "publish", ![w].session = NoEngine, ![w].command = NoEngine]
  /\ UNCHANGED <<table, queue, ace_host_, call, called, streaming>>

Publish(w) ==
  /\ worker[w].pc = "publish"
  /\ Know(Content(w)) /\ Moves(w, "callback")
  /\ UNCHANGED <<queue, engine, call, called, streaming>>

Callback(w) ==
  /\ worker[w].pc = "callback"
  /\ called' = called \cup {worker[w].task}
  /\ worker' = [worker EXCEPT ![w].pc = "look", ![w].task = NoCall]
  /\ UNCHANGED <<table, queue, engine, call, streaming>>

-----------------------------------------------------------------------------
(***************************************************************************)
(* The rest of the proxy, and the destructor.                              *)
(***************************************************************************)
SetEngine(e) ==
  /\ ~stop_ /\ ace_host_' = e
  /\ UNCHANGED <<table, queue, semaphore_, call, called, worker, streaming>>

Watch ==
  /\ ~streaming /\ ~stop_ /\ streaming' = TRUE
  /\ UNCHANGED <<table, queue, engine, call, called, worker>>

Unwatch ==
  /\ streaming /\ streaming' = FALSE
  /\ UNCHANGED <<table, queue, engine, call, called, worker>>

\* ~ChannelVerifier, which nobody may call into: stop_ is set with queue_mutex_
\* held, so no worker misses the notification.
Stop ==
  /\ ~stop_ /\ \A k \in Calls : call[k].pc \in {"unmade", "done"}
  /\ stop_' = TRUE
  /\ worker' = [w \in Workers |->
       IF worker[w].pc = "asleep" THEN [worker[w] EXCEPT !.pc = "look"] ELSE worker[w]]
  /\ UNCHANGED <<table, task_queue_, engine, call, called, streaming>>

-----------------------------------------------------------------------------
Caller(k) ==
  \/ Join(k) \/ Mark(k) \/ AwaitEnds(k) \/ AwaitTimesOut(k) \/ MarkUnlocked(k)
  \/ Push(k) \/ Notify(k) \/ Answered(k) \/ TimesOut(k)

Worker(w) ==
  \/ Sleep(w) \/ Pause(w) \/ PauseEnds(w) \/ Leave(w) \/ Take(w) \/ LookAgain(w) \/ PutBack(w)
  \/ Bypass(w) \/ NeedsEngine(w) \/ Acquire(w) \/ AcquireTimesOut(w)
  \/ HandshakeFails(w) \/ Opens(w) \/ TriesFallback(w) \/ FallsBack(w) \/ HandshakeThrows(w) \/ HandshakeReturns(w)
  \/ StopSession(w) \/ Release(w) \/ Publish(w) \/ Callback(w)

Environment ==
  \/ \E c \in Contents : Age(c) \/ UpdateState(c)
  \/ \E S \in {{c} : c \in Contents} \cup {Contents} : ClearState(S)
  \/ \E e \in Engines : SetEngine(e)
  \/ Watch \/ Unwatch \/ Stop

Next ==
  \/ \E k \in Calls, c \in Contents :
       AskCached(k, c) \/ \E force \in BOOLEAN : AskActive(k, c, force) \/ Ask(k, c, force)
  \/ \E k \in Calls : Caller(k)
  \/ \E w \in Workers : Worker(w)
  \/ Environment

Fairness ==
  /\ \A k \in Calls : WF_vars(Caller(k))
  /\ \A w \in Workers : WF_vars(Worker(w))

Spec == Init /\ [][Next]_vars
FairSpec == Spec /\ Fairness

-----------------------------------------------------------------------------
Held(k) == \E w \in Workers : worker[w].task = k
Queued(k) == \E i \in DOMAIN task_queue_ : task_queue_[i] = k

\* A content that is PENDING is being seen to: a call is about to push a task for
\* it, or its task is on the queue or with a worker that has not yet written the
\* result. Otherwise it would be PENDING for ever, and enqueue ignore it for 12 s.
PendingIsWorkedOn ==
  \A c \in Contents : state_[c] = "PENDING" =>
    \/ \E k \in Calls : call[k].content = c /\ (call[k].pc = "push" \/ Queued(k))
    \/ \E w \in Workers : worker[w].task # NoCall /\ Content(w) = c /\ worker[w].pc # "callback"

\* Tasks wait only while some worker is awake, or about to be woken: sharing one
\* condition variable between idle and pausing workers loses no task.
QueueIsAttended ==
  task_queue_ # <<>> =>
    \/ \E w \in Workers : worker[w].pc \notin {"asleep", "gone"}
    \/ \E k \in Calls : call[k].pc = "notify"

\* A task that was pushed is in one place: on the queue, with one worker, or done
\* with. Its callback runs once, and putting it back loses and doubles nothing.
TaskInOnePlace ==
  /\ \A i, j \in DOMAIN task_queue_ : task_queue_[i] = task_queue_[j] => i = j
  /\ \A v, w \in Workers : worker[v].task = worker[w].task => v = w \/ worker[v].task = NoCall
  /\ \A k \in Calls : ~(Queued(k) /\ Held(k)) /\ (k \in called => ~Queued(k) /\ ~Held(k))
  /\ \A k \in Calls : call[k].pc \in {"notify", "wait"} => Queued(k) \/ Held(k) \/ k \in called

InPipeline(w) == worker[w].pc \in {"connect", "fallback", "opened", "observe", "release"}

\* No more than Slots workers talk to the engine, and every slot is given back,
\* by whatever way the pipeline is left.
SlotsAreReturned ==
  semaphore_ + Cardinality({w \in Workers : InPipeline(w)}) = Slots

\* The destructor's join ends with every task done: background tasks that were held
\* back too.
DestroyedIsDrained ==
  (\A w \in Workers : worker[w].pc = "gone") => \A k \in Calls : ~Queued(k) /\ ~Held(k)

\* Once nobody watches any more, every task that was pushed is carried out and the
\* destructor returns.
TasksAreDone ==
  <>[]~streaming =>
    /\ \A k \in Calls : Queued(k) ~> k \in called
    /\ stop_ ~> \A w \in Workers : worker[w].pc = "gone"

\* verify_sync always returns, even when nothing is verified while somebody watches.
SyncCallsReturn == \A k \in Calls : call[k].pc = "decide" ~> call[k].pc = "done"
=============================================================================
