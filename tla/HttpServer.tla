------------------------------ MODULE HttpServer ------------------------------
(***************************************************************************)
(* The HTTP server (http_server.cpp): an accept thread that hands each     *)
(* connection to a pool of workers through a bounded queue, and the way    *)
(* all of it is taken down: stop, join, and ThreadPool::shutdown from the  *)
(* destructor.                                                             *)
(*                                                                         *)
(* A worker evaluates the predicate of its wait with the pool's mutex held *)
(* and then blocks: two steps, because shutdown sets stop_ and notifies    *)
(* without that mutex. Everything else a thread does with the mutex held   *)
(* is one step. A connection stands for the task that serves it.           *)
(***************************************************************************)
EXTENDS Naturals, Sequences, FiniteSets

CONSTANTS
  Connections,   \* the connections clients open
  Workers,       \* the threads of the pool
  MaxQueue,      \* max_queue_
  NoWorker, NoConnection

ASSUME ServerAssumption ==
  /\ IsFiniteSet(Workers) /\ Workers # {} /\ NoWorker \notin Workers
  /\ NoConnection \notin Connections
  /\ MaxQueue \in Nat \ {0}

VARIABLES
  running_, listen_fd_,  \* the latter: whether the listening socket is open
  acceptor,              \* where the accept thread is
  accepted,              \* the connection it hands over
  tasks_, stop_, mutex_,
  worker,                \* where each worker is
  serving,               \* what it serves
  fate,                  \* what became of each connection
  closer                 \* where the thread that takes the server down is

pool   == <<tasks_, stop_, mutex_>>
accept == <<running_, listen_fd_, acceptor, accepted>>
vars   == <<accept, pool, worker, serving, fate, closer>>

TypeOK ==
  /\ running_ \in BOOLEAN /\ listen_fd_ \in BOOLEAN
  /\ acceptor \in {"loop", "accept", "submit", "done"}
  /\ accepted \in Connections \cup {NoConnection}
  /\ tasks_ \in Seq(Connections) /\ Len(tasks_) <= MaxQueue
  /\ stop_ \in BOOLEAN
  /\ mutex_ \in Workers \cup {NoWorker}
  /\ worker \in [Workers -> {"look", "doze", "wait", "serve", "gone"}]
  /\ serving \in [Workers -> Connections \cup {NoConnection}]
  /\ fate \in [Connections -> {"none", "accepted", "served", "refused"}]
  /\ closer \in {"serving", "close", "join", "shutdown", "notify", "reap", "down"}

Init ==
  /\ running_ = TRUE /\ listen_fd_ = TRUE
  /\ acceptor = "loop" /\ accepted = NoConnection
  /\ tasks_ = <<>> /\ stop_ = FALSE /\ mutex_ = NoWorker
  /\ worker = [w \in Workers |-> "look"]
  /\ serving = [w \in Workers |-> NoConnection]
  /\ fate = [c \in Connections |-> "none"]
  /\ closer = "serving"

Waiting == {w \in Workers : worker[w] = "wait"}

-----------------------------------------------------------------------------
(***************************************************************************)
(* accept_loop.                                                            *)
(***************************************************************************)
\* accept on a closed descriptor fails at once, and the loop looks again.
AcceptLoop ==
  /\ acceptor = "loop"
  /\ acceptor' = IF ~running_ THEN "done" ELSE IF listen_fd_ THEN "accept" ELSE "loop"
  /\ UNCHANGED <<running_, listen_fd_, accepted, pool, worker, serving, fate, closer>>

\* A thread blocked in accept keeps the socket open: closing the descriptor does
\* not wake it, and the next connection is still taken.
Accept(c) ==
  /\ acceptor = "accept" /\ acceptor' = "submit"
  /\ fate[c] = "none"
  /\ accepted' = c
  /\ fate' = [fate EXCEPT ![c] = "accepted"]
  /\ UNCHANGED <<running_, listen_fd_, pool, worker, serving, closer>>

\* accept fails, for want of descriptors for instance.
AcceptFails ==
  /\ acceptor = "accept" /\ acceptor' = "loop"
  /\ UNCHANGED <<running_, listen_fd_, accepted, pool, worker, serving, fate, closer>>

\* Mutant: nobody is told of the task.
NotifyNobody == UNCHANGED worker

\* cv_.notify_one.
NotifyOne ==
  IF Waiting = {} THEN UNCHANGED worker
  ELSE \E w \in Waiting : worker' = [worker EXCEPT ![w] = "look"]

\* Mutant: the limit is checked off by one.
RefusesLate == stop_ \/ Len(tasks_) > MaxQueue

Refuses == stop_ \/ Len(tasks_) >= MaxQueue

\* try_submit, and the 503 when it refuses.
Submit ==
  /\ acceptor = "submit" /\ acceptor' = "loop"
  /\ mutex_ = NoWorker
  /\ accepted' = NoConnection
  /\ IF Refuses
     THEN fate' = [fate EXCEPT ![accepted] = "refused"] /\ UNCHANGED <<tasks_, worker>>
     ELSE tasks_' = Append(tasks_, accepted) /\ NotifyOne /\ UNCHANGED fate
  /\ UNCHANGED <<running_, listen_fd_, stop_, mutex_, serving, closer>>

-----------------------------------------------------------------------------
(***************************************************************************)
(* worker_loop.                                                            *)
(***************************************************************************)
\* The worker takes the mutex and finds nothing to do; the mutex stays its own.
FindsNothing(w) ==
  /\ worker[w] = "look" /\ mutex_ = NoWorker
  /\ tasks_ = <<>> /\ ~stop_
  /\ worker' = [worker EXCEPT ![w] = "doze"] /\ mutex_' = w
  /\ UNCHANGED <<accept, tasks_, stop_, serving, fate, closer>>

\* It blocks, and so lets go of the mutex.
Blocks(w) ==
  /\ worker[w] = "doze"
  /\ worker' = [worker EXCEPT ![w] = "wait"] /\ mutex_' = NoWorker
  /\ UNCHANGED <<accept, tasks_, stop_, serving, fate, closer>>

TakesTask(w) ==
  /\ worker[w] = "look" /\ mutex_ = NoWorker
  /\ tasks_ # <<>>
  /\ tasks_' = Tail(tasks_)
  /\ worker' = [worker EXCEPT ![w] = "serve"]
  /\ serving' = [serving EXCEPT ![w] = Head(tasks_)]
  /\ UNCHANGED <<accept, stop_, mutex_, fate, closer>>

\* The handler returns or throws.
Serves(w) ==
  /\ worker[w] = "serve"
  /\ worker' = [worker EXCEPT ![w] = "look"]
  /\ fate' = [fate EXCEPT ![serving[w]] = "served"]
  /\ serving' = [serving EXCEPT ![w] = NoConnection]
  /\ UNCHANGED <<accept, pool, closer>>

\* Mutant: a stopped worker leaves the queue as it is.
ReturnsAtOnce(w) ==
  /\ worker[w] = "look" /\ mutex_ = NoWorker
  /\ stop_
  /\ worker' = [worker EXCEPT ![w] = "gone"]
  /\ UNCHANGED <<accept, pool, serving, fate, closer>>

\* The worker returns when it is told to stop and nothing is left to do.
Returns(w) ==
  /\ worker[w] = "look" /\ mutex_ = NoWorker
  /\ stop_ /\ tasks_ = <<>>
  /\ worker' = [worker EXCEPT ![w] = "gone"]
  /\ UNCHANGED <<accept, pool, serving, fate, closer>>

-----------------------------------------------------------------------------
(***************************************************************************)
(* Taking the server down: HttpServer::stop, join, ThreadPool::shutdown.   *)
(***************************************************************************)
StopAccepting ==
  /\ closer = "serving" /\ closer' = "close"
  /\ running_' = FALSE
  /\ UNCHANGED <<listen_fd_, acceptor, accepted, pool, worker, serving, fate>>

CloseSocket ==
  /\ closer = "close" /\ closer' = "join"
  /\ listen_fd_' = FALSE
  /\ UNCHANGED <<running_, acceptor, accepted, pool, worker, serving, fate>>

\* Mutant: the pool is shut down under the accept thread.
JoinsNobody ==
  /\ closer = "join" /\ closer' = "shutdown"
  /\ UNCHANGED <<accept, pool, worker, serving, fate>>

JoinAcceptor ==
  /\ closer = "join" /\ closer' = "shutdown"
  /\ acceptor = "done"
  /\ UNCHANGED <<accept, pool, worker, serving, fate>>

SetStop ==
  /\ closer = "shutdown" /\ closer' = "notify"
  /\ stop_' = TRUE
  /\ UNCHANGED <<accept, tasks_, mutex_, worker, serving, fate>>

NotifyAll ==
  /\ closer = "notify" /\ closer' = "reap"
  /\ worker' = [w \in Workers |-> IF w \in Waiting THEN "look" ELSE worker[w]]
  /\ UNCHANGED <<accept, pool, serving, fate>>

\* All workers joined; what is left in the queue is thrown away.
JoinWorkers ==
  /\ closer = "reap" /\ closer' = "down"
  /\ \A w \in Workers : worker[w] = "gone"
  /\ tasks_' = <<>>
  /\ UNCHANGED <<accept, stop_, mutex_, worker, serving, fate>>

-----------------------------------------------------------------------------
AcceptThread == AcceptLoop \/ Submit

Worker(w) == FindsNothing(w) \/ Blocks(w) \/ TakesTask(w) \/ Serves(w) \/ Returns(w)

TakeDown == CloseSocket \/ JoinAcceptor \/ SetStop \/ NotifyAll \/ JoinWorkers

Next ==
  \/ AcceptThread \/ (\E c \in Connections : Accept(c)) \/ AcceptFails
  \/ \E w \in Workers : Worker(w)
  \/ StopAccepting \/ TakeDown

Spec == Init /\ [][Next]_vars

\* Threads run, handlers end, and the thread that has begun to take the server
\* down goes on. Nobody need connect, and nobody need stop the server.
FairSpec ==
  /\ Spec
  /\ WF_vars(AcceptThread) /\ WF_vars(TakeDown)
  /\ \A w \in Workers : WF_vars(Worker(w))

-----------------------------------------------------------------------------
\* The queue is never looked away from: while a worker sleeps, every queued
\* connection has a woken worker of its own on the way, although workers that
\* have just served may come by first and take what another was woken for.
NoTaskIsOverlooked ==
  Waiting # {} => Len(tasks_) <= Cardinality({w \in Workers : worker[w] = "look"})

\* ThreadPool::shutdown throws away no connection: the workers serve the whole
\* queue before they return, and the accept thread, which is joined first, adds
\* nothing behind their backs.
ShutdownDropsNothing ==
  \A c \in Connections :
    closer = "down" => fate[c] \in {"none", "served", "refused"}

\* An accepted connection is answered, by a worker or with a 503, whenever the
\* server is stopped.
AcceptedIsAnswered ==
  \A c \in Connections : fate[c] = "accepted" ~> fate[c] \in {"served", "refused"}

\* "Detiene el pool: vacia la cola y espera a que todos los workers terminen"
\* (http_server.hpp): shutdown comes back.
ShutdownReturns == closer = "shutdown" ~> closer = "down"
=============================================================================
