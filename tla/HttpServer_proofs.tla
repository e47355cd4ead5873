-------------------------- MODULE HttpServer_proofs --------------------------
(***************************************************************************)
(* Theorems of HttpServer, for any number of workers and connections and   *)
(* any length of the queue: no sleeping worker overlooks a task, and       *)
(* taking the server down drops no connection and answers none twice.      *)
(***************************************************************************)
EXTENDS HttpServer, FiniteSetTheorems, TLAPS

Looking == {w \in Workers : worker[w] = "look"}

\* Whoever is about to block has seen the queue empty and holds the mutex.
Dozing == \A w \in Workers : worker[w] = "doze" => tasks_ = <<>> /\ mutex_ = w

\* An accepted connection is somewhere: at the accept thread, queued or served.
Tracked ==
  \A c \in Connections : fate[c] = "accepted" =>
    \/ accepted = c
    \/ \E i \in 1..Len(tasks_) : tasks_[i] = c
    \/ \E w \in Workers : worker[w] = "serve" /\ serving[w] = c

HandOver ==
  /\ acceptor = "submit" <=> accepted # NoConnection
  /\ \A w \in Workers : worker[w] = "serve" => serving[w] \in Connections

\* The order in which the server is taken down.
Order ==
  /\ closer \in {"shutdown", "notify", "reap", "down"} => acceptor = "done"
  /\ stop_ => closer \in {"notify", "reap", "down"}
  /\ closer = "down" => \A w \in Workers : worker[w] = "gone"
  /\ \A w \in Workers : worker[w] = "gone" => stop_ /\ tasks_ = <<>>

IInv == TypeOK /\ Dozing /\ HandOver /\ Order /\ Tracked /\ NoTaskIsOverlooked

LEMMA LookingFinite ==
  ASSUME NEW S \in SUBSET Workers
  PROVE  IsFiniteSet(S) /\ Cardinality(S) \in Nat
<1>1. IsFiniteSet(S)
  BY ServerAssumption, FS_Subset
<1> QED BY <1>1, FS_CardinalityType

\* One worker more, or one less, on its way to the queue.
LEMMA OneMore ==
  ASSUME NEW S \in SUBSET Workers, NEW w \in Workers, w \notin S
  PROVE  Cardinality(S \cup {w}) = Cardinality(S) + 1
<1> QED BY LookingFinite, FS_AddElement

LEMMA OneLess ==
  ASSUME NEW S \in SUBSET Workers, NEW w \in S
  PROVE  Cardinality(S \ {w}) = Cardinality(S) - 1
<1>1. IsFiniteSet(S)
  BY LookingFinite
<1> QED BY <1>1, FS_RemoveElement

-----------------------------------------------------------------------------
LEMMA InitHolds == Init => IInv
<1> SUFFICES ASSUME Init PROVE IInv
  OBVIOUS
<1>1. tasks_ \in Seq(Connections) /\ Len(tasks_) <= MaxQueue
  BY ServerAssumption DEF Init
<1>2. TypeOK
  <2>1. /\ worker \in [Workers -> {"look", "doze", "wait", "serve", "gone"}]
        /\ serving \in [Workers -> Connections \cup {NoConnection}]
        /\ fate \in [Connections -> {"none", "accepted", "served", "refused"}]
    BY DEF Init
  <2> QED BY <1>1, <2>1 DEF Init, TypeOK
<1>3. Dozing /\ HandOver /\ Order /\ Tracked
  BY DEF Init, Dozing, HandOver, Order, Tracked
<1>4. NoTaskIsOverlooked
  BY DEF Init, NoTaskIsOverlooked, Waiting
<1> QED BY <1>2, <1>3, <1>4 DEF IInv

\* A step of the accept thread or of the closing thread that leaves the pool and
\* the connections alone.
LEMMA QuietKeeps ==
  ASSUME IInv, UNCHANGED <<tasks_, mutex_, worker, serving, fate, accepted>>,
         stop_' \in BOOLEAN, stop_ => stop_', TypeOK', Order',
         acceptor' = "submit" <=> acceptor = "submit"
  PROVE  IInv'
<1> USE DEF IInv
<1>1. Dozing' /\ HandOver' /\ Tracked'
  BY DEF Dozing, HandOver, Tracked
<1>2. NoTaskIsOverlooked'
  BY DEF NoTaskIsOverlooked, Waiting
<1> QED BY <1>1, <1>2

LEMMA SubmitKeeps ==
  ASSUME IInv, Submit
  PROVE  IInv'
<1> USE DEF IInv, TypeOK
<1>1. accepted \in Connections /\ acceptor' = "loop" /\ accepted' = NoConnection
      /\ mutex_ = NoWorker /\ closer' = closer /\ stop_' = stop_ /\ mutex_' = mutex_
      /\ serving' = serving /\ running_' = running_ /\ listen_fd_' = listen_fd_
  BY DEF Submit, HandOver
<1>2. closer \notin {"shutdown", "notify", "reap", "down"} /\ ~stop_
      /\ \A w \in Workers : worker[w] # "gone" /\ worker[w] # "doze"
  BY ServerAssumption DEF Submit, Order, Dozing
<1>3. CASE fate' = [fate EXCEPT ![accepted] = "refused"] /\ UNCHANGED <<tasks_, worker>>
  <2>1. TypeOK'
    BY <1>1, <1>3
  <2>2. Dozing' /\ HandOver' /\ Order' /\ NoTaskIsOverlooked'
    BY <1>1, <1>2, <1>3, ServerAssumption
    DEF Dozing, HandOver, Order, NoTaskIsOverlooked, Waiting
  <2>3. Tracked'
    BY <1>1, <1>3 DEF Tracked
  <2> QED BY <2>1, <2>2, <2>3
<1>4. CASE ~Refuses /\ tasks_' = Append(tasks_, accepted) /\ NotifyOne /\ UNCHANGED fate
  <2>1. tasks_' \in Seq(Connections) /\ Len(tasks_') = Len(tasks_) + 1
        /\ (\A i \in 1..Len(tasks_) : tasks_'[i] = tasks_[i])
        /\ tasks_'[Len(tasks_) + 1] = accepted
    BY <1>1, <1>4
  <2>2. Len(tasks_) \in Nat /\ Len(tasks_) + 1 <= MaxQueue
    BY <1>4, ServerAssumption DEF Refuses
  <2>3. \/ Waiting = {} /\ worker' = worker
        \/ \E w \in Waiting : worker' = [worker EXCEPT ![w] = "look"]
    BY <1>4 DEF NotifyOne
  <2>4. TypeOK'
    BY <1>1, <1>4, <2>1, <2>2, <2>3 DEF Waiting
  <2>5. Dozing' /\ HandOver' /\ Order'
    BY <1>1, <1>2, <2>3, ServerAssumption DEF Dozing, HandOver, Order, Waiting
  <2>6. Tracked'
    <3> SUFFICES ASSUME NEW c \in Connections, fate[c] = "accepted"
                 PROVE  \/ \E i \in 1..Len(tasks_') : tasks_'[i] = c
                        \/ \E w \in Workers : worker'[w] = "serve" /\ serving'[w] = c
      BY <1>4 DEF Tracked
    <3>1. CASE accepted = c
      BY <2>1, <2>2, <3>1
    <3>2. CASE \E i \in 1..Len(tasks_) : tasks_[i] = c
      BY <2>1, <2>2, <3>2
    <3>3. CASE \E w \in Workers : worker[w] = "serve" /\ serving[w] = c
      BY <1>1, <2>3, <3>3 DEF Waiting
    <3> QED BY <3>1, <3>2, <3>3 DEF Tracked
  <2>7. NoTaskIsOverlooked'
    <3>1. CASE Waiting = {} /\ worker' = worker
      BY <3>1 DEF NoTaskIsOverlooked, Waiting
    <3>2. ASSUME NEW w \in Waiting, worker' = [worker EXCEPT ![w] = "look"]
          PROVE  NoTaskIsOverlooked'
      <4>1. w \in Workers /\ w \notin Looking /\ Looking' = Looking \cup {w}
        BY <3>2 DEF Waiting, Looking
      <4>2. Cardinality(Looking') = Cardinality(Looking) + 1
            /\ Cardinality(Looking) \in Nat
        BY <4>1, OneMore, LookingFinite DEF Looking
      <4>3. Len(tasks_) <= Cardinality(Looking)
        BY <3>2 DEF NoTaskIsOverlooked, Looking
      <4> QED BY <2>1, <2>2, <4>2, <4>3 DEF NoTaskIsOverlooked, Looking
    <3> QED BY <2>3, <3>1, <3>2
  <2> QED BY <2>4, <2>5, <2>6, <2>7
<1> QED BY <1>3, <1>4 DEF Submit
\* What a worker does to the pool and its tasks, one lemma per step.
LEMMA FindsNothingKeeps ==
  ASSUME IInv, NEW w \in Workers, FindsNothing(w)
  PROVE  IInv'
<1> USE DEF IInv, TypeOK, accept
<1>0. TypeOK' /\ HandOver' /\ Order'
  BY DEF FindsNothing, HandOver, Order
<1>1. Dozing' /\ Tracked'
  BY ServerAssumption DEF FindsNothing, Dozing, Tracked
<1>2. Len(tasks_') = 0
  BY DEF FindsNothing
<1>3. Cardinality(Looking') \in Nat
  BY LookingFinite DEF Looking
<1> QED BY <1>0, <1>1, <1>2, <1>3 DEF NoTaskIsOverlooked, Looking

LEMMA BlocksKeeps ==
  ASSUME IInv, NEW w \in Workers, Blocks(w)
  PROVE  IInv'
<1> USE DEF IInv, TypeOK, accept
<1>1. mutex_ = w /\ tasks_ = <<>> /\ \A v \in Workers \ {w} : worker[v] # "doze"
  BY DEF Blocks, Dozing
<1>2. TypeOK' /\ Dozing' /\ HandOver' /\ Order' /\ Tracked'
  BY <1>1 DEF Blocks, Dozing, HandOver, Order, Tracked
<1>3. Len(tasks_') = 0
  BY <1>1 DEF Blocks
<1>4. Cardinality(Looking') \in Nat
  BY LookingFinite DEF Looking
<1> QED BY <1>2, <1>3, <1>4 DEF NoTaskIsOverlooked, Looking

LEMMA TakesTaskKeeps ==
  ASSUME IInv, NEW w \in Workers, TakesTask(w)
  PROVE  IInv'
<1> USE DEF IInv, TypeOK, accept
<1>1. /\ worker[w] = "look" /\ mutex_ = NoWorker /\ tasks_ # <<>>
      /\ worker' = [worker EXCEPT ![w] = "serve"]
      /\ serving' = [serving EXCEPT ![w] = tasks_[1]]
      /\ \A v \in Workers : worker[v] # "doze" /\ worker[v] # "gone"
  BY ServerAssumption DEF TakesTask, Dozing, Order
<1>2. /\ Len(tasks_) \in Nat \ {0} /\ tasks_[1] \in Connections
      /\ tasks_' \in Seq(Connections) /\ Len(tasks_') = Len(tasks_) - 1
      /\ \A i \in 1..(Len(tasks_) - 1) : tasks_'[i] = tasks_[i + 1]
  BY <1>1 DEF TakesTask
<1>3. TypeOK'
  BY <1>1, <1>2, ServerAssumption DEF TakesTask
<1>4. Dozing' /\ HandOver' /\ Order'
  BY <1>1, <1>2 DEF TakesTask, Dozing, HandOver, Order
<1>5. Tracked'
  <2> SUFFICES ASSUME NEW c \in Connections, fate[c] = "accepted"
               PROVE  \/ accepted = c
                      \/ \E i \in 1..Len(tasks_') : tasks_'[i] = c
                      \/ \E v \in Workers : worker'[v] = "serve" /\ serving'[v] = c
    BY DEF TakesTask, Tracked
  <2>1. CASE accepted = c
    BY <2>1
  <2>2. ASSUME NEW i \in 1..Len(tasks_), tasks_[i] = c
        PROVE  \/ \E j \in 1..Len(tasks_') : tasks_'[j] = c
               \/ \E v \in Workers : worker'[v] = "serve" /\ serving'[v] = c
    <3>1. CASE i = 1
      BY <1>1, <2>2, <3>1
    <3>2. CASE i # 1
      <4>1. i - 1 \in 1..(Len(tasks_) - 1) /\ (i - 1) + 1 = i
        BY <1>2, <3>2
      <4>2. tasks_'[i - 1] = c
        BY <1>2, <2>2, <4>1
      <4> QED BY <1>2, <4>1, <4>2
    <3> QED BY <3>1, <3>2
  <2>3. ASSUME NEW v \in Workers, worker[v] = "serve", serving[v] = c
        PROVE  worker'[v] = "serve" /\ serving'[v] = c
    BY <1>1, <2>3
  <2> QED BY <2>1, <2>2, <2>3 DEF Tracked
<1>6. NoTaskIsOverlooked'
  <2>1. w \in Looking /\ Looking' = Looking \ {w} /\ Waiting' = Waiting
    BY <1>1 DEF Looking, Waiting
  <2>2. Cardinality(Looking') = Cardinality(Looking) - 1
        /\ Cardinality(Looking) \in Nat
    BY <2>1, OneLess, LookingFinite DEF Looking
  <2> QED BY <1>2, <2>1, <2>2 DEF NoTaskIsOverlooked, Looking
<1> QED BY <1>3, <1>4, <1>5, <1>6

LEMMA ServesKeeps ==
  ASSUME IInv, NEW w \in Workers, Serves(w)
  PROVE  IInv'
<1> USE DEF IInv, TypeOK, accept, pool
<1>1. serving[w] \in Connections
  BY DEF Serves, HandOver
<1>2. TypeOK' /\ Dozing' /\ HandOver' /\ Order'
  BY <1>1 DEF Serves, Dozing, HandOver, Order
<1>3. Tracked'
  BY <1>1 DEF Serves, Tracked
<1>4. NoTaskIsOverlooked'
  <2>1. w \notin Looking /\ Looking' = Looking \cup {w} /\ Waiting' = Waiting
    BY DEF Serves, Looking, Waiting
  <2>2. Cardinality(Looking') = Cardinality(Looking) + 1
        /\ Cardinality(Looking) \in Nat
    BY <2>1, OneMore, LookingFinite DEF Looking
  <2>3. tasks_' = tasks_ /\ Len(tasks_) \in Nat
    BY DEF Serves
  <2> QED BY <2>1, <2>2, <2>3 DEF NoTaskIsOverlooked, Looking
<1> QED BY <1>2, <1>3, <1>4

LEMMA ReturnsKeeps ==
  ASSUME IInv, NEW w \in Workers, Returns(w)
  PROVE  IInv'
<1> USE DEF IInv, TypeOK, accept, pool
<1>1. TypeOK' /\ Dozing' /\ HandOver' /\ Order' /\ Tracked'
  BY DEF Returns, Dozing, HandOver, Order, Tracked
<1>2. Len(tasks_') = 0
  BY DEF Returns
<1>3. Cardinality(Looking') \in Nat
  BY LookingFinite DEF Looking
<1> QED BY <1>1, <1>2, <1>3 DEF NoTaskIsOverlooked, Looking

LEMMA TakeDownKeeps ==
  ASSUME IInv, TakeDown
  PROVE  IInv'
<1> USE DEF IInv, TypeOK, accept, pool
<1>1. ASSUME CloseSocket \/ JoinAcceptor \/ SetStop
      PROVE  IInv'
  <2>1. /\ UNCHANGED <<tasks_, mutex_, worker, serving, fate, accepted, acceptor>>
        /\ stop_' \in BOOLEAN /\ stop_ => stop_'
    BY <1>1 DEF CloseSocket, JoinAcceptor, SetStop
  <2>2. TypeOK'
    BY <1>1 DEF CloseSocket, JoinAcceptor, SetStop
  <2>3. Order'
    BY <1>1 DEF CloseSocket, JoinAcceptor, SetStop, Order
  <2> QED BY <2>1, <2>2, <2>3, QuietKeeps
<1>2. CASE NotifyAll
  <2>1. TypeOK' /\ Dozing' /\ HandOver' /\ Order' /\ Tracked'
    BY <1>2 DEF NotifyAll, Waiting, Dozing, HandOver, Order, Tracked
  <2>2. Waiting' = {}
    BY <1>2 DEF NotifyAll, Waiting
  <2> QED BY <2>1, <2>2 DEF NoTaskIsOverlooked
<1>3. CASE JoinWorkers
  <2>1. tasks_ = <<>> /\ tasks_' = tasks_
    BY <1>3, ServerAssumption DEF JoinWorkers, Order
  <2>2. TypeOK' /\ Dozing' /\ HandOver' /\ Order' /\ Tracked'
    BY <1>3, <2>1 DEF JoinWorkers, Dozing, HandOver, Order, Tracked
  <2> QED BY <1>3, <2>1, <2>2 DEF JoinWorkers, NoTaskIsOverlooked, Waiting
<1> QED BY <1>1, <1>2, <1>3 DEF TakeDown

LEMMA AcceptKeeps ==
  ASSUME IInv, AcceptLoop \/ AcceptFails \/ StopAccepting
               \/ \E c \in Connections : Accept(c)
  PROVE  IInv'
<1> USE DEF IInv, TypeOK, pool
<1>1. ASSUME AcceptLoop \/ AcceptFails \/ StopAccepting
      PROVE  IInv'
  <2>1. /\ UNCHANGED <<tasks_, mutex_, worker, serving, fate, accepted, stop_>>
        /\ acceptor' = "submit" <=> acceptor = "submit"
    BY <1>1 DEF AcceptLoop, AcceptFails, StopAccepting
  <2>2. TypeOK'
    BY <1>1 DEF AcceptLoop, AcceptFails, StopAccepting
  <2>3. Order'
    BY <1>1 DEF AcceptLoop, AcceptFails, StopAccepting, Order
  <2> QED BY <2>1, <2>2, <2>3, QuietKeeps
<1>2. ASSUME NEW c \in Connections, Accept(c)
      PROVE  IInv'
  <2>1. accepted = NoConnection
    BY <1>2 DEF Accept, HandOver
  <2>2. TypeOK' /\ Dozing' /\ HandOver' /\ Order'
    BY <1>2, ServerAssumption DEF Accept, Dozing, HandOver, Order
  <2>3. Tracked'
    BY <1>2, <2>1, ServerAssumption DEF Accept, Tracked
  <2> QED BY <1>2, <2>2, <2>3 DEF Accept, NoTaskIsOverlooked, Waiting
<1> QED BY <1>1, <1>2

-----------------------------------------------------------------------------
LEMMA StepKeeps == IInv /\ [Next]_vars => IInv'
<1> SUFFICES ASSUME IInv, [Next]_vars PROVE IInv'
  OBVIOUS
<1>1. CASE AcceptThread \/ (\E c \in Connections : Accept(c)) \/ AcceptFails \/ StopAccepting
  BY <1>1, SubmitKeeps, AcceptKeeps DEF AcceptThread
<1>2. CASE \E w \in Workers : Worker(w)
  BY <1>2, FindsNothingKeeps, BlocksKeeps, TakesTaskKeeps, ServesKeeps, ReturnsKeeps
  DEF Worker
<1>3. CASE TakeDown
  BY <1>3, TakeDownKeeps
<1>4. CASE UNCHANGED vars
  BY <1>4 DEF vars, accept, pool, IInv, TypeOK, Dozing, HandOver, Order, Tracked,
              NoTaskIsOverlooked, Waiting
<1> QED BY <1>1, <1>2, <1>3, <1>4 DEF Next

\* The inductive invariant holds in every reachable state.
THEOREM Invariance == Spec => []IInv
<1> QED BY InitHolds, StepKeeps, PTL DEF Spec

\* The accept thread, the workers and whoever takes the server down keep every
\* variable to its type; the queue never exceeds max_queue_.
THEOREM Typing == Spec => []TypeOK
<1>1. IInv => TypeOK
  BY DEF IInv
<1> QED BY <1>1, Invariance, PTL

\* One notify_one per submitted task is enough: while a worker sleeps, the queue
\* is not longer than the number of workers on their way to it.
THEOREM NoWorkerSleepsOnATask == Spec => []NoTaskIsOverlooked
<1>1. IInv => NoTaskIsOverlooked
  BY DEF IInv
<1> QED BY <1>1, Invariance, PTL

\* When shutdown has returned, every connection the server accepted has been
\* served or refused: the swap of the queue that ends it finds it empty.
THEOREM EveryAcceptedConnectionIsAnswered == Spec => []ShutdownDropsNothing
<1>1. IInv => ShutdownDropsNothing
  <2> SUFFICES ASSUME IInv, NEW c \in Connections, closer = "down"
               PROVE  fate[c] # "accepted"
    BY DEF IInv, TypeOK, ShutdownDropsNothing
  <2>1. acceptor = "done" /\ \A w \in Workers : worker[w] = "gone"
    BY DEF IInv, Order
  <2>2. tasks_ = <<>> /\ accepted # c
    BY <2>1, ServerAssumption DEF IInv, Order, HandOver
  <2> QED BY <2>1, <2>2 DEF IInv, Tracked
<1> QED BY <1>1, Invariance, PTL


-----------------------------------------------------------------------------
\* An accepted connection that is not yet answered is in one place only: with
\* the accept thread, once in the queue, or with one worker.
OnePlace ==
  /\ accepted # NoConnection => fate[accepted] = "accepted"
  /\ \A i, j \in DOMAIN tasks_ : tasks_[i] = tasks_[j] => i = j
  /\ \A i \in DOMAIN tasks_ : tasks_[i] # accepted /\ fate[tasks_[i]] = "accepted"
  /\ \A w \in Workers : worker[w] = "serve" =>
       /\ serving[w] # accepted /\ fate[serving[w]] = "accepted"
       /\ \A i \in DOMAIN tasks_ : tasks_[i] # serving[w]
       /\ \A v \in Workers \ {w} : worker[v] = "serve" => serving[v] # serving[w]

\* What is answered is answered.
AnswersOnce == \A c \in Connections : fate[c] \in {"served", "refused"} => fate'[c] = fate[c]

LEMMA AcceptKeepsPlace ==
  ASSUME IInv, OnePlace, NEW c \in Connections, Accept(c)
  PROVE  OnePlace' /\ AnswersOnce
<1>1. /\ fate' = [fate EXCEPT ![c] = "accepted"] /\ fate[c] = "none" /\ accepted' = c
      /\ UNCHANGED <<tasks_, worker, serving>>
  BY DEF Accept, pool
<1>2. /\ fate \in [Connections -> {"none", "accepted", "served", "refused"}] /\ tasks_ \in Seq(Connections)
      /\ \A w \in Workers : worker[w] = "serve" => serving[w] \in Connections
  BY DEF IInv, TypeOK, HandOver
<1>3. \A i \in DOMAIN tasks_ : tasks_[i] \in Connections
  BY <1>2
<1>4. fate'[c] = "accepted" /\ \A d \in Connections : d # c => fate'[d] = fate[d]
  BY <1>1, <1>2
<1>5. \A i \in DOMAIN tasks_ : tasks_[i] # c
  BY <1>1 DEF OnePlace
<1>6. \A w \in Workers : worker[w] = "serve" => serving[w] # c
  BY <1>1 DEF OnePlace
<1>7. OnePlace'
  BY <1>1, <1>2, <1>3, <1>4, <1>5, <1>6 DEF OnePlace
<1>8. AnswersOnce
  BY <1>1, <1>4 DEF AnswersOnce
<1> QED BY <1>7, <1>8

LEMMA SubmitKeepsPlace ==
  ASSUME IInv, OnePlace, Submit
  PROVE  OnePlace' /\ AnswersOnce
<1>1. /\ accepted \in Connections /\ fate[accepted] = "accepted" /\ accepted' = NoConnection /\ serving' = serving
      /\ \A w \in Workers : worker'[w] = "serve" <=> worker[w] = "serve"
  <2>1. accepted \in Connections /\ accepted # NoConnection
    BY ServerAssumption DEF Submit, IInv, TypeOK, HandOver
  <2>2. \A w \in Workers : worker'[w] = "serve" <=> worker[w] = "serve"
    BY DEF Submit, NotifyOne, Waiting, IInv, TypeOK
  <2> QED BY <2>1, <2>2 DEF Submit, OnePlace
<1>2. /\ fate \in [Connections -> {"none", "accepted", "served", "refused"}] /\ tasks_ \in Seq(Connections)
      /\ \A w \in Workers : worker[w] = "serve" => serving[w] \in Connections
  BY DEF IInv, TypeOK, HandOver
<1>3. \A i \in DOMAIN tasks_ : tasks_[i] \in Connections
  BY <1>2
<1>4. NoConnection \notin Connections
  BY ServerAssumption
<1>5. CASE fate' = [fate EXCEPT ![accepted] = "refused"] /\ tasks_' = tasks_
  <2>1. \A d \in Connections : d # accepted => fate'[d] = fate[d]
    BY <1>2, <1>5
  <2>2. OnePlace'
    BY <1>1, <1>2, <1>3, <1>4, <1>5, <2>1 DEF OnePlace
  <2>3. AnswersOnce
    BY <1>1, <2>1 DEF AnswersOnce
  <2> QED BY <2>2, <2>3
<1>6. CASE tasks_' = Append(tasks_, accepted) /\ fate' = fate
  <2>1. /\ Len(tasks_) \in Nat /\ DOMAIN tasks_ = 1..Len(tasks_) /\ DOMAIN tasks_' = 1..(Len(tasks_) + 1)
        /\ \A i \in 1..Len(tasks_) : tasks_'[i] = tasks_[i]
        /\ tasks_'[Len(tasks_) + 1] = accepted
    BY <1>1, <1>2, <1>6
  <2>2. \A i \in DOMAIN tasks_' : \/ i \in DOMAIN tasks_ /\ tasks_'[i] = tasks_[i]
                                  \/ i = Len(tasks_) + 1 /\ i \notin DOMAIN tasks_ /\ tasks_'[i] = accepted
    BY <2>1
  <2>3. \A i, j \in DOMAIN tasks_' : tasks_'[i] = tasks_'[j] => i = j
    BY <2>2 DEF OnePlace
  <2>4. \A i \in DOMAIN tasks_' : tasks_'[i] # NoConnection /\ fate[tasks_'[i]] = "accepted"
    BY <1>1, <1>3, <1>4, <2>2 DEF OnePlace
  <2>5. ASSUME NEW w \in Workers, worker[w] = "serve"
        PROVE  /\ serving[w] # NoConnection /\ fate[serving[w]] = "accepted"
               /\ \A i \in DOMAIN tasks_' : tasks_'[i] # serving[w]
               /\ \A v \in Workers \ {w} : worker[v] = "serve" => serving[v] # serving[w]
    BY <1>2, <1>4, <2>2, <2>5 DEF OnePlace
  <2> QED BY <1>1, <1>6, <2>3, <2>4, <2>5 DEF OnePlace, AnswersOnce
<1> QED BY <1>5, <1>6 DEF Submit

LEMMA TakesTaskKeepsPlace ==
  ASSUME IInv, OnePlace, NEW w \in Workers, TakesTask(w)
  PROVE  OnePlace' /\ AnswersOnce
<1>1. PICK c : c = tasks_[1]
  OBVIOUS
<1>2. tasks_ # <<>> /\ tasks_ \in Seq(Connections)
  BY DEF TakesTask, IInv, TypeOK
<1>3. /\ Len(tasks_) \in Nat /\ DOMAIN tasks_ = 1..Len(tasks_) /\ 1 \in DOMAIN tasks_
      /\ DOMAIN Tail(tasks_) = 1..(Len(tasks_) - 1) /\ Head(tasks_) = c
      /\ \A i \in DOMAIN Tail(tasks_) : Tail(tasks_)[i] = tasks_[i + 1]
  BY <1>1, <1>2
<1>4. /\ tasks_' = Tail(tasks_) /\ worker' = [worker EXCEPT ![w] = "serve"]
      /\ serving' = [serving EXCEPT ![w] = c] /\ worker[w] = "look"
      /\ UNCHANGED <<accepted, fate>>
  BY <1>3 DEF TakesTask, accept
<1>5. /\ worker \in [Workers -> {"look", "doze", "wait", "serve", "gone"}]
      /\ serving \in [Workers -> Connections \cup {NoConnection}]
  BY DEF IInv, TypeOK
<1>6. \A i \in DOMAIN tasks_' : i + 1 \in DOMAIN tasks_ /\ i + 1 # 1 /\ tasks_'[i] = tasks_[i + 1] /\ i \in Nat
  BY <1>3, <1>4
<1>7. \A i, j \in DOMAIN tasks_' : tasks_'[i] = tasks_'[j] => i = j
  <2> SUFFICES ASSUME NEW i \in DOMAIN tasks_', NEW j \in DOMAIN tasks_', tasks_'[i] = tasks_'[j]
               PROVE  i = j
    OBVIOUS
  <2>1. i + 1 = j + 1
    BY <1>6 DEF OnePlace
  <2> QED BY <1>6, <2>1
<1>8. \A i \in DOMAIN tasks_' : tasks_'[i] # accepted /\ fate[tasks_'[i]] = "accepted" /\ tasks_'[i] # c
  BY <1>1, <1>3, <1>6 DEF OnePlace
<1>9. c # accepted /\ fate[c] = "accepted" /\ \A v \in Workers : worker[v] = "serve" => serving[v] # c
  BY <1>1, <1>3 DEF OnePlace
<1>10. \A v \in Workers : IF v = w THEN worker'[v] = "serve" /\ serving'[v] = c
                          ELSE worker'[v] = worker[v] /\ serving'[v] = serving[v]
  BY <1>4, <1>5
<1>11. ASSUME NEW v \in Workers, worker'[v] = "serve"
       PROVE  /\ serving'[v] # accepted /\ fate[serving'[v]] = "accepted"
              /\ \A i \in DOMAIN tasks_' : tasks_'[i] # serving'[v]
              /\ \A u \in Workers \ {v} : worker'[u] = "serve" => serving'[u] # serving'[v]
  <2>1. CASE v = w
    BY <1>8, <1>9, <1>10, <2>1
  <2>2. CASE v # w
    <3>1. worker[v] = "serve" /\ serving'[v] = serving[v]
      BY <1>10, <1>11, <2>2
    <3>2. \A i \in DOMAIN tasks_' : tasks_'[i] # serving[v]
      BY <1>6, <3>1 DEF OnePlace
    <3>3. \A u \in Workers \ {v} : worker'[u] = "serve" => serving'[u] # serving[v]
      BY <1>9, <1>10, <3>1 DEF OnePlace
    <3> QED BY <3>1, <3>2, <3>3 DEF OnePlace
  <2> QED BY <2>1, <2>2
<1>12. OnePlace'
  BY <1>4, <1>7, <1>8, <1>11 DEF OnePlace
<1> QED BY <1>4, <1>12 DEF AnswersOnce

LEMMA ServesKeepsPlace ==
  ASSUME IInv, OnePlace, NEW w \in Workers, Serves(w)
  PROVE  OnePlace' /\ AnswersOnce
<1>1. PICK c : c = serving[w]
  OBVIOUS
<1>2. /\ worker[w] = "serve" /\ worker' = [worker EXCEPT ![w] = "look"]
      /\ fate' = [fate EXCEPT ![c] = "served"] /\ serving' = [serving EXCEPT ![w] = NoConnection]
      /\ UNCHANGED <<accepted, tasks_>>
  BY <1>1 DEF Serves, accept, pool
<1>3. /\ fate \in [Connections -> {"none", "accepted", "served", "refused"}] /\ tasks_ \in Seq(Connections)
      /\ worker \in [Workers -> {"look", "doze", "wait", "serve", "gone"}]
      /\ serving \in [Workers -> Connections \cup {NoConnection}]
      /\ accepted \in Connections \cup {NoConnection}
      /\ \A v \in Workers : worker[v] = "serve" => serving[v] \in Connections
  BY DEF IInv, TypeOK, HandOver
<1>4. c \in Connections /\ fate[c] = "accepted" /\ c # accepted
      /\ (\A i \in DOMAIN tasks_ : tasks_[i] # c)
      /\ \A v \in Workers \ {w} : worker[v] = "serve" => serving[v] # c
  BY <1>1, <1>2, <1>3 DEF OnePlace
<1>5. \A d \in Connections : d # c => fate'[d] = fate[d]
  BY <1>2, <1>3
<1>6. \A v \in Workers : worker'[v] = "serve" => v # w /\ worker[v] = "serve" /\ serving'[v] = serving[v]
  BY <1>2, <1>3
<1>7. \A i \in DOMAIN tasks_ : tasks_[i] \in Connections
  BY <1>3
<1>8. OnePlace'
  BY <1>2, <1>3, <1>4, <1>5, <1>6, <1>7 DEF OnePlace
<1>9. AnswersOnce
  BY <1>4, <1>5 DEF AnswersOnce
<1> QED BY <1>8, <1>9

\* Steps that hand over nothing.
LEMMA NothingMoves ==
  ASSUME OnePlace, UNCHANGED <<accepted, fate, serving, tasks_>>,
         \A w \in Workers : worker'[w] = "serve" => worker[w] = "serve"
  PROVE  OnePlace' /\ AnswersOnce
BY DEF OnePlace, AnswersOnce

LEMMA StepKeepsPlace == IInv /\ OnePlace /\ [Next]_vars => OnePlace' /\ [AnswersOnce]_vars
<1> SUFFICES ASSUME IInv, OnePlace, [Next]_vars PROVE OnePlace' /\ AnswersOnce
  OBVIOUS
<1>1. CASE Submit \/ \E c \in Connections : Accept(c)
  BY <1>1, SubmitKeepsPlace, AcceptKeepsPlace
<1>2. CASE AcceptLoop \/ AcceptFails \/ StopAccepting \/ CloseSocket \/ JoinAcceptor \/ SetStop \/ UNCHANGED vars
  <2>1. UNCHANGED <<accepted, fate, serving, tasks_, worker>>
    BY <1>2 DEF AcceptLoop, AcceptFails, StopAccepting, CloseSocket, JoinAcceptor, SetStop, vars, accept, pool
  <2> QED BY <2>1, NothingMoves
<1>3. CASE NotifyAll
  BY <1>3, NothingMoves DEF NotifyAll, accept, pool
<1>4. CASE JoinWorkers
  <2>1. tasks_ = <<>>
    BY <1>4, ServerAssumption DEF JoinWorkers, IInv, Order
  <2> QED BY <1>4, <2>1, NothingMoves DEF JoinWorkers, accept
<1>5. ASSUME NEW w \in Workers, FindsNothing(w) \/ Blocks(w) \/ Returns(w)
      PROVE  OnePlace' /\ AnswersOnce
  <2>1. worker \in [Workers -> {"look", "doze", "wait", "serve", "gone"}]
    BY DEF IInv, TypeOK
  <2> QED BY <1>5, <2>1, NothingMoves DEF FindsNothing, Blocks, Returns, accept, pool
<1>6. CASE \E w \in Workers : TakesTask(w) \/ Serves(w)
  BY <1>6, TakesTaskKeepsPlace, ServesKeepsPlace
<1> QED BY <1>1, <1>2, <1>3, <1>4, <1>5, <1>6 DEF Next, AcceptThread, Worker, TakeDown

LEMMA InitInPlace == Init => OnePlace
BY DEF Init, OnePlace

\* No connection is handed to two workers, or queued again while one serves it
\* (try_submit, worker_loop).
THEOREM OneConnectionOneWorker == Spec => []OnePlace
<1>1. IInv /\ OnePlace /\ [Next]_vars => OnePlace'
  BY StepKeepsPlace
<1> QED BY <1>1, InitInPlace, Invariance, PTL DEF Spec

\* A connection that was served, or refused with a 503, stays that: it is neither
\* answered again nor closed twice, whoever takes the server down meanwhile.
THEOREM NobodyIsAnsweredTwice == Spec => [][AnswersOnce]_vars
<1>1. IInv /\ OnePlace /\ [Next]_vars => [AnswersOnce]_vars
  BY StepKeepsPlace
<1> QED BY <1>1, OneConnectionOneWorker, Invariance, PTL DEF Spec
===============================================================================
